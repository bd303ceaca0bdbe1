------------------------- MODULE VersionStoreProofs -------------------------
(***************************************************************************)
(* What readers of versions can rely on, for all values of the constants.  *)
(* The proofs rest on one classification of the steps: all but three of    *)
(* the handlers are quiet, they change neither what is published nor what  *)
(* is filed as history; the three others register a service, commit an     *)
(* iteration or delete an empty one.                                       *)
(***************************************************************************)
EXTENDS ServiceVersioningProofs

\* A step that readers of versions cannot see.
Quiet ==
  /\ CurrentView' = CurrentView
  /\ HistoryView' = HistoryView
  /\ head' = head
  /\ \A s \in DOMAIN services :
       head[s] \in DOMAIN iterations' => head[s] \in DOMAIN iterations

-----------------------------------------------------------------------------
(* Surfaces and views *)

(* Dropping a category from rows does not change what readers see of them. *)
LEMMA SurfaceUncategorise ==
  ASSUME NEW rows \in SUBSET ApiRow, NEW c
  PROVE  Surface(Uncategorise(rows, c)) = Surface(rows)
<1> DEFINE Seen(r) == [name |-> r.name, method |-> r.method,
                       path |-> r.path, body |-> r.body]
           Un(r) == [r EXCEPT !.category = IF @ = c THEN NoCategory ELSE @]
<1>1. ASSUME NEW r \in ApiRow PROVE Seen(Un(r)) = Seen(r)
  BY DEF ApiRow
<1>2. Surface(Uncategorise(rows, c)) = {Seen(q) : q \in {Un(r) : r \in rows}}
  BY DEF Surface, Uncategorise
<1>3. Surface(rows) = {Seen(r) : r \in rows}
  BY DEF Surface
<1> HIDE DEF Seen, Un
<1>4. {Seen(q) : q \in {Un(r) : r \in rows}} = {Seen(Un(r)) : r \in rows}
  OBVIOUS
<1>5. {Seen(Un(r)) : r \in rows} = {Seen(r) : r \in rows}
  BY <1>1
<1> QED BY <1>2, <1>3, <1>4, <1>5

(* Moving an API to another category does not change what readers see.     *)
LEMMA SurfaceMove ==
  ASSUME NEW rows \in SUBSET ApiRow, NEW r \in rows, NEW c
  PROVE  Surface((rows \ {r}) \cup {[r EXCEPT !.category = c]}) = Surface(rows)
<1> DEFINE Seen(q) == [name |-> q.name, method |-> q.method,
                       path |-> q.path, body |-> q.body]
           moved == [r EXCEPT !.category = c]
           new == (rows \ {r}) \cup {moved}
<1>1. Seen(moved) = Seen(r)
  BY DEF ApiRow
<1>2. Surface(new) = {Seen(q) : q \in new} /\ Surface(rows) = {Seen(q) : q \in rows}
  BY DEF Surface
<1> HIDE DEF Seen, moved
<1>3. {Seen(q) : q \in new} = {Seen(q) : q \in rows}
  BY <1>1
<1> QED BY <1>2, <1>3 DEF moved

(* The current view depends on version, description and surface only.      *)
LEMMA SameCurrent ==
  ASSUME DOMAIN services' = DOMAIN services,
         \A s \in DOMAIN services :
           /\ services'[s].version = services[s].version
           /\ services'[s].description = services[s].description
           /\ Surface(services'[s].apis) = Surface(services[s].apis)
  PROVE  CurrentView' = CurrentView
BY DEF CurrentView, Surface

(* The history view depends on the committed iterations only.              *)
LEMMA SameHistory ==
  ASSUME Committed' = Committed,
         \A i \in Committed :
           /\ iterations'[i].service = iterations[i].service
           /\ iterations'[i].version = iterations[i].version
           /\ iterations'[i].description = iterations[i].description
           /\ Surface(iterations'[i].api_drafts)
                = Surface(iterations[i].api_drafts)
  PROVE  HistoryView' = HistoryView
BY DEF HistoryView, Surface

-----------------------------------------------------------------------------
(* Classification of the steps *)

(* Editing an open iteration is quiet.                                     *)
LEMMA EditIsQuiet ==
  ASSUME TypeOK, NEW i \in DOMAIN iterations, ~iterations[i].is_committed,
         NEW row \in IterationRow, ~row.is_committed,
         iterations' = [iterations EXCEPT ![i] = row],
         UNCHANGED <<services, head>>
  PROVE  Quiet
<1>1. DOMAIN iterations' = DOMAIN iterations
  BY DEF TypeOK
<1>2. iterations'[i] = row /\ \A j \in DOMAIN iterations \ {i} : iterations'[j] = iterations[j]
  BY DEF TypeOK
<1>3. Committed' = Committed
  BY <1>1, <1>2 DEF Committed
<1>4. \A j \in Committed : iterations'[j] = iterations[j]
  BY <1>2 DEF Committed
<1>5. HistoryView' = HistoryView
  BY <1>3, <1>4, SameHistory
<1>6. CurrentView' = CurrentView
  BY SameCurrent
<1> QED BY <1>1, <1>5, <1>6 DEF Quiet

(* Changing the drafts of an open iteration is quiet.                      *)
LEMMA SetDraftsIsQuiet ==
  ASSUME TypeOK, NEW u, NEW i, checkServiceIterationPermission(u, i),
         NEW rows \in SUBSET ApiRow, SetDrafts(i, rows)
  PROVE  Quiet
<1>1. i \in DOMAIN iterations /\ ~iterations[i].is_committed
  BY DEF checkServiceIterationPermission
<1>2. iterations[i] \in IterationRow
  BY <1>1 DEF TypeOK
<1> DEFINE row == [iterations[i] EXCEPT !.api_drafts = rows]
<1>3. row \in IterationRow /\ ~row.is_committed
  BY <1>1, <1>2 DEF IterationRow
<1>4. iterations' = [iterations EXCEPT ![i] = row] /\ UNCHANGED <<services, head>>
  BY DEF SetDrafts
<1> QED BY <1>1, <1>3, <1>4, EditIsQuiet

(* A change of fields of a Service row that readers of versions do not see *)
(* is quiet.                                                               *)
LEMMA ServiceFieldIsQuiet ==
  ASSUME TypeOK, NEW s \in DOMAIN services, NEW row \in ServiceRow,
         row.version = services[s].version,
         row.description = services[s].description,
         Surface(row.apis) = Surface(services[s].apis),
         services' = [services EXCEPT ![s] = row],
         UNCHANGED <<iterations, head>>
  PROVE  Quiet
<1>1. DOMAIN services' = DOMAIN services
  BY DEF TypeOK
<1>2. services'[s] = row /\ \A t \in DOMAIN services \ {s} : services'[t] = services[t]
  BY DEF TypeOK
<1>3. CurrentView' = CurrentView
  BY <1>1, <1>2, SameCurrent
<1>4. HistoryView' = HistoryView
  BY SameHistory DEF Committed
<1> QED BY <1>3, <1>4 DEF Quiet

(* Every step is quiet, registers a service, commits an iteration or       *)
(* deletes one.                                                            *)
LEMMA StepKinds ==
  ASSUME TypeOK, [Next]_vars
  PROVE  \/ Quiet
         \/ \E u \in Users, s \in Services, d \in Descriptions :
              CreateNewService(u, s, d)
         \/ \E u \in Users, i \in DOMAIN iterations, v \in Versions :
              CommitIteration(u, i, v)
         \/ \E u \in Users, i \in DOMAIN iterations : DeleteIterationById(u, i)
<1>2. ASSUME NEW u \in Users, NEW s \in Services, DeleteServiceById(u, s)
      PROVE  Quiet
  <2> DEFINE row == [services[s] EXCEPT !.is_deleted = TRUE]
  <2>1. s \in DOMAIN services /\ services[s] \in ServiceRow
    BY <1>2 DEF TypeOK, DeleteServiceById
  <2>2. /\ row \in ServiceRow
        /\ row.version = services[s].version
        /\ row.description = services[s].description
        /\ row.apis = services[s].apis
    BY <2>1 DEF ServiceRow
  <2>3. services' = [services EXCEPT ![s] = row] /\ UNCHANGED <<iterations, head>>
    BY <1>2 DEF DeleteServiceById
  <2> HIDE DEF row
  <2> QED BY <2>1, <2>2, <2>3, ServiceFieldIsQuiet
<1>3. ASSUME NEW u \in Users, NEW s \in Services, RestoreServiceById(u, s)
      PROVE  Quiet
  <2> DEFINE row == [services[s] EXCEPT !.is_deleted = FALSE]
  <2>1. s \in DOMAIN services /\ services[s] \in ServiceRow
    BY <1>3 DEF TypeOK, RestoreServiceById
  <2>2. /\ row \in ServiceRow
        /\ row.version = services[s].version
        /\ row.description = services[s].description
        /\ row.apis = services[s].apis
    BY <2>1 DEF ServiceRow
  <2>3. services' = [services EXCEPT ![s] = row] /\ UNCHANGED <<iterations, head>>
    BY <1>3 DEF RestoreServiceById
  <2> HIDE DEF row
  <2> QED BY <2>1, <2>2, <2>3, ServiceFieldIsQuiet
<1>4. ASSUME NEW u \in Users, NEW s \in Services, NEW candidate \in Users,
             AddOrRemoveServiceMaintainerById(u, s, candidate)
      PROVE  Quiet
  <2> DEFINE ms == IF candidate \in services[s].maintainers
                   THEN services[s].maintainers \ {candidate}
                   ELSE services[s].maintainers \cup {candidate}
  <2> DEFINE row == [services[s] EXCEPT !.maintainers = ms]
  <2>1. /\ s \in DOMAIN services
        /\ services[s] \in ServiceRow
        /\ services[s].maintainers \subseteq Users
    BY <1>4 DEF TypeOK, AddOrRemoveServiceMaintainerById, ServiceRow
  <2>2. ms \in SUBSET Users
    BY <2>1
  <2>3. services' = [services EXCEPT ![s] = row] /\ UNCHANGED <<iterations, head>>
    BY <1>4 DEF AddOrRemoveServiceMaintainerById
  <2> HIDE DEF ms
  <2>4. /\ row \in ServiceRow
        /\ row.version = services[s].version
        /\ row.description = services[s].description
        /\ row.apis = services[s].apis
    BY <2>1, <2>2 DEF ServiceRow
  <2> HIDE DEF row
  <2> QED BY <2>1, <2>3, <2>4, ServiceFieldIsQuiet
<1>5. ASSUME NEW u \in Users, NEW s \in Services, StartIteration(u, s)
      PROVE  Quiet
  <2>1. /\ DOMAIN iterations' = DOMAIN iterations \cup {iterationSeq + 1}
        /\ ~iterations'[iterationSeq + 1].is_committed
        /\ \A i \in DOMAIN iterations : iterations'[i] = iterations[i]
        /\ iterationSeq + 1 \notin DOMAIN iterations
    BY <1>5 DEF TypeOK, StartIteration, Insert
  <2>2. Committed' = Committed
    BY <2>1 DEF Committed
  <2>3. HistoryView' = HistoryView
    BY <2>1, <2>2, SameHistory DEF Committed
  <2>4. CurrentView' = CurrentView
    BY <1>5, SameCurrent DEF StartIteration
  <2>5. \A t \in DOMAIN services : head[t] # iterationSeq + 1
    BY DEF TypeOK
  <2> QED BY <1>5, <2>1, <2>3, <2>4, <2>5 DEF Quiet, StartIteration
<1>6. ASSUME NEW u \in Users, NEW i \in DOMAIN iterations,
             NEW d \in Descriptions, UpdateDescription(u, i, d)
      PROVE  Quiet
  <2> DEFINE row == [iterations[i] EXCEPT !.description = d]
  <2>1. iterations[i] \in IterationRow /\ ~iterations[i].is_committed
    BY <1>6 DEF TypeOK, UpdateDescription, checkServiceIterationPermission
  <2>2. row \in IterationRow /\ ~row.is_committed
    BY <2>1 DEF IterationRow
  <2>3. iterations' = [iterations EXCEPT ![i] = row] /\ UNCHANGED <<services, head>>
    BY <1>6 DEF UpdateDescription
  <2> QED BY <2>1, <2>2, <2>3, EditIsQuiet
<1>9. ASSUME NEW u \in Users, NEW i \in DOMAIN iterations, NEW n \in Names,
             NEW m \in Methods, NEW p \in Paths,
             NEW c \in DOMAIN categories \cup {NoCategory},
             AddApi(u, i, n, m, p, c)
      PROVE  Quiet
  <2>1. [name |-> n, method |-> m, path |-> p, category |-> c,
         body |-> EmptyBody] \in ApiRow
    BY TextAssumption, BodiesAssumption DEF TypeOK, ApiRow, NoCategory
  <2>2. iterations[i].api_drafts \in SUBSET ApiRow
    BY DEF TypeOK, IterationRow
  <2> QED BY <1>9, <2>1, <2>2, SetDraftsIsQuiet DEF AddApi
<1>10. ASSUME NEW u \in Users, NEW i \in DOMAIN iterations,
              NEW r \in iterations[i].api_drafts, NEW t \in Stamps,
              CopyApiByApiDraftId(u, i, r, t)
       PROVE  Quiet
  <2>1. iterations[i].api_drafts \in SUBSET ApiRow
    BY DEF TypeOK, IterationRow
  <2>2. Copied(r.name, t) \in Text /\ Copied(r.path, t) \in Text
    BY <2>1, TextAssumption DEF ApiRow, Text, Copied
  <2>3. [r EXCEPT !.name = Copied(r.name, t),
                  !.path = Copied(r.path, t)] \in ApiRow
    BY <2>1, <2>2 DEF ApiRow
  <2> QED BY <1>10, <2>1, <2>3, SetDraftsIsQuiet DEF CopyApiByApiDraftId
<1>11. ASSUME NEW u \in Users, NEW i \in DOMAIN iterations,
              NEW r \in iterations[i].api_drafts,
              DeleteApiByApiDraftId(u, i, r)
       PROVE  Quiet
  <2>1. iterations[i].api_drafts \in SUBSET ApiRow
    BY DEF TypeOK, IterationRow
  <2> QED BY <1>11, <2>1, SetDraftsIsQuiet DEF DeleteApiByApiDraftId
<1>12. ASSUME NEW u \in Users, NEW i \in DOMAIN iterations,
              NEW r \in iterations[i].api_drafts, NEW n \in Names,
              NEW m \in Methods, NEW p \in Paths, NEW b \in Bodies,
              UpdateApiByApiDraftId(u, i, r, n, m, p, b)
       PROVE  Quiet
  <2>1. iterations[i].api_drafts \in SUBSET ApiRow
    BY DEF TypeOK, IterationRow
  <2>2. [r EXCEPT !.name = n, !.method = m, !.path = p, !.body = b] \in ApiRow
    BY <2>1, TextAssumption DEF ApiRow
  <2> QED BY <1>12, <2>1, <2>2, SetDraftsIsQuiet DEF UpdateApiByApiDraftId
<1>13. ASSUME UNCHANGED <<services, iterations, head>>
       PROVE  Quiet
  BY <1>13, SameCurrent, SameHistory DEF Quiet, Committed
<1>14. ASSUME NEW u \in Users, NEW s \in DOMAIN services,
              NEW n \in CategoryNames, AddCategoryByServiceId(u, s, n)
       PROVE  Quiet
  BY <1>13, <1>14 DEF AddCategoryByServiceId
<1>15. ASSUME NEW u \in Users, NEW c \in DOMAIN categories,
              NEW n \in CategoryNames, UpdateCategoryById(u, c, n)
       PROVE  Quiet
  BY <1>13, <1>15 DEF UpdateCategoryById
<1>16. ASSUME NEW u \in Users, NEW c \in DOMAIN categories,
              DeleteCategoryById(u, c)
       PROVE  Quiet
  <2>1. ASSUME NEW s \in DOMAIN services
        PROVE  /\ services'[s].version = services[s].version
               /\ services'[s].description = services[s].description
               /\ Surface(services'[s].apis) = Surface(services[s].apis)
    <3>1. services[s] \in ServiceRow
      BY DEF TypeOK
    <3>2. services'[s] = [services[s] EXCEPT !.apis = Uncategorise(@, c)]
      BY <1>16 DEF DeleteCategoryById
    <3>3. services[s].apis \in SUBSET ApiRow
      BY <3>1 DEF ServiceRow
    <3>4. Surface(Uncategorise(services[s].apis, c)) = Surface(services[s].apis)
      BY <3>3, SurfaceUncategorise
    <3> QED BY <3>1, <3>2, <3>4 DEF ServiceRow
  <2>2. ASSUME NEW i \in DOMAIN iterations
        PROVE  /\ iterations'[i].service = iterations[i].service
               /\ iterations'[i].version = iterations[i].version
               /\ iterations'[i].description = iterations[i].description
               /\ iterations'[i].is_committed = iterations[i].is_committed
               /\ Surface(iterations'[i].api_drafts)
                    = Surface(iterations[i].api_drafts)
    <3>1. iterations[i] \in IterationRow
      BY DEF TypeOK
    <3>2. iterations'[i] = [iterations[i] EXCEPT !.api_drafts = Uncategorise(@, c)]
      BY <1>16 DEF DeleteCategoryById
    <3>3. iterations[i].api_drafts \in SUBSET ApiRow
      BY <3>1 DEF IterationRow
    <3>4. Surface(Uncategorise(iterations[i].api_drafts, c))
            = Surface(iterations[i].api_drafts)
      BY <3>3, SurfaceUncategorise
    <3> QED BY <3>1, <3>2, <3>4 DEF IterationRow
  <2>3. /\ DOMAIN services' = DOMAIN services
        /\ DOMAIN iterations' = DOMAIN iterations
        /\ head' = head
    BY <1>16 DEF DeleteCategoryById
  <2>4. CurrentView' = CurrentView
    BY <2>1, <2>3, SameCurrent
  <2>5. Committed' = Committed
    BY <2>2, <2>3 DEF Committed
  <2>6. HistoryView' = HistoryView
    BY <2>2, <2>5, SameHistory DEF Committed
  <2> QED BY <2>3, <2>4, <2>6 DEF Quiet
<1>17. ASSUME NEW u \in Users, NEW s \in DOMAIN services,
              NEW c \in DOMAIN categories \cup {NoCategory},
              NEW r \in services[s].apis, UpdateApiCategory(u, s, r, c)
       PROVE  Quiet
  <2>1. services[s] \in ServiceRow /\ services[s].apis \in SUBSET ApiRow
    BY DEF TypeOK, ServiceRow
  <2> DEFINE rows == (services[s].apis \ {r}) \cup {[r EXCEPT !.category = c]}
  <2> DEFINE row == [services[s] EXCEPT !.apis = rows]
  <2>2. [r EXCEPT !.category = c] \in ApiRow
    BY <2>1 DEF TypeOK, ApiRow, NoCategory
  <2>3. rows \in SUBSET ApiRow
    BY <2>1, <2>2
  <2>4. Surface(rows) = Surface(services[s].apis)
    BY <2>1, SurfaceMove
  <2>5. services' = [services EXCEPT ![s] = row] /\ UNCHANGED <<iterations, head>>
    BY <1>17 DEF UpdateApiCategory
  <2> HIDE DEF rows
  <2>6. /\ row \in ServiceRow
        /\ row.version = services[s].version
        /\ row.description = services[s].description
        /\ row.apis = rows
    BY <2>1, <2>3 DEF ServiceRow
  <2> HIDE DEF row
  <2> QED BY <2>4, <2>5, <2>6, ServiceFieldIsQuiet
<1>18. CASE UNCHANGED vars
  BY <1>13, <1>18 DEF vars
<1> QED
  BY ZenonT(60), <1>2, <1>3, <1>4, <1>5, <1>6, <1>9, <1>10, <1>11, <1>12,
     <1>14, <1>15,
     <1>16, <1>17, <1>18
  DEF Next, ServiceNext, IterationNext, DraftNext, CategoryNext

(* What a commit does: the published row and the committed iteration get   *)
(* the content of the iteration, and nothing else changes.                 *)
LEMMA CommitEffect ==
  ASSUME TypeOK, NEW u \in Users, NEW i \in DOMAIN iterations,
         NEW v \in Versions, CommitIteration(u, i, v)
  PROVE  LET s == iterations[i].service
             content == [version |-> v,
                         description |-> iterations[i].description,
                         surface |-> Surface(iterations[i].api_drafts)]
         IN  /\ s \in DOMAIN services /\ s \in Services
             /\ i \notin Committed
             /\ v # services[s].version
             /\ DOMAIN services' = DOMAIN services
             /\ DOMAIN iterations' = DOMAIN iterations
             /\ Committed' = Committed \cup {i}
             /\ \A j \in DOMAIN iterations \ {i} : iterations'[j] = iterations[j]
             /\ iterations'[i].version = v
             /\ CurrentView' = [CurrentView EXCEPT ![s] = content]
             /\ HistoryView' = [j \in Committed \cup {i} |->
                  IF j = i THEN [service |-> s, content |-> content]
                  ELSE HistoryView[j]]
             /\ head' = [head EXCEPT ![s] = i]
<1> DEFINE s == iterations[i].service
           content == [version |-> v,
                       description |-> iterations[i].description,
                       surface |-> Surface(iterations[i].api_drafts)]
<1>1. /\ s \in DOMAIN services
      /\ s \in Services
      /\ services[s] \in ServiceRow
      /\ iterations[i] \in IterationRow
  BY DEF TypeOK
<1>2. i \notin Committed
  BY DEF CommitIteration, checkServiceIterationPermission, Committed
<1>3. v # services[s].version
  BY DEF CommitIteration, VersionIsNew
<1>4. /\ services' = [services EXCEPT ![s] = Publish(services[s], iterations[i], v)]
      /\ iterations' = [iterations EXCEPT ![i] = MarkCommitted(iterations[i], v)]
      /\ head' = [head EXCEPT ![s] = i]
  BY DEF CommitIteration
<1>5. /\ Publish(services[s], iterations[i], v).version = v
      /\ Publish(services[s], iterations[i], v).description
           = iterations[i].description
      /\ Publish(services[s], iterations[i], v).apis = iterations[i].api_drafts
  BY <1>1 DEF Publish, ServiceRow
<1>6. /\ MarkCommitted(iterations[i], v).version = v
      /\ MarkCommitted(iterations[i], v).is_committed
      /\ MarkCommitted(iterations[i], v).service = s
      /\ MarkCommitted(iterations[i], v).description = iterations[i].description
      /\ MarkCommitted(iterations[i], v).api_drafts = iterations[i].api_drafts
  BY <1>1 DEF MarkCommitted, IterationRow
<1>7. /\ DOMAIN services' = DOMAIN services
      /\ services'[s] = Publish(services[s], iterations[i], v)
      /\ \A t \in DOMAIN services \ {s} : services'[t] = services[t]
  BY <1>1, <1>4 DEF TypeOK
<1>8. /\ DOMAIN iterations' = DOMAIN iterations
      /\ iterations'[i] = MarkCommitted(iterations[i], v)
      /\ \A j \in DOMAIN iterations \ {i} : iterations'[j] = iterations[j]
  BY <1>4 DEF TypeOK
<1>9. Committed' = Committed \cup {i}
  BY <1>6, <1>8 DEF Committed
<1>10. CurrentView' = [CurrentView EXCEPT ![s] = content]
  <2>1. CurrentView' = [t \in DOMAIN services |->
          IF t = s THEN content ELSE CurrentView[t]]
    <3>1. CurrentView' = [t \in DOMAIN services |->
            [version |-> services'[t].version,
             description |-> services'[t].description,
             surface |-> Surface(services'[t].apis)]]
      BY <1>7 DEF CurrentView, Surface
    <3>2. \A t \in DOMAIN services :
            CurrentView[t] = [version |-> services[t].version,
                              description |-> services[t].description,
                              surface |-> Surface(services[t].apis)]
      BY DEF CurrentView
    <3> QED BY <1>5, <1>7, <3>1, <3>2
  <2>2. [CurrentView EXCEPT ![s] = content] = [t \in DOMAIN services |->
          IF t = s THEN content ELSE CurrentView[t]]
    <3> HIDE DEF content, s
    <3> QED BY DEF CurrentView
  <2> QED BY <2>1, <2>2
<1>11. HistoryView' = [j \in Committed \cup {i} |->
          IF j = i THEN [service |-> s, content |-> content] ELSE HistoryView[j]]
  <2>1. HistoryView' = [j \in Committed \cup {i} |->
          [service |-> iterations'[j].service,
           content |-> [version |-> iterations'[j].version,
                        description |-> iterations'[j].description,
                        surface |-> Surface(iterations'[j].api_drafts)]]]
    BY <1>9 DEF HistoryView, Surface
  <2>2. \A j \in Committed :
          /\ HistoryView[j] =
               [service |-> iterations[j].service,
                content |-> [version |-> iterations[j].version,
                             description |-> iterations[j].description,
                             surface |-> Surface(iterations[j].api_drafts)]]
          /\ j # i => iterations'[j] = iterations[j]
    BY <1>8 DEF HistoryView, Committed
  <2> DEFINE Filed(j) == [service |-> iterations'[j].service,
                          content |-> [version |-> iterations'[j].version,
                                       description |-> iterations'[j].description,
                                       surface |-> Surface(iterations'[j].api_drafts)]]
  <2>3. Filed(i) = [service |-> s, content |-> content]
    BY <1>6, <1>8
  <2>4. \A j \in Committed : Filed(j) = HistoryView[j]
    BY <1>2, <2>2
  <2>5. HistoryView' = [j \in Committed \cup {i} |-> Filed(j)]
    BY <2>1
  <2> HIDE DEF Filed, content, s
  <2> QED BY <1>2, <2>3, <2>4, <2>5
<1> QED BY <1>1, <1>2, <1>3, <1>4, <1>6, <1>7, <1>8, <1>9, <1>10, <1>11

(* What a registration does: one more current content, without APIs.       *)
LEMMA CreateEffect ==
  ASSUME TypeOK, NEW u \in Users, NEW s \in Services, NEW d \in Descriptions,
         CreateNewService(u, s, d)
  PROVE  /\ s \notin DOMAIN services
         /\ DOMAIN services' = DOMAIN services \cup {s}
         /\ CurrentView' = [t \in DOMAIN services \cup {s} |->
              IF t = s THEN [version |-> InitVersion, description |-> d,
                             surface |-> {}]
              ELSE CurrentView[t]]
         /\ HistoryView' = HistoryView
         /\ UNCHANGED <<iterations, head>>
<1>1. /\ s \notin DOMAIN services
      /\ UNCHANGED <<iterations, head>>
      /\ DOMAIN services' = DOMAIN services \cup {s}
      /\ services'[s].version = InitVersion
      /\ services'[s].description = d
      /\ services'[s].apis = {}
      /\ \A t \in DOMAIN services : services'[t] = services[t]
  BY DEF CreateNewService, Insert
<1>2. HistoryView' = HistoryView
  BY <1>1, SameHistory DEF Committed
<1>3. CurrentView' = [t \in DOMAIN services \cup {s} |->
        [version |-> services'[t].version,
         description |-> services'[t].description,
         surface |-> Surface(services'[t].apis)]]
  BY <1>1 DEF CurrentView, Surface
<1>4. \A t \in DOMAIN services :
        CurrentView[t] = [version |-> services[t].version,
                          description |-> services[t].description,
                          surface |-> Surface(services[t].apis)]
  BY DEF CurrentView
<1>5. Surface({}) = {}
  BY DEF Surface
<1> QED BY <1>1, <1>2, <1>3, <1>4, <1>5

(* What deleting an iteration does: it had no drafts, and if it was        *)
(* committed it leaves the history.                                        *)
LEMMA DeleteEffect ==
  ASSUME TypeOK, NEW u \in Users, NEW i \in DOMAIN iterations,
         DeleteIterationById(u, i)
  PROVE  /\ iterations[i].api_drafts = {}
         /\ DOMAIN iterations' = DOMAIN iterations \ {i}
         /\ \A j \in DOMAIN iterations \ {i} : iterations'[j] = iterations[j]
         /\ Committed' = Committed \ {i}
         /\ CurrentView' = CurrentView
         /\ HistoryView' = [j \in Committed \ {i} |-> HistoryView[j]]
         /\ UNCHANGED <<services, head>>
<1>1. /\ iterations[i].api_drafts = {}
      /\ UNCHANGED <<services, head>>
      /\ DOMAIN iterations' = DOMAIN iterations \ {i}
      /\ \A j \in DOMAIN iterations \ {i} : iterations'[j] = iterations[j]
  BY DEF DeleteIterationById, Deletable, Remove
<1>2. Committed' = Committed \ {i}
  BY <1>1 DEF Committed
<1>3. CurrentView' = CurrentView
  BY <1>1, SameCurrent
<1>4. HistoryView' = [j \in Committed \ {i} |->
        [service |-> iterations'[j].service,
         content |-> [version |-> iterations'[j].version,
                      description |-> iterations'[j].description,
                      surface |-> Surface(iterations'[j].api_drafts)]]]
  BY <1>2 DEF HistoryView, Surface
<1>5. \A j \in Committed \ {i} :
        /\ iterations'[j] = iterations[j]
        /\ HistoryView[j] =
             [service |-> iterations[j].service,
              content |-> [version |-> iterations[j].version,
                           description |-> iterations[j].description,
                           surface |-> Surface(iterations[j].api_drafts)]]
  BY <1>1 DEF HistoryView, Committed
<1> QED BY <1>1, <1>2, <1>3, <1>4, <1>5

-----------------------------------------------------------------------------
(* The workflow implements the version store *)

(* Every step of the workflow is a step of the version store, or one that  *)
(* its readers cannot see.                                                 *)
LEMMA StoreStep ==
  ASSUME TypeOK, [Next]_vars
  PROVE  [Store!StoreNext]_(Store!storeVars)
<1> USE DEF Store!storeVars
<1>1. CASE Quiet
  BY <1>1 DEF Quiet
<1>2. ASSUME NEW u \in Users, NEW s \in Services, NEW d \in Descriptions,
             CreateNewService(u, s, d)
      PROVE  Store!StoreNext
  <2>1. DOMAIN CurrentView = DOMAIN services
    BY DEF CurrentView
  <2>2. /\ s \notin DOMAIN services
        /\ CurrentView' = [t \in DOMAIN services \cup {s} |->
             IF t = s THEN [version |-> InitVersion, description |-> d,
                            surface |-> {}]
             ELSE CurrentView[t]]
        /\ HistoryView' = HistoryView
    BY <1>2, CreateEffect
  <2>3. CurrentView'[s].description = d
    BY <2>2
  <2>4. Store!Register(s)
    BY <2>1, <2>2, <2>3 DEF Store!Register
  <2> QED BY <2>4 DEF Store!StoreNext
<1>3. ASSUME NEW u \in Users, NEW i \in DOMAIN iterations, NEW v \in Versions,
             CommitIteration(u, i, v)
      PROVE  Store!StoreNext
  <2> DEFINE s == iterations[i].service
             content == [version |-> v,
                         description |-> iterations[i].description,
                         surface |-> Surface(iterations[i].api_drafts)]
  <2>1. /\ s \in DOMAIN services /\ s \in Services
        /\ i \notin Committed
        /\ v # services[s].version
        /\ CurrentView' = [CurrentView EXCEPT ![s] = content]
        /\ HistoryView' = [j \in Committed \cup {i} |->
             IF j = i THEN [service |-> s, content |-> content]
             ELSE HistoryView[j]]
    BY <1>3, CommitEffect
  <2>2. /\ DOMAIN CurrentView = DOMAIN services
        /\ DOMAIN HistoryView = Committed
        /\ CurrentView[s].version = services[s].version
    BY <2>1 DEF CurrentView, HistoryView
  <2>3. CurrentView'[s] = content
    BY <2>1, <2>2
  <2>4. content.version = v
    OBVIOUS
  <2>5. i \in 1 .. MaxIterations
    BY BoundsAssumption DEF TypeOK
  <2> HIDE DEF content, s
  <2>6. Store!Release(s, i)
    BY <2>1, <2>2, <2>3, <2>4 DEF Store!Release
  <2> QED BY <2>1, <2>5, <2>6 DEF Store!StoreNext
<1>4. ASSUME NEW u \in Users, NEW i \in DOMAIN iterations,
             DeleteIterationById(u, i)
      PROVE  [Store!StoreNext]_(Store!storeVars)
  <2>1. /\ iterations[i].api_drafts = {}
        /\ CurrentView' = CurrentView
        /\ HistoryView' = [j \in Committed \ {i} |-> HistoryView[j]]
    BY <1>4, DeleteEffect
  <2>2. DOMAIN HistoryView = Committed
    BY DEF HistoryView
  <2>3. CASE i \in Committed
    <3>1. HistoryView[i].content.surface = {}
      BY <2>1, <2>3 DEF HistoryView, Surface
    <3>2. Store!Forget(i)
      BY <2>1, <2>2, <2>3, <3>1 DEF Store!Forget
    <3>3. i \in 1 .. MaxIterations
      BY BoundsAssumption DEF TypeOK
    <3> QED BY <3>2, <3>3 DEF Store!StoreNext
  <2>4. CASE i \notin Committed
    <3>1. HistoryView' = HistoryView
      BY <2>1, <2>4 DEF HistoryView
    <3> QED BY <2>1, <3>1
  <2> QED BY <2>3, <2>4
<1> QED BY <1>1, <1>2, <1>3, <1>4, StepKinds

(* A commit replaces what is published and files the same content in the   *)
(* history in one step, what is filed never changes, and no other handler  *)
(* is visible to readers of versions.                                      *)
THEOREM Refinement == Spec => ImplementsVersionStore
<1>1. Init => Store!StoreInit
  BY DEF Init, Store!StoreInit, CurrentView, HistoryView, Committed
<1>2. TypeOK /\ [Next]_vars => [Store!StoreNext]_(Store!storeVars)
  BY StoreStep
<1> QED
  BY <1>1, <1>2, TypeCorrect, PTL
  DEF Spec, ImplementsVersionStore, Store!StoreSpec

-----------------------------------------------------------------------------
(* The published version is the last committed iteration *)

\* Alignment, in terms of what readers see.
AlignedView ==
  \A s \in DOMAIN services : head[s] \in DOMAIN iterations =>
    /\ head[s] \in Committed
    /\ HistoryView[head[s]] = [service |-> s, content |-> CurrentView[s]]

(* The two ways to state alignment are equivalent.                         *)
LEMMA AlignedViews == LatestAligned <=> AlignedView
<1>1. ASSUME NEW s \in DOMAIN services, head[s] \in Committed
      PROVE  HistoryView[head[s]] = [service |-> s, content |-> CurrentView[s]]
             <=> LET it == iterations[head[s]]
                 IN  /\ it.service = s
                     /\ it.version = services[s].version
                     /\ it.description = services[s].description
                     /\ Surface(it.api_drafts) = Surface(services[s].apis)
  BY <1>1 DEF HistoryView, CurrentView
<1>2. \A s \in DOMAIN services : head[s] \in Committed <=>
        head[s] \in DOMAIN iterations /\ iterations[head[s]].is_committed
  BY DEF Committed
<1> QED BY <1>1, <1>2 DEF LatestAligned, AlignedView

(* Every step keeps the published version aligned with the last committed  *)
(* iteration.                                                              *)
LEMMA AlignedStep ==
  ASSUME TypeOK, TypeOK', LatestAligned, [Next]_vars
  PROVE  LatestAligned'
<1>1. \A s \in DOMAIN services : head[s] \in DOMAIN iterations =>
        /\ head[s] \in Committed
        /\ HistoryView[head[s]] = [service |-> s, content |-> CurrentView[s]]
  BY AlignedViews DEF AlignedView
<1>2. LatestAligned' <=> AlignedView'
  BY AlignedViews, PTL
<1> SUFFICES ASSUME NEW s \in DOMAIN services', head'[s] \in DOMAIN iterations'
             PROVE  /\ head'[s] \in Committed'
                    /\ HistoryView'[head'[s]] =
                         [service |-> s, content |-> CurrentView'[s]]
  BY <1>2 DEF AlignedView
<1>3. /\ DOMAIN CurrentView = DOMAIN services
      /\ DOMAIN HistoryView = Committed
      /\ DOMAIN CurrentView' = DOMAIN services'
      /\ DOMAIN HistoryView' = Committed'
  BY DEF CurrentView, HistoryView
<1>4. CASE Quiet
  BY <1>1, <1>3, <1>4 DEF Quiet
<1>5. ASSUME NEW u \in Users, NEW t \in Services, NEW d \in Descriptions,
             CreateNewService(u, t, d)
      PROVE  /\ head'[s] \in Committed'
             /\ HistoryView'[head'[s]] =
                  [service |-> s, content |-> CurrentView'[s]]
  <2>1. /\ t \notin DOMAIN services
        /\ DOMAIN services' = DOMAIN services \cup {t}
        /\ CurrentView' = [x \in DOMAIN services \cup {t} |->
             IF x = t THEN [version |-> InitVersion, description |-> d,
                            surface |-> {}]
             ELSE CurrentView[x]]
        /\ HistoryView' = HistoryView
        /\ UNCHANGED <<iterations, head>>
    BY <1>5, CreateEffect
  <2>2. s # t
    <3>1. head[t] = 0
      BY <2>1 DEF TypeOK, NoIteration
    <3> QED BY <2>1, <3>1 DEF TypeOK
  <2>3. s \in DOMAIN services /\ CurrentView'[s] = CurrentView[s]
    BY <2>1, <2>2
  <2> QED BY <1>1, <1>3, <2>1, <2>3
<1>6. ASSUME NEW u \in Users, NEW i \in DOMAIN iterations, NEW v \in Versions,
             CommitIteration(u, i, v)
      PROVE  /\ head'[s] \in Committed'
             /\ HistoryView'[head'[s]] =
                  [service |-> s, content |-> CurrentView'[s]]
  <2> DEFINE t == iterations[i].service
             content == [version |-> v,
                         description |-> iterations[i].description,
                         surface |-> Surface(iterations[i].api_drafts)]
  <2>1. /\ t \in DOMAIN services /\ t \in Services
        /\ i \notin Committed
        /\ DOMAIN services' = DOMAIN services
        /\ DOMAIN iterations' = DOMAIN iterations
        /\ Committed' = Committed \cup {i}
        /\ head' = [head EXCEPT ![t] = i]
    BY <1>6, CommitEffect
  <2>5. /\ CurrentView' = [CurrentView EXCEPT ![t] = content]
        /\ HistoryView' = [j \in Committed \cup {i} |->
             IF j = i THEN [service |-> t, content |-> content]
             ELSE HistoryView[j]]
    BY <1>6, CommitEffect, SMTT(60)
  <2> HIDE DEF t, content
  <2>2. head \in [Services -> 0 .. iterationSeq] /\ s \in Services
    BY <2>1 DEF TypeOK
  <2>3. CASE s = t
    BY <1>3, <2>1, <2>2, <2>3, <2>5
  <2>4. CASE s # t
    <3>1. head'[s] = head[s] /\ CurrentView'[s] = CurrentView[s]
      BY <1>3, <2>1, <2>2, <2>4, <2>5
    <3>2. head[s] \in Committed /\ head[s] # i
      BY <1>1, <2>1, <3>1
    <3>3. HistoryView'[head[s]] = HistoryView[head[s]]
      BY <2>1, <2>5, <3>2
    <3> QED BY <1>1, <2>1, <3>1, <3>2, <3>3
  <2> QED BY <2>3, <2>4
<1>7. ASSUME NEW u \in Users, NEW i \in DOMAIN iterations,
             DeleteIterationById(u, i)
      PROVE  /\ head'[s] \in Committed'
             /\ HistoryView'[head'[s]] =
                  [service |-> s, content |-> CurrentView'[s]]
  <2>1. /\ DOMAIN iterations' = DOMAIN iterations \ {i}
        /\ Committed' = Committed \ {i}
        /\ CurrentView' = CurrentView
        /\ HistoryView' = [j \in Committed \ {i} |-> HistoryView[j]]
        /\ UNCHANGED <<services, head>>
    BY <1>7, DeleteEffect
  <2> QED BY <1>1, <2>1
<1> QED BY <1>4, <1>5, <1>6, <1>7, StepKinds

(* The published version of a service is its last committed iteration:     *)
(* same version, description and APIs, whatever else was done since.       *)
THEOREM Alignment == Spec => []LatestAligned
<1>1. Init => LatestAligned
  BY DEF Init, LatestAligned
<1>2. TypeOK /\ TypeOK' /\ LatestAligned /\ [Next]_vars => LatestAligned'
  BY AlignedStep
<1> QED BY <1>1, <1>2, TypeCorrect, PTL DEF Spec

-----------------------------------------------------------------------------
(* History is immutable *)

(* What readers see of a committed iteration.                              *)
LEMMA FiledContent ==
  ASSUME NEW i \in Committed
  PROVE  /\ HistoryView[i].service = iterations[i].service
         /\ HistoryView[i].content.version = iterations[i].version
         /\ HistoryView[i].content.description = iterations[i].description
         /\ HistoryView[i].content.surface = Surface(iterations[i].api_drafts)
BY DEF HistoryView

(* The service, version, description and APIs of a committed iteration     *)
(* never change, and only an iteration without APIs can be deleted.        *)
THEOREM HistoryImmutable == Spec => CommittedFrozen
<1> DEFINE Frozen ==
      \A i \in DOMAIN iterations : iterations[i].is_committed =>
       IF i \in DOMAIN iterations'
       THEN /\ iterations'[i].is_committed
            /\ iterations'[i].service = iterations[i].service
            /\ iterations'[i].version = iterations[i].version
            /\ iterations'[i].description = iterations[i].description
            /\ Surface(iterations'[i].api_drafts)
                 = Surface(iterations[i].api_drafts)
       ELSE iterations[i].api_drafts = {}
<1>1. ASSUME TypeOK, [Next]_vars PROVE Frozen
  <2>0. /\ DOMAIN HistoryView = Committed
        /\ DOMAIN HistoryView' = Committed'
        /\ Committed' \subseteq DOMAIN iterations'
        /\ \A i \in DOMAIN iterations :
             iterations[i].is_committed => i \in Committed
        /\ \A i \in Committed' : iterations'[i].is_committed
    BY DEF HistoryView, Committed
  <2>1. ASSUME NEW i \in Committed, i \in Committed',
               HistoryView'[i] = HistoryView[i]
        PROVE  /\ iterations'[i].service = iterations[i].service
               /\ iterations'[i].version = iterations[i].version
               /\ iterations'[i].description = iterations[i].description
               /\ Surface(iterations'[i].api_drafts)
                    = Surface(iterations[i].api_drafts)
    <3>1. /\ HistoryView'[i].service = iterations'[i].service
          /\ HistoryView'[i].content.version = iterations'[i].version
          /\ HistoryView'[i].content.description = iterations'[i].description
          /\ HistoryView'[i].content.surface = Surface(iterations'[i].api_drafts)
      BY <2>1 DEF HistoryView, Surface
    <3> QED BY <2>1, <3>1, FiledContent
  <2>2. CASE Quiet
    BY <2>0, <2>1, <2>2 DEF Quiet
  <2>3. ASSUME NEW u \in Users, NEW s \in Services, NEW d \in Descriptions,
               CreateNewService(u, s, d)
        PROVE  Frozen
    BY <1>1, <2>0, <2>1, <2>3, CreateEffect
  <2>4. ASSUME NEW u \in Users, NEW i \in DOMAIN iterations,
               NEW v \in Versions, CommitIteration(u, i, v)
        PROVE  Frozen
    <3>1. /\ i \notin Committed
          /\ DOMAIN iterations' = DOMAIN iterations
          /\ \A j \in DOMAIN iterations \ {i} : iterations'[j] = iterations[j]
      BY <1>1, <2>4, CommitEffect
    <3> QED BY <2>0, <3>1
  <2>5. ASSUME NEW u \in Users, NEW i \in DOMAIN iterations,
               DeleteIterationById(u, i)
        PROVE  Frozen
    <3>1. /\ iterations[i].api_drafts = {}
          /\ DOMAIN iterations' = DOMAIN iterations \ {i}
          /\ \A j \in DOMAIN iterations \ {i} : iterations'[j] = iterations[j]
      BY <1>1, <2>5, DeleteEffect
    <3> QED BY <3>1
  <2> QED BY <1>1, <2>2, <2>3, <2>4, <2>5, StepKinds
<1>2. TypeOK /\ [Next]_vars => [Frozen]_vars
  BY <1>1
<1> HIDE DEF Frozen
<1>3. Spec => [][Frozen]_vars
  BY <1>2, TypeCorrect, PTL DEF Spec
<1> QED BY <1>3 DEF CommittedFrozen, Frozen

-----------------------------------------------------------------------------
(* What a version number means, when commits pass the web form *)

\* An iteration has no version before its commit.
OpenUnversioned ==
  \A i \in DOMAIN iterations :
    ~iterations[i].is_committed => iterations[i].version = NoVersion

(* Every step leaves open iterations without a version.                    *)
LEMMA OpenStep == TypeOK /\ OpenUnversioned /\ [Next]_vars => OpenUnversioned'
<1> SUFFICES ASSUME TypeOK, OpenUnversioned, [Next]_vars PROVE OpenUnversioned'
  OBVIOUS
<1>1. ASSUME UNCHANGED iterations PROVE OpenUnversioned'
  BY <1>1 DEF OpenUnversioned
<1>2. ASSUME NEW i \in DOMAIN iterations, NEW rows, SetDrafts(i, rows)
      PROVE  OpenUnversioned'
  BY <1>2 DEF OpenUnversioned, SetDrafts, TypeOK, IterationRow
<1>3. ASSUME NEW u \in Users, NEW s \in Services, ServiceNext(u, s)
      PROVE  OpenUnversioned'
  <2>1. ASSUME StartIteration(u, s) PROVE OpenUnversioned'
    BY <2>1 DEF OpenUnversioned, StartIteration, Insert
  <2> QED
    BY <1>1, <1>3, <2>1
    DEF ServiceNext, CreateNewService, DeleteServiceById, RestoreServiceById,
        AddOrRemoveServiceMaintainerById
<1>4. ASSUME NEW u \in Users, NEW i \in DOMAIN iterations, IterationNext(u, i)
      PROVE  OpenUnversioned'
  <2>1. ASSUME NEW d \in Descriptions, UpdateDescription(u, i, d)
        PROVE  OpenUnversioned'
    BY <2>1 DEF OpenUnversioned, UpdateDescription, TypeOK, IterationRow
  <2>2. ASSUME NEW v \in Versions, CommitIteration(u, i, v)
        PROVE  OpenUnversioned'
    BY <2>2 DEF OpenUnversioned, CommitIteration, MarkCommitted, TypeOK,
                IterationRow
  <2>3. ASSUME DeleteIterationById(u, i) PROVE OpenUnversioned'
    BY <2>3 DEF OpenUnversioned, DeleteIterationById, Remove
  <2> QED BY <1>4, <2>1, <2>2, <2>3 DEF IterationNext
<1>5. ASSUME NEW u \in Users, NEW i \in DOMAIN iterations, DraftNext(u, i)
      PROVE  OpenUnversioned'
  BY <1>2, <1>5
  DEF DraftNext, AddApi, CopyApiByApiDraftId, DeleteApiByApiDraftId,
      UpdateApiByApiDraftId
<1>6. ASSUME NEW u \in Users, CategoryNext(u) PROVE OpenUnversioned'
  <2>1. ASSUME NEW c \in DOMAIN categories, DeleteCategoryById(u, c)
        PROVE  OpenUnversioned'
    BY <2>1 DEF OpenUnversioned, DeleteCategoryById, TypeOK, IterationRow
  <2> QED
    BY <1>1, <1>6, <2>1
    DEF CategoryNext, AddCategoryByServiceId, UpdateCategoryById,
        UpdateApiCategory
<1> QED BY <1>1, <1>3, <1>4, <1>5, <1>6 DEF Next, vars

\* In a history, a service and a version name one release; none is newer than
\* the current version, and the one that has it is the service's last.
Ordered(history, current, last) ==
  /\ \A i, j \in DOMAIN history :
       /\ history[i].service = history[j].service
       /\ history[i].content.version = history[j].content.version
       => i = j
  /\ \A i \in DOMAIN history :
       LET s == history[i].service
           v == history[i].content.version
       IN  /\ s \in DOMAIN current
           /\ v \in Nat /\ current[s].version \in Nat
           /\ v <= current[s].version
           /\ v = current[s].version => last[s] = i

VersionsOrdered == WebForm => Ordered(HistoryView, CurrentView, head)

(* Releasing a newer version keeps the order.                              *)
LEMMA ReleaseOrdered ==
  ASSUME NEW history, NEW current, NEW last, Ordered(history, current, last),
         NEW i, i \notin DOMAIN history,
         NEW s \in DOMAIN current, s \in DOMAIN last,
         NEW content, content.version \in Nat, current[s].version \in Nat,
         current[s].version < content.version
  PROVE  Ordered([j \in DOMAIN history \cup {i} |->
                    IF j = i THEN [service |-> s, content |-> content]
                    ELSE history[j]],
                 [current EXCEPT ![s] = content],
                 [last EXCEPT ![s] = i])
<1> DEFINE h == [j \in DOMAIN history \cup {i} |->
                   IF j = i THEN [service |-> s, content |-> content]
                   ELSE history[j]]
           c == [current EXCEPT ![s] = content]
           l == [last EXCEPT ![s] = i]
<1>1. /\ DOMAIN h = DOMAIN history \cup {i}
      /\ h[i].service = s /\ h[i].content = content
      /\ \A j \in DOMAIN history : h[j] = history[j]
  OBVIOUS
<1>2. /\ DOMAIN c = DOMAIN current
      /\ c[s] = content
      /\ \A t \in DOMAIN current \ {s} : c[t] = current[t]
  OBVIOUS
<1>3. l[s] = i /\ \A t : t # s /\ t \in DOMAIN last => l[t] = last[t]
  OBVIOUS
<1>4. \A j \in DOMAIN history : history[j].service # s => l[history[j].service] = last[history[j].service]
  OBVIOUS
<1> HIDE DEF h, c, l
<1>5. \A j \in DOMAIN history :
        /\ history[j].service \in DOMAIN current
        /\ history[j].content.version \in Nat
        /\ current[history[j].service].version \in Nat
        /\ history[j].content.version <= current[history[j].service].version
  BY DEF Ordered
<1>6. \A j \in DOMAIN history : history[j].service = s =>
        history[j].content.version < content.version
  BY <1>5
<1>7. ASSUME NEW j \in DOMAIN h, NEW k \in DOMAIN h,
             h[j].service = h[k].service,
             h[j].content.version = h[k].content.version
      PROVE  j = k
  BY <1>1, <1>5, <1>6, <1>7 DEF Ordered
<1>8. ASSUME NEW j \in DOMAIN h
      PROVE  /\ h[j].service \in DOMAIN c
             /\ h[j].content.version \in Nat
             /\ c[h[j].service].version \in Nat
             /\ h[j].content.version <= c[h[j].service].version
             /\ h[j].content.version = c[h[j].service].version
                  => l[h[j].service] = j
  <2>1. CASE j = i
    BY <1>1, <1>2, <1>3, <2>1
  <2>2. CASE j # i /\ history[j].service = s
    BY <1>1, <1>2, <1>5, <1>6, <2>2
  <2>3. CASE j # i /\ history[j].service # s
    BY <1>1, <1>2, <1>4, <1>5, <2>3 DEF Ordered
  <2> QED BY <2>1, <2>2, <2>3
<1>9. Ordered(h, c, l)
  BY <1>7, <1>8 DEF Ordered
<1> QED BY <1>9 DEF h, c, l

(* Every step keeps the order.                                             *)
LEMMA OrderedStep ==
  ASSUME TypeOK, VersionsOrdered, [Next]_vars
  PROVE  VersionsOrdered'
<1> SUFFICES ASSUME WebForm
             PROVE  Ordered(HistoryView', CurrentView', head')
  BY DEF VersionsOrdered
<1>1. Ordered(HistoryView, CurrentView, head)
  BY DEF VersionsOrdered
<1>2. DOMAIN CurrentView = DOMAIN services /\ DOMAIN HistoryView = Committed
  BY DEF CurrentView, HistoryView
<1>3. CASE Quiet
  BY <1>1, <1>3 DEF Quiet
<1>4. ASSUME NEW u \in Users, NEW s \in Services, NEW d \in Descriptions,
             CreateNewService(u, s, d)
      PROVE  Ordered(HistoryView', CurrentView', head')
  <2>1. /\ s \notin DOMAIN services
        /\ DOMAIN CurrentView' = DOMAIN services \cup {s}
        /\ \A t \in DOMAIN services : CurrentView'[t] = CurrentView[t]
        /\ HistoryView' = HistoryView
        /\ head' = head
    BY <1>4, CreateEffect
  <2> QED BY <1>1, <1>2, <2>1 DEF Ordered
<1>5. ASSUME NEW u \in Users, NEW i \in DOMAIN iterations, NEW v \in Versions,
             CommitIteration(u, i, v)
      PROVE  Ordered(HistoryView', CurrentView', head')
  <2> DEFINE s == iterations[i].service
             content == [version |-> v,
                         description |-> iterations[i].description,
                         surface |-> Surface(iterations[i].api_drafts)]
  <2>1. /\ s \in DOMAIN services /\ s \in Services
        /\ i \notin Committed
        /\ CurrentView' = [CurrentView EXCEPT ![s] = content]
        /\ HistoryView' = [j \in Committed \cup {i} |->
             IF j = i THEN [service |-> s, content |-> content]
             ELSE HistoryView[j]]
        /\ head' = [head EXCEPT ![s] = i]
    BY <1>5, CommitEffect
  <2>2. services[s].version \in Nat /\ v \in Nat
    BY <2>1, VersionsAssumption DEF TypeOK, ServiceRow
  <2>3. services[s].version < v
    <3>1. VersionIsNew(services[s].version, v)
      BY <1>5 DEF CommitIteration
    <3> QED BY <2>2, <3>1 DEF VersionIsNew, validateVersion
  <2>4. CurrentView[s].version = services[s].version /\ content.version = v
    BY <2>1 DEF CurrentView
  <2>5. s \in DOMAIN head
    BY <2>1 DEF TypeOK
  <2> HIDE DEF s, content
  <2> QED BY <1>1, <1>2, <2>1, <2>2, <2>3, <2>4, <2>5, ReleaseOrdered
<1>6. ASSUME NEW u \in Users, NEW i \in DOMAIN iterations,
             DeleteIterationById(u, i)
      PROVE  Ordered(HistoryView', CurrentView', head')
  <2>1. /\ CurrentView' = CurrentView
        /\ HistoryView' = [j \in Committed \ {i} |-> HistoryView[j]]
        /\ head' = head
    BY <1>6, DeleteEffect
  <2> QED BY <1>1, <1>2, <2>1 DEF Ordered
<1> QED BY <1>3, <1>4, <1>5, <1>6, StepKinds

(* The order of the history says what a version identifies.                *)
LEMMA OrderIdentifies == VersionsOrdered => VersionsIdentify
<1> SUFFICES ASSUME Ordered(HistoryView, CurrentView, head),
                    NEW i \in Committed, NEW j \in Committed,
                    iterations[i].service = iterations[j].service
             PROVE  /\ iterations[i].version = iterations[j].version => i = j
                    /\ iterations[i].version
                         <= services[iterations[i].service].version
  BY DEF VersionsOrdered, VersionsIdentify, Committed
<1>1. /\ DOMAIN HistoryView = Committed
      /\ DOMAIN CurrentView = DOMAIN services
      /\ \A s \in DOMAIN services : CurrentView[s].version = services[s].version
  BY DEF HistoryView, CurrentView
<1>2. /\ HistoryView[i].service = iterations[i].service
      /\ HistoryView[i].content.version = iterations[i].version
      /\ HistoryView[j].service = iterations[j].service
      /\ HistoryView[j].content.version = iterations[j].version
  BY FiledContent
<1> QED BY <1>1, <1>2 DEF Ordered

(* The order holds always.                                                 *)
LEMMA OrderedAlways == Spec => []VersionsOrdered
<1>1. Init => VersionsOrdered
  BY DEF Init, VersionsOrdered, Ordered, HistoryView, Committed
<1>2. TypeOK /\ VersionsOrdered /\ [Next]_vars => VersionsOrdered'
  BY OrderedStep
<1> QED BY <1>1, <1>2, TypeCorrect, PTL DEF Spec

(* When commits pass the web form, a version names one committed iteration *)
(* of its service and none is newer than the published one, so that the    *)
(* lookup by version (.first()) has one row to choose from.                *)
THEOREM VersionsIdentifyAlways == Spec => []VersionsIdentify
BY OrderedAlways, OrderIdentifies, PTL

\* What version v of s is answered with, in terms of what readers see.
Answers(current, history, s, v) ==
  IF v = current[s].version
  THEN {current[s].surface}
  ELSE {history[i].content.surface :
          i \in {j \in DOMAIN history : /\ history[j].service = s
                                        /\ history[j].content.version = v}}

AnswersAgree ==
  \A s \in DOMAIN services, v \in Versions :
    VersionSurfaces(s, v) = Answers(CurrentView, HistoryView, s, v)

(* The lookup reads committed iterations only, because open ones have no   *)
(* version.                                                                *)
LEMMA LookupReadsHistory == OpenUnversioned => AnswersAgree
<1> SUFFICES ASSUME OpenUnversioned, NEW s \in DOMAIN services, NEW v \in Versions
             PROVE  VersionSurfaces(s, v) = Answers(CurrentView, HistoryView, s, v)
  BY DEF AnswersAgree
<1>1. /\ CurrentView[s].version = services[s].version
      /\ CurrentView[s].surface = Surface(services[s].apis)
      /\ DOMAIN HistoryView = Committed
  BY DEF CurrentView, HistoryView
<1> DEFINE at == {j \in Committed : /\ HistoryView[j].service = s
                                    /\ HistoryView[j].content.version = v}
<1>2. IterationsAt(s, v) \subseteq Committed
  BY VersionsAssumption DEF IterationsAt, OpenUnversioned, Committed, NoVersion
<1>3. IterationsAt(s, v) = at
  BY <1>2, FiledContent DEF IterationsAt, Committed
<1>4. \A i \in at : HistoryView[i].content.surface
                      = Surface(iterations[i].api_drafts)
  BY FiledContent
<1> HIDE DEF at
<1>5. {Surface(iterations[i].api_drafts) : i \in IterationsAt(s, v)}
        = {HistoryView[i].content.surface : i \in at}
  BY <1>3, <1>4
<1> QED BY <1>1, <1>5 DEF VersionSurfaces, Answers, at

(* A step never gives a version that had an answer another one.            *)
LEMMA PinnedStep ==
  ASSUME WebForm, TypeOK, LatestAligned, VersionsOrdered, [Next]_vars,
         NEW s \in DOMAIN services, NEW v \in Versions,
         Answers(CurrentView, HistoryView, s, v) # {}
  PROVE  /\ s \in DOMAIN services'
         /\ Answers(CurrentView', HistoryView', s, v)
              \subseteq Answers(CurrentView, HistoryView, s, v)
<1>1. Ordered(HistoryView, CurrentView, head)
  BY DEF VersionsOrdered
<1>2. /\ DOMAIN CurrentView = DOMAIN services
      /\ DOMAIN CurrentView' = DOMAIN services'
      /\ DOMAIN HistoryView = Committed
  BY DEF CurrentView, HistoryView
<1>3. CASE Quiet
  BY <1>2, <1>3 DEF Quiet
<1>4. ASSUME NEW u \in Users, NEW t \in Services, NEW d \in Descriptions,
             CreateNewService(u, t, d)
      PROVE  /\ s \in DOMAIN services'
             /\ Answers(CurrentView', HistoryView', s, v)
                  = Answers(CurrentView, HistoryView, s, v)
  <2>1. /\ s \in DOMAIN services'
        /\ CurrentView'[s] = CurrentView[s]
        /\ HistoryView' = HistoryView
    BY <1>4, CreateEffect
  <2> QED BY <2>1 DEF Answers
<1>5. ASSUME NEW u \in Users, NEW i \in DOMAIN iterations, NEW w \in Versions,
             CommitIteration(u, i, w)
      PROVE  /\ s \in DOMAIN services'
             /\ Answers(CurrentView', HistoryView', s, v)
                  \subseteq Answers(CurrentView, HistoryView, s, v)
  <2> DEFINE t == iterations[i].service
             content == [version |-> w,
                         description |-> iterations[i].description,
                         surface |-> Surface(iterations[i].api_drafts)]
  <2>1. /\ t \in DOMAIN services
        /\ i \notin Committed
        /\ DOMAIN services' = DOMAIN services
        /\ CurrentView' = [CurrentView EXCEPT ![t] = content]
        /\ HistoryView' = [j \in Committed \cup {i} |->
             IF j = i THEN [service |-> t, content |-> content]
             ELSE HistoryView[j]]
    BY <1>5, CommitEffect
  <2>2. services[t].version < w /\ services[t].version \in Nat /\ w \in Nat
    <3>1. VersionIsNew(services[t].version, w)
      BY <1>5 DEF CommitIteration
    <3>2. services[t].version \in Nat /\ w \in Nat
      BY <2>1, VersionsAssumption DEF TypeOK, ServiceRow
    <3> QED BY <3>1, <3>2 DEF VersionIsNew, validateVersion
  <2>3. CurrentView[t].version = services[t].version /\ content.version = w
    BY <2>1 DEF CurrentView
  <2> HIDE DEF t, content
  <2>4. /\ DOMAIN HistoryView' = Committed \cup {i}
        /\ HistoryView'[i].service = t
        /\ HistoryView'[i].content = content
        /\ \A j \in Committed : HistoryView'[j] = HistoryView[j]
    BY <2>1
  <2>5. CASE s # t
    <3>1. CurrentView'[s] = CurrentView[s]
      BY <1>2, <2>1, <2>5
    <3>2. ASSUME NEW j \in DOMAIN HistoryView', HistoryView'[j].service = s
          PROVE  j \in DOMAIN HistoryView /\ HistoryView'[j] = HistoryView[j]
      BY <1>2, <2>4, <2>5, <3>2
    <3>3. Answers(CurrentView', HistoryView', s, v)
            \subseteq Answers(CurrentView, HistoryView, s, v)
      BY <3>1, <3>2 DEF Answers
    <3> QED BY <2>1, <3>3
  <2>6. CASE s = t
    <3>1. CurrentView'[s].version = w
      BY <1>2, <2>1, <2>3, <2>6
    <3>2. v # w
      <4>1. \A j \in Committed : HistoryView[j].service = s =>
              HistoryView[j].content.version # w
        BY <1>1, <1>2, <2>2, <2>3, <2>6 DEF Ordered
      <4> QED BY <1>2, <2>2, <2>3, <2>6, <4>1 DEF Answers
    <3>3. ASSUME NEW a \in Answers(CurrentView', HistoryView', s, v)
          PROVE  a \in Answers(CurrentView, HistoryView, s, v)
      <4>1. PICK j \in DOMAIN HistoryView' :
              /\ HistoryView'[j].service = s
              /\ HistoryView'[j].content.version = v
              /\ a = HistoryView'[j].content.surface
        BY <3>1, <3>2 DEF Answers
      <4>2. j \in Committed /\ HistoryView'[j] = HistoryView[j]
        BY <2>3, <2>4, <3>2, <4>1
      <4>3. CASE v = CurrentView[s].version
        <5>1. head[s] = j
          BY <1>1, <1>2, <4>1, <4>2, <4>3 DEF Ordered
        <5>2. HistoryView[j] = [service |-> s, content |-> CurrentView[s]]
          BY <4>2, <5>1, AlignedViews DEF AlignedView, Committed
        <5> QED BY <4>1, <4>2, <4>3, <5>2 DEF Answers
      <4>4. CASE v # CurrentView[s].version
        BY <1>2, <4>1, <4>2, <4>4 DEF Answers
      <4> QED BY <4>3, <4>4
    <3> QED BY <2>1, <3>3
  <2> QED BY <2>5, <2>6
<1>6. ASSUME NEW u \in Users, NEW i \in DOMAIN iterations,
             DeleteIterationById(u, i)
      PROVE  /\ s \in DOMAIN services'
             /\ Answers(CurrentView', HistoryView', s, v)
                  \subseteq Answers(CurrentView, HistoryView, s, v)
  <2>1. /\ CurrentView' = CurrentView
        /\ HistoryView' = [j \in Committed \ {i} |-> HistoryView[j]]
        /\ services' = services
    BY <1>6, DeleteEffect
  <2>2. /\ DOMAIN HistoryView' = Committed \ {i}
        /\ \A j \in Committed \ {i} : HistoryView'[j] = HistoryView[j]
    BY <2>1
  <2> QED BY <1>2, <2>1, <2>2 DEF Answers
<1> QED BY <1>3, <1>4, <1>5, <1>6, StepKinds

(* When commits pass the web form, a client that pinned a version keeps    *)
(* getting the same APIs for it, also across the commit that moves the     *)
(* version from the Api rows to the drafts of its iteration, or is told    *)
(* that it does not exist.                                                 *)
THEOREM PinnedVersionAlways ==
  ASSUME WebForm
  PROVE  Spec => PinnedVersionStable
<1> DEFINE Stable ==
      \A s \in DOMAIN services, v \in Versions :
        VersionSurfaces(s, v) # {} =>
          VersionSurfaces(s, v)' \subseteq VersionSurfaces(s, v)
<1>1. ASSUME TypeOK, LatestAligned, VersionsOrdered, [Next]_vars,
             AnswersAgree, AnswersAgree'
      PROVE  Stable
  <2> SUFFICES ASSUME NEW s \in DOMAIN services, NEW v \in Versions,
                      VersionSurfaces(s, v) # {}
               PROVE  VersionSurfaces(s, v)' \subseteq VersionSurfaces(s, v)
    OBVIOUS
  <2>1. VersionSurfaces(s, v) = Answers(CurrentView, HistoryView, s, v)
    BY <1>1 DEF AnswersAgree
  <2>2. /\ s \in DOMAIN services'
        /\ Answers(CurrentView', HistoryView', s, v)
             \subseteq Answers(CurrentView, HistoryView, s, v)
    BY <1>1, <2>1, PinnedStep
  <2>3. VersionSurfaces(s, v)' = Answers(CurrentView', HistoryView', s, v)
    BY <1>1, <2>2 DEF AnswersAgree
  <2> QED BY <2>1, <2>2, <2>3
<1>2. TypeOK /\ LatestAligned /\ VersionsOrdered /\ AnswersAgree
        /\ AnswersAgree' /\ [Next]_vars => [Stable]_vars
  BY <1>1
<1>3. Init => OpenUnversioned
  BY DEF Init, OpenUnversioned
<1>4. Spec => []OpenUnversioned
  BY <1>3, OpenStep, TypeCorrect, PTL DEF Spec
<1> HIDE DEF Stable
<1>5. Spec => [][Stable]_vars
  BY <1>2, <1>4, LookupReadsHistory, TypeCorrect, Alignment, OrderedAlways, PTL
  DEF Spec
<1> QED BY <1>5 DEF PinnedVersionStable, Stable
=============================================================================
