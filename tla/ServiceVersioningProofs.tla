---------------------- MODULE ServiceVersioningProofs ----------------------
(***************************************************************************)
(* Theorems about ServiceVersioning, for all values of its constants.      *)
(***************************************************************************)
EXTENDS ServiceVersioning, TLAPS

-----------------------------------------------------------------------------
(* Type correctness *)

(* Changing one iteration's drafts to other well-formed rows keeps every   *)
(* table well formed.                                                      *)
LEMMA SetDraftsType ==
  ASSUME TypeOK, NEW i \in DOMAIN iterations, NEW rows \in SUBSET ApiRow,
         SetDrafts(i, rows)
  PROVE  TypeOK'
<1> USE DEF TypeOK, SetDrafts
<1>1. iterations' \in [DOMAIN iterations -> IterationRow]
  BY DEF IterationRow
<1>2. \A j \in DOMAIN iterations : iterations'[j].service = iterations[j].service
  BY DEF IterationRow
<1> QED BY <1>1, <1>2

(* Every step keeps every table well formed.                               *)
LEMMA TypeStep == TypeOK /\ [Next]_vars => TypeOK'
<1> SUFFICES ASSUME TypeOK, [Next]_vars PROVE TypeOK'
  OBVIOUS
<1>1. ASSUME NEW u \in Users, NEW s \in Services, NEW d \in Descriptions,
             CreateNewService(u, s, d)
      PROVE  TypeOK'
  <2> DEFINE row == [owner |-> u, maintainers |-> {}, version |-> InitVersion,
                     description |-> d, is_deleted |-> FALSE, apis |-> {}]
  <2>1. row \in ServiceRow
    BY VersionsAssumption DEF ServiceRow
  <2>2. services' \in [DOMAIN services \cup {s} -> ServiceRow]
    BY <1>1, <2>1 DEF TypeOK, CreateNewService, Insert
  <2> QED BY <1>1, <2>2 DEF TypeOK, CreateNewService
<1>2. ASSUME NEW u \in Users, NEW s \in Services, DeleteServiceById(u, s)
      PROVE  TypeOK'
  BY <1>2, ZenonT(60) DEF TypeOK, DeleteServiceById, ServiceRow
<1>3. ASSUME NEW u \in Users, NEW s \in Services, RestoreServiceById(u, s)
      PROVE  TypeOK'
  BY <1>3, ZenonT(60) DEF TypeOK, RestoreServiceById, ServiceRow
<1>4. ASSUME NEW u \in Users, NEW s \in Services, NEW candidate \in Users,
             AddOrRemoveServiceMaintainerById(u, s, candidate)
      PROVE  TypeOK'
  <2> DEFINE ms == IF candidate \in services[s].maintainers
                   THEN services[s].maintainers \ {candidate}
                   ELSE services[s].maintainers \cup {candidate}
  <2>1. services[s] \in ServiceRow /\ services[s].maintainers \subseteq Users
    BY <1>4 DEF TypeOK, AddOrRemoveServiceMaintainerById, ServiceRow
  <2>2. ms \in SUBSET Users
    BY <2>1
  <2>3. services' = [services EXCEPT ![s] = [services[s] EXCEPT !.maintainers = ms]]
    BY <1>4 DEF AddOrRemoveServiceMaintainerById
  <2> HIDE DEF ms
  <2>4. [services[s] EXCEPT !.maintainers = ms] \in ServiceRow
    BY <2>1, <2>2 DEF ServiceRow
  <2>5. services' \in [DOMAIN services -> ServiceRow]
    BY <2>3, <2>4 DEF TypeOK
  <2> QED BY <1>4, <2>5 DEF TypeOK, AddOrRemoveServiceMaintainerById
<1>5. ASSUME NEW u \in Users, NEW s \in Services, StartIteration(u, s)
      PROVE  TypeOK'
  <2> DEFINE row == [service |-> s, creator |-> u, version |-> NoVersion,
                     description |-> NULL, is_committed |-> FALSE,
                     api_drafts |-> services[s].apis]
  <2>1. row \in IterationRow
    BY <1>5 DEF TypeOK, StartIteration, ServiceRow, IterationRow
  <2>2. /\ iterations' \in [DOMAIN iterations \cup {iterationSeq + 1} -> IterationRow]
        /\ iterations'[iterationSeq + 1] = row
        /\ \A i \in DOMAIN iterations \ {iterationSeq + 1} :
             iterations'[i] = iterations[i]
    BY <1>5, <2>1 DEF TypeOK, StartIteration, Insert
  <2>3. DOMAIN iterations' \subseteq 1 .. iterationSeq'
    BY <1>5, <2>2 DEF TypeOK, StartIteration
  <2>4. \A i \in DOMAIN iterations' : iterations'[i].service \in DOMAIN services'
    <3> SUFFICES ASSUME NEW i \in DOMAIN iterations'
                 PROVE  iterations'[i].service \in DOMAIN services'
      OBVIOUS
    <3>1. CASE i = iterationSeq + 1
      BY <1>5, <2>2, <3>1 DEF StartIteration
    <3>2. CASE i # iterationSeq + 1
      BY <1>5, <2>2, <3>2 DEF TypeOK, StartIteration
    <3> QED BY <3>1, <3>2
  <2>5. /\ iterationSeq' \in 0 .. MaxIterations
        /\ UNCHANGED <<services, categories, categorySeq, head>>
        /\ head \in [Services -> 0 .. iterationSeq']
    BY <1>5, BoundsAssumption DEF TypeOK, StartIteration
  <2>6. iterations' \in [DOMAIN iterations' -> IterationRow]
    BY <2>2
  <2> QED BY <2>3, <2>4, <2>5, <2>6 DEF TypeOK
<1>6. ASSUME NEW u \in Users, NEW i \in DOMAIN iterations,
             NEW d \in Descriptions, UpdateDescription(u, i, d)
      PROVE  TypeOK'
  BY <1>6 DEF TypeOK, UpdateDescription, IterationRow
<1>7. ASSUME NEW u \in Users, NEW i \in DOMAIN iterations, NEW v \in Versions,
             CommitIteration(u, i, v)
      PROVE  TypeOK'
  <2> DEFINE s == iterations[i].service
  <2>1. s \in DOMAIN services /\ s \in Services
    BY DEF TypeOK
  <2>9. services[s] \in ServiceRow /\ iterations[i] \in IterationRow
    BY <2>1 DEF TypeOK
  <2>2. Publish(services[s], iterations[i], v) \in ServiceRow
    BY <2>9 DEF Publish, ServiceRow, IterationRow
  <2>3. MarkCommitted(iterations[i], v) \in IterationRow
    BY DEF TypeOK, MarkCommitted, IterationRow
  <2>4. MarkCommitted(iterations[i], v).service = s
    BY DEF TypeOK, MarkCommitted, IterationRow
  <2>5. services' \in [DOMAIN services -> ServiceRow]
    BY <1>7, <2>1, <2>2 DEF TypeOK, CommitIteration
  <2>6. iterations' \in [DOMAIN iterations -> IterationRow]
    BY <1>7, <2>3 DEF TypeOK, CommitIteration
  <2>7. \A j \in DOMAIN iterations : iterations'[j].service \in DOMAIN services
    BY <1>7, <2>1, <2>4 DEF TypeOK, CommitIteration
  <2>8. head' \in [Services -> 0 .. iterationSeq]
    BY <1>7, <2>1 DEF TypeOK, CommitIteration
  <2> QED BY <1>7, <2>5, <2>6, <2>7, <2>8 DEF TypeOK, CommitIteration
<1>8. ASSUME NEW u \in Users, NEW i \in DOMAIN iterations,
             DeleteIterationById(u, i)
      PROVE  TypeOK'
  <2>1. /\ iterations' \in [DOMAIN iterations \ {i} -> IterationRow]
        /\ \A j \in DOMAIN iterations \ {i} : iterations'[j] = iterations[j]
    BY <1>8 DEF TypeOK, DeleteIterationById, Remove
  <2> QED BY <1>8, <2>1 DEF TypeOK, DeleteIterationById
<1>9. ASSUME NEW u \in Users, NEW i \in DOMAIN iterations, NEW n \in Names,
             NEW m \in Methods, NEW p \in Paths,
             NEW c \in DOMAIN categories \cup {NoCategory},
             AddApi(u, i, n, m, p, c)
      PROVE  TypeOK'
  <2>1. [name |-> n, method |-> m, path |-> p, category |-> c,
         body |-> EmptyBody] \in ApiRow
    BY TextAssumption, BodiesAssumption DEF TypeOK, ApiRow, NoCategory
  <2>2. iterations[i].api_drafts \in SUBSET ApiRow
    BY DEF TypeOK, IterationRow
  <2> QED BY <1>9, <2>1, <2>2, SetDraftsType DEF AddApi
<1>10. ASSUME NEW u \in Users, NEW i \in DOMAIN iterations,
              NEW r \in iterations[i].api_drafts, NEW t \in Stamps,
              CopyApiByApiDraftId(u, i, r, t)
       PROVE  TypeOK'
  <2>1. iterations[i].api_drafts \in SUBSET ApiRow
    BY DEF TypeOK, IterationRow
  <2>2. Copied(r.name, t) \in Text /\ Copied(r.path, t) \in Text
    BY <2>1, TextAssumption DEF ApiRow, Text, Copied
  <2>3. [r EXCEPT !.name = Copied(r.name, t),
                  !.path = Copied(r.path, t)] \in ApiRow
    BY <2>1, <2>2 DEF ApiRow
  <2> QED BY <1>10, <2>1, <2>3, SetDraftsType DEF CopyApiByApiDraftId
<1>11. ASSUME NEW u \in Users, NEW i \in DOMAIN iterations,
              NEW r \in iterations[i].api_drafts,
              DeleteApiByApiDraftId(u, i, r)
       PROVE  TypeOK'
  <2>1. iterations[i].api_drafts \in SUBSET ApiRow
    BY DEF TypeOK, IterationRow
  <2> QED BY <1>11, <2>1, SetDraftsType DEF DeleteApiByApiDraftId
<1>12. ASSUME NEW u \in Users, NEW i \in DOMAIN iterations,
              NEW r \in iterations[i].api_drafts, NEW n \in Names,
              NEW m \in Methods, NEW p \in Paths, NEW b \in Bodies,
              UpdateApiByApiDraftId(u, i, r, n, m, p, b)
       PROVE  TypeOK'
  <2>1. iterations[i].api_drafts \in SUBSET ApiRow
    BY DEF TypeOK, IterationRow
  <2>2. [r EXCEPT !.name = n, !.method = m, !.path = p, !.body = b] \in ApiRow
    BY <2>1, TextAssumption DEF ApiRow
  <2> QED BY <1>12, <2>1, <2>2, SetDraftsType DEF UpdateApiByApiDraftId
<1>13. ASSUME NEW u \in Users, NEW s \in DOMAIN services,
              NEW n \in CategoryNames, AddCategoryByServiceId(u, s, n)
       PROVE  TypeOK'
  <2> DEFINE row == [service |-> s, name |-> n]
  <2>1. row \in CategoryRow
    BY DEF TypeOK, CategoryRow
  <2>2. /\ categories' \in [DOMAIN categories \cup {categorySeq + 1} -> CategoryRow]
        /\ categories'[categorySeq + 1] = row
        /\ \A c \in DOMAIN categories \ {categorySeq + 1} :
             categories'[c] = categories[c]
    BY <1>13, <2>1 DEF TypeOK, AddCategoryByServiceId, Insert
  <2>3. DOMAIN categories' \subseteq 1 .. categorySeq'
    BY <1>13, <2>2 DEF TypeOK, AddCategoryByServiceId
  <2> QED BY <1>13, <2>2, <2>3, BoundsAssumption DEF TypeOK, AddCategoryByServiceId
<1>14. ASSUME NEW u \in Users, NEW c \in DOMAIN categories,
              NEW n \in CategoryNames, UpdateCategoryById(u, c, n)
       PROVE  TypeOK'
  BY <1>14 DEF TypeOK, UpdateCategoryById, CategoryRow
<1>15. ASSUME NEW u \in Users, NEW c \in DOMAIN categories,
              DeleteCategoryById(u, c)
       PROVE  TypeOK'
  <2>1. ASSUME NEW rows \in SUBSET ApiRow
        PROVE  Uncategorise(rows, c) \in SUBSET ApiRow
    BY DEF Uncategorise, ApiRow, NoCategory
  <2>a. ASSUME NEW s \in DOMAIN services
        PROVE  [services[s] EXCEPT !.apis = Uncategorise(@, c)] \in ServiceRow
    <3>1. services[s] \in ServiceRow
      BY DEF TypeOK
    <3> QED BY <3>1, <2>1 DEF ServiceRow
  <2>2. services' \in [DOMAIN services -> ServiceRow]
    BY <1>15, <2>a DEF TypeOK, DeleteCategoryById
  <2>3. /\ iterations' \in [DOMAIN iterations -> IterationRow]
        /\ \A i \in DOMAIN iterations :
             iterations'[i].service = iterations[i].service
    BY <1>15, <2>1, ZenonT(60) DEF TypeOK, DeleteCategoryById, IterationRow
  <2>4. /\ categories' \in [DOMAIN categories \ {c} -> CategoryRow]
        /\ \A d \in DOMAIN categories \ {c} : categories'[d] = categories[d]
    BY <1>15 DEF TypeOK, DeleteCategoryById, Remove
  <2> QED BY <1>15, <2>2, <2>3, <2>4 DEF TypeOK, DeleteCategoryById
<1>16. ASSUME NEW u \in Users, NEW s \in DOMAIN services,
              NEW c \in DOMAIN categories \cup {NoCategory},
              NEW r \in services[s].apis, UpdateApiCategory(u, s, r, c)
       PROVE  TypeOK'
  <2>1. services[s].apis \in SUBSET ApiRow
    BY DEF TypeOK, ServiceRow
  <2>2. [r EXCEPT !.category = c] \in ApiRow
    BY <2>1 DEF TypeOK, ApiRow, NoCategory
  <2> DEFINE rows == (services[s].apis \ {r}) \cup {[r EXCEPT !.category = c]}
  <2>3. services[s] \in ServiceRow /\ rows \in SUBSET ApiRow
    BY <2>1, <2>2 DEF TypeOK
  <2> HIDE DEF rows
  <2>4. [services[s] EXCEPT !.apis = rows] \in ServiceRow
    BY <2>3 DEF ServiceRow
  <2>5. services' = [services EXCEPT ![s] = [services[s] EXCEPT !.apis = rows]]
    BY <1>16 DEF UpdateApiCategory, rows
  <2>6. services' \in [DOMAIN services -> ServiceRow]
    BY <2>4, <2>5 DEF TypeOK
  <2> QED BY <1>16, <2>6 DEF TypeOK, UpdateApiCategory
<1>17. CASE UNCHANGED vars
  BY <1>17 DEF TypeOK, vars
<1> QED
  BY <1>1, <1>2, <1>3, <1>4, <1>5, <1>6, <1>7, <1>8, <1>9, <1>10, <1>11,
     <1>12, <1>13, <1>14, <1>15, <1>16, <1>17
  DEF Next, ServiceNext, IterationNext, DraftNext, CategoryNext

(* Whatever requests are served, the rows of every table are well formed   *)
(* and refer to services that exist.                                       *)
THEOREM TypeCorrect == Spec => []TypeOK
<1>1. Init => TypeOK
  BY BoundsAssumption DEF Init, TypeOK, NoIteration
<1> QED BY <1>1, TypeStep, PTL DEF Spec

-----------------------------------------------------------------------------
(* Where rows come from: the names of the Api and ApiDraft rows and their   *)
(* categories follow from one case distinction, where the rows of a service *)
(* and of an iteration come from in a step.                                 *)

Moved(rows, r, c) == (rows \ {r}) \cup {[r EXCEPT !.category = c]}

Kept ==
  \A c \in DOMAIN categories :
    c \in DOMAIN categories' /\ categories'[c].service = categories[c].service

\* What a step may do to the Api rows of service s
ApisFrom(s) ==
  \/ services'[s].apis = {}
  \/ /\ s \in DOMAIN services
     /\ services'[s].apis = services[s].apis
     /\ Kept
  \/ \E i \in DOMAIN iterations :
       /\ iterations[i].service = s
       /\ services'[s].apis = iterations[i].api_drafts
       /\ Kept
  \/ \E c \in DOMAIN categories :
       /\ s \in DOMAIN services
       /\ services'[s].apis = Uncategorise(services[s].apis, c)
       /\ categories' = Remove(categories, c)
  \/ \E r \in services[s].apis, c \in Nat :
       /\ s \in DOMAIN services
       /\ CategoryUsable(c, s)
       /\ services'[s].apis = Moved(services[s].apis, r, c)
       /\ Kept

\* What a step may do to the ApiDraft rows of iteration i
DraftsFrom(i) ==
  \/ /\ i \in DOMAIN iterations
     /\ iterations'[i].service = iterations[i].service
     /\ iterations'[i].api_drafts \subseteq iterations[i].api_drafts
     /\ Kept
  \/ \E s \in DOMAIN services :
       /\ iterations'[i].service = s
       /\ iterations'[i].api_drafts = services[s].apis
       /\ Kept
  \/ \E row \in ApiRow, rows \in SUBSET iterations[i].api_drafts :
       /\ i \in DOMAIN iterations
       /\ iterations'[i].service = iterations[i].service
       /\ iterations'[i].api_drafts = rows \cup {row}
       /\ NameFree(rows, row.method, row.name)
       /\ \/ CategoryUsable(row.category, iterations[i].service)
          \/ \E r \in iterations[i].api_drafts : r.category = row.category
       /\ Kept
  \/ \E c \in DOMAIN categories :
       /\ i \in DOMAIN iterations
       /\ iterations'[i].service = iterations[i].service
       /\ iterations'[i].api_drafts = Uncategorise(iterations[i].api_drafts, c)
       /\ categories' = Remove(categories, c)

RowsFrom ==
  /\ \A s \in DOMAIN services' : ApisFrom(s)
  /\ \A i \in DOMAIN iterations' : DraftsFrom(i)

(* Steps that change neither kind of row are covered.                      *)
LEMMA RowsSame ==
  ASSUME Kept,
         \A s \in DOMAIN services' :
           \/ services'[s].apis = {}
           \/ s \in DOMAIN services /\ services'[s].apis = services[s].apis,
         \A i \in DOMAIN iterations' :
           /\ i \in DOMAIN iterations
           /\ iterations'[i].service = iterations[i].service
           /\ iterations'[i].api_drafts = iterations[i].api_drafts
  PROVE  RowsFrom
BY DEF RowsFrom, ApisFrom, DraftsFrom

(* An edit that puts one row beside some of the old drafts is covered, when *)
(* its name is free there and its category usable or that of an old draft.  *)
LEMMA RowsEdited ==
  ASSUME TypeOK, NEW i \in DOMAIN iterations,
         NEW rows \in SUBSET iterations[i].api_drafts, NEW row \in ApiRow,
         SetDrafts(i, rows \cup {row}),
         NameFree(rows, row.method, row.name),
         \/ CategoryUsable(row.category, iterations[i].service)
         \/ \E r \in iterations[i].api_drafts : r.category = row.category
  PROVE  RowsFrom
<1>1. Kept /\ UNCHANGED services
  BY DEF SetDrafts, Kept
<1>2. /\ DOMAIN iterations' = DOMAIN iterations
      /\ iterations'[i].service = iterations[i].service
      /\ iterations'[i].api_drafts = rows \cup {row}
      /\ \A j \in DOMAIN iterations \ {i} : iterations'[j] = iterations[j]
  BY DEF SetDrafts, TypeOK, IterationRow
<1>3. DraftsFrom(i)
  BY <1>1, <1>2 DEF DraftsFrom
<1>4. \A j \in DOMAIN iterations \ {i} : DraftsFrom(j)
  BY <1>1, <1>2 DEF DraftsFrom
<1>5. \A s \in DOMAIN services' : ApisFrom(s)
  BY <1>1 DEF ApisFrom
<1> QED BY <1>2, <1>3, <1>4, <1>5 DEF RowsFrom

(* Every step takes the rows of services and iterations from one of the    *)
(* sources above.                                                          *)
LEMMA RowOrigins == ASSUME TypeOK, [Next]_vars PROVE RowsFrom
<1>1. ASSUME NEW u \in Users, NEW s \in Services, NEW d \in Descriptions,
             CreateNewService(u, s, d)
      PROVE  RowsFrom
  <2>1. \A x \in DOMAIN services' :
          \/ services'[x].apis = {}
          \/ x \in DOMAIN services /\ services'[x].apis = services[x].apis
    BY <1>1 DEF CreateNewService, Insert
  <2>2. Kept /\ UNCHANGED iterations
    BY <1>1 DEF CreateNewService, Kept
  <2> QED BY <2>1, <2>2 DEF RowsFrom, ApisFrom, DraftsFrom
<1>2. ASSUME NEW u \in Users, NEW s \in Services,
             \/ DeleteServiceById(u, s)
             \/ RestoreServiceById(u, s)
             \/ \E candidate \in Users :
                  AddOrRemoveServiceMaintainerById(u, s, candidate)
      PROVE  RowsFrom
  <2>1. /\ DOMAIN services' = DOMAIN services
        /\ \A x \in DOMAIN services : services'[x].apis = services[x].apis
    BY <1>2 DEF DeleteServiceById, RestoreServiceById,
                AddOrRemoveServiceMaintainerById, TypeOK, ServiceRow
  <2>2. Kept /\ UNCHANGED iterations
    BY <1>2 DEF DeleteServiceById, RestoreServiceById,
                AddOrRemoveServiceMaintainerById, Kept
  <2> QED BY <2>1, <2>2, RowsSame
<1>3. ASSUME NEW u \in Users, NEW s \in Services, StartIteration(u, s)
      PROVE  RowsFrom
  <2> DEFINE n == iterationSeq + 1
  <2>1. /\ DOMAIN iterations' = DOMAIN iterations \cup {n}
        /\ iterations'[n].service = s
        /\ iterations'[n].api_drafts = services[s].apis
        /\ \A j \in DOMAIN iterations \ {n} : iterations'[j] = iterations[j]
        /\ s \in DOMAIN services
    BY <1>3 DEF StartIteration, Insert
  <2>2. Kept /\ UNCHANGED services
    BY <1>3 DEF StartIteration, Kept
  <2> HIDE DEF n
  <2>3. DraftsFrom(n)
    BY <2>1, <2>2 DEF DraftsFrom
  <2>4. \A j \in DOMAIN iterations \ {n} : DraftsFrom(j)
    BY <2>1, <2>2 DEF DraftsFrom
  <2>5. \A x \in DOMAIN services' : ApisFrom(x)
    BY <2>2 DEF ApisFrom
  <2> QED BY <2>1, <2>3, <2>4, <2>5 DEF RowsFrom
<1>4. ASSUME NEW u \in Users, NEW i \in DOMAIN iterations,
             NEW d \in Descriptions, UpdateDescription(u, i, d)
      PROVE  RowsFrom
  <2>1. /\ DOMAIN iterations' = DOMAIN iterations
        /\ \A j \in DOMAIN iterations :
             /\ iterations'[j].service = iterations[j].service
             /\ iterations'[j].api_drafts = iterations[j].api_drafts
    BY <1>4 DEF UpdateDescription, TypeOK, IterationRow
  <2>2. Kept /\ UNCHANGED services
    BY <1>4 DEF UpdateDescription, Kept
  <2> QED BY <2>1, <2>2, RowsSame
<1>5. ASSUME NEW u \in Users, NEW i \in DOMAIN iterations, NEW v \in Versions,
             CommitIteration(u, i, v)
      PROVE  RowsFrom
  <2> DEFINE s == iterations[i].service
  <2>1. /\ s \in DOMAIN services
        /\ services[s] \in ServiceRow
        /\ iterations[i] \in IterationRow
    BY DEF TypeOK
  <2>2. Publish(services[s], iterations[i], v).apis = iterations[i].api_drafts
    BY <2>1 DEF Publish, ServiceRow
  <2>3. /\ MarkCommitted(iterations[i], v).service = s
        /\ MarkCommitted(iterations[i], v).api_drafts = iterations[i].api_drafts
    BY <2>1 DEF MarkCommitted, IterationRow
  <2>4. /\ DOMAIN services' = DOMAIN services
        /\ services'[s].apis = iterations[i].api_drafts
        /\ \A x \in DOMAIN services \ {s} : services'[x] = services[x]
    BY <1>5, <2>1, <2>2 DEF CommitIteration, TypeOK
  <2>5. /\ DOMAIN iterations' = DOMAIN iterations
        /\ \A j \in DOMAIN iterations :
             /\ iterations'[j].service = iterations[j].service
             /\ iterations'[j].api_drafts = iterations[j].api_drafts
    BY <1>5, <2>3 DEF CommitIteration, TypeOK
  <2>6. Kept
    BY <1>5 DEF CommitIteration, Kept
  <2>7. \A j \in DOMAIN iterations' : DraftsFrom(j)
    BY <2>5, <2>6 DEF DraftsFrom
  <2>8. ApisFrom(s)
    BY <2>4, <2>6 DEF ApisFrom
  <2>9. \A x \in DOMAIN services \ {s} : ApisFrom(x)
    BY <2>4, <2>6 DEF ApisFrom
  <2> QED BY <2>4, <2>7, <2>8, <2>9 DEF RowsFrom
<1>6. ASSUME NEW u \in Users, NEW i \in DOMAIN iterations,
             DeleteIterationById(u, i)
      PROVE  RowsFrom
  <2>1. /\ DOMAIN iterations' \subseteq DOMAIN iterations
        /\ \A j \in DOMAIN iterations' : iterations'[j] = iterations[j]
    BY <1>6 DEF DeleteIterationById, Remove
  <2>2. Kept /\ UNCHANGED services
    BY <1>6 DEF DeleteIterationById, Kept
  <2> QED BY <2>1, <2>2, RowsSame
<1>7. ASSUME NEW u \in Users, NEW i \in DOMAIN iterations, NEW n \in Names,
             NEW m \in Methods, NEW p \in Paths,
             NEW c \in DOMAIN categories \cup {NoCategory},
             AddApi(u, i, n, m, p, c)
      PROVE  RowsFrom
  <2> DEFINE row == [name |-> n, method |-> m, path |-> p, category |-> c,
                     body |-> EmptyBody]
  <2>1. row \in ApiRow
    BY TextAssumption, BodiesAssumption DEF TypeOK, ApiRow, NoCategory
  <2>2. row.method = m /\ row.name = n /\ row.category = c
    OBVIOUS
  <2>3. NameFree(iterations[i].api_drafts, m, n)
    BY <1>7 DEF AddApi, NoClash, NameFree
  <2>4. /\ SetDrafts(i, iterations[i].api_drafts \cup {row})
        /\ CategoryUsable(c, iterations[i].service)
    BY <1>7 DEF AddApi
  <2>5. iterations[i].api_drafts \in SUBSET iterations[i].api_drafts
    OBVIOUS
  <2> HIDE DEF row
  <2> QED BY <2>1, <2>2, <2>3, <2>4, <2>5, RowsEdited
<1>8. ASSUME NEW u \in Users, NEW i \in DOMAIN iterations,
             NEW r \in iterations[i].api_drafts, NEW t \in Stamps,
             CopyApiByApiDraftId(u, i, r, t)
      PROVE  RowsFrom
  <2> DEFINE row == [r EXCEPT !.name = Copied(r.name, t),
                              !.path = Copied(r.path, t)]
  <2>1. r \in ApiRow
    BY DEF TypeOK, IterationRow
  <2>2. Copied(r.name, t) \in Text /\ Copied(r.path, t) \in Text
    BY <2>1, TextAssumption DEF ApiRow, Text, Copied
  <2>3. /\ row \in ApiRow
        /\ row.method = r.method
        /\ row.name = Copied(r.name, t)
        /\ row.category = r.category
    BY <2>1, <2>2 DEF ApiRow
  <2>4. /\ SetDrafts(i, iterations[i].api_drafts \cup {row})
        /\ NameFree(iterations[i].api_drafts, r.method, Copied(r.name, t))
    BY <1>8 DEF CopyApiByApiDraftId
  <2>5. iterations[i].api_drafts \in SUBSET iterations[i].api_drafts
    OBVIOUS
  <2> HIDE DEF row
  <2> QED BY <2>3, <2>4, <2>5, RowsEdited
<1>9. ASSUME NEW u \in Users, NEW i \in DOMAIN iterations,
             NEW r \in iterations[i].api_drafts,
             DeleteApiByApiDraftId(u, i, r)
      PROVE  RowsFrom
  <2>1. /\ DOMAIN iterations' = DOMAIN iterations
        /\ \A j \in DOMAIN iterations :
             /\ iterations'[j].service = iterations[j].service
             /\ iterations'[j].api_drafts \subseteq iterations[j].api_drafts
    BY <1>9 DEF DeleteApiByApiDraftId, SetDrafts, TypeOK, IterationRow
  <2>2. Kept /\ UNCHANGED services
    BY <1>9 DEF DeleteApiByApiDraftId, SetDrafts, Kept
  <2>3. \A j \in DOMAIN iterations' : DraftsFrom(j)
    BY <2>1, <2>2 DEF DraftsFrom
  <2>4. \A x \in DOMAIN services' : ApisFrom(x)
    BY <2>2 DEF ApisFrom
  <2> QED BY <2>3, <2>4 DEF RowsFrom
<1>10. ASSUME NEW u \in Users, NEW i \in DOMAIN iterations,
              NEW r \in iterations[i].api_drafts, NEW n \in Names,
              NEW m \in Methods, NEW p \in Paths, NEW b \in Bodies,
              UpdateApiByApiDraftId(u, i, r, n, m, p, b)
       PROVE  RowsFrom
  <2> DEFINE row == [r EXCEPT !.name = n, !.method = m, !.path = p, !.body = b]
             rows == iterations[i].api_drafts \ {r}
  <2>1. r \in ApiRow
    BY DEF TypeOK, IterationRow
  <2>2. /\ row \in ApiRow
        /\ row.method = m
        /\ row.name = n
        /\ row.category = r.category
    BY <2>1, TextAssumption DEF ApiRow
  <2>3. SetDrafts(i, rows \cup {row}) /\ NameFree(rows, m, n)
    BY <1>10 DEF UpdateApiByApiDraftId, Renamable
  <2>4. rows \in SUBSET iterations[i].api_drafts
    OBVIOUS
  <2> HIDE DEF row, rows
  <2> QED BY <2>2, <2>3, <2>4, RowsEdited
<1>11. ASSUME NEW u \in Users,
              \/ \E s \in DOMAIN services, n \in CategoryNames :
                   AddCategoryByServiceId(u, s, n)
              \/ \E c \in DOMAIN categories, n \in CategoryNames :
                   UpdateCategoryById(u, c, n)
       PROVE  RowsFrom
  <2>1. UNCHANGED <<services, iterations>>
    BY <1>11 DEF AddCategoryByServiceId, UpdateCategoryById
  <2>2. categorySeq + 1 \notin DOMAIN categories
    BY DEF TypeOK
  <2>3. Kept
    BY <1>11, <2>2 DEF AddCategoryByServiceId, UpdateCategoryById, Insert,
                       Kept, TypeOK, CategoryRow
  <2> QED BY <2>1, <2>3, RowsSame
<1>12. ASSUME NEW u \in Users, NEW c \in DOMAIN categories,
              DeleteCategoryById(u, c)
       PROVE  RowsFrom
  <2>1. /\ DOMAIN services' = DOMAIN services
        /\ \A s \in DOMAIN services :
             services'[s].apis = Uncategorise(services[s].apis, c)
    BY <1>12 DEF DeleteCategoryById, TypeOK, ServiceRow
  <2>2. /\ DOMAIN iterations' = DOMAIN iterations
        /\ \A i \in DOMAIN iterations :
             /\ iterations'[i].service = iterations[i].service
             /\ iterations'[i].api_drafts
                  = Uncategorise(iterations[i].api_drafts, c)
    BY <1>12 DEF DeleteCategoryById, TypeOK, IterationRow
  <2>3. categories' = Remove(categories, c)
    BY <1>12 DEF DeleteCategoryById
  <2> QED BY <2>1, <2>2, <2>3 DEF RowsFrom, ApisFrom, DraftsFrom
<1>13. ASSUME NEW u \in Users, NEW s \in DOMAIN services,
              NEW c \in DOMAIN categories \cup {NoCategory},
              NEW r \in services[s].apis, UpdateApiCategory(u, s, r, c)
       PROVE  RowsFrom
  <2>1. c \in Nat
    BY DEF TypeOK, NoCategory
  <2>2. /\ DOMAIN services' = DOMAIN services
        /\ services'[s].apis = Moved(services[s].apis, r, c)
        /\ \A x \in DOMAIN services \ {s} : services'[x] = services[x]
    BY <1>13 DEF UpdateApiCategory, Moved, TypeOK, ServiceRow
  <2>3. Kept /\ UNCHANGED iterations /\ CategoryUsable(c, s)
    BY <1>13 DEF UpdateApiCategory, Kept
  <2>4. ApisFrom(s)
    BY <2>1, <2>2, <2>3 DEF ApisFrom
  <2>5. \A x \in DOMAIN services \ {s} : ApisFrom(x)
    BY <2>2, <2>3 DEF ApisFrom
  <2>6. \A i \in DOMAIN iterations' : DraftsFrom(i)
    BY <2>3 DEF DraftsFrom
  <2> QED BY <2>2, <2>4, <2>5, <2>6 DEF RowsFrom
<1>14. CASE UNCHANGED vars
  <2>1. Kept /\ UNCHANGED <<services, iterations>>
    BY <1>14 DEF vars, Kept
  <2> QED BY <2>1, RowsSame
<1> QED
  BY <1>1, <1>2, <1>3, <1>4, <1>5, <1>6, <1>7, <1>8, <1>9, <1>10, <1>11,
     <1>12, <1>13, <1>14
  DEF Next, ServiceNext, IterationNext, DraftNext, CategoryNext

-----------------------------------------------------------------------------
(* Unique names *)

(* Clearing a category neither merges nor splits names.                    *)
LEMMA DistinctUncategorised ==
  ASSUME NEW rows \in SUBSET ApiRow, NEW c, NamesDistinct(rows)
  PROVE  NamesDistinct(Uncategorise(rows, c))
<1> DEFINE clear(r) == [r EXCEPT !.category = IF @ = c THEN NoCategory ELSE @]
<1>1. \A r \in rows : clear(r).method = r.method /\ clear(r).name = r.name
  BY DEF ApiRow
<1>2. Uncategorise(rows, c) = {clear(r) : r \in rows}
  BY DEF Uncategorise
<1> HIDE DEF clear
<1> QED BY <1>1, <1>2 DEF NamesDistinct

(* Neither does moving one row to another category.                        *)
LEMMA DistinctMoved ==
  ASSUME NEW rows \in SUBSET ApiRow, NEW r \in rows, NEW c \in Nat,
         NamesDistinct(rows)
  PROVE  NamesDistinct(Moved(rows, r, c))
<1> DEFINE moved == [r EXCEPT !.category = c]
<1>1. moved.method = r.method /\ moved.name = r.name
  BY DEF ApiRow
<1>2. \A x \in rows \ {r} : ~(x.method = moved.method /\ x.name = moved.name)
  BY <1>1 DEF NamesDistinct
<1>3. Moved(rows, r, c) = (rows \ {r}) \cup {moved}
  BY DEF Moved
<1> HIDE DEF moved
<1> QED BY <1>2, <1>3 DEF NamesDistinct

(* Every step keeps names unique.                                          *)
LEMMA NamesStep == TypeOK /\ NamesUnique /\ [Next]_vars => NamesUnique'
<1> SUFFICES ASSUME TypeOK, NamesUnique, [Next]_vars PROVE NamesUnique'
  OBVIOUS
<1>1. RowsFrom
  BY RowOrigins
<1>2. /\ \A s \in DOMAIN services : services[s].apis \in SUBSET ApiRow
      /\ \A i \in DOMAIN iterations : iterations[i].api_drafts \in SUBSET ApiRow
  BY DEF TypeOK, ServiceRow, IterationRow
<1>3. ASSUME NEW s \in DOMAIN services'
      PROVE  NamesDistinct(services'[s].apis)
  <2>1. ApisFrom(s)
    BY <1>1 DEF RowsFrom
  <2>2. CASE services'[s].apis = {}
    BY <2>2 DEF NamesDistinct
  <2>3. CASE s \in DOMAIN services /\ services'[s].apis = services[s].apis
    BY <2>3 DEF NamesUnique
  <2>4. CASE \E i \in DOMAIN iterations :
               services'[s].apis = iterations[i].api_drafts
    BY <2>4 DEF NamesUnique
  <2>5. CASE \E c \in DOMAIN categories :
               /\ s \in DOMAIN services
               /\ services'[s].apis = Uncategorise(services[s].apis, c)
    BY <1>2, <2>5, DistinctUncategorised DEF NamesUnique
  <2>6. CASE \E r \in services[s].apis, c \in Nat :
               /\ s \in DOMAIN services
               /\ services'[s].apis = Moved(services[s].apis, r, c)
    BY <1>2, <2>6, DistinctMoved DEF NamesUnique
  <2> QED BY <2>1, <2>2, <2>3, <2>4, <2>5, <2>6 DEF ApisFrom
<1>4. ASSUME NEW i \in DOMAIN iterations'
      PROVE  NamesDistinct(iterations'[i].api_drafts)
  <2>1. DraftsFrom(i)
    BY <1>1 DEF RowsFrom
  <2>2. CASE /\ i \in DOMAIN iterations
             /\ iterations'[i].api_drafts \subseteq iterations[i].api_drafts
    BY <2>2 DEF NamesUnique, NamesDistinct
  <2>3. CASE \E s \in DOMAIN services :
               iterations'[i].api_drafts = services[s].apis
    BY <2>3 DEF NamesUnique
  <2>4. CASE \E row \in ApiRow, rows \in SUBSET iterations[i].api_drafts :
               /\ i \in DOMAIN iterations
               /\ iterations'[i].api_drafts = rows \cup {row}
               /\ NameFree(rows, row.method, row.name)
    BY <2>4 DEF NamesUnique, NamesDistinct, NameFree
  <2>5. CASE \E c \in DOMAIN categories :
               /\ i \in DOMAIN iterations
               /\ iterations'[i].api_drafts
                    = Uncategorise(iterations[i].api_drafts, c)
    BY <1>2, <2>5, DistinctUncategorised DEF NamesUnique
  <2> QED BY <2>1, <2>2, <2>3, <2>4, <2>5 DEF DraftsFrom
<1> QED BY <1>3, <1>4 DEF NamesUnique

(* No two APIs of a service and no two drafts of an iteration ever share   *)
(* method and name, so no commit is refused by uq_api_method_name.         *)
THEOREM NamesUniqueAlways == Spec => []NamesUnique
<1>1. Init => NamesUnique
  BY DEF Init, NamesUnique
<1> QED BY <1>1, TypeCorrect, NamesStep, PTL DEF Spec

-----------------------------------------------------------------------------
(* Categories *)

\* RowsScoped for any value of the category table
ScopedIn(table, rows, s) ==
  \A r \in rows : r.category # NoCategory =>
    r.category \in DOMAIN table /\ table[r.category].service = s

(* A removed category leaves with its references.                          *)
LEMMA ScopedUncategorised ==
  ASSUME NEW table, NEW rows \in SUBSET ApiRow, NEW s, NEW c \in DOMAIN table,
         ScopedIn(table, rows, s)
  PROVE  ScopedIn(Remove(table, c), Uncategorise(rows, c), s)
<1> DEFINE clear(r) == [r EXCEPT !.category = IF @ = c THEN NoCategory ELSE @]
<1>1. \A r \in rows :
        clear(r).category = IF r.category = c THEN NoCategory ELSE r.category
  BY DEF ApiRow
<1>2. Uncategorise(rows, c) = {clear(r) : r \in rows}
  BY DEF Uncategorise
<1> HIDE DEF clear
<1>3. ASSUME NEW r \in rows, clear(r).category # NoCategory
      PROVE  /\ clear(r).category \in DOMAIN table \ {c}
             /\ table[clear(r).category].service = s
  BY <1>1, <1>3 DEF ScopedIn
<1> QED BY <1>2, <1>3 DEF ScopedIn, Remove

(* Every step keeps categories within their service.                       *)
LEMMA ScopedStep == TypeOK /\ CategoriesScoped /\ [Next]_vars => CategoriesScoped'
<1> SUFFICES ASSUME TypeOK, CategoriesScoped, [Next]_vars
             PROVE  CategoriesScoped'
  OBVIOUS
<1>1. RowsFrom
  BY RowOrigins
<1>2. /\ \A s \in DOMAIN services : services[s].apis \in SUBSET ApiRow
      /\ \A i \in DOMAIN iterations : iterations[i].api_drafts \in SUBSET ApiRow
  BY DEF TypeOK, ServiceRow, IterationRow
<1>3. /\ \A s \in DOMAIN services : ScopedIn(categories, services[s].apis, s)
      /\ \A i \in DOMAIN iterations :
           ScopedIn(categories, iterations[i].api_drafts, iterations[i].service)
  BY DEF CategoriesScoped, RowsScoped, ScopedIn
<1>4. ASSUME NEW rows, NEW s, ScopedIn(categories, rows, s), Kept
      PROVE  ScopedIn(categories', rows, s)
  BY <1>4 DEF ScopedIn, Kept
<1>5. ASSUME NEW c \in Nat, NEW s, CategoryUsable(c, s), c # NoCategory
      PROVE  c \in DOMAIN categories /\ categories[c].service = s
  BY <1>5 DEF CategoryUsable
<1>6. ASSUME NEW s \in DOMAIN services'
      PROVE  ScopedIn(categories', services'[s].apis, s)
  <2>1. ApisFrom(s)
    BY <1>1 DEF RowsFrom
  <2>2. CASE services'[s].apis = {}
    BY <2>2 DEF ScopedIn
  <2>3. CASE /\ s \in DOMAIN services
             /\ services'[s].apis = services[s].apis
             /\ Kept
    BY <1>3, <1>4, <2>3
  <2>4. CASE \E i \in DOMAIN iterations :
               /\ iterations[i].service = s
               /\ services'[s].apis = iterations[i].api_drafts
               /\ Kept
    BY <1>3, <1>4, <2>4
  <2>5. CASE \E c \in DOMAIN categories :
               /\ s \in DOMAIN services
               /\ services'[s].apis = Uncategorise(services[s].apis, c)
               /\ categories' = Remove(categories, c)
    BY <1>2, <1>3, <2>5, ScopedUncategorised
  <2>6. ASSUME NEW r \in services[s].apis, NEW c \in Nat,
               s \in DOMAIN services,
               CategoryUsable(c, s),
               services'[s].apis = Moved(services[s].apis, r, c),
               Kept
        PROVE  ScopedIn(categories', services'[s].apis, s)
    <3> DEFINE moved == [r EXCEPT !.category = c]
    <3>1. moved.category = c
      BY <1>2, <2>6 DEF ApiRow
    <3>2. services'[s].apis = (services[s].apis \ {r}) \cup {moved}
      BY <2>6 DEF Moved
    <3> HIDE DEF moved
    <3>3. ScopedIn(categories, services'[s].apis, s)
      BY <1>3, <1>5, <2>6, <3>1, <3>2 DEF ScopedIn
    <3> QED BY <1>4, <2>6, <3>3
  <2> QED BY <2>1, <2>2, <2>3, <2>4, <2>5, <2>6 DEF ApisFrom
<1>7. ASSUME NEW i \in DOMAIN iterations'
      PROVE  ScopedIn(categories', iterations'[i].api_drafts,
                      iterations'[i].service)
  <2>1. DraftsFrom(i)
    BY <1>1 DEF RowsFrom
  <2>2. CASE /\ i \in DOMAIN iterations
             /\ iterations'[i].service = iterations[i].service
             /\ iterations'[i].api_drafts \subseteq iterations[i].api_drafts
             /\ Kept
    <3>1. ScopedIn(categories, iterations'[i].api_drafts, iterations[i].service)
      BY <1>3, <2>2 DEF ScopedIn
    <3> QED BY <1>4, <2>2, <3>1
  <2>3. CASE \E s \in DOMAIN services :
               /\ iterations'[i].service = s
               /\ iterations'[i].api_drafts = services[s].apis
               /\ Kept
    BY <1>3, <1>4, <2>3
  <2>4. ASSUME NEW row \in ApiRow, NEW rows \in SUBSET iterations[i].api_drafts,
               i \in DOMAIN iterations,
               iterations'[i].service = iterations[i].service,
               iterations'[i].api_drafts = rows \cup {row},
               \/ CategoryUsable(row.category, iterations[i].service)
               \/ \E r \in iterations[i].api_drafts : r.category = row.category,
               Kept
        PROVE  ScopedIn(categories', iterations'[i].api_drafts,
                        iterations'[i].service)
    <3>1. ScopedIn(categories, {row}, iterations[i].service)
      BY <1>3, <2>4 DEF ScopedIn, CategoryUsable
    <3>2. ScopedIn(categories, rows \cup {row}, iterations[i].service)
      BY <1>3, <2>4, <3>1 DEF ScopedIn
    <3> QED BY <1>4, <2>4, <3>2
  <2>5. CASE \E c \in DOMAIN categories :
               /\ i \in DOMAIN iterations
               /\ iterations'[i].service = iterations[i].service
               /\ iterations'[i].api_drafts
                    = Uncategorise(iterations[i].api_drafts, c)
               /\ categories' = Remove(categories, c)
    BY <1>2, <1>3, <2>5, ScopedUncategorised
  <2> QED BY <2>1, <2>2, <2>3, <2>4, <2>5 DEF DraftsFrom
<1> QED BY <1>6, <1>7 DEF CategoriesScoped, RowsScoped, ScopedIn

(* An API or a draft never refers to a category that is gone or that       *)
(* belongs to another service, through copies, moves, commits and          *)
(* deletions of categories.                                                *)
THEOREM CategoriesScopedAlways == Spec => []CategoriesScoped
<1>1. Init => CategoriesScoped
  BY DEF Init, CategoriesScoped
<1> QED BY <1>1, TypeCorrect, ScopedStep, PTL DEF Spec
=============================================================================
