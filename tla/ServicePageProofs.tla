--------------------------- MODULE ServicePageProofs ---------------------------
(* Proofs about the service page, for any categories, bodies and versions and *)
(* any number of clicks, requests in flight and failures.                     *)
EXTENDS ServicePage, TLAPS, SequenceTheorems, FiniteSetTheorems, WellFoundedInduction

--------------------------------------------------------------------------------
(* Requests in flight: a sequence, of which mostly the elements matter.       *)
IsNet(s) == \E S : s \in Seq(S)
Items(s) == {s[i] : i \in DOMAIN s}

LEMMA NetFacts ==
  ASSUME NEW s, IsNet(s)
  PROVE  Len(s) \in Nat /\ DOMAIN s = 1 .. Len(s) /\ s \in Seq(Items(s))
<1>1. PICK S : s \in Seq(S)
  BY DEF IsNet
<1>2. Len(s) \in Nat /\ DOMAIN s = 1 .. Len(s) /\ s \in [1 .. Len(s) -> S]
  BY <1>1
<1>3. s \in [1 .. Len(s) -> Items(s)]
  BY <1>2 DEF Items
<1> QED BY <1>2, <1>3

LEMMA FunctionIsNet ==
  ASSUME NEW n \in Nat, NEW t, t = [i \in 1 .. n |-> t[i]]
  PROVE  IsNet(t)
<1> DEFINE T == {t[i] : i \in 1 .. n}
<1>1. \A i \in 1 .. n : t[i] \in T
  OBVIOUS
<1> HIDE DEF T
<1>2. [i \in 1 .. n |-> t[i]] \in [1 .. n -> T]
  BY <1>1
<1>3. t \in [1 .. n -> T]
  BY <1>2, Zenon
<1>4. t \in Seq(T)
  BY <1>3
<1> QED BY <1>4 DEF IsNet

LEMMA OneItem ==
  ASSUME NEW x
  PROVE  IsNet(<<x>>) /\ Items(<<x>>) = {x} /\ IsNet(<<>>) /\ Items(<<>>) = {}
<1>1. <<x>> \in Seq({x}) /\ DOMAIN <<x>> = {1} /\ <<x>>[1] = x
  OBVIOUS
<1>2. <<>> \in Seq({x}) /\ DOMAIN <<>> = {}
  OBVIOUS
<1> QED BY <1>1, <1>2 DEF IsNet, Items

LEMMA Joined ==
  ASSUME NEW s, NEW t, IsNet(s), IsNet(t)
  PROVE  /\ IsNet(s \o t) /\ Items(s \o t) = Items(s) \cup Items(t)
         /\ \A i \in DOMAIN (s \o t) :
              \/ i \in DOMAIN s /\ (s \o t)[i] = s[i]
              \/ i - Len(s) \in DOMAIN t /\ (s \o t)[i] = t[i - Len(s)]
         /\ \A i \in DOMAIN s : i \in DOMAIN (s \o t) /\ (s \o t)[i] = s[i]
         /\ \A j \in DOMAIN t : j + Len(s) \in DOMAIN (s \o t) /\ (s \o t)[j + Len(s)] = t[j]
<1> DEFINE S == Items(s) \cup Items(t)
           u == s \o t
<1>1. s \in Seq(S) /\ t \in Seq(S)
  BY NetFacts
<1> HIDE DEF S
<1>2. /\ u \in Seq(S) /\ Len(u) = Len(s) + Len(t)
      /\ \A i \in 1 .. Len(u) : u[i] = IF i <= Len(s) THEN s[i] ELSE t[i - Len(s)]
  BY <1>1, ConcatProperties
<1>3. Len(s) \in Nat /\ Len(t) \in Nat /\ DOMAIN s = 1 .. Len(s) /\ DOMAIN t = 1 .. Len(t)
      /\ DOMAIN u = 1 .. Len(u)
  BY <1>1, <1>2
<1> HIDE DEF u
<1>4. \A i \in DOMAIN u : \/ i \in DOMAIN s /\ u[i] = s[i]
                          \/ i - Len(s) \in DOMAIN t /\ u[i] = t[i - Len(s)]
  BY <1>2, <1>3
<1>5. \A i \in DOMAIN s : i \in DOMAIN u /\ u[i] = s[i]
  BY <1>2, <1>3
<1>6. ASSUME NEW j \in DOMAIN t PROVE j + Len(s) \in DOMAIN u /\ u[j + Len(s)] = t[j]
  <2>1. j + Len(s) \in 1 .. Len(u) /\ ~(j + Len(s) <= Len(s)) /\ (j + Len(s)) - Len(s) = j
    BY <1>2, <1>3
  <2> QED BY <1>2, <1>3, <2>1
<1>7. Items(u) \subseteq Items(s) \cup Items(t)
  BY <1>4 DEF Items
<1>8. Items(s) \subseteq Items(u) /\ Items(t) \subseteq Items(u)
  BY <1>5, <1>6 DEF Items
<1> QED BY <1>2, <1>4, <1>5, <1>6, <1>7, <1>8 DEF IsNet, u

(* Removing an element keeps the others and their order.                     *)
LEMMA RemoveAtFacts ==
  ASSUME NEW S, NEW s \in Seq(S), NEW i \in DOMAIN s
  PROVE  /\ RemoveAt(s, i) \in Seq(S)
         /\ Len(RemoveAt(s, i)) = Len(s) - 1
         /\ \A j \in 1 .. Len(s) - 1 :
              RemoveAt(s, i)[j] = IF j < i THEN s[j] ELSE s[j + 1]
<1> DEFINE a == SubSeq(s, 1, i - 1)
           b == SubSeq(s, i + 1, Len(s))
<1>0. i \in 1 .. Len(s) /\ Len(s) \in Nat
  BY LenProperties
<1>1. a \in Seq(S) /\ Len(a) = i - 1 /\ \A j \in 1 .. i - 1 : a[j] = s[j]
  BY <1>0
<1>2. b \in Seq(S) /\ Len(b) = Len(s) - i /\ \A j \in 1 .. Len(s) - i : b[j] = s[i + j]
  BY <1>0
<1> HIDE DEF a, b
<1>3. a \o b \in Seq(S) /\ Len(a \o b) = Len(s) - 1
  BY <1>0, <1>1, <1>2
<1>4. ASSUME NEW j \in 1 .. Len(s) - 1
      PROVE  (a \o b)[j] = IF j < i THEN s[j] ELSE s[j + 1]
  <2>1. CASE j < i
    BY <1>0, <1>1, <1>2, <2>1
  <2>2. CASE ~(j < i)
    <3>1. (a \o b)[j] = b[j - (i - 1)]
      BY <1>0, <1>1, <1>2, <2>2, SMTT(30)
    <3>2. b[j - (i - 1)] = s[i + (j - (i - 1))]
      BY <1>0, <1>2, <2>2
    <3> QED BY <1>0, <2>2, <3>1, <3>2
  <2> QED BY <2>1, <2>2
<1> QED
  BY <1>3, <1>4 DEF RemoveAt, a, b

(* Where an element was before one was removed.                               *)
Skip(i, j) == IF j < i THEN j ELSE j + 1

LEMMA RemovedIndex ==
  ASSUME NEW s, IsNet(s), NEW i \in DOMAIN s
  PROVE  /\ IsNet(RemoveAt(s, i))
         /\ \A j \in DOMAIN RemoveAt(s, i) :
              Skip(i, j) \in DOMAIN s /\ Skip(i, j) # i /\ RemoveAt(s, i)[j] = s[Skip(i, j)]
         /\ \A j, k \in DOMAIN RemoveAt(s, i) : Skip(i, j) = Skip(i, k) => j = k
         /\ \A k \in DOMAIN s \ {i} : \E j \in DOMAIN RemoveAt(s, i) : Skip(i, j) = k
<1> DEFINE S == Items(s)
           r == RemoveAt(s, i)
<1>0. Len(s) \in Nat /\ DOMAIN s = 1 .. Len(s) /\ s \in Seq(S) /\ i \in 1 .. Len(s)
  BY NetFacts
<1> HIDE DEF S
<1>1. r \in Seq(S) /\ Len(r) = Len(s) - 1
      /\ \A j \in 1 .. Len(s) - 1 : r[j] = IF j < i THEN s[j] ELSE s[j + 1]
  BY <1>0, RemoveAtFacts
<1> HIDE DEF r
<1>4. DOMAIN r = 1 .. Len(s) - 1
  BY <1>0, <1>1
<1>5. ASSUME NEW j \in DOMAIN r
      PROVE  Skip(i, j) \in DOMAIN s /\ Skip(i, j) # i /\ r[j] = s[Skip(i, j)]
  BY <1>0, <1>1, <1>4 DEF Skip
<1>6. ASSUME NEW j \in DOMAIN r, NEW k \in DOMAIN r, Skip(i, j) = Skip(i, k) PROVE j = k
  BY <1>0, <1>4, <1>6 DEF Skip
<1>7. ASSUME NEW k \in DOMAIN s \ {i} PROVE \E j \in DOMAIN r : Skip(i, j) = k
  <2>1. CASE k < i
    <3>1. k \in DOMAIN r /\ Skip(i, k) = k
      BY <1>0, <1>4, <2>1 DEF Skip
    <3> QED BY <3>1
  <2>2. CASE ~(k < i)
    <3>1. k - 1 \in DOMAIN r /\ Skip(i, k - 1) = k
      BY <1>0, <1>4, <2>2 DEF Skip
    <3> QED BY <3>1
  <2> QED BY <2>1, <2>2
<1>8. IsNet(r)
  BY <1>1 DEF IsNet
<1> QED BY <1>5, <1>6, <1>7, <1>8 DEF r

LEMMA RemovedItems ==
  ASSUME NEW s, IsNet(s), NEW i \in DOMAIN s
  PROVE  /\ IsNet(RemoveAt(s, i)) /\ Items(RemoveAt(s, i)) \subseteq Items(s)
         /\ Items(s) \subseteq Items(RemoveAt(s, i)) \cup {s[i]}
<1> DEFINE r == RemoveAt(s, i)
<1>1. /\ IsNet(r)
      /\ \A j \in DOMAIN r : Skip(i, j) \in DOMAIN s /\ r[j] = s[Skip(i, j)]
      /\ \A k \in DOMAIN s \ {i} : \E j \in DOMAIN r : Skip(i, j) = k
  BY RemovedIndex
<1> HIDE DEF r
<1>2. Items(r) \subseteq Items(s)
  BY <1>1 DEF Items
<1>3. ASSUME NEW k \in DOMAIN s PROVE s[k] \in Items(r) \cup {s[i]}
  BY <1>1 DEF Items
<1> QED BY <1>1, <1>2, <1>3 DEF Items, r

LEMMA ChangedItem ==
  ASSUME NEW s, IsNet(s), NEW i \in DOMAIN s, NEW x
  PROVE  LET t == [s EXCEPT ![i] = x]
         IN  /\ IsNet(t) /\ DOMAIN t = DOMAIN s /\ t[i] = x /\ \A j \in DOMAIN s \ {i} : t[j] = s[j]
             /\ Items(t) \subseteq Items(s) \cup {x}
             /\ x \in Items(t) /\ Items(s) \subseteq Items(t) \cup {s[i]}
<1> DEFINE t == [s EXCEPT ![i] = x]
           S == Items(s) \cup {x}
<1>1. s \in Seq(S) /\ x \in S
  BY NetFacts
<1> HIDE DEF S
<1>2. t \in Seq(S) /\ DOMAIN t = DOMAIN s /\ t[i] = x /\ \A j \in DOMAIN s \ {i} : t[j] = s[j]
  BY <1>1
<1> HIDE DEF t
<1> QED BY <1>2 DEF IsNet, Items, t

--------------------------------------------------------------------------------
(* The page is a record; the effects of an update change few of its fields.   *)
Fields ==
  {"gone", "reload", "loading", "versions", "ver", "isLatest", "shown", "apis", "cats",
   "inIteration", "iterationId", "apiDrafts", "iterationLoading", "selected", "first",
   "apiDetail", "apiLoading", "form", "isDraft", "saving"}
IsPage(p) ==
  /\ DOMAIN p = Fields
  /\ p.gone \in BOOLEAN /\ p.loading \in BOOLEAN /\ p.inIteration \in BOOLEAN
  /\ p.iterationLoading \in BOOLEAN /\ p.apiLoading \in BOOLEAN
  /\ p.isDraft \in BOOLEAN /\ p.saving \in BOOLEAN /\ p.isLatest \in BOOLEAN
Same(p, q, fields) == \A f \in fields : p[f] = q[f]

LEMMA SetField ==
  ASSUME NEW p, DOMAIN p = Fields, NEW f \in Fields, NEW v
  PROVE  LET q == [p EXCEPT ![f] = v]
         IN  DOMAIN q = Fields /\ q[f] = v /\ Same(p, q, Fields \ {f})
BY DEF Same

LEMMA FollowFirstFacts ==
  ASSUME NEW p, IsPage(p)
  PROVE  LET q == FollowFirst(p)
         IN  IsPage(q) /\ Same(p, q, Fields \ {"first", "selected"})
BY DEF FollowFirst, Follow, IsPage, Fields, Same

LEMMA StartLoadingFacts ==
  ASSUME NEW old, NEW p, IsPage(p)
  PROVE  LET q == StartLoading(old, p)
         IN  /\ IsPage(q) /\ Same(p, q, Fields \ {"loading", "iterationLoading"})
             /\ q.loading = (p.loading \/ NewVersion(old, p))
             /\ q.iterationLoading = (p.iterationLoading \/ NewIteration(old, p))
<1>1. PICK b \in BOOLEAN : b = (p.loading \/ NewVersion(old, p))
  OBVIOUS
<1>2. PICK c \in BOOLEAN : c = (p.iterationLoading \/ NewIteration(old, p))
  OBVIOUS
<1> DEFINE q == [p EXCEPT !.loading = b, !.iterationLoading = c]
<1>3. StartLoading(old, p) = q
  BY <1>1, <1>2, Zenon DEF StartLoading
<1>4. /\ IsPage(q) /\ Same(p, q, Fields \ {"loading", "iterationLoading"})
      /\ q.loading = b /\ q.iterationLoading = c
  BY DEF IsPage, Fields, Same
<1> QED BY <1>1, <1>2, <1>3, <1>4, Zenon

LEMMA LoadApiFacts ==
  ASSUME NEW old, NEW p, IsPage(p)
  PROVE  LET q == LoadApi(old, p)
         IN  /\ IsPage(q) /\ Same(p, q, Fields \ {"apiDetail", "form", "isDraft", "apiLoading"})
             /\ q.apiLoading => p.apiLoading \/ NewApi(old, p)
             /\ \/ q.apiDetail = p.apiDetail /\ q.form = p.form
                \/ q.apiDetail = NoApi /\ q.form = NoApi
BY ZenonT(60) DEF LoadApi, FillForm, NewApi, IsPage, Fields, Same

LEMMA MountEditorFacts ==
  ASSUME NEW old, NEW p, IsPage(p)
  PROVE  LET q == MountEditor(old, p)
         IN  /\ IsPage(q) /\ Same(p, q, Fields \ {"form", "isDraft", "saving"})
             /\ q.saving => p.saving /\ EditorMounted(p)
             /\ q.isDraft => EditorMounted(p)
             /\ EditorMounted(p) =>
                  q.form = p.apiDetail \/ (EditorMounted(old) /\ q.form = p.form)
             /\ ~EditorMounted(p) => q.form = NoApi
BY DEF MountEditor, FillForm, IsPage, Fields, Same

Kept == Fields \ {"loading", "iterationLoading", "first", "selected", "apiDetail", "form",
                  "isDraft", "apiLoading", "saving"}
LEMMA EffectsFacts ==
  ASSUME NEW old, NEW new, IsPage(new)
  PROVE  LET p == Effects(old, new)
         IN  /\ IsPage(p) /\ Same(new, p, Kept)
             /\ p.loading = (new.loading \/ NewVersion(old, new))
             /\ p.iterationLoading = (new.iterationLoading \/ NewIteration(old, new))
             /\ p.apiLoading => new.apiLoading \/ NewApi(old, p)
             /\ p.saving => new.saving /\ EditorMounted(p)
             /\ p.isDraft => EditorMounted(p)
             /\ EditorMounted(p) => EditorMounted(new)
             /\ p.apiDetail \in {new.apiDetail, NoApi}
             /\ p.form \in {new.form, new.apiDetail, NoApi}
             /\ EditorMounted(p) =>
                  \/ p.form = p.apiDetail
                  \/ EditorMounted(old) /\ p.form = new.form /\ p.apiDetail = new.apiDetail
<1> DEFINE a == StartLoading(old, new)
           b == FollowFirst(a)
           c == LoadApi(old, b)
           p == MountEditor(old, c)
<1>1. /\ IsPage(a) /\ Same(new, a, Fields \ {"loading", "iterationLoading"})
      /\ a.loading = (new.loading \/ NewVersion(old, new))
      /\ a.iterationLoading = (new.iterationLoading \/ NewIteration(old, new))
  BY StartLoadingFacts
<1> HIDE DEF a
<1>2. IsPage(b) /\ Same(a, b, Fields \ {"first", "selected"})
  BY <1>1, FollowFirstFacts
<1> HIDE DEF b
<1>3. /\ IsPage(c) /\ Same(b, c, Fields \ {"apiDetail", "form", "isDraft", "apiLoading"})
      /\ c.apiLoading => b.apiLoading \/ NewApi(old, b)
      /\ \/ c.apiDetail = b.apiDetail /\ c.form = b.form
         \/ c.apiDetail = NoApi /\ c.form = NoApi
  BY <1>2, LoadApiFacts
<1> HIDE DEF c
<1>4. /\ IsPage(p) /\ Same(c, p, Fields \ {"form", "isDraft", "saving"})
      /\ p.saving => c.saving /\ EditorMounted(c)
      /\ p.isDraft => EditorMounted(c)
      /\ EditorMounted(c) => p.form = c.apiDetail \/ (EditorMounted(old) /\ p.form = c.form)
      /\ ~EditorMounted(c) => p.form = NoApi
  BY <1>3, MountEditorFacts
<1> HIDE DEF p
<1>5. Same(new, p, Kept)
  BY <1>1, <1>2, <1>3, <1>4 DEF Same, Kept, Fields
<1>6. /\ p.loading = a.loading /\ p.iterationLoading = a.iterationLoading
      /\ p.selected = b.selected /\ p.apiLoading = c.apiLoading /\ b.apiLoading = new.apiLoading
      /\ c.saving = new.saving /\ p.apiDetail = c.apiDetail
      /\ b.apiDetail = new.apiDetail /\ b.form = new.form
      /\ c.gone = p.gone /\ c.loading = p.loading /\ c.shown = p.shown /\ c.inIteration = p.inIteration
      /\ new.gone = p.gone /\ new.shown = p.shown /\ new.inIteration = p.inIteration
  BY <1>1, <1>2, <1>3, <1>4, <1>5 DEF Same, Kept, Fields
<1>7. EditorMounted(c) <=> EditorMounted(p)
  BY <1>6 DEF EditorMounted, Visible, isLoading
<1>8. EditorMounted(p) => EditorMounted(new)
  BY <1>1, <1>6, Zenon DEF EditorMounted, Visible, isLoading
<1>9. p.apiLoading => new.apiLoading \/ NewApi(old, p)
  BY <1>3, <1>6 DEF NewApi
<1>10. /\ p.loading = (new.loading \/ NewVersion(old, new))
       /\ p.iterationLoading = (new.iterationLoading \/ NewIteration(old, new))
  BY <1>1, <1>6, Zenon
<1>11. EditorMounted(p) =>
         \/ p.form = p.apiDetail
         \/ EditorMounted(old) /\ p.form = new.form /\ p.apiDetail = new.apiDetail
  BY <1>3, <1>4, <1>6, <1>7
<1>12. p.apiDetail \in {new.apiDetail, NoApi} /\ p.form \in {new.form, new.apiDetail, NoApi}
  BY <1>3, <1>4, <1>6
<1>13. p.saving => new.saving /\ EditorMounted(p)
  BY <1>4, <1>6, <1>7
<1>14. p.isDraft => EditorMounted(p)
  BY <1>4, <1>7
<1>15. Effects(old, new) = p
  BY DEF Effects, a, b, c, p
<1> QED
  BY <1>4, <1>5, <1>8, <1>9, <1>10, <1>11, <1>12, <1>13, <1>14, <1>15, Zenon

--------------------------------------------------------------------------------
(* The server's rows: the latest version is one of the history, and what was  *)
(* published under a version stays known.                                     *)
Positive == Nat \ {0}
DbFields == {"latest", "api", "cats", "deleted", "hist", "open", "drafts", "nextApi", "nextIt",
             "nextDraft"}
Known(d, v, ids) == \E j \in DOMAIN d.hist : d.hist[j].ver = v /\ ids \subseteq d.hist[j].apis
Grows(d, e) == \A v, ids : Known(d, v, ids) => Known(e, v, ids)
IsHistory(h) ==
  /\ IsNet(h)
  /\ \A j \in DOMAIN h : DOMAIN h[j] = {"ver", "rows", "apis"} /\ h[j].ver \in Positive
DbInv(d) ==
  /\ DOMAIN d = DbFields
  /\ d.latest \in Positive
  /\ IsHistory(d.hist)
  /\ Known(d, d.latest, DOMAIN d.api)

LEMMA HistoryKept ==
  ASSUME NEW d, DbInv(d), NEW e, DOMAIN e = DbFields, e.latest = d.latest, e.hist = d.hist,
         DOMAIN e.api = DOMAIN d.api
  PROVE  DbInv(e) /\ Grows(d, e)
BY DEF DbInv, Known, Grows

LEMMA PublishFacts ==
  ASSUME NEW d, DbInv(d), NEW v \in Positive, NEW rows
  PROVE  DbInv(Publish(d, v, rows)) /\ Grows(d, Publish(d, v, rows))
<1> DEFINE apis == Renumbered(rows, d.nextApi)
           last == [ver |-> v, rows |-> rows, apis |-> DOMAIN apis]
           h == d.hist
           g == Append(h, last)
           e == Publish(d, v, rows)
<1>1. DOMAIN e = DbFields /\ e.latest = v /\ e.hist = g /\ e.api = apis
  BY DEF Publish, DbInv, DbFields
<1>2. h \in Seq(Items(h)) /\ DOMAIN h = 1 .. Len(h) /\ Len(h) \in Nat
  BY NetFacts DEF DbInv, IsHistory
<1>3. DOMAIN last = {"ver", "rows", "apis"} /\ last.ver = v /\ last.apis = DOMAIN apis
  OBVIOUS
<1> HIDE DEF apis, last, h, e
<1>4. /\ g \in Seq(Items(h) \cup {last}) /\ DOMAIN g = 1 .. Len(h) + 1 /\ g[Len(h) + 1] = last
      /\ \A j \in DOMAIN h : j \in DOMAIN g /\ g[j] = h[j]
  <2>1. h \in Seq(Items(h) \cup {last}) /\ last \in Items(h) \cup {last}
    BY <1>2
  <2> QED BY <1>2, <2>1
<1>5. \A j \in DOMAIN g : j \in DOMAIN h \/ j = Len(h) + 1
  BY <1>2, <1>4
<1> HIDE DEF g
<1>6. IsNet(g)
  BY <1>4 DEF IsNet
<1>7. IsHistory(g)
  BY <1>3, <1>4, <1>5, <1>6 DEF IsHistory, DbInv, h
<1>8. Len(h) + 1 \in DOMAIN g
  BY <1>2, <1>4
<1>9. Known(e, v, DOMAIN apis)
  BY <1>1, <1>3, <1>4, <1>8 DEF Known
<1>10. Grows(d, e)
  BY <1>1, <1>4 DEF Grows, Known, h
<1> QED BY <1>1, <1>7, <1>9, <1>10 DEF DbInv, e

LEMMA CategoryDeletedFacts ==
  ASSUME NEW d, DbInv(d), NEW c
  PROVE  DbInv(CategoryDeleted(d, c)) /\ Grows(d, CategoryDeleted(d, c))
<1> DEFINE freed(rows) == [i \in DOMAIN rows |->
             IF rows[i].cat = c THEN [rows[i] EXCEPT !.cat = 0] ELSE rows[i]]
           h == d.hist
           g == [i \in DOMAIN h |-> [h[i] EXCEPT !.rows = freed(h[i].rows)]]
           e == [d EXCEPT !.cats = @ \ {c}, !.api = freed(@), !.drafts = freed(@),
                          !.hist = [i \in DOMAIN d.hist |-> [d.hist[i] EXCEPT !.rows = freed(d.hist[i].rows)]]]
<1>1. CASE c \notin d.cats
  BY <1>1, HistoryKept DEF CategoryDeleted, DbInv
<1>2. CASE c \in d.cats
  <2>1. CategoryDeleted(d, c) = e
    BY <1>2, Zenon DEF CategoryDeleted
  <2>2. DOMAIN freed(d.api) = DOMAIN d.api
    OBVIOUS
  <2>3. \A i \in DOMAIN h : DOMAIN h[i] = {"ver", "rows", "apis"} /\ h[i].ver \in Positive
    BY DEF DbInv, IsHistory
  <2>4. DOMAIN g = DOMAIN h /\ \A i \in DOMAIN h : g[i] = [h[i] EXCEPT !.rows = freed(h[i].rows)]
    OBVIOUS
  <2>5. h \in Seq(Items(h)) /\ DOMAIN h = 1 .. Len(h) /\ Len(h) \in Nat
    BY NetFacts DEF DbInv, IsHistory
  <2>12. DOMAIN e = DbFields /\ e.latest = d.latest /\ e.hist = g /\ e.api = freed(d.api)
    BY DEF DbInv, DbFields
  <2> HIDE DEF e, freed, h
  <2>6. g \in Seq(Items(g))
    BY <2>4, <2>5 DEF Items
  <2>7. \A i \in DOMAIN h : DOMAIN g[i] = {"ver", "rows", "apis"} /\ g[i].ver = h[i].ver /\ g[i].apis = h[i].apis
    BY <2>3, <2>4
  <2> HIDE DEF g
  <2>9. IsHistory(g)
    BY <2>3, <2>4, <2>6, <2>7 DEF IsHistory, IsNet
  <2>10. Grows(d, e)
    BY <2>4, <2>7, <2>12 DEF Grows, Known, h
  <2>11. Known(e, e.latest, DOMAIN e.api)
    BY <2>2, <2>12, <2>10 DEF DbInv, Grows
  <2> QED BY <2>1, <2>9, <2>10, <2>11, <2>12 DEF DbInv
<1> QED BY <1>1, <1>2

LEMMA WritesFacts ==
  ASSUME NEW d, DbInv(d), NEW x, x.kind \in Kinds, x.kind = "commit" => x.arg.ver \in Positive
  PROVE  DbInv(Writes(d, x)) /\ Grows(d, Writes(d, x))
<1> DEFINE a == x.arg
<1>0. DbInv(d) /\ Grows(d, d)
  BY DEF Grows
<1>1. DbInv(Started(d)) /\ Grows(d, Started(d))
  <2>1. CASE d.open # 0
    BY <1>0, <2>1 DEF Started
  <2>2. CASE d.open = 0
    <3> DEFINE e == Started(d)
    <3>1. DOMAIN e = DbFields /\ e.latest = d.latest /\ e.hist = d.hist /\ e.api = d.api
      BY <2>2 DEF Started, DbInv, DbFields
    <3> HIDE DEF e
    <3> QED BY <3>1, HistoryKept DEF e
  <2> QED BY <2>1, <2>2
<1>2. ASSUME x.kind = "commit" PROVE DbInv(Committed(d, a)) /\ Grows(d, Committed(d, a))
  <2> DEFINE p == Publish(d, a.ver, d.drafts)
             e == [p EXCEPT !.open = 0, !.drafts = NoRows]
  <2>1. DbInv(p) /\ Grows(d, p)
    BY <1>2, PublishFacts
  <2> HIDE DEF p
  <2>2. DOMAIN e = DbFields /\ e.latest = p.latest /\ e.hist = p.hist /\ e.api = p.api
    BY <2>1 DEF DbInv, DbFields
  <2> HIDE DEF e
  <2>3. DbInv(e) /\ Grows(p, e)
    BY <2>1, <2>2, HistoryKept
  <2>4. DbInv(e) /\ Grows(d, e)
    BY <2>1, <2>3 DEF Grows
  <2>5. Committed(d, a) = e \/ Committed(d, a) = d
    BY DEF Committed, e, p
  <2> QED BY <1>0, <2>4, <2>5
<1>3. ASSUME NEW rows, NEW next
      PROVE  LET e == [d EXCEPT !.drafts = rows, !.nextDraft = next] IN DbInv(e) /\ Grows(d, e)
  <2> DEFINE e == [d EXCEPT !.drafts = rows, !.nextDraft = next]
  <2>1. DOMAIN e = DbFields /\ e.latest = d.latest /\ e.hist = d.hist /\ e.api = d.api
    BY DEF DbInv, DbFields
  <2> HIDE DEF e
  <2> QED BY <2>1, HistoryKept DEF e
<1>4. ASSUME NEW row PROVE DbInv(NewDraft(d, row)) /\ Grows(d, NewDraft(d, row))
  BY <1>3, Zenon DEF NewDraft
<1>5. DbInv(Added(d, a)) /\ Grows(d, Added(d, a))
  BY <1>0, <1>4, Zenon DEF Added
<1>6. DbInv(Copied(d, a)) /\ Grows(d, Copied(d, a))
  BY <1>0, <1>4, Zenon DEF Copied
<1>7. ASSUME NEW rows
      PROVE  LET e == [d EXCEPT !.drafts = rows] IN DbInv(e) /\ Grows(d, e)
  <2> DEFINE e == [d EXCEPT !.drafts = rows]
  <2>1. DOMAIN e = DbFields /\ e.latest = d.latest /\ e.hist = d.hist /\ e.api = d.api
    BY DEF DbInv, DbFields
  <2> HIDE DEF e
  <2> QED BY <2>1, HistoryKept DEF e
<1>8. DbInv(Deleted(d, a)) /\ Grows(d, Deleted(d, a))
  BY <1>0, <1>7, Zenon DEF Deleted
<1>9. DbInv(Saved(d, a)) /\ Grows(d, Saved(d, a))
  BY <1>0, <1>7, Zenon DEF Saved
<1>10. DbInv(Moved(d, a)) /\ Grows(d, Moved(d, a))
  <2>1. CASE Moved(d, a) = d
    BY <1>0, <2>1
  <2>2. CASE Moved(d, a) # d
    <3> DEFINE e == [d EXCEPT !.api = [d.api EXCEPT ![a.id] = [d.api[a.id] EXCEPT !.cat = a.cat]]]
    <3>1. Moved(d, a) = e
      BY <2>2 DEF Moved
    <3>2. DOMAIN e = DbFields /\ e.latest = d.latest /\ e.hist = d.hist /\ DOMAIN e.api = DOMAIN d.api
      BY DEF DbInv, DbFields
    <3> HIDE DEF e
    <3> QED BY <3>1, <3>2, HistoryKept
  <2> QED BY <2>1, <2>2
<1>11. DbInv(CategoryAdded(d)) /\ Grows(d, CategoryAdded(d))
  <2>1. ASSUME NEW c PROVE LET e == [d EXCEPT !.cats = c] IN DbInv(e) /\ Grows(d, e)
    <3> DEFINE e == [d EXCEPT !.cats = c]
    <3>1. DOMAIN e = DbFields /\ e.latest = d.latest /\ e.hist = d.hist /\ e.api = d.api
      BY DEF DbInv, DbFields
    <3> HIDE DEF e
    <3> QED BY <3>1, HistoryKept DEF e
  <2> QED BY <1>0, <2>1, Zenon DEF CategoryAdded
<1>12. DbInv(CategoryDeleted(d, a)) /\ Grows(d, CategoryDeleted(d, a))
  BY CategoryDeletedFacts
<1>13. /\ x.kind = "start" => Writes(d, x) = Started(d)
       /\ x.kind = "commit" => Writes(d, x) = Committed(d, a)
       /\ x.kind = "add" => Writes(d, x) = Added(d, a)
       /\ x.kind = "copy" => Writes(d, x) = Copied(d, a)
       /\ x.kind = "delete" => Writes(d, x) = Deleted(d, a)
  BY DEF Writes
<1>14. /\ x.kind = "save" => Writes(d, x) = Saved(d, a)
       /\ x.kind = "move" => Writes(d, x) = Moved(d, a)
       /\ x.kind = "addCat" => Writes(d, x) = CategoryAdded(d)
       /\ x.kind = "delCat" => Writes(d, x) = CategoryDeleted(d, a)
       /\ x.kind \in {"versions", "detail", "api", "iteration"} => Writes(d, x) = d
  BY DEF Writes
<1> HIDE DEF a
<1> QED
  BY <1>0, <1>1, <1>2, <1>5, <1>6, <1>8, <1>9, <1>10, <1>11, <1>12, <1>13, <1>14
  DEF Kinds

--------------------------------------------------------------------------------
(* Requests and their answers.                                                *)
Statuses == {"ok", "refused", "thrown"}
Shape(x) ==
  /\ DOMAIN x = {"kind", "arg", "ans", "live"} /\ x.kind \in Kinds /\ x.live \in BOOLEAN
  /\ x.kind = "save" => DOMAIN x.arg = {"it", "id", "from", "then"} /\ x.arg.id = x.arg.from.id
  /\ x.kind = "iteration" => DOMAIN x.arg = {"it", "then"}
  /\ x.kind = "commit" => x.arg.ver \in Positive
  /\ x.kind = "detail" => x.arg \in Positive
AnswerShape(kind, ans) ==
  /\ ans.status \in Statuses
  /\ ans.status = "ok" =>
       /\ kind = "api" => "id" \in DOMAIN ans.value
       /\ kind = "versions" => ans.value.versions \subseteq Positive /\ ans.value.ver \in Positive
       /\ kind = "detail" => ans.value.latest \in BOOLEAN

(* A move names what was published; a detail that says latest shows it.       *)
Told(d, x) ==
  /\ x.kind = "move" => Known(d, x.arg.shown, {x.arg.id})
  /\ x.kind = "detail" /\ x.ans # None /\ x.ans.status = "ok" /\ x.ans.value.latest =>
       Known(d, x.arg, DOMAIN x.ans.value.rows)
Request(d, x) == Shape(x) /\ (x.ans # None => AnswerShape(x.kind, x.ans)) /\ Told(d, x)

LEMMA AskFacts ==
  ASSUME NEW k, NEW a
  PROVE  LET x == Ask(k, a)
         IN  /\ DOMAIN x = {"kind", "arg", "ans", "live"} /\ x.kind = k /\ x.arg = a
             /\ x.ans = None /\ x.live \in BOOLEAN /\ x.live
BY DEF Ask

LEMMA AskedRequest ==
  ASSUME NEW d, NEW k \in Kinds, NEW a, Shape(Ask(k, a)), k # "move"
  PROVE  Request(d, Ask(k, a))
<1> DEFINE x == Ask(k, a)
<1>1. x.kind = k /\ x.ans = None
  BY AskFacts
<1> HIDE DEF x
<1> QED BY <1>1 DEF Request, Told, x

LEMMA ToldGrows ==
  ASSUME NEW d, NEW e, Grows(d, e), NEW x, Request(d, x)
  PROVE  Request(e, x)
BY DEF Request, Told, Grows

LEMMA AnswerFacts ==
  ASSUME NEW d, DbInv(d), NEW x, Request(d, x)
  PROVE  LET ans == Answer(d, x)
         IN  /\ ans.status \in {"ok", "refused"} /\ AnswerShape(x.kind, ans)
             /\ x.kind = "detail" /\ ans.status = "ok" /\ ans.value.latest =>
                  Known(d, x.arg, DOMAIN ans.value.rows)
<1> DEFINE after == Writes(d, x)
           ans == Answer(d, x)
<1>0. /\ \A v : Ok(v).status = "ok" /\ Ok(v).value = v
      /\ Refused.status = "refused"
  BY DEF Ok, Refused
<1>1. CASE x.kind = "versions"
  <2>1. ans = AnswerVersions(d)
    BY <1>1 DEF Answer
  <2>2. VersionsOf(d) \subseteq Positive /\ d.latest \in Positive
    BY DEF VersionsOf, DbInv, IsHistory
  <2> DEFINE v == [versions |-> VersionsOf(d), ver |-> d.latest]
  <2>3. v.versions = VersionsOf(d) /\ v.ver = d.latest
    OBVIOUS
  <2>4. ans = Refused \/ ans = Ok(v)
    BY <2>1 DEF AnswerVersions
  <2> HIDE DEF v, ans
  <2> QED BY <1>0, <1>1, <2>2, <2>3, <2>4 DEF AnswerShape, ans, Statuses
<1>2. CASE x.kind = "detail"
  <2>1. ans = AnswerDetail(d, x.arg)
    BY <1>2 DEF Answer
  <2> DEFINE v == [latest |-> TRUE, rows |-> d.api, cats |-> d.cats]
             w == [latest |-> FALSE, rows |-> d.hist[IterationOf(d, x.arg)].rows, cats |-> None]
  <2>2. v.latest = TRUE /\ v.rows = d.api /\ w.latest = FALSE
    OBVIOUS
  <2>3. ans = Refused \/ (x.arg = d.latest /\ ans = Ok(v)) \/ ans = Ok(w)
    BY <2>1 DEF AnswerDetail
  <2>4. Known(d, d.latest, DOMAIN d.api)
    BY DEF DbInv
  <2> HIDE DEF v, w, ans
  <2> QED BY <1>0, <1>2, <2>2, <2>3, <2>4 DEF AnswerShape, ans, Statuses
<1>3. CASE x.kind = "iteration"
  <2>1. ans = AnswerIteration(d, x.arg.it)
    BY <1>3 DEF Answer
  <2>2. ans = Refused \/ ans = Ok(d.drafts)
    BY <2>1 DEF AnswerIteration
  <2> HIDE DEF ans
  <2> QED BY <1>0, <1>3, <2>2 DEF AnswerShape, ans, Statuses
<1>4. CASE x.kind = "api"
  <2>1. ans = AnswerApi(d, x.arg)
    BY <1>4 DEF Answer
  <2> DEFINE found == ApiOf(d, x.arg.id, x.arg.latest)
             v == [kind |-> IF x.arg.latest THEN "api" ELSE "draft", id |-> x.arg.id,
                   body |-> (CHOOSE row \in found : TRUE).body]
  <2>2. ans = Refused \/ ans = Ok(v)
    BY <2>1, Zenon DEF AnswerApi
  <2>3. "id" \in DOMAIN v
    OBVIOUS
  <2> HIDE DEF ans, v
  <2> QED BY <1>0, <1>4, <2>2, <2>3 DEF AnswerShape, ans, Statuses
<1>5. CASE x.kind \notin {"versions", "detail", "iteration", "api"}
  <2>1. ans = Refused \/ \E v : ans = Ok(v)
    BY <1>5 DEF Answer, Request, Shape, Kinds
  <2> HIDE DEF ans
  <2> QED BY <1>0, <1>5, <2>1 DEF AnswerShape, ans, Statuses
<1> QED BY <1>1, <1>2, <1>3, <1>4, <1>5

--------------------------------------------------------------------------------
(* Requests for the page itself, and what the spinners wait for.              *)
Main(x) == x.live /\ x.kind \in {"versions", "detail"}
Single(s) == \A j, k \in DOMAIN s : Main(s[j]) /\ Main(s[k]) => j = k
NoMain(R) == \A x \in R : ~Main(x)
Expects(R, kinds) == \E x \in R : x.live /\ x.kind \in kinds
Saving(R) == \E x \in R : x.live /\ x.kind \in {"save", "iteration"} /\ x.arg.then = "saved"

LEMMA SingleJoined ==
  ASSUME NEW s, NEW t, IsNet(s), IsNet(t),
         \/ Single(s) /\ NoMain(Items(t))
         \/ NoMain(Items(s)) /\ Single(t)
  PROVE  Single(s \o t)
<1> DEFINE u == s \o t
<1>1. \A i \in DOMAIN u : \/ i \in DOMAIN s /\ u[i] = s[i]
                          \/ i - Len(s) \in DOMAIN t /\ u[i] = t[i - Len(s)]
  BY Joined, ZenonT(60)
<1>2. IsNet(u) /\ Len(s) \in Nat /\ DOMAIN u \subseteq Nat
  BY Joined, NetFacts
<1> HIDE DEF u
<1>3. ASSUME NEW j \in DOMAIN u, NEW k \in DOMAIN u, Main(u[j]), Main(u[k]) PROVE j = k
  <2>1. j \in Nat /\ k \in Nat
    BY <1>2
  <2>2. CASE Single(s) /\ NoMain(Items(t))
    BY <1>1, <1>3, <2>2 DEF Single, NoMain, Items
  <2>3. CASE NoMain(Items(s)) /\ Single(t)
    <3>1. j - Len(s) \in DOMAIN t /\ Main(t[j - Len(s)]) /\ k - Len(s) \in DOMAIN t /\ Main(t[k - Len(s)])
      BY <1>1, <1>3, <2>3 DEF NoMain, Items
    <3>2. j - Len(s) = k - Len(s)
      BY <2>3, <3>1 DEF Single
    <3> QED BY <1>2, <2>1, <3>2
  <2> QED BY <2>2, <2>3
<1> QED BY <1>3 DEF Single, u

LEMMA SingleRemoved ==
  ASSUME NEW s, IsNet(s), Single(s), NEW i \in DOMAIN s
  PROVE  Single(RemoveAt(s, i)) /\ (Main(s[i]) => NoMain(Items(RemoveAt(s, i))))
<1> DEFINE r == RemoveAt(s, i)
<1>1. /\ \A j \in DOMAIN r : Skip(i, j) \in DOMAIN s /\ Skip(i, j) # i /\ r[j] = s[Skip(i, j)]
      /\ \A j, k \in DOMAIN r : Skip(i, j) = Skip(i, k) => j = k
  BY RemovedIndex
<1> HIDE DEF r
<1>2. Single(r)
  BY <1>1 DEF Single
<1>3. ASSUME Main(s[i]), NEW j \in DOMAIN r PROVE ~Main(r[j])
  BY <1>1, <1>3 DEF Single
<1> QED BY <1>2, <1>3 DEF NoMain, Items, r

LEMMA ForgetFacts ==
  ASSUME NEW d, NEW s, IsNet(s), \A x \in Items(s) : Request(d, x)
  PROVE  LET t == Forget(s)
         IN  /\ IsNet(t) /\ DOMAIN t = DOMAIN s
             /\ \A x \in Items(t) : Request(d, x)
             /\ \A i \in DOMAIN s :
                  /\ t[i].kind = s[i].kind /\ t[i].live = s[i].live /\ t[i].ans = s[i].ans
                  /\ s[i].kind \notin {"save", "iteration"} => t[i] = s[i]
                  /\ t[i].arg.it = s[i].arg.it
                  /\ s[i].kind = "save" => t[i].arg.from = s[i].arg.from
<1> DEFINE t == Forget(s)
<1>1. DOMAIN t = DOMAIN s /\ \A i \in DOMAIN s : t[i] =
        IF s[i].kind = "iteration" THEN [s[i] EXCEPT !.arg.then = ""]
        ELSE IF s[i].kind = "save" THEN [s[i] EXCEPT !.arg.then = ""] ELSE s[i]
  BY DEF Forget
<1>2. s \in Seq(Items(s)) /\ DOMAIN s = 1 .. Len(s) /\ Len(s) \in Nat
  BY NetFacts
<1>5. t = [i \in 1 .. Len(s) |-> t[i]]
  BY <1>2 DEF Forget
<1> HIDE DEF t
<1>3. IsNet(t)
  BY <1>2, <1>5, FunctionIsNet
<1>4. ASSUME NEW i \in DOMAIN s
      PROVE  /\ t[i].kind = s[i].kind /\ t[i].live = s[i].live /\ t[i].ans = s[i].ans
             /\ s[i].kind \notin {"save", "iteration"} => t[i] = s[i]
             /\ Request(d, t[i]) /\ t[i].arg.it = s[i].arg.it
             /\ s[i].kind = "save" => t[i].arg.from = s[i].arg.from
  <2> DEFINE x == s[i]
             a == [x.arg EXCEPT !.then = ""]
             y == [x EXCEPT !.arg = a]
  <2>1. Request(d, x) /\ Shape(x)
    BY DEF Items, Request
  <2>2. x.kind \notin {"save", "iteration"} => t[i] = x
    BY <1>1
  <2>3. x.kind \in {"save", "iteration"} => t[i] = y
    BY <1>1, Zenon
  <2>4. /\ y.kind = x.kind /\ y.live = x.live /\ y.ans = x.ans /\ y.arg = a
        /\ DOMAIN y = {"kind", "arg", "ans", "live"}
    BY <2>1 DEF Shape
  <2>5. x.kind = "save" => DOMAIN a = {"it", "id", "from", "then"} /\ a.id = x.arg.id /\ a.from = x.arg.from
                             /\ a.it = x.arg.it
    BY <2>1 DEF Shape
  <2>6. x.kind = "iteration" => DOMAIN a = {"it", "then"} /\ a.it = x.arg.it
    BY <2>1 DEF Shape
  <2> HIDE DEF x, y, a
  <2>7. x.kind \in {"save", "iteration"} => Request(d, y)
    BY <2>1, <2>4, <2>5, <2>6 DEF Request, Shape, Told
  <2> QED BY <2>1, <2>2, <2>3, <2>4, <2>5, <2>6, <2>7 DEF x
<1> QED BY <1>1, <1>3, <1>4 DEF Items, t

(* What the effects of an update ask for.                                     *)
LEMMA AskedFacts ==
  ASSUME NEW d, NEW old, NEW p, p.ver \in Nat
  PROVE  LET s == Asked(old, p)
         IN  /\ IsNet(s) /\ \A x \in Items(s) : Request(d, x) /\ x.live /\ x.ans = None
             /\ NewVersion(old, p) => Expects(Items(s), {"detail"})
             /\ ~NewVersion(old, p) => NoMain(Items(s))
             /\ NewIteration(old, p) => Expects(Items(s), {"iteration"})
             /\ NewApi(old, p) => Expects(Items(s), {"api"})
             /\ Single(s)
             /\ \A x \in Items(s) : /\ x.kind = "detail" => x.arg = p.ver
                                    /\ x.kind \in {"detail", "iteration", "api"}
                                    /\ x.kind = "iteration" =>
                                         NewIteration(old, p) /\ x.arg.it = p.iterationId
<1> DEFINE detail == Ask("detail", p.ver)
           iteration == AskIteration(p.iterationId, "")
           api == AskApi(p)
           a == IF NewVersion(old, p) THEN <<detail>> ELSE <<>>
           b == IF NewIteration(old, p) THEN <<iteration>> ELSE <<>>
           c == IF NewApi(old, p) THEN <<api>> ELSE <<>>
<1>1. /\ detail.kind = "detail" /\ detail.arg = p.ver /\ detail.live /\ detail.ans = None
      /\ iteration.kind = "iteration" /\ iteration.live /\ iteration.ans = None
      /\ iteration.arg.it = p.iterationId
      /\ api.kind = "api" /\ api.live /\ api.ans = None
  BY DEF Ask, AskIteration, AskApi
<1>2. p.ver # 0 => Shape(detail)
  BY DEF Shape, Ask, Positive, Kinds
<1>3. Shape(iteration) /\ Shape(api)
  BY DEF Shape, Ask, AskIteration, AskApi, Kinds
<1> HIDE DEF detail, iteration, api
<1>4. /\ p.ver # 0 => Request(d, detail)
      /\ Request(d, iteration) /\ Request(d, api)
  BY <1>1, <1>2, <1>3 DEF Request, Told
<1>5. /\ IsNet(a) /\ (NewVersion(old, p) => Items(a) = {detail} /\ p.ver # 0)
      /\ (~NewVersion(old, p) => Items(a) = {})
  BY OneItem DEF NewVersion
<1>6. IsNet(b) /\ (NewIteration(old, p) => Items(b) = {iteration}) /\ (~NewIteration(old, p) => Items(b) = {})
  BY OneItem
<1>7. IsNet(c) /\ (NewApi(old, p) => Items(c) = {api}) /\ (~NewApi(old, p) => Items(c) = {})
  BY OneItem
<1>8. Single(a)
  <2>1. CASE NewVersion(old, p)
    <3>1. a = <<detail>>
      BY <2>1
    <3>2. DOMAIN <<detail>> = {1}
      OBVIOUS
    <3> QED BY <3>1, <3>2 DEF Single
  <2>2. CASE ~NewVersion(old, p)
    <3>1. Items(a) = {}
      BY <1>5, <2>2
    <3> QED BY <3>1 DEF Single, Items
  <2> QED BY <2>1, <2>2
<1> HIDE DEF a, b, c
<1> DEFINE ab == a \o b
           s == ab \o c
<1>9. IsNet(ab) /\ Items(ab) = Items(a) \cup Items(b)
  BY <1>5, <1>6, Joined
<1>10. NoMain(Items(b)) /\ NoMain(Items(c))
  BY <1>1, <1>6, <1>7 DEF NoMain, Main
<1>11. Single(ab)
  BY <1>5, <1>6, <1>8, <1>10, SingleJoined
<1> HIDE DEF ab
<1>12. IsNet(s) /\ Items(s) = Items(ab) \cup Items(c)
  BY <1>9, <1>7, Joined
<1>13. Single(s)
  BY <1>9, <1>7, <1>11, <1>10, SingleJoined
<1>14. s = Asked(old, p)
  BY DEF s, ab, a, b, c, detail, iteration, api, Asked
<1> HIDE DEF s
<1>15. \A x \in Items(s) : \/ NewVersion(old, p) /\ x = detail /\ p.ver # 0
                           \/ NewIteration(old, p) /\ x = iteration
                           \/ x = api
  BY <1>5, <1>6, <1>7, <1>9, <1>12
<1>16. /\ NewVersion(old, p) => detail \in Items(s)
       /\ NewIteration(old, p) => iteration \in Items(s)
       /\ NewApi(old, p) => api \in Items(s)
  BY <1>5, <1>6, <1>7, <1>9, <1>12
<1>17. \A x \in Items(s) : Request(d, x) /\ x.live /\ x.ans = None
  BY <1>1, <1>4, <1>15
<1>18. /\ NewVersion(old, p) => Expects(Items(s), {"detail"})
       /\ NewIteration(old, p) => Expects(Items(s), {"iteration"})
       /\ NewApi(old, p) => Expects(Items(s), {"api"})
  BY <1>1, <1>16 DEF Expects
<1>19. ~NewVersion(old, p) => NoMain(Items(s))
  BY <1>1, <1>15 DEF NoMain, Main
<1>20. \A x \in Items(s) : /\ x.kind = "detail" => x.arg = p.ver
                           /\ x.kind \in {"detail", "iteration", "api"}
                           /\ x.kind = "iteration" => NewIteration(old, p) /\ x.arg.it = p.iterationId
  BY <1>1, <1>15
<1> QED BY <1>12, <1>13, <1>14, <1>17, <1>18, <1>19, <1>20

--------------------------------------------------------------------------------
(* The inductive invariant, of a state d, p, s, f of db, page, net, failures. *)

(* The page: a save of its form goes to the API of the form, APIs it calls    *)
(* the latest were published under the version shown, and unless a request    *)
(* threw or a version loads that is the version of the menu.                  *)
PageInv(d, p, f) ==
  /\ IsPage(p) /\ p.ver \in Nat /\ p.versions \subseteq Positive
  /\ "id" \in DOMAIN p.form /\ "id" \in DOMAIN p.apiDetail
  /\ EditorMounted(p) => p.form.id = p.apiDetail.id
  /\ p.shown # 0 => p.ver # 0
  /\ p.shown # 0 /\ p.isLatest => Known(d, p.shown, DOMAIN p.apis)
  /\ f = 0 /\ ~p.loading /\ p.shown # 0 => p.ver = p.shown

(* At most one request for the page itself is on its way, for the version of  *)
(* the menu, and only while the page loads.                                   *)
MainInv(p, s) ==
  /\ Single(s)
  /\ ~p.loading => NoMain(Items(s))
  /\ \A x \in Items(s) : x.live =>
       /\ x.kind = "detail" => x.arg = p.ver
       /\ x.kind = "versions" => p.ver = 0 /\ p.shown = 0

Spin(p, R) ==
  /\ p.loading => Expects(R, {"versions", "detail"})
  /\ p.iterationLoading => Expects(R, {"iteration"})
  /\ p.apiLoading => Expects(R, {"api"})
  /\ p.saving => Saving(R)

Requests(d, R, f) ==
  \A x \in R : Request(d, x) /\ (x.ans # None /\ x.ans.status = "thrown" => f # 0)

Inv(d, p, s, f) ==
  /\ DbInv(d) /\ f \in Nat
  /\ PageInv(d, p, f)
  /\ IsNet(s) /\ Requests(d, Items(s), f)
  /\ MainInv(p, s)
  /\ Spin(p, Items(s))

(* What an update must bring so that its effects keep the invariant.          *)
Ready(d, old, new, rest, out, f) ==
  /\ IsPage(new) /\ new.ver \in Nat /\ new.versions \subseteq Positive
  /\ "id" \in DOMAIN new.form /\ "id" \in DOMAIN new.apiDetail
  /\ EditorMounted(old) /\ EditorMounted(new) => new.form.id = new.apiDetail.id
  /\ new.shown # 0 => new.ver # 0
  /\ new.shown # 0 /\ new.isLatest => Known(d, new.shown, DOMAIN new.apis)
  /\ f = 0 /\ ~new.loading /\ ~NewVersion(old, new) /\ new.shown # 0 => new.ver = new.shown
  /\ IsNet(rest) /\ IsNet(out) /\ Requests(d, Items(rest) \cup Items(out), f)
  /\ NoMain(Items(out))
  /\ NewVersion(old, new) => NoMain(Items(rest))
  /\ ~NewVersion(old, new) => MainInv(new, rest)
  /\ Spin(new, Items(rest) \cup Items(out))

LEMMA EffectsKeep ==
  ASSUME NEW d, DbInv(d), NEW f \in Nat, NEW old, NEW new, NEW rest, NEW out,
         Ready(d, old, new, rest, out, f)
  PROVE  LET p == Effects(old, new)
         IN  Inv(d, p,
                 (IF EditorMounted(old) /\ ~EditorMounted(p) THEN Forget(rest) ELSE rest)
                   \o out \o Asked(old, p), f)
<1> DEFINE p == Effects(old, new)
           left == EditorMounted(old) /\ ~EditorMounted(p)
           x1 == IF left THEN Forget(rest) ELSE rest
           x2 == x1 \o out
           x3 == Asked(old, p)
           s == x2 \o x3
<1>0. IsPage(new)
  BY DEF Ready
<1>1. /\ IsPage(p) /\ Same(new, p, Kept)
      /\ p.loading = (new.loading \/ NewVersion(old, new))
      /\ p.iterationLoading = (new.iterationLoading \/ NewIteration(old, new))
      /\ p.apiLoading => new.apiLoading \/ NewApi(old, p)
      /\ p.saving => new.saving /\ EditorMounted(p)
      /\ EditorMounted(p) => EditorMounted(new)
      /\ p.apiDetail \in {new.apiDetail, NoApi}
      /\ p.form \in {new.form, new.apiDetail, NoApi}
      /\ EditorMounted(p) =>
           \/ p.form = p.apiDetail
           \/ EditorMounted(old) /\ p.form = new.form /\ p.apiDetail = new.apiDetail
  BY <1>0, EffectsFacts, Zenon
<1> HIDE DEF p
<1>2. /\ p.ver = new.ver /\ p.versions = new.versions /\ p.shown = new.shown
      /\ p.isLatest = new.isLatest /\ p.apis = new.apis /\ p.iterationId = new.iterationId
  BY <1>1 DEF Same, Kept, Fields
<1>3. (NewVersion(old, p) <=> NewVersion(old, new)) /\ (NewIteration(old, p) <=> NewIteration(old, new))
  BY <1>2 DEF NewVersion, NewIteration
<1>4. /\ p.loading <=> new.loading \/ NewVersion(old, new)
      /\ p.iterationLoading <=> new.iterationLoading \/ NewIteration(old, new)
  BY <1>1, Zenon
<1>5. PageInv(d, p, f)
  <2>1. "id" \in DOMAIN NoApi
    BY DEF NoApi
  <2>2. EditorMounted(p) => p.form.id = p.apiDetail.id
    BY <1>1 DEF Ready
  <2>3. "id" \in DOMAIN p.form /\ "id" \in DOMAIN p.apiDetail
    BY <1>1, <2>1 DEF Ready
  <2>4. f = 0 /\ ~p.loading /\ p.shown # 0 => p.ver = p.shown
    BY <1>2, <1>4 DEF Ready
  <2> QED BY <1>1, <1>2, <2>2, <2>3, <2>4 DEF PageInv, Ready
<1>6. /\ IsNet(x3) /\ \A x \in Items(x3) : Request(d, x) /\ x.live /\ x.ans = None
      /\ NewVersion(old, p) => Expects(Items(x3), {"detail"})
      /\ ~NewVersion(old, p) => NoMain(Items(x3))
      /\ NewIteration(old, p) => Expects(Items(x3), {"iteration"})
      /\ NewApi(old, p) => Expects(Items(x3), {"api"})
      /\ Single(x3)
      /\ \A x \in Items(x3) : (x.kind = "detail" => x.arg = p.ver) /\ x.kind # "versions"
  BY <1>2, AskedFacts DEF Ready
<1> HIDE DEF x3
<1>7. /\ IsNet(x1) /\ DOMAIN x1 = DOMAIN rest /\ Requests(d, Items(x1), f)
      /\ \A i \in DOMAIN rest :
           /\ x1[i].kind = rest[i].kind /\ x1[i].live = rest[i].live
           /\ rest[i].kind \notin {"save", "iteration"} => x1[i] = rest[i]
  <2>1. CASE ~left
    BY <2>1 DEF Ready, Requests
  <2>2. CASE left
    <3>1. \A x \in Items(rest) : Request(d, x) /\ (x.ans # None /\ x.ans.status = "thrown" => f # 0)
      BY DEF Ready, Requests
    <3>2. IsNet(rest) /\ x1 = Forget(rest)
      BY <2>2 DEF Ready
    <3> HIDE DEF x1
    <3>3. /\ IsNet(x1) /\ DOMAIN x1 = DOMAIN rest /\ \A x \in Items(x1) : Request(d, x)
          /\ \A i \in DOMAIN rest :
               /\ x1[i].kind = rest[i].kind /\ x1[i].live = rest[i].live /\ x1[i].ans = rest[i].ans
               /\ rest[i].kind \notin {"save", "iteration"} => x1[i] = rest[i]
      BY <3>1, <3>2, ForgetFacts
    <3> QED BY <3>1, <3>3 DEF Requests, Items
  <2> QED BY <2>1, <2>2
<1>8. ~left => Items(x1) = Items(rest)
  OBVIOUS
<1>a. p.saving => ~left
  BY <1>1
<1> HIDE DEF x1, left
<1>9. \A K : Expects(Items(rest), K) => Expects(Items(x1), K)
  BY <1>7 DEF Expects, Items
<1>10. NoMain(Items(rest)) => NoMain(Items(x1))
  BY <1>7 DEF NoMain, Main, Items
<1>11. Single(rest) => Single(x1)
  BY <1>7 DEF Single, Main
<1>12. IsNet(x2) /\ Items(x2) = Items(x1) \cup Items(out)
  BY <1>7, Joined DEF Ready
<1>13. Single(rest) => Single(x2)
  BY <1>7, <1>11, SingleJoined DEF Ready
<1>14. NoMain(Items(rest)) => NoMain(Items(x2))
  BY <1>10, <1>12 DEF NoMain, Ready
<1> HIDE DEF x2
<1>15. IsNet(s) /\ Items(s) = Items(x2) \cup Items(x3)
  BY <1>6, <1>12, Joined
<1>16. Single(s)
  <2>1. CASE NewVersion(old, new)
    BY <1>6, <1>12, <1>14, <2>1, SingleJoined DEF Ready
  <2>2. CASE ~NewVersion(old, new)
    BY <1>3, <1>6, <1>12, <1>13, <2>2, SingleJoined DEF Ready, MainInv
  <2> QED BY <2>1, <2>2
<1>17. s = x1 \o out \o x3
  BY DEF s, x2
<1> HIDE DEF s
<1>18. Items(s) = Items(x1) \cup Items(out) \cup Items(x3)
  BY <1>12, <1>15
<1>19. Requests(d, Items(s), f)
  BY <1>6, <1>7, <1>18 DEF Requests, Ready
<1>20. MainInv(p, s)
  <2>1. ~p.loading => NoMain(Items(s))
    BY <1>3, <1>4, <1>6, <1>14, <1>15 DEF Ready, MainInv, NoMain
  <2>2. ASSUME NEW x \in Items(s), x.live
        PROVE  /\ x.kind = "detail" => x.arg = p.ver
               /\ x.kind = "versions" => p.ver = 0 /\ p.shown = 0
    <3>1. CASE x \in Items(x3)
      BY <1>6, <3>1
    <3>2. CASE x \in Items(x2) /\ NewVersion(old, new)
      BY <1>14, <2>2, <3>2 DEF Ready, NoMain, Main
    <3>3. CASE x \in Items(out)
      BY <2>2, <3>3 DEF Ready, NoMain, Main
    <3>4. CASE x \in Items(x1) /\ ~NewVersion(old, new)
      <4>1. x.kind \in {"detail", "versions"} => x \in Items(rest)
        BY <1>7, <3>4 DEF Items
      <4> QED BY <1>2, <2>2, <3>4, <4>1 DEF Ready, MainInv
    <3> QED BY <1>12, <1>15, <3>1, <3>2, <3>3, <3>4
  <2> QED BY <1>16, <2>1, <2>2 DEF MainInv
<1>21. \A K : Expects(Items(rest) \cup Items(out), K) \/ Expects(Items(x3), K) => Expects(Items(s), K)
  BY <1>9, <1>18 DEF Expects
<1>22. Spin(p, Items(s))
  <2>1. p.loading => Expects(Items(s), {"versions", "detail"})
    <3>1. Expects(Items(x3), {"detail"}) => Expects(Items(x3), {"versions", "detail"})
      BY DEF Expects
    <3> QED BY <1>3, <1>4, <1>6, <1>21, <3>1 DEF Ready, Spin
  <2>2. p.iterationLoading => Expects(Items(s), {"iteration"})
    BY <1>3, <1>4, <1>6, <1>21 DEF Ready, Spin
  <2>3. p.apiLoading => Expects(Items(s), {"api"})
    BY <1>1, <1>6, <1>21 DEF Ready, Spin
  <2>4. p.saving => Saving(Items(s))
    BY <1>1, <1>8, <1>a, <1>18 DEF Ready, Spin, Saving
  <2> QED BY <2>1, <2>2, <2>3, <2>4 DEF Spin
<1> QED
  BY <1>5, <1>15, <1>17, <1>19, <1>20, <1>22 DEF Inv, p, x1, x3, left

(* An update that leaves the version alone.                                   *)
LEMMA ReadyFrom ==
  ASSUME NEW d, NEW p, NEW s, NEW f, Inv(d, p, s, f), NEW new, NEW rest, NEW out,
         IsPage(new), Same(p, new, {"ver", "versions", "shown", "isLatest", "loading"}),
         DOMAIN new.apis = DOMAIN p.apis,
         "id" \in DOMAIN new.form, "id" \in DOMAIN new.apiDetail,
         EditorMounted(p) /\ EditorMounted(new) => new.form.id = new.apiDetail.id,
         IsNet(rest), Items(rest) \subseteq Items(s), Single(rest),
         IsNet(out), \A x \in Items(out) : Request(d, x) /\ x.ans = None /\ ~Main(x),
         Spin(new, Items(rest) \cup Items(out))
  PROVE  Ready(d, p, new, rest, out, f)
<1>1. /\ new.ver = p.ver /\ new.versions = p.versions /\ new.shown = p.shown
      /\ new.isLatest = p.isLatest /\ new.loading = p.loading
  BY DEF Same
<1>2. ~NewVersion(p, new)
  BY <1>1 DEF NewVersion
<1>3. MainInv(new, rest)
  BY <1>1 DEF MainInv, Inv, NoMain
<1>4. Requests(d, Items(rest) \cup Items(out), f)
  BY DEF Requests, Inv
<1>5. NoMain(Items(out))
  BY DEF NoMain
<1>6. /\ new.ver \in Nat /\ new.versions \subseteq Positive
      /\ new.shown # 0 => new.ver # 0
      /\ new.shown # 0 /\ new.isLatest => Known(d, new.shown, DOMAIN new.apis)
      /\ f = 0 /\ ~new.loading /\ new.shown # 0 => new.ver = new.shown
  BY <1>1 DEF Inv, PageInv
<1> QED BY <1>2, <1>3, <1>4, <1>5, <1>6 DEF Ready

StateInv == Inv(db, page, net, failures)

LEMMA UpdateKeeps ==
  ASSUME StateInv, NEW new, NEW rest, NEW out, Update(new, rest, out), db' = db, failures' = failures,
         Ready(db, page, new, rest, out, failures)
  PROVE  StateInv'
<1> DEFINE p == Effects(page, new)
           s == (IF EditorMounted(page) /\ ~EditorMounted(p) THEN Forget(rest) ELSE rest)
                  \o out \o Asked(page, p)
<1>1. page' = p /\ net' = s
  BY DEF Update, Render
<1>2. DbInv(db) /\ failures \in Nat
  BY DEF StateInv, Inv
<1>3. Inv(db, p, s, failures)
  BY <1>2, EffectsKeep
<1> HIDE DEF p, s
<1> QED BY <1>1, <1>3 DEF StateInv

(* A click that sends one request and leaves the page alone.                  *)
LEMMA SendKeeps ==
  ASSUME StateInv, NEW x, Send(x), Request(db, x), x.ans = None, ~Main(x)
  PROVE  StateInv'
<1>1. Update(page, net, <<x>>) /\ db' = db /\ failures' = failures
  BY DEF Send, Click
<1>2. IsNet(<<x>>) /\ Items(<<x>>) = {x}
  BY OneItem
<1>3. PICK out : out = <<x>>
  OBVIOUS
<1>4. Spin(page, Items(net) \cup Items(out))
  BY DEF Spin, StateInv, Inv, Expects, Saving
<1>5. Ready(db, page, page, net, out, failures)
  <2>1. Inv(db, page, net, failures) /\ IsPage(page) /\ Single(net) /\ IsNet(net)
    BY DEF StateInv, Inv, PageInv, MainInv
  <2>2. /\ "id" \in DOMAIN page.form /\ "id" \in DOMAIN page.apiDetail
        /\ EditorMounted(page) => page.form.id = page.apiDetail.id
    BY DEF StateInv, Inv, PageInv
  <2>3. Same(page, page, {"ver", "versions", "shown", "isLatest", "loading"})
    BY DEF Same
  <2>4. IsNet(out) /\ \A y \in Items(out) : Request(db, y) /\ y.ans = None /\ ~Main(y)
    BY <1>2, <1>3
  <2> QED BY <1>4, <2>1, <2>2, <2>3, <2>4, ReadyFrom
<1> QED BY <1>1, <1>3, <1>5, UpdateKeeps

LEMMA ClickKeeps ==
  ASSUME StateInv, NEW new, NEW out, Update(new, net, out), db' = db, failures' = failures,
         IsPage(new), Same(page, new, {"ver", "versions", "shown", "isLatest", "loading", "apis",
                                       "iterationLoading", "apiLoading"}),
         "id" \in DOMAIN new.form, "id" \in DOMAIN new.apiDetail,
         EditorMounted(page) /\ EditorMounted(new) => new.form.id = new.apiDetail.id,
         IsNet(out), \A x \in Items(out) : Request(db, x) /\ x.ans = None /\ ~Main(x),
         new.saving => page.saving \/ Saving(Items(out))
  PROVE  StateInv'
<1>1. Inv(db, page, net, failures) /\ Single(net) /\ IsNet(net)
  BY DEF StateInv, Inv, MainInv
<1>2. /\ new.loading = page.loading /\ new.iterationLoading = page.iterationLoading
      /\ new.apiLoading = page.apiLoading /\ DOMAIN new.apis = DOMAIN page.apis
      /\ Same(page, new, {"ver", "versions", "shown", "isLatest", "loading"})
  BY DEF Same
<1>3. Spin(new, Items(net) \cup Items(out))
  BY <1>2 DEF Spin, StateInv, Inv, Expects, Saving
<1>4. Ready(db, page, new, net, out, failures)
  BY <1>1, <1>2, <1>3, ReadyFrom
<1> QED BY <1>4, UpdateKeeps

LEMMA SelectVersionKeeps == StateInv /\ SelectVersion => StateInv'
<1> SUFFICES ASSUME StateInv, SelectVersion PROVE StateInv'
  OBVIOUS
<1>1. PICK v \in page.versions \ {page.ver} :
        Click /\ Update([page EXCEPT !.selected = 0, !.ver = v], net, <<>>)
  BY DEF SelectVersion
<1>2. Visible(page) /\ db' = db /\ failures' = failures
  BY <1>1 DEF Click
<1>3. PICK new : new = [page EXCEPT !.selected = 0, !.ver = v]
  OBVIOUS
<1>4. PICK out : out = <<>>
  OBVIOUS
<1>5. IsPage(page) /\ page.versions \subseteq Positive
  BY DEF StateInv, Inv, PageInv
<1>6. /\ IsPage(new) /\ new.ver = v /\ Same(page, new, Fields \ {"selected", "ver"})
  BY <1>3, <1>5 DEF IsPage, Fields, Same
<1>7. v \in Positive /\ NewVersion(page, new)
  BY <1>1, <1>5, <1>6 DEF NewVersion, Positive
<1>8. NoMain(Items(net))
  BY <1>2 DEF StateInv, Inv, MainInv, Visible, isLoading
<1>9. IsNet(out) /\ Items(out) = {}
  BY <1>4, OneItem
<1>10. /\ new.versions = page.versions /\ new.shown = page.shown /\ new.isLatest = page.isLatest
       /\ new.apis = page.apis /\ new.form = page.form /\ new.apiDetail = page.apiDetail
       /\ new.loading = page.loading /\ new.iterationLoading = page.iterationLoading
       /\ new.apiLoading = page.apiLoading /\ new.saving = page.saving
       /\ new.gone = page.gone /\ new.inIteration = page.inIteration
  BY <1>6 DEF Same, Fields
<1>11. EditorMounted(new) => EditorMounted(page)
  BY <1>10 DEF EditorMounted, Visible, isLoading
<1>12. Spin(new, Items(net) \cup Items(out))
  BY <1>10 DEF StateInv, Inv, Spin, Expects, Saving
<1>13. Requests(db, Items(net) \cup Items(out), failures) /\ NoMain(Items(out))
  BY <1>9 DEF StateInv, Inv, Requests, NoMain
<1>14. /\ IsPage(new) /\ new.ver \in Nat /\ new.versions \subseteq Positive
       /\ "id" \in DOMAIN new.form /\ "id" \in DOMAIN new.apiDetail
       /\ EditorMounted(page) /\ EditorMounted(new) => new.form.id = new.apiDetail.id
       /\ new.shown # 0 => new.ver # 0
       /\ new.shown # 0 /\ new.isLatest => Known(db, new.shown, DOMAIN new.apis)
  BY <1>6, <1>7, <1>10 DEF StateInv, Inv, PageInv, Positive
<1>15. Ready(db, page, new, net, out, failures)
  BY <1>7, <1>8, <1>9, <1>12, <1>13, <1>14 DEF Ready, StateInv, Inv
<1> QED BY <1>1, <1>2, <1>3, <1>4, <1>15, UpdateKeeps

(* The clicks that change the page and ask for nothing themselves.            *)
LEMMA PageClicksKeep ==
  StateInv /\ (handleSelectApi \/ exitIteration \/ onValuesChange) => StateInv'
<1> SUFFICES ASSUME StateInv, handleSelectApi \/ exitIteration \/ onValuesChange PROVE StateInv'
  OBVIOUS
<1> DEFINE fields == {"ver", "versions", "shown", "isLatest", "loading", "apis",
                      "iterationLoading", "apiLoading"}
<1>0. /\ IsPage(page) /\ "id" \in DOMAIN page.form /\ "id" \in DOMAIN page.apiDetail
      /\ EditorMounted(page) => page.form.id = page.apiDetail.id
  BY DEF StateInv, Inv, PageInv
<1>1. PICK out : out = <<>>
  OBVIOUS
<1>2. IsNet(out) /\ Items(out) = {}
  BY <1>1, OneItem
<1>3. ASSUME NEW new, Click, Update(new, net, <<>>), IsPage(new), Same(page, new, fields),
             new.saving = page.saving, new.apiDetail = page.apiDetail,
             "id" \in DOMAIN new.form,
             EditorMounted(page) /\ EditorMounted(new) => new.form.id = new.apiDetail.id
      PROVE  StateInv'
  <2>1. Update(new, net, out) /\ db' = db /\ failures' = failures
    BY <1>1, <1>3 DEF Click
  <2>2. "id" \in DOMAIN new.apiDetail /\ (new.saving => page.saving \/ Saving(Items(out)))
    BY <1>0, <1>3
  <2>3. \A x \in Items(out) : Request(db, x) /\ x.ans = None /\ ~Main(x)
    BY <1>2
  <2> QED BY <1>2, <1>3, <2>1, <2>2, <2>3, ClickKeeps
<1>4. CASE handleSelectApi
  <2>1. PICK id : Click /\ Update([page EXCEPT !.selected = id], net, <<>>)
    BY <1>4 DEF handleSelectApi
  <2>2. PICK new : new = [page EXCEPT !.selected = id]
    OBVIOUS
  <2>3. /\ IsPage(new) /\ Same(page, new, fields) /\ new.saving = page.saving
        /\ new.apiDetail = page.apiDetail /\ new.form = page.form
    BY <1>0, <2>2 DEF IsPage, Fields, Same
  <2> QED BY <1>0, <1>3, <2>1, <2>2, <2>3
<1>5. CASE exitIteration
  <2>1. Click /\ Update([page EXCEPT !.inIteration = FALSE, !.iterationId = 0], net, <<>>)
    BY <1>5 DEF exitIteration
  <2>2. PICK new : new = [page EXCEPT !.inIteration = FALSE, !.iterationId = 0]
    OBVIOUS
  <2>3. /\ IsPage(new) /\ Same(page, new, fields) /\ new.saving = page.saving
        /\ new.apiDetail = page.apiDetail /\ new.form = page.form /\ ~new.inIteration
    BY <1>0, <2>2 DEF IsPage, Fields, Same
  <2>4. ~EditorMounted(new)
    BY <2>3 DEF EditorMounted
  <2> QED BY <1>0, <1>3, <2>1, <2>2, <2>3, <2>4
<1>6. CASE onValuesChange
  <2>1. PICK b : Click /\ Update([page EXCEPT !.form.body = b, !.isDraft = TRUE], net, <<>>)
    BY <1>6 DEF onValuesChange
  <2>2. PICK new : new = [page EXCEPT !.form.body = b, !.isDraft = TRUE]
    OBVIOUS
  <2>3. /\ IsPage(new) /\ Same(page, new, fields) /\ new.saving = page.saving
        /\ new.apiDetail = page.apiDetail /\ new.form = [page.form EXCEPT !.body = b]
    BY <1>0, <2>2 DEF IsPage, Fields, Same
  <2>4. EditorMounted(page)
    BY <1>6 DEF onValuesChange, EditorUsable
  <2>5. "id" \in DOMAIN new.form /\ new.form.id = page.form.id
    BY <1>0, <2>3
  <2> QED BY <1>0, <1>3, <2>1, <2>2, <2>3, <2>4, <2>5
<1> QED BY <1>4, <1>5, <1>6

LEMMA SubmitKeeps == StateInv /\ handleSubmit => StateInv'
<1> SUFFICES ASSUME StateInv, handleSubmit PROVE StateInv'
  OBVIOUS
<1>0. /\ IsPage(page) /\ "id" \in DOMAIN page.form /\ "id" \in DOMAIN page.apiDetail
      /\ EditorMounted(page) => page.form.id = page.apiDetail.id
  BY DEF StateInv, Inv, PageInv
<1>1. PICK x : x = SaveRequest
  OBVIOUS
<1>2. PICK out : out = <<x>>
  OBVIOUS
<1>3. IsNet(out) /\ Items(out) = {x}
  BY <1>2, OneItem
<1>4. PICK new : new = [page EXCEPT !.saving = TRUE]
  OBVIOUS
<1>5. Update(new, net, out) /\ db' = db /\ failures' = failures /\ EditorMounted(page)
  BY <1>1, <1>2, <1>4 DEF handleSubmit, Click, EditorUsable
<1>6. /\ x.kind = "save" /\ x.live /\ x.ans = None /\ x.arg.then = "saved"
      /\ x.live \in BOOLEAN /\ DOMAIN x = {"kind", "arg", "ans", "live"}
      /\ DOMAIN x.arg = {"it", "id", "from", "then"}
      /\ x.arg.id = page.apiDetail.id /\ x.arg.from = page.form
  BY <1>1 DEF SaveRequest, Ask
<1>7. Request(db, x) /\ ~Main(x) /\ Saving(Items(out))
  BY <1>0, <1>3, <1>5, <1>6 DEF Request, Shape, Told, Main, Saving, Kinds
<1>8. /\ IsPage(new) /\ new.apiDetail = page.apiDetail /\ new.form = page.form
      /\ Same(page, new, {"ver", "versions", "shown", "isLatest", "loading", "apis",
                          "iterationLoading", "apiLoading"})
  BY <1>0, <1>4 DEF IsPage, Fields, Same
<1>9. \A y \in Items(out) : Request(db, y) /\ y.ans = None /\ ~Main(y)
  BY <1>3, <1>6, <1>7
<1> QED BY <1>0, <1>3, <1>5, <1>7, <1>8, <1>9, ClickKeeps

(* The clicks that send one request.                                          *)
LEMMA SendsKeep ==
  StateInv /\ (handleAddCategory \/ handleDeleteCategory \/ handleStartIteration \/ handleAddApi
               \/ handleCopyApi \/ handleDeleteApi \/ handleCompleteIteration) => StateInv'
<1> SUFFICES ASSUME StateInv,
                    handleAddCategory \/ handleDeleteCategory \/ handleStartIteration \/ handleAddApi
                      \/ handleCopyApi \/ handleDeleteApi \/ handleCompleteIteration
             PROVE  StateInv'
  OBVIOUS
<1>1. ASSUME NEW k \in Kinds \ {"versions", "detail", "move", "save", "iteration"}, NEW a,
             k = "commit" => a.ver \in Positive, Send(Ask(k, a))
      PROVE  StateInv'
  <2>1. PICK x : x = Ask(k, a)
    OBVIOUS
  <2>2. /\ x.kind = k /\ x.arg = a /\ x.ans = None /\ x.live \in BOOLEAN
        /\ DOMAIN x = {"kind", "arg", "ans", "live"}
    BY <2>1, AskFacts
  <2>3. Request(db, x) /\ ~Main(x)
    BY <1>1, <2>2 DEF Request, Shape, Told, Main
  <2> QED BY <1>1, <2>1, <2>2, <2>3, SendKeeps
<1>2. CASE handleAddCategory
  BY <1>1, <1>2 DEF handleAddCategory, Kinds
<1>3. CASE handleDeleteCategory
  BY <1>1, <1>3 DEF handleDeleteCategory, Kinds
<1>4. CASE handleStartIteration
  BY <1>1, <1>4 DEF handleStartIteration, Kinds
<1>5. CASE handleAddApi
  BY <1>1, <1>5 DEF handleAddApi, Kinds
<1>6. CASE handleCopyApi
  BY <1>1, <1>6 DEF handleCopyApi, Kinds
<1>7. CASE handleDeleteApi
  BY <1>1, <1>7 DEF handleDeleteApi, Kinds
<1>8. CASE handleCompleteIteration
  <2>1. PICK v \in CompleteIterationForm(page) :
          Send(Ask("commit", [it |-> page.iterationId, ver |-> v]))
    BY <1>8 DEF handleCompleteIteration
  <2>2. Visible(page)
    BY <2>1 DEF Send, Click
  <2>3. page.ver \in Nat /\ page.ver # 0
    BY <2>2 DEF Visible, isLoading, StateInv, Inv, PageInv
  <2>4. v \in Positive
    BY <2>3, MaxVersionNat DEF CompleteIterationForm, Positive
  <2>5. PICK a : a = [it |-> page.iterationId, ver |-> v]
    OBVIOUS
  <2>6. a.ver \in Positive /\ Send(Ask("commit", a))
    BY <2>1, <2>4, <2>5
  <2> QED BY <1>1, <2>6 DEF Kinds
<1> QED BY <1>2, <1>3, <1>4, <1>5, <1>6, <1>7, <1>8

LEMMA DragKeeps == StateInv /\ handleDrag => StateInv'
<1> SUFFICES ASSUME StateInv, handleDrag PROVE StateInv'
  OBVIOUS
<1>1. PICK id \in DOMAIN page.apis, c \in page.cats \cup {0} :
        Send(Ask("move", [id |-> id, cat |-> c, shown |-> page.shown, latest |-> page.isLatest]))
  BY DEF handleDrag
<1>2. PICK a : a = [id |-> id, cat |-> c, shown |-> page.shown, latest |-> page.isLatest]
  OBVIOUS
<1>3. PICK x : x = Ask("move", a)
  OBVIOUS
<1>4. Send(x)
  BY <1>1, <1>2, <1>3
<1>5. Visible(page) /\ page.isLatest
  BY <1>4 DEF Send, Click, handleDrag, Draggable
<1>6. Known(db, page.shown, DOMAIN page.apis)
  BY <1>5 DEF Visible, isLoading, StateInv, Inv, PageInv
<1>7. Known(db, page.shown, {id})
  BY <1>6 DEF Known
<1>8. a.id = id /\ a.shown = page.shown
  BY <1>2
<1>9. /\ x.kind = "move" /\ x.arg = a /\ x.ans = None /\ x.live \in BOOLEAN
      /\ DOMAIN x = {"kind", "arg", "ans", "live"}
  BY <1>3, AskFacts
<1>10. Request(db, x) /\ ~Main(x)
  BY <1>7, <1>8, <1>9 DEF Request, Shape, Told, Main, Kinds
<1> QED BY <1>4, <1>9, <1>10, SendKeeps

LEMMA UserKeeps == StateInv /\ User => StateInv'
BY SelectVersionKeeps, PageClicksKeep, SubmitKeeps, SendsKeep, DragKeeps DEF User

--------------------------------------------------------------------------------
(* The server answers, or throws.                                             *)
LEMMA AnsweredKeeps ==
  ASSUME NEW d, NEW p, NEW s, NEW f, Inv(d, p, s, f), NEW i \in DOMAIN s, NEW ans,
         NEW e, DbInv(e), Grows(d, e), NEW g \in Nat, g = 0 => f = 0,
         AnswerShape(s[i].kind, ans), ans.status = "thrown" => g # 0,
         s[i].kind = "detail" /\ ans.status = "ok" /\ ans.value.latest =>
           Known(e, s[i].arg, DOMAIN ans.value.rows)
  PROVE  Inv(e, p, [s EXCEPT ![i].ans = ans], g)
<1>1. PICK y : y = [s[i] EXCEPT !.ans = ans]
  OBVIOUS
<1>2. PICK t : t = [s EXCEPT ![i] = y]
  OBVIOUS
<1>3. t = [s EXCEPT ![i].ans = ans]
  BY <1>1, <1>2
<1>4. Request(d, s[i]) /\ Shape(s[i])
  BY DEF Inv, Requests, Items, Request
<1>5. /\ DOMAIN y = {"kind", "arg", "ans", "live"} /\ y.ans = ans
      /\ y.kind = s[i].kind /\ y.arg = s[i].arg /\ y.live = s[i].live
  BY <1>1, <1>4 DEF Shape
<1>6. /\ IsNet(t) /\ DOMAIN t = DOMAIN s /\ t[i] = y /\ \A j \in DOMAIN s \ {i} : t[j] = s[j]
      /\ Items(t) \subseteq Items(s) \cup {y}
  BY <1>2, ChangedItem DEF Inv
<1>7. \A j \in DOMAIN s : t[j].kind = s[j].kind /\ t[j].arg = s[j].arg /\ t[j].live = s[j].live
  BY <1>5, <1>6
<1>8. Request(e, y)
  BY <1>4, <1>5, ToldGrows DEF Request, Shape, Told, Grows
<1>9. Requests(e, Items(t), g)
  BY <1>5, <1>6, <1>8, ToldGrows DEF Requests, Inv
<1>10. PageInv(e, p, g)
  BY DEF Inv, PageInv, Grows
<1>11. \A j \in DOMAIN s : Main(t[j]) <=> Main(s[j])
  BY <1>7 DEF Main
<1>12. MainInv(p, t)
  BY <1>6, <1>7, <1>11 DEF Inv, MainInv, Single, NoMain, Items
<1>13. \A K : Expects(Items(s), K) => Expects(Items(t), K)
  BY <1>6, <1>7 DEF Expects, Items
<1>14. Saving(Items(s)) => Saving(Items(t))
  BY <1>6, <1>7 DEF Saving, Items
<1>15. Spin(p, Items(t))
  BY <1>13, <1>14 DEF Inv, Spin
<1> QED BY <1>3, <1>6, <1>9, <1>10, <1>12, <1>15 DEF Inv

LEMMA ServeKeeps == ASSUME StateInv, NEW i \in DOMAIN net, Serve(i) PROVE StateInv'
<1>1. Inv(db, page, net, failures) /\ DbInv(db) /\ failures \in Nat /\ Request(db, net[i])
  BY DEF StateInv, Inv, Requests, Items
<1>2. PICK ans : ans = Answer(db, net[i])
  OBVIOUS
<1>3. PICK e : e = Writes(db, net[i])
  OBVIOUS
<1>4. DbInv(e) /\ Grows(db, e)
  BY <1>1, <1>3, WritesFacts DEF Request, Shape
<1>5. /\ ans.status \in {"ok", "refused"} /\ AnswerShape(net[i].kind, ans)
      /\ net[i].kind = "detail" /\ ans.status = "ok" /\ ans.value.latest =>
           Known(db, net[i].arg, DOMAIN ans.value.rows)
  BY <1>1, <1>2, AnswerFacts
<1>6. net[i].kind = "detail" /\ ans.status = "ok" /\ ans.value.latest =>
        Known(e, net[i].arg, DOMAIN ans.value.rows)
  BY <1>4, <1>5 DEF Grows
<1>7. Inv(e, page, [net EXCEPT ![i].ans = ans], failures)
  BY <1>1, <1>4, <1>5, <1>6, AnsweredKeeps
<1>8. db' = e /\ page' = page /\ net' = [net EXCEPT ![i].ans = ans] /\ failures' = failures
  BY <1>2, <1>3 DEF Serve
<1> QED BY <1>7, <1>8 DEF StateInv

LEMMA ThrowKeeps == ASSUME StateInv, NEW i \in DOMAIN net, Throw(i) PROVE StateInv'
<1>1. Inv(db, page, net, failures) /\ DbInv(db) /\ failures \in Nat
  BY DEF StateInv, Inv
<1>2. PICK ans : ans = Thrown
  OBVIOUS
<1>3. ans.status = "thrown" /\ AnswerShape(net[i].kind, ans)
  BY <1>2 DEF Thrown, AnswerShape, Statuses
<1>4. PICK g : g = failures + 1
  OBVIOUS
<1>5. g \in Nat /\ g # 0 /\ Grows(db, db)
  BY <1>1, <1>4 DEF Grows
<1>6. Inv(db, page, [net EXCEPT ![i].ans = ans], g)
  BY <1>1, <1>3, <1>5, AnsweredKeeps
<1>7. db' = db /\ page' = page /\ net' = [net EXCEPT ![i].ans = ans] /\ failures' = g
  BY <1>2, <1>4 DEF Throw
<1> QED BY <1>6, <1>7 DEF StateInv

LEMMA OthersKeep == StateInv /\ (OthersCommit \/ OwnerDeletes) => StateInv'
<1> SUFFICES ASSUME StateInv, OthersCommit \/ OwnerDeletes PROVE StateInv'
  OBVIOUS
<1>1. DbInv(db) /\ failures \in Nat /\ page' = page /\ net' = net /\ failures' = failures
  BY DEF StateInv, Inv, OthersCommit, OwnerDeletes
<1>2. ASSUME NEW e, DbInv(e), Grows(db, e) PROVE Inv(e, page, net, failures)
  <2>1. Requests(e, Items(net), failures)
    BY <1>2, ToldGrows DEF StateInv, Inv, Requests
  <2>2. PageInv(e, page, failures)
    BY <1>2 DEF StateInv, Inv, PageInv, Grows
  <2> QED BY <1>2, <2>1, <2>2 DEF StateInv, Inv
<1>3. CASE OwnerDeletes
  <2>1. PICK e : e = [db EXCEPT !.deleted = TRUE]
    OBVIOUS
  <2>2. DOMAIN e = DbFields /\ e.latest = db.latest /\ e.hist = db.hist /\ e.api = db.api
    BY <1>1, <2>1 DEF DbInv, DbFields
  <2>3. DbInv(e) /\ Grows(db, e)
    BY <1>1, <2>2, HistoryKept
  <2>4. db' = e
    BY <1>3, <2>1 DEF OwnerDeletes
  <2> QED BY <1>1, <1>2, <2>3, <2>4 DEF StateInv
<1>4. CASE OthersCommit
  <2>1. PICK drafts : drafts = Renumbered(db.api, db.nextDraft)
    OBVIOUS
  <2>2. PICK p : p = Publish(db, db.latest + 1, drafts)
    OBVIOUS
  <2>3. DbInv(p) /\ Grows(db, p)
    <3>1. db.latest + 1 \in Positive
      BY <1>1 DEF DbInv, Positive
    <3> QED BY <1>1, <2>2, <3>1, PublishFacts
  <2>4. PICK e : e = [p EXCEPT !.nextIt = @ + 1, !.nextDraft = @ + Cardinality(DOMAIN drafts)]
    OBVIOUS
  <2>5. DOMAIN e = DbFields /\ e.latest = p.latest /\ e.hist = p.hist /\ e.api = p.api
    BY <2>3, <2>4 DEF DbInv, DbFields
  <2>6. DbInv(e) /\ Grows(p, e)
    BY <2>3, <2>5, HistoryKept
  <2>7. Grows(db, e)
    BY <2>3, <2>6 DEF Grows
  <2>8. db' = e
    BY <1>4, <2>1, <2>2, <2>4 DEF OthersCommit
  <2> QED BY <1>1, <1>2, <2>6, <2>7, <2>8 DEF StateInv
<1> QED BY <1>3, <1>4

--------------------------------------------------------------------------------
(* The answers arrive.                                                        *)
LEMMA RestFacts ==
  ASSUME StateInv, NEW i \in DOMAIN net
  PROVE  /\ IsNet(Rest(i)) /\ Items(Rest(i)) \subseteq Items(net) /\ Single(Rest(i))
         /\ Items(net) \subseteq Items(Rest(i)) \cup {net[i]}
         /\ Main(net[i]) => NoMain(Items(Rest(i)))
         /\ Request(db, net[i]) /\ net[i] \in Items(net)
<1>1. IsNet(net) /\ Single(net) /\ net[i] \in Items(net)
  BY DEF StateInv, Inv, MainInv, Items
<1>2. Request(db, net[i])
  BY <1>1 DEF StateInv, Inv, Requests
<1> QED BY <1>1, <1>2, RemovedItems, SingleRemoved DEF Rest

LEMMA ApplyKeeps ==
  ASSUME StateInv, NEW i \in DOMAIN net, NEW new, NEW out, Apply(i, new, out),
         net[i].kind \notin {"versions", "detail"},
         IsPage(new), Same(page, new, {"ver", "versions", "shown", "isLatest", "loading"}),
         DOMAIN new.apis = DOMAIN page.apis,
         "id" \in DOMAIN new.form, "id" \in DOMAIN new.apiDetail,
         EditorMounted(page) /\ EditorMounted(new) => new.form.id = new.apiDetail.id,
         IsNet(out), \A x \in Items(out) : Request(db, x) /\ x.ans = None /\ ~Main(x),
         new.iterationLoading =>
           (page.iterationLoading /\ net[i].kind # "iteration") \/ Expects(Items(out), {"iteration"}),
         new.apiLoading => page.apiLoading /\ net[i].kind # "api",
         new.saving =>
           \/ page.saving /\ (net[i].kind \in {"save", "iteration"} => net[i].arg.then # "saved")
           \/ Saving(Items(out))
  PROVE  StateInv'
<1> DEFINE rest == Rest(i)
<1>1. /\ IsNet(rest) /\ Items(rest) \subseteq Items(net) /\ Single(rest)
      /\ Items(net) \subseteq Items(rest) \cup {net[i]}
  BY RestFacts
<1>2. Update(new, rest, out) /\ db' = db /\ failures' = failures
  BY DEF Apply
<1> HIDE DEF rest
<1>3. new.loading = page.loading
  BY DEF Same
<1>4. \A K : Expects(Items(net), K) /\ net[i].kind \notin K => Expects(Items(rest) \cup Items(out), K)
  BY <1>1 DEF Expects
<1>5. \A K : Expects(Items(out), K) => Expects(Items(rest) \cup Items(out), K)
  BY DEF Expects
<1>6. new.loading => Expects(Items(rest) \cup Items(out), {"versions", "detail"})
  BY <1>3, <1>4 DEF StateInv, Inv, Spin
<1>7. new.iterationLoading => Expects(Items(rest) \cup Items(out), {"iteration"})
  BY <1>4, <1>5 DEF StateInv, Inv, Spin
<1>8. new.apiLoading => Expects(Items(rest) \cup Items(out), {"api"})
  BY <1>4 DEF StateInv, Inv, Spin
<1>9. new.saving => Saving(Items(rest) \cup Items(out))
  BY <1>1 DEF StateInv, Inv, Spin, Saving
<1>10. Spin(new, Items(rest) \cup Items(out))
  BY <1>6, <1>7, <1>8, <1>9 DEF Spin
<1>11. Inv(db, page, net, failures)
  BY DEF StateInv
<1>12. Ready(db, page, new, rest, out, failures)
  BY <1>1, <1>10, <1>11, ReadyFrom
<1> QED BY <1>2, <1>12, UpdateKeeps

LEMMA VersionsKeep ==
  ASSUME StateInv, NEW i \in DOMAIN net, AllVersionsArrive(i) PROVE StateInv'
<1>1. PICK rest : rest = Rest(i)
  OBVIOUS
<1>2. PICK x : x = net[i]
  OBVIOUS
<1>3. x.kind = "versions" /\ x.live /\ x.ans # None /\ Main(x)
  BY <1>2 DEF AllVersionsArrive, Arrived, Main
<1>4. /\ IsNet(rest) /\ Items(rest) \subseteq Items(net) /\ Single(rest) /\ NoMain(Items(rest))
      /\ Items(net) \subseteq Items(rest) \cup {x} /\ Request(db, x) /\ x \in Items(net)
  BY <1>1, <1>2, <1>3, RestFacts
<1>5. page.ver = 0 /\ page.shown = 0
  BY <1>3, <1>4 DEF StateInv, Inv, MainInv
<1>6. PICK out : out = <<>>
  OBVIOUS
<1>7. IsNet(out) /\ Items(out) = {}
  BY <1>6, OneItem
<1>8. ~EditorMounted(page) /\ IsPage(page)
  BY <1>5 DEF EditorMounted, Visible, isLoading, StateInv, Inv, PageInv
<1>9. Requests(db, Items(rest) \cup Items(out), failures) /\ NoMain(Items(out))
  BY <1>4, <1>7 DEF StateInv, Inv, Requests, NoMain
<1>10. ASSUME NEW new, IsPage(new), new.ver \in Nat, new.versions \subseteq Positive, ~new.loading,
              new.ver = 0 \/ new.ver \in Positive,
              Same(page, new, {"shown", "form", "apiDetail", "iterationLoading", "apiLoading", "saving"}),
              Update(new, rest, out)
       PROVE  StateInv'
  <2>1. /\ new.shown = 0 /\ new.form = page.form /\ new.apiDetail = page.apiDetail
        /\ new.iterationLoading = page.iterationLoading /\ new.apiLoading = page.apiLoading
        /\ new.saving = page.saving
    BY <1>5, <1>10 DEF Same
  <2>2. Spin(new, Items(rest) \cup Items(out))
    BY <1>3, <1>4, <1>10, <2>1 DEF StateInv, Inv, Spin, Expects, Saving
  <2>3. MainInv(new, rest)
    BY <1>4 DEF MainInv, NoMain, Main
  <2>4. "id" \in DOMAIN new.form /\ "id" \in DOMAIN new.apiDetail
    BY <2>1 DEF StateInv, Inv, PageInv
  <2>5. Ready(db, page, new, rest, out, failures)
    BY <1>4, <1>7, <1>8, <1>9, <1>10, <2>1, <2>2, <2>3, <2>4 DEF Ready
  <2>6. db' = db /\ failures' = failures
    BY DEF AllVersionsArrive, Apply
  <2> QED BY <1>10, <2>5, <2>6, UpdateKeeps
<1>11. CASE x.ans.status = "ok"
  <2>1. PICK v : v = x.ans.value
    OBVIOUS
  <2>2. PICK new : new = [page EXCEPT !.versions = v.versions, !.ver = v.ver, !.isLatest = TRUE,
                                      !.loading = FALSE]
    OBVIOUS
  <2>3. v.versions \subseteq Positive /\ v.ver \in Positive
    BY <1>3, <1>4, <1>11, <2>1 DEF Request, AnswerShape
  <2>4. /\ IsPage(new) /\ new.versions = v.versions /\ new.ver = v.ver /\ ~new.loading
        /\ Same(page, new, {"shown", "form", "apiDetail", "iterationLoading", "apiLoading", "saving"})
    BY <1>8, <2>2 DEF IsPage, Fields, Same
  <2>5. Update(new, rest, out)
    BY <1>1, <1>2, <1>6, <1>11, <2>1, <2>2 DEF AllVersionsArrive, Apply
  <2> QED BY <1>10, <2>3, <2>4, <2>5 DEF Positive
<1>12. CASE x.ans.status # "ok"
  <2>1. PICK new : new = [page EXCEPT !.gone = TRUE, !.loading = FALSE]
    OBVIOUS
  <2>2. /\ IsPage(new) /\ new.versions = page.versions /\ new.ver = page.ver /\ ~new.loading
        /\ Same(page, new, {"shown", "form", "apiDetail", "iterationLoading", "apiLoading", "saving"})
    BY <1>8, <2>1 DEF IsPage, Fields, Same
  <2>3. Update(new, rest, out)
    BY <1>1, <1>2, <1>6, <1>12, <2>1 DEF AllVersionsArrive, Apply
  <2>4. page.versions \subseteq Positive
    BY DEF StateInv, Inv, PageInv
  <2> QED BY <1>5, <1>10, <2>2, <2>3, <2>4
<1> QED BY <1>11, <1>12

LEMMA DetailKeeps ==
  ASSUME StateInv, NEW i \in DOMAIN net, ServiceDetailArrives(i) PROVE StateInv'
<1>1. PICK rest : rest = Rest(i)
  OBVIOUS
<1>2. PICK x : x = net[i]
  OBVIOUS
<1>3. x.kind = "detail" /\ x.live /\ x.ans # None /\ Main(x)
  BY <1>2 DEF ServiceDetailArrives, Arrived, Main
<1>4. /\ IsNet(rest) /\ Items(rest) \subseteq Items(net) /\ Single(rest) /\ NoMain(Items(rest))
      /\ Items(net) \subseteq Items(rest) \cup {x} /\ Request(db, x) /\ x \in Items(net)
  BY <1>1, <1>2, <1>3, RestFacts
<1>5. x.arg = page.ver /\ page.loading /\ x.arg \in Positive
  BY <1>3, <1>4 DEF StateInv, Inv, MainInv, NoMain, Request, Shape
<1>6. PICK out : out = <<>>
  OBVIOUS
<1>7. IsNet(out) /\ Items(out) = {}
  BY <1>6, OneItem
<1>8. ~EditorMounted(page) /\ IsPage(page)
  BY <1>5 DEF EditorMounted, Visible, isLoading, StateInv, Inv, PageInv
<1>9. Requests(db, Items(rest) \cup Items(out), failures) /\ NoMain(Items(out))
  BY <1>4, <1>7 DEF StateInv, Inv, Requests, NoMain
<1>10. PICK new : new = DetailApplied(page, x)
  OBVIOUS
<1>11. /\ IsPage(new) /\ ~new.loading
       /\ Same(page, new, {"ver", "versions", "form", "apiDetail", "iterationLoading", "apiLoading",
                           "saving"})
  <2>1. CASE x.ans.status = "ok"
    <3>1. x.ans.value.latest \in BOOLEAN
      BY <1>3, <1>4, <2>1 DEF Request, AnswerShape
    <3>2. PICK b \in BOOLEAN : b = x.ans.value.latest
      BY <3>1
    <3>3. PICK c : c = IF x.ans.value.latest THEN x.ans.value.cats ELSE page.cats
      OBVIOUS
    <3>4. new = [page EXCEPT !.shown = x.arg, !.isLatest = b, !.apis = x.ans.value.rows,
                             !.cats = c, !.loading = FALSE]
      BY <1>10, <2>1, <3>2, <3>3 DEF DetailApplied
    <3> QED BY <1>8, <3>2, <3>4 DEF IsPage, Fields, Same
  <2>2. CASE x.ans.status # "ok"
    BY <1>8, <1>10, <2>2 DEF DetailApplied, IsPage, Fields, Same
  <2> QED BY <2>1, <2>2
<1>12. /\ new.ver = page.ver /\ new.versions = page.versions /\ new.form = page.form
       /\ new.apiDetail = page.apiDetail /\ new.iterationLoading = page.iterationLoading
       /\ new.apiLoading = page.apiLoading /\ new.saving = page.saving
  BY <1>11 DEF Same
<1>13. ~NewVersion(page, new)
  BY <1>12 DEF NewVersion
<1>14. x.ans.status = "ok" => /\ new.shown = x.arg /\ new.apis = x.ans.value.rows
                              /\ new.isLatest = x.ans.value.latest
  BY <1>8, <1>10 DEF DetailApplied, IsPage, Fields
<1>15. x.ans.status # "ok" =>
         /\ new.shown = 0 \/ (x.ans.status # "refused" /\ new.shown = page.shown)
         /\ new.apis = page.apis /\ new.isLatest = page.isLatest
  BY <1>8, <1>10 DEF DetailApplied, IsPage, Fields
<1>16. new.shown # 0 /\ new.isLatest => Known(db, new.shown, DOMAIN new.apis)
  BY <1>3, <1>4, <1>14, <1>15 DEF Request, Told, StateInv, Inv, PageInv
<1>17. new.ver \in Nat /\ new.ver # 0
  BY <1>5, <1>12 DEF Positive
<1>18. failures = 0 => x.ans.status \in {"ok", "refused"}
  BY <1>3, <1>4 DEF StateInv, Inv, Requests, Request, AnswerShape, Statuses
<1>19. failures = 0 /\ new.shown # 0 => new.ver = new.shown
  BY <1>5, <1>12, <1>14, <1>15, <1>18
<1>20. Spin(new, Items(rest) \cup Items(out))
  BY <1>3, <1>4, <1>11, <1>12 DEF StateInv, Inv, Spin, Expects, Saving
<1>21. MainInv(new, rest)
  BY <1>4 DEF MainInv, NoMain, Main
<1>22. /\ new.versions \subseteq Positive
       /\ "id" \in DOMAIN new.form /\ "id" \in DOMAIN new.apiDetail
  BY <1>12 DEF StateInv, Inv, PageInv
<1>23. Ready(db, page, new, rest, out, failures)
  BY <1>4, <1>7, <1>8, <1>9, <1>11, <1>13, <1>16, <1>17, <1>19, <1>20, <1>21, <1>22 DEF Ready
<1>24. Update(new, rest, out) /\ db' = db /\ failures' = failures
  BY <1>1, <1>2, <1>6, <1>10 DEF ServiceDetailArrives, Apply
<1> QED BY <1>23, <1>24, UpdateKeeps

(* The answers that change the page and are followed by no request.           *)
LEMMA QuietKeeps ==
  ASSUME StateInv, NEW i \in DOMAIN net, NEW new, Apply(i, new, <<>>),
         net[i].kind \notin {"versions", "detail"},
         IsPage(new), Same(page, new, {"ver", "versions", "shown", "isLatest", "loading"}),
         DOMAIN new.apis = DOMAIN page.apis,
         "id" \in DOMAIN new.form, "id" \in DOMAIN new.apiDetail,
         EditorMounted(page) /\ EditorMounted(new) => new.form.id = new.apiDetail.id,
         new.iterationLoading => page.iterationLoading /\ net[i].kind # "iteration",
         new.apiLoading => page.apiLoading /\ net[i].kind # "api",
         new.saving =>
           page.saving /\ (net[i].kind \in {"save", "iteration"} => net[i].arg.then # "saved")
  PROVE  StateInv'
<1>1. PICK out : out = <<>>
  OBVIOUS
<1>2. IsNet(out) /\ Items(out) = {} /\ Apply(i, new, out)
  BY <1>1, OneItem
<1>3. \A x \in Items(out) : Request(db, x) /\ x.ans = None /\ ~Main(x)
  BY <1>2
<1> QED BY <1>2, <1>3, ApplyKeeps

LEMMA PageFacts ==
  ASSUME StateInv
  PROVE  /\ IsPage(page) /\ "id" \in DOMAIN page.form /\ "id" \in DOMAIN page.apiDetail
         /\ EditorMounted(page) => page.form.id = page.apiDetail.id
BY DEF StateInv, Inv, PageInv

LEMMA ApiKeeps ==
  ASSUME StateInv, NEW i \in DOMAIN net, ApiDetailArrives(i) PROVE StateInv'
<1>1. PICK a : a = IF net[i].ans.status = "ok" THEN net[i].ans.value ELSE NoApi
  OBVIOUS
<1>2. PICK p : p = [page EXCEPT !.apiDetail = a, !.apiLoading = FALSE]
  OBVIOUS
<1>3. PICK new : new = IF EditorMounted(p) THEN FillForm(p) ELSE p
  OBVIOUS
<1>4. net[i].kind = "api" /\ Apply(i, new, <<>>) /\ net[i].ans # None
  BY <1>1, <1>2, <1>3 DEF ApiDetailArrives, Arrived
<1>5. "id" \in DOMAIN a
  BY <1>1, <1>4, RestFacts DEF Request, AnswerShape, NoApi
<1>6. /\ IsPage(p) /\ p.apiDetail = a /\ p.form = page.form /\ ~p.apiLoading
      /\ Same(page, p, {"ver", "versions", "shown", "isLatest", "loading", "apis", "iterationLoading",
                        "saving", "gone", "inIteration"})
  BY <1>2, PageFacts DEF IsPage, Fields, Same
<1>7. /\ IsPage(new) /\ new.apiDetail = a /\ ~new.apiLoading
      /\ Same(p, new, {"ver", "versions", "shown", "isLatest", "loading", "apis", "iterationLoading",
                       "saving", "gone", "inIteration"})
      /\ new.form = IF EditorMounted(p) THEN a ELSE page.form
  BY <1>3, <1>6 DEF IsPage, Fields, Same, FillForm
<1>8. /\ Same(page, new, {"ver", "versions", "shown", "isLatest", "loading"})
      /\ DOMAIN new.apis = DOMAIN page.apis /\ new.iterationLoading = page.iterationLoading
      /\ new.saving = page.saving
  BY <1>6, <1>7 DEF Same
<1>9. EditorMounted(page) => EditorMounted(p)
  BY <1>6 DEF Same, EditorMounted, Visible, isLoading
<1>10. "id" \in DOMAIN new.form /\ (EditorMounted(page) => new.form.id = new.apiDetail.id)
  BY <1>5, <1>7, <1>9, PageFacts
<1> QED BY <1>4, <1>5, <1>7, <1>8, <1>10, QuietKeeps

LEMMA IterationKeeps ==
  ASSUME StateInv, NEW i \in DOMAIN net, IterationArrives(i) PROVE StateInv'
<1>1. PICK a : a = IF net[i].ans.status = "ok" THEN net[i].ans.value ELSE page.apiDrafts
  OBVIOUS
<1>2. PICK p : p = [page EXCEPT !.apiDrafts = a, !.iterationLoading = FALSE]
  OBVIOUS
<1>3. p = DraftsApplied(page, net[i])
  BY <1>1, <1>2 DEF DraftsApplied
<1>4. PICK new : new = SaveEnds(p, net[i].arg.then)
  OBVIOUS
<1>5. net[i].kind = "iteration" /\ Apply(i, new, <<>>)
  BY <1>3, <1>4 DEF IterationArrives, Arrived
<1> DEFINE fields == {"ver", "versions", "shown", "isLatest", "loading", "apis", "apiLoading", "form",
                      "apiDetail"}
<1>6. IsPage(p) /\ Same(page, p, fields) /\ ~p.iterationLoading /\ p.saving = page.saving
  BY <1>2, PageFacts DEF IsPage, Fields, Same
<1>7. /\ IsPage(new) /\ Same(p, new, fields) /\ ~new.iterationLoading
      /\ new.saving => p.saving /\ net[i].arg.then # "saved"
  BY <1>4, <1>6 DEF IsPage, Fields, Same, SaveEnds
<1>8. /\ Same(page, new, {"ver", "versions", "shown", "isLatest", "loading"})
      /\ DOMAIN new.apis = DOMAIN page.apis /\ new.apiLoading = page.apiLoading
      /\ new.form = page.form /\ new.apiDetail = page.apiDetail
      /\ new.saving => page.saving /\ net[i].arg.then # "saved"
  BY <1>6, <1>7 DEF Same
<1> QED BY <1>5, <1>7, <1>8, PageFacts, QuietKeeps

LEMMA StartCommitKeep ==
  ASSUME StateInv, NEW i \in DOMAIN net, StartArrives(i) \/ CommitArrives(i) PROVE StateInv'
<1> DEFINE fields == {"ver", "versions", "shown", "isLatest", "loading"}
<1>1. PICK new : /\ Apply(i, new, <<>>) /\ net[i].kind \in {"start", "commit"}
                 /\ \/ new = page
                    \/ new = [page EXCEPT !.inIteration = TRUE, !.iterationId = net[i].ans.value]
                    \/ new = [page EXCEPT !.reload = TRUE]
  BY DEF StartArrives, CommitArrives, Arrived
<1>2. /\ IsPage(new) /\ Same(page, new, fields) /\ DOMAIN new.apis = DOMAIN page.apis
      /\ new.form = page.form /\ new.apiDetail = page.apiDetail
      /\ new.apiLoading = page.apiLoading /\ new.iterationLoading = page.iterationLoading
      /\ new.saving = page.saving
  BY <1>1, PageFacts DEF IsPage, Fields, Same
<1> QED BY <1>1, <1>2, PageFacts, QuietKeeps

LEMMA CategoryKeeps ==
  ASSUME StateInv, NEW i \in DOMAIN net, CategoryChangeArrives(i) PROVE StateInv'
<1> DEFINE fields == {"ver", "versions", "shown", "isLatest", "loading"}
<1>1. PICK new : /\ Apply(i, new, <<>>) /\ net[i].kind \in {"move", "addCat", "delCat"}
                 /\ \/ new = page
                    \/ new = MoveApplied(page, net[i])
                    \/ new = [page EXCEPT !.cats = @ \cup net[i].ans.value]
                    \/ new = [page EXCEPT !.cats = @ \ {net[i].arg}]
  BY DEF CategoryChangeArrives, Arrived
<1>2. ASSUME NEW c
      PROVE  LET q == [page EXCEPT !.cats = c]
             IN  /\ IsPage(q) /\ Same(page, q, fields) /\ DOMAIN q.apis = DOMAIN page.apis
                 /\ q.form = page.form /\ q.apiDetail = page.apiDetail
                 /\ q.apiLoading = page.apiLoading /\ q.iterationLoading = page.iterationLoading
                 /\ q.saving = page.saving
  BY PageFacts DEF IsPage, Fields, Same
<1>3. ASSUME NEW r
      PROVE  LET q == MoveApplied(page, r)
             IN  /\ IsPage(q) /\ Same(page, q, fields) /\ DOMAIN q.apis = DOMAIN page.apis
                 /\ q.form = page.form /\ q.apiDetail = page.apiDetail
                 /\ q.apiLoading = page.apiLoading /\ q.iterationLoading = page.iterationLoading
                 /\ q.saving = page.saving
  BY PageFacts DEF IsPage, Fields, Same, MoveApplied
<1>4. /\ IsPage(new) /\ Same(page, new, fields) /\ DOMAIN new.apis = DOMAIN page.apis
      /\ new.form = page.form /\ new.apiDetail = page.apiDetail
      /\ new.apiLoading = page.apiLoading /\ new.iterationLoading = page.iterationLoading
      /\ new.saving = page.saving
  <2>1. CASE new = page
    BY <2>1, PageFacts DEF Same
  <2>2. CASE new = MoveApplied(page, net[i])
    BY <1>3, <2>2
  <2>3. CASE \E c : new = [page EXCEPT !.cats = c]
    BY <1>2, <2>3
  <2> QED BY <1>1, <2>1, <2>2, <2>3, Zenon
<1> QED BY <1>1, <1>4, PageFacts, QuietKeeps

(* A change of the drafts, and the refresh that follows it.                   *)
LEMMA ChangeKeeps ==
  ASSUME StateInv, NEW i \in DOMAIN net, DraftChangeArrives(i) \/ SaveArrives(i) PROVE StateInv'
<1> DEFINE fields == {"ver", "versions", "shown", "isLatest", "loading"}
<1>0. net[i].kind \in {"add", "copy", "delete", "save"}
  BY DEF DraftChangeArrives, SaveArrives, Arrived
<1>1. ASSUME NEW then, Apply(i, [page EXCEPT !.iterationLoading = TRUE], Refresh(net[i], then)),
             net[i].kind = "save" => then = net[i].arg.then
      PROVE  StateInv'
  <2>1. PICK new : new = [page EXCEPT !.iterationLoading = TRUE]
    OBVIOUS
  <2>2. PICK x : x = AskIteration(net[i].arg.it, then)
    OBVIOUS
  <2>3. PICK out : out = <<x>>
    OBVIOUS
  <2>4. IsNet(out) /\ Items(out) = {x}
    BY <2>3, OneItem
  <2>5. Apply(i, new, out)
    BY <1>1, <2>1, <2>2, <2>3 DEF Refresh
  <2>6. /\ x.kind = "iteration" /\ x.live /\ x.live \in BOOLEAN /\ x.ans = None
        /\ DOMAIN x = {"kind", "arg", "ans", "live"} /\ DOMAIN x.arg = {"it", "then"}
        /\ x.arg.then = then
    BY <2>2 DEF AskIteration, Ask
  <2>7. Request(db, x) /\ ~Main(x)
    BY <2>6 DEF Request, Shape, Told, Main, Kinds
  <2>8. /\ IsPage(new) /\ Same(page, new, fields) /\ DOMAIN new.apis = DOMAIN page.apis
        /\ new.form = page.form /\ new.apiDetail = page.apiDetail
        /\ new.apiLoading = page.apiLoading /\ new.saving = page.saving
    BY <2>1, PageFacts DEF IsPage, Fields, Same
  <2>9. Expects(Items(out), {"iteration"}) /\ (then = "saved" => Saving(Items(out)))
    BY <2>4, <2>6 DEF Expects, Saving
  <2>10. new.saving =>
           \/ page.saving /\ (net[i].kind \in {"save", "iteration"} => net[i].arg.then # "saved")
           \/ Saving(Items(out))
    BY <1>0, <1>1, <2>8, <2>9
  <2>11. \A y \in Items(out) : Request(db, y) /\ y.ans = None /\ ~Main(y)
    BY <2>4, <2>6, <2>7
  <2> QED BY <1>0, <2>4, <2>5, <2>8, <2>9, <2>10, <2>11, PageFacts, ApplyKeeps
<1>2. ASSUME NEW new, Apply(i, new, <<>>), IsPage(new), Same(page, new, Fields \ {"saving"}),
             new.saving => page.saving /\ (net[i].kind = "save" => net[i].arg.then # "saved")
      PROVE  StateInv'
  <2>1. /\ Same(page, new, fields) /\ DOMAIN new.apis = DOMAIN page.apis
        /\ new.form = page.form /\ new.apiDetail = page.apiDetail
        /\ new.apiLoading = page.apiLoading /\ new.iterationLoading = page.iterationLoading
        /\ new.gone = page.gone /\ new.inIteration = page.inIteration
    BY <1>2 DEF Same, Fields
  <2> QED BY <1>0, <1>2, <2>1, PageFacts, QuietKeeps
<1>3. CASE DraftChangeArrives(i)
  <2>1. \/ Apply(i, [page EXCEPT !.iterationLoading = TRUE], Refresh(net[i], ""))
        \/ Apply(i, page, <<>>)
    BY <1>3 DEF DraftChangeArrives
  <2>2. net[i].kind # "save"
    BY <1>3 DEF DraftChangeArrives, Arrived
  <2>3. Same(page, page, Fields \ {"saving"}) /\ IsPage(page)
    BY PageFacts DEF Same
  <2> QED BY <1>1, <1>2, <2>1, <2>2, <2>3
<1>4. CASE SaveArrives(i)
  <2>1. PICK b \in BOOLEAN : b = (page.saving /\ net[i].arg.then # "saved")
    OBVIOUS
  <2>2. PICK new : new = [page EXCEPT !.saving = b]
    OBVIOUS
  <2>3. \/ Apply(i, [page EXCEPT !.iterationLoading = TRUE], Refresh(net[i], net[i].arg.then))
        \/ Apply(i, new, <<>>)
    BY <1>4, <2>1, <2>2, Zenon DEF SaveArrives
  <2>4. IsPage(new) /\ Same(page, new, Fields \ {"saving"}) /\ new.saving = b
    BY <2>1, <2>2, PageFacts DEF IsPage, Fields, Same
  <2>5. new.saving => page.saving /\ net[i].arg.then # "saved"
    BY <2>1, <2>4, Zenon
  <2> QED BY <1>1, <1>2, <2>3, <2>4, <2>5
<1> QED BY <1>3, <1>4

LEMMA DropKeeps ==
  ASSUME StateInv, NEW i \in DOMAIN net, Drop(i) PROVE StateInv'
<1>1. PICK rest : rest = Rest(i)
  OBVIOUS
<1>2. /\ IsNet(rest) /\ Items(rest) \subseteq Items(net) /\ Single(rest)
      /\ Items(net) \subseteq Items(rest) \cup {net[i]} /\ ~net[i].live
  BY <1>1, RestFacts DEF Drop
<1>3. Requests(db, Items(rest), failures)
  BY <1>2 DEF StateInv, Inv, Requests
<1>4. MainInv(page, rest)
  BY <1>2 DEF StateInv, Inv, MainInv, NoMain
<1>5. Spin(page, Items(rest))
  BY <1>2 DEF StateInv, Inv, Spin, Expects, Saving
<1>6. Inv(db, page, rest, failures)
  BY <1>2, <1>3, <1>4, <1>5 DEF StateInv, Inv
<1>7. db' = db /\ page' = page /\ net' = rest /\ failures' = failures
  BY <1>1 DEF Drop
<1> QED BY <1>6, <1>7 DEF StateInv

(* A fresh page with the request for its versions.                            *)
LEMMA FreshKeeps ==
  ASSUME NEW d, DbInv(d), NEW f \in Nat, NEW s, IsNet(s), Requests(d, Items(s), f),
         \A x \in Items(s) : ~x.live
  PROVE  Inv(d, FreshPage, s \o <<Ask("versions", None)>>, f)
<1>1. PICK v : v = Ask("versions", None)
  OBVIOUS
<1>2. /\ v.kind = "versions" /\ v.ans = None /\ v.live /\ v.live \in BOOLEAN
      /\ DOMAIN v = {"kind", "arg", "ans", "live"}
  BY <1>1 DEF Ask
<1>3. PICK w : w = <<v>>
  OBVIOUS
<1>4. IsNet(w) /\ Items(w) = {v}
  BY <1>3, OneItem
<1>5. Single(w)
  <2>1. DOMAIN w = {1}
    BY <1>3
  <2> QED BY <2>1 DEF Single
<1>6. PICK t : t = s \o w
  OBVIOUS
<1>7. NoMain(Items(s))
  BY DEF NoMain, Main
<1>8. IsNet(t) /\ Items(t) = Items(s) \cup {v} /\ Single(t)
  BY <1>4, <1>5, <1>6, <1>7, Joined, SingleJoined
<1>9. PICK p : p = FreshPage
  OBVIOUS
<1>10. /\ IsPage(p) /\ p.loading /\ ~p.iterationLoading /\ ~p.apiLoading /\ ~p.saving
       /\ p.ver = 0 /\ p.shown = 0 /\ p.versions = {} /\ p.form = NoApi /\ p.apiDetail = NoApi
       /\ ~p.inIteration
  BY <1>9 DEF FreshPage, IsPage, Fields
<1>11. PageInv(d, p, f)
  <2>1. ~EditorMounted(p) /\ "id" \in DOMAIN NoApi
    BY <1>10 DEF EditorMounted, NoApi
  <2> QED BY <1>10, <2>1 DEF PageInv
<1>12. Request(d, v)
  BY <1>2 DEF Request, Shape, Told, Kinds
<1>13. Requests(d, Items(t), f)
  BY <1>2, <1>8, <1>12 DEF Requests
<1>14. MainInv(p, t)
  BY <1>2, <1>8, <1>10 DEF MainInv
<1>15. Spin(p, Items(t))
  BY <1>2, <1>8, <1>10 DEF Spin, Expects
<1>16. Inv(d, p, t, f)
  BY <1>8, <1>11, <1>13, <1>14, <1>15 DEF Inv
<1> QED BY <1>1, <1>3, <1>6, <1>9, <1>16

LEMMA ReloadKeeps == StateInv /\ Reload => StateInv'
<1> SUFFICES ASSUME StateInv, Reload PROVE StateInv'
  OBVIOUS
<1>1. PICK dead : dead = [i \in DOMAIN net |-> [net[i] EXCEPT !.live = FALSE]]
  OBVIOUS
<1>2. IsNet(net) /\ Len(net) \in Nat /\ DOMAIN net = 1 .. Len(net)
  BY NetFacts DEF StateInv, Inv
<1>3. DOMAIN dead = DOMAIN net /\ \A i \in DOMAIN net : dead[i] = [net[i] EXCEPT !.live = FALSE]
  BY <1>1
<1>4. IsNet(dead)
  <2>1. dead = [i \in 1 .. Len(net) |-> dead[i]]
    BY <1>1, <1>2
  <2> QED BY <1>2, <2>1, FunctionIsNet
<1>5. ASSUME NEW i \in DOMAIN net
      PROVE  /\ ~dead[i].live /\ Request(db, dead[i])
             /\ dead[i].ans # None /\ dead[i].ans.status = "thrown" => failures # 0
  <2>1. PICK x : x = net[i]
    OBVIOUS
  <2>2. Request(db, x) /\ (x.ans # None /\ x.ans.status = "thrown" => failures # 0)
    BY <2>1 DEF StateInv, Inv, Requests, Items
  <2>3. PICK y : y = [x EXCEPT !.live = FALSE]
    OBVIOUS
  <2>4. /\ DOMAIN y = {"kind", "arg", "ans", "live"} /\ ~y.live /\ y.live \in BOOLEAN
        /\ y.kind = x.kind /\ y.arg = x.arg /\ y.ans = x.ans
    BY <2>2, <2>3 DEF Request, Shape
  <2>5. Request(db, y)
    BY <2>2, <2>4 DEF Request, Shape, Told
  <2> QED BY <1>3, <2>1, <2>2, <2>3, <2>4, <2>5
<1>6. Requests(db, Items(dead), failures) /\ \A x \in Items(dead) : ~x.live
  BY <1>3, <1>5 DEF Requests, Items
<1>7. DbInv(db) /\ failures \in Nat
  BY DEF StateInv, Inv
<1>8. Inv(db, FreshPage, dead \o <<Ask("versions", None)>>, failures)
  BY <1>4, <1>6, <1>7, FreshKeeps
<1>9. Append(dead, Ask("versions", None)) = dead \o <<Ask("versions", None)>>
  <2>1. PICK v : v = Ask("versions", None)
    OBVIOUS
  <2>2. PICK S : dead \in Seq(S)
    BY <1>4 DEF IsNet
  <2>3. dead \in Seq(S \cup {v}) /\ v \in S \cup {v}
    BY <2>2
  <2>4. Append(dead, v) = dead \o <<v>>
    BY <2>3, AppendIsConcat
  <2> QED BY <2>1, <2>4
<1>10. /\ db' = db /\ page' = FreshPage /\ failures' = failures
       /\ net' = Append(dead, Ask("versions", None))
  BY <1>1 DEF Reload
<1> QED BY <1>8, <1>9, <1>10 DEF StateInv

LEMMA DeliverKeeps == ASSUME StateInv, NEW i \in DOMAIN net, Deliver(i) PROVE StateInv'
BY VersionsKeep, DetailKeeps, ApiKeeps, IterationKeeps, StartCommitKeep, ChangeKeeps, CategoryKeeps,
   DropKeeps DEF Deliver

LEMMA InitInv == Init => StateInv
<1> SUFFICES ASSUME Init PROVE StateInv
  OBVIOUS
<1>1. PICK row, mine, draft, open :
        db = [latest |-> 2, api |-> OneRow(2, row), cats |-> {}, deleted |-> FALSE,
              hist |-> <<[ver |-> 1, rows |-> OneRow(2, row), apis |-> {1}],
                         [ver |-> 2, rows |-> OneRow(draft, row), apis |-> {2}]>>,
              open |-> open, drafts |-> mine,
              nextApi |-> 3, nextIt |-> 4, nextDraft |-> draft + 1]
  BY Zenon DEF Init
<1>2. PICK a, b : /\ a = [ver |-> 1, rows |-> OneRow(2, row), apis |-> {1}]
                  /\ b = [ver |-> 2, rows |-> OneRow(draft, row), apis |-> {2}]
  OBVIOUS
<1>3. PICK h : h = <<a, b>>
  OBVIOUS
<1>4. h \in Seq({a, b}) /\ DOMAIN h = {1, 2} /\ h[1] = a /\ h[2] = b
  BY <1>3
<1>5. DOMAIN a = {"ver", "rows", "apis"} /\ a.ver = 1 /\ DOMAIN b = {"ver", "rows", "apis"} /\ b.ver = 2
      /\ b.apis = {2}
  BY <1>2
<1>6. IsHistory(h)
  BY <1>4, <1>5 DEF IsHistory, IsNet, Positive
<1>7. DOMAIN db = DbFields /\ db.latest = 2 /\ db.api = OneRow(2, row) /\ db.hist = h
  BY <1>1, <1>2, <1>3 DEF DbFields
<1>8. DOMAIN OneRow(2, row) = {2}
  BY DEF OneRow
<1>9. Known(db, 2, {2})
  BY <1>4, <1>5, <1>7 DEF Known
<1>10. DbInv(db)
  BY <1>6, <1>7, <1>8, <1>9 DEF DbInv, Positive
<1>11. PICK s : s = <<>>
  OBVIOUS
<1>12. IsNet(s) /\ Items(s) = {}
  BY <1>11, OneItem
<1>13. Requests(db, Items(s), 0)
  BY <1>12 DEF Requests
<1>14. Inv(db, FreshPage, s \o <<Ask("versions", None)>>, 0)
  BY <1>10, <1>12, <1>13, FreshKeeps
<1>15. s \o <<Ask("versions", None)>> = <<Ask("versions", None)>>
  BY <1>11
<1>16. page = FreshPage /\ net = <<Ask("versions", None)>> /\ failures = 0
  BY DEF Init
<1> QED BY <1>14, <1>15, <1>16 DEF StateInv

LEMMA NextKeeps == StateInv /\ [Next]_vars => StateInv'
<1> SUFFICES ASSUME StateInv, [Next]_vars PROVE StateInv'
  OBVIOUS
<1>1. CASE UNCHANGED vars
  BY <1>1 DEF vars, StateInv
<1>2. CASE User
  BY <1>2, UserKeeps
<1>3. CASE Serving
  BY <1>3, ServeKeeps DEF Serving
<1>4. CASE Delivering
  BY <1>4, DeliverKeeps DEF Delivering
<1>5. CASE Throwing
  BY <1>5, ThrowKeeps DEF Throwing
<1>6. CASE OthersCommit \/ OwnerDeletes
  BY <1>6, OthersKeep
<1>7. CASE Reload
  BY <1>7, ReloadKeeps
<1> QED BY <1>1, <1>2, <1>3, <1>4, <1>5, <1>6, <1>7 DEF Next

LEMMA StateInvAlways == Spec => []StateInv
BY InitInv, NextKeeps, PTL DEF Spec

(* A save carries the id of the API whose values fill the form of ApiEdit.    *)
THEOREM SavesItsFormAlways == Spec => []SavesItsForm
<1>1. StateInv => SavesItsForm
  BY DEF StateInv, Inv, Requests, Request, Shape, Items, SavesItsForm
<1> QED BY <1>1, StateInvAlways, PTL

(* Without a request that threw, the page that can be seen shows the version  *)
(* of its menu.                                                               *)
THEOREM OneVersionAlways == Spec => []OneVersion
<1>1. StateInv => OneVersion
  BY DEF StateInv, Inv, PageInv, OneVersion, Visible, isLoading
<1> QED BY <1>1, StateInvAlways, PTL

(* A drag moves an API that was published under the version on the page.      *)
THEOREM MovesPublishedAlways == Spec => []MovesPublished
<1>1. StateInv => MovesPublished
  BY DEF StateInv, Inv, Requests, Request, Told, Known, Items, MovesPublished
<1> QED BY <1>1, StateInvAlways, PTL

--------------------------------------------------------------------------------
(* A page without a detail is loading one, unless the service was deleted or  *)
(* a request threw: only a deleted service refuses a detail.                  *)
BlankOK(p) == p.shown = 0 /\ ~p.gone /\ failures = 0 /\ ~db.deleted => p.loading
RefusedDetail(x) == x.kind = "detail" /\ x.ans # None /\ x.ans.status = "refused"
BlankInv ==
  /\ BlankOK(page)
  /\ \A x \in Items(net) : RefusedDetail(x) => db.deleted

LEMMA BlankUpdate ==
  ASSUME StateInv, BlankInv, NEW new, NEW rest, NEW out, Update(new, rest, out),
         UNCHANGED <<db, failures>>, IsPage(new), new.ver \in Nat,
         IsNet(rest), Items(rest) \subseteq Items(net),
         IsNet(out), \A x \in Items(out) : x.ans = None,
         BlankOK(new) \/ NewVersion(page, new)
  PROVE  BlankInv'
<1>1. PICK p : p = Effects(page, new)
  OBVIOUS
<1>2. /\ IsPage(p) /\ Same(new, p, Kept)
      /\ p.loading = (new.loading \/ NewVersion(page, new))
  BY <1>1, EffectsFacts, Zenon
<1>3. p.ver = new.ver /\ p.shown = new.shown /\ p.gone = new.gone
  BY <1>2 DEF Same, Kept, Fields
<1>4. BlankOK(p)
  BY <1>2, <1>3, Zenon DEF BlankOK
<1> DEFINE left == EditorMounted(page) /\ ~EditorMounted(p)
           x1 == IF left THEN Forget(rest) ELSE rest
           x2 == x1 \o out
           x3 == Asked(page, p)
           s == x2 \o x3
<1>5. page' = p /\ net' = s
  BY <1>1, Zenon DEF Update, Render
<1>6. IsNet(x3) /\ \A x \in Items(x3) : x.ans = None
  BY <1>3, AskedFacts
<1> HIDE DEF x3
<1>8. \A x \in Items(rest) : Request(db, x) /\ (RefusedDetail(x) => db.deleted)
  BY DEF StateInv, Inv, Requests, BlankInv
<1>9. IsNet(x1) /\ \A x \in Items(x1) : RefusedDetail(x) => db.deleted
  <2>1. CASE ~left
    BY <1>8, <2>1
  <2>2. CASE left
    <3>1. x1 = Forget(rest)
      BY <2>2
    <3> HIDE DEF x1
    <3>2. /\ IsNet(x1) /\ DOMAIN x1 = DOMAIN rest
          /\ \A i \in DOMAIN rest : x1[i].kind = rest[i].kind /\ x1[i].ans = rest[i].ans
      BY <1>8, <3>1, ForgetFacts
    <3> QED BY <1>8, <3>2 DEF Items, RefusedDetail
  <2> QED BY <2>1, <2>2
<1> HIDE DEF x1, left
<1>10. IsNet(x2) /\ Items(x2) = Items(x1) \cup Items(out)
  BY <1>9, Joined
<1> HIDE DEF x2
<1>11. IsNet(s) /\ Items(s) = Items(x2) \cup Items(x3)
  BY <1>6, <1>10, Joined
<1> HIDE DEF s
<1>12. \A x \in Items(s) : RefusedDetail(x) => db.deleted
  BY <1>6, <1>9, <1>10, <1>11 DEF RefusedDetail
<1> QED BY <1>4, <1>5, <1>12 DEF BlankInv, BlankOK

(* Clicks are made on a page that can be seen.                                *)
LEMMA BlankClick ==
  ASSUME StateInv, BlankInv, Click, NEW new, NEW out, Update(new, net, out),
         IsPage(new), new.ver \in Nat, new.shown = page.shown,
         IsNet(out), \A x \in Items(out) : x.ans = None
  PROVE  BlankInv'
<1>1. page.shown # 0 /\ UNCHANGED <<db, failures>>
  BY DEF Click, Visible, isLoading
<1>2. BlankOK(new)
  BY <1>1 DEF BlankOK
<1>3. IsNet(net) /\ Items(net) \subseteq Items(net)
  BY DEF StateInv, Inv
<1> QED BY <1>1, <1>2, <1>3, BlankUpdate

LEMMA UserBlank == StateInv /\ BlankInv /\ User => BlankInv'
<1> SUFFICES ASSUME StateInv, BlankInv, User PROVE BlankInv'
  OBVIOUS
<1>0. IsPage(page) /\ page.ver \in Nat /\ page.versions \subseteq Nat
  BY DEF StateInv, Inv, PageInv, Positive
<1>1. PICK none : none = <<>>
  OBVIOUS
<1>2. IsNet(none) /\ Items(none) = {}
  BY <1>1, OneItem
<1>3. CASE SelectVersion
  <2>1. PICK v \in page.versions : Click /\ Update([page EXCEPT !.selected = 0, !.ver = v], net, <<>>)
    BY <1>3 DEF SelectVersion
  <2>2. PICK new : new = [page EXCEPT !.selected = 0, !.ver = v]
    OBVIOUS
  <2>3. IsPage(new) /\ new.ver = v /\ new.shown = page.shown
    BY <1>0, <2>2 DEF IsPage, Fields
  <2>4. Click /\ Update(new, net, none) /\ new.ver \in Nat
    BY <1>0, <1>1, <2>1, <2>2, <2>3
  <2> QED BY <1>2, <2>3, <2>4, BlankClick
<1>4. CASE handleSelectApi \/ onValuesChange \/ exitIteration
  <2>1. PICK new : /\ Click /\ Update(new, net, <<>>)
                   /\ \/ \E id : new = [page EXCEPT !.selected = id]
                      \/ \E b : new = [page EXCEPT !.form.body = b, !.isDraft = TRUE]
                      \/ new = [page EXCEPT !.inIteration = FALSE, !.iterationId = 0]
    BY <1>4 DEF handleSelectApi, onValuesChange, exitIteration
  <2>2. IsPage(new) /\ new.ver = page.ver /\ new.shown = page.shown
    BY <1>0, <2>1 DEF IsPage, Fields
  <2>3. Click /\ Update(new, net, none)
    BY <1>1, <2>1
  <2> QED BY <1>0, <1>2, <2>2, <2>3, BlankClick
<1>5. ASSUME NEW k, NEW a, NEW new, Click, Update(new, net, <<Ask(k, a)>>),
             IsPage(new), new.ver \in Nat, new.shown = page.shown
      PROVE  BlankInv'
  <2>1. PICK x : x = Ask(k, a)
    OBVIOUS
  <2>2. PICK out : out = <<x>>
    OBVIOUS
  <2>3. IsNet(out) /\ Items(out) = {x} /\ x.ans = None
    BY <2>1, <2>2, OneItem DEF Ask
  <2>4. Update(new, net, out)
    BY <1>5, <2>1, <2>2
  <2> QED BY <1>5, <2>3, <2>4, BlankClick
<1>6. CASE handleSubmit
  <2>1. PICK new : new = [page EXCEPT !.saving = TRUE]
    OBVIOUS
  <2>2. IsPage(new) /\ new.ver = page.ver /\ new.shown = page.shown
    BY <1>0, <2>1 DEF IsPage, Fields
  <2>3. PICK a : SaveRequest = Ask("save", a)
    BY DEF SaveRequest
  <2>4. Click /\ Update(new, net, <<Ask("save", a)>>)
    BY <1>6, <2>1, <2>3 DEF handleSubmit
  <2> QED BY <1>0, <1>5, <2>2, <2>4
<1>7. ASSUME NEW k, NEW a, Send(Ask(k, a)) PROVE BlankInv'
  BY <1>0, <1>5, <1>7 DEF Send
<1>8. CASE \/ handleDrag \/ handleAddCategory \/ handleDeleteCategory \/ handleStartIteration
           \/ handleCompleteIteration \/ handleAddApi \/ handleCopyApi \/ handleDeleteApi
  <2>1. \E k, a : Send(Ask(k, a))
    BY <1>8, Zenon
    DEF handleDrag, handleAddCategory, handleDeleteCategory, handleStartIteration,
        handleCompleteIteration, handleAddApi, handleCopyApi, handleDeleteApi
  <2> QED BY <1>7, <2>1
<1> QED BY <1>3, <1>4, <1>6, <1>8 DEF User

--------------------------------------------------------------------------------
(* Once deleted, a service stays deleted.                                     *)
LEMMA StaysDeleted ==
  ASSUME NEW d, DOMAIN d = DbFields, d.deleted, NEW x, x.kind \in Kinds
  PROVE  Writes(d, x).deleted
<1>1. ASSUME NEW v, NEW rows
      PROVE  Publish(d, v, rows).deleted /\ DOMAIN Publish(d, v, rows) = DbFields
  BY DEF Publish, DbFields
<1>2. \A row : NewDraft(d, row).deleted
  BY DEF NewDraft, DbFields
<1>3. Started(d).deleted
  BY DEF Started, DbFields
<1>4. \A a : Committed(d, a).deleted
  <2> TAKE a
  <2>1. PICK p : p = Publish(d, a.ver, d.drafts)
    OBVIOUS
  <2>2. p.deleted /\ DOMAIN p = DbFields
    BY <1>1, <2>1
  <2>3. [p EXCEPT !.open = 0, !.drafts = NoRows].deleted
    BY <2>2 DEF DbFields
  <2> QED BY <2>1, <2>3 DEF Committed
<1>5. \A a : Added(d, a).deleted /\ Copied(d, a).deleted
  BY <1>2 DEF Added, Copied
<1>6. \A a : Deleted(d, a).deleted /\ Saved(d, a).deleted /\ Moved(d, a).deleted
  BY DEF Deleted, Saved, Moved, DbFields
<1>7. CategoryAdded(d).deleted /\ \A c : CategoryDeleted(d, c).deleted
  BY DEF CategoryAdded, CategoryDeleted, DbFields
<1> QED BY <1>3, <1>4, <1>5, <1>6, <1>7 DEF Writes, Kinds

LEMMA RefusedDeleted ==
  ASSUME NEW d, NEW x, x.kind = "detail", Answer(d, x).status = "refused"
  PROVE  d.deleted
<1>1. Answer(d, x) = AnswerDetail(d, x.arg)
  BY DEF Answer
<1>2. \A v : Ok(v).status # "refused"
  BY DEF Ok
<1> QED BY <1>1, <1>2 DEF AnswerDetail

LEMMA ServedBlank ==
  ASSUME StateInv, BlankInv, NEW i \in DOMAIN net, Serve(i) \/ Throw(i) PROVE BlankInv'
<1>1. PICK x : x = net[i]
  OBVIOUS
<1>2. IsNet(net) /\ x \in Items(net) /\ Request(db, x) /\ DOMAIN db = DbFields /\ failures \in Nat
  BY <1>1 DEF StateInv, Inv, Requests, Items, DbInv
<1>3. PICK ans : /\ net' = [net EXCEPT ![i].ans = ans]
                 /\ \/ ans = Answer(db, x) /\ failures' = failures
                    \/ ans = Thrown /\ failures' # 0
  BY <1>1, <1>2 DEF Serve, Throw
<1>4. PICK y : y = [x EXCEPT !.ans = ans]
  OBVIOUS
<1>5. y.kind = x.kind /\ y.ans = ans
  BY <1>2, <1>4 DEF Request, Shape
<1>6. net' = [net EXCEPT ![i] = y]
  BY <1>1, <1>3, <1>4
<1>7. Items(net') \subseteq Items(net) \cup {y}
  BY <1>2, <1>6, ChangedItem
<1>8. RefusedDetail(y) => db.deleted
  <2>1. Thrown.status = "thrown"
    BY DEF Thrown
  <2> QED BY <1>3, <1>5, <2>1, RefusedDeleted DEF RefusedDetail
<1>9. page' = page /\ (db.deleted => db'.deleted)
  BY <1>1, <1>2, StaysDeleted DEF Serve, Throw, Request, Shape
<1>10. BlankOK(page)'
  BY <1>3, <1>9 DEF BlankInv, BlankOK
<1> QED BY <1>7, <1>8, <1>9, <1>10 DEF BlankInv

LEMMA OthersBlank == StateInv /\ BlankInv /\ (OthersCommit \/ OwnerDeletes) => BlankInv'
<1> SUFFICES ASSUME StateInv, BlankInv, OthersCommit \/ OwnerDeletes PROVE BlankInv'
  OBVIOUS
<1>0. DOMAIN db = DbFields /\ page' = page /\ net' = net /\ failures' = failures
  BY DEF StateInv, Inv, DbInv, OthersCommit, OwnerDeletes
<1>1. CASE OwnerDeletes
  <2>1. db'.deleted
    BY <1>0, <1>1 DEF OwnerDeletes, DbFields
  <2> QED BY <1>0, <2>1 DEF BlankInv, BlankOK
<1>2. CASE OthersCommit
  <2>1. PICK p, k : /\ \E rows : p = Publish(db, db.latest + 1, rows)
                    /\ db' = [p EXCEPT !.nextIt = @ + 1, !.nextDraft = @ + k]
    BY <1>2 DEF OthersCommit
  <2>2. DOMAIN p = DbFields /\ p.deleted = db.deleted
    BY <1>0, <2>1 DEF Publish, DbFields
  <2>3. db'.deleted = db.deleted
    BY <2>1, <2>2 DEF DbFields
  <2> QED BY <1>0, <2>3 DEF BlankInv, BlankOK
<1> QED BY <1>1, <1>2

--------------------------------------------------------------------------------
LEMMA BlankApply ==
  ASSUME StateInv, BlankInv, NEW i \in DOMAIN net, NEW new, NEW out, Apply(i, new, out),
         IsPage(new), new.ver \in Nat, IsNet(out), \A x \in Items(out) : x.ans = None,
         BlankOK(new) \/ NewVersion(page, new)
  PROVE  BlankInv'
<1>1. PICK rest : rest = Rest(i)
  OBVIOUS
<1>2. IsNet(rest) /\ Items(rest) \subseteq Items(net)
  BY <1>1, RestFacts
<1>3. Update(new, rest, out) /\ UNCHANGED <<db, failures>>
  BY <1>1 DEF Apply
<1> QED BY <1>2, <1>3, BlankUpdate

LEMMA MainBlank ==
  ASSUME StateInv, BlankInv, NEW i \in DOMAIN net, AllVersionsArrive(i) \/ ServiceDetailArrives(i)
  PROVE  BlankInv'
<1>0. IsPage(page) /\ page.ver \in Nat /\ net[i] \in Items(net) /\ Requests(db, Items(net), failures)
      /\ MainInv(page, net)
  BY DEF StateInv, Inv, PageInv, Items
<1>1. PICK none : none = <<>>
  OBVIOUS
<1>2. IsNet(none) /\ Items(none) = {}
  BY <1>1, OneItem
<1>3. PICK x : x = net[i]
  OBVIOUS
<1>4. /\ Request(db, x) /\ x \in Items(net)
      /\ x.ans # None => AnswerShape(x.kind, x.ans)
      /\ x.ans # None /\ x.ans.status = "thrown" => failures # 0
  BY <1>0, <1>3 DEF Requests, Request
<1>5. CASE AllVersionsArrive(i)
  <2>1. x.kind = "versions" /\ x.ans # None /\ x.live
    BY <1>3, <1>5 DEF AllVersionsArrive, Arrived
  <2>2. CASE x.ans.status = "ok"
    <3>1. PICK new : new = [page EXCEPT !.versions = x.ans.value.versions, !.ver = x.ans.value.ver,
                                        !.isLatest = TRUE, !.loading = FALSE]
      OBVIOUS
    <3>2. Apply(i, new, none)
      BY <1>1, <1>3, <1>5, <2>2, <3>1 DEF AllVersionsArrive
    <3>3. IsPage(new) /\ new.ver = x.ans.value.ver
      BY <1>0, <3>1 DEF IsPage, Fields
    <3>4. x.ans.value.ver \in Positive /\ page.ver = 0
      BY <1>0, <1>4, <2>1, <2>2 DEF AnswerShape, MainInv
    <3>5. NewVersion(page, new) /\ new.ver \in Nat
      BY <3>3, <3>4 DEF NewVersion, Positive
    <3> QED BY <1>2, <3>2, <3>3, <3>5, BlankApply
  <2>3. CASE x.ans.status # "ok"
    <3>1. PICK new : new = [page EXCEPT !.gone = TRUE, !.loading = FALSE]
      OBVIOUS
    <3>2. Apply(i, new, none)
      BY <1>1, <1>3, <1>5, <2>3, <3>1 DEF AllVersionsArrive
    <3>3. IsPage(new) /\ new.gone /\ new.ver \in Nat
      BY <1>0, <3>1 DEF IsPage, Fields
    <3> QED BY <1>2, <3>2, <3>3, BlankApply DEF BlankOK
  <2> QED BY <2>2, <2>3
<1>6. CASE ServiceDetailArrives(i)
  <2>1. x.kind = "detail" /\ x.ans # None
    BY <1>3, <1>6 DEF ServiceDetailArrives, Arrived
  <2>2. PICK new : new = DetailApplied(page, x)
    OBVIOUS
  <2>3. Apply(i, new, none)
    BY <1>1, <1>3, <1>6, <2>2 DEF ServiceDetailArrives
  <2>4. CASE x.ans.status = "ok"
    <3>1. PICK b \in BOOLEAN : b = x.ans.value.latest
      BY <1>4, <2>1, <2>4 DEF AnswerShape
    <3>2. PICK c : c = IF x.ans.value.latest THEN x.ans.value.cats ELSE page.cats
      OBVIOUS
    <3>3. new = [page EXCEPT !.shown = x.arg, !.isLatest = b, !.apis = x.ans.value.rows,
                             !.cats = c, !.loading = FALSE]
      BY <2>2, <2>4, <3>1, <3>2 DEF DetailApplied
    <3>4. IsPage(new) /\ new.shown = x.arg /\ new.ver = page.ver
      BY <1>0, <3>1, <3>3 DEF IsPage, Fields
    <3>5. x.arg # 0
      BY <1>4, <2>1 DEF Request, Shape, Positive
    <3> QED BY <1>0, <1>2, <2>3, <3>4, <3>5, BlankApply DEF BlankOK
  <2>5. CASE x.ans.status # "ok"
    <3>1. IsPage(new) /\ new.ver \in Nat
      BY <1>0, <2>2, <2>5 DEF DetailApplied, IsPage, Fields
    <3>2. db.deleted \/ failures # 0
      BY <1>4, <2>1, <2>5 DEF AnswerShape, Statuses, BlankInv, RefusedDetail
    <3> QED BY <1>2, <2>3, <3>1, <3>2, BlankApply DEF BlankOK
  <2> QED BY <2>4, <2>5
<1> QED BY <1>5, <1>6

(* The other answers leave the version and its spinner alone.                 *)
LEMMA OtherBlank ==
  ASSUME StateInv, BlankInv, NEW i \in DOMAIN net,
         \/ ApiDetailArrives(i) \/ IterationArrives(i) \/ StartArrives(i) \/ CommitArrives(i)
         \/ DraftChangeArrives(i) \/ SaveArrives(i) \/ CategoryChangeArrives(i)
  PROVE  BlankInv'
<1>0. IsPage(page) /\ page.ver \in Nat
  BY DEF StateInv, Inv, PageInv
<1> DEFINE Alike(new) == IsPage(new) /\ Same(page, new, {"ver", "shown", "gone", "loading"})
<1>1. PICK none : none = <<>>
  OBVIOUS
<1>2. IsNet(none) /\ Items(none) = {}
  BY <1>1, OneItem
<1>3. ASSUME NEW new, NEW out, Apply(i, new, out), Alike(new), IsNet(out),
             \A x \in Items(out) : x.ans = None
      PROVE  BlankInv'
  <2>1. new.ver = page.ver /\ new.shown = page.shown /\ new.gone = page.gone /\ new.loading = page.loading
    BY <1>3 DEF Same
  <2>2. BlankOK(new) /\ new.ver \in Nat
    BY <1>0, <2>1 DEF BlankInv, BlankOK
  <2> QED BY <1>3, <2>2, BlankApply
<1>4. ASSUME NEW new, Apply(i, new, <<>>), Alike(new) PROVE BlankInv'
  BY <1>1, <1>2, <1>3, <1>4
<1>5. PICK x : x = net[i]
  OBVIOUS
<1>6. CASE ApiDetailArrives(i)
  <2>1. PICK p : /\ p = [page EXCEPT !.apiDetail = IF x.ans.status = "ok" THEN x.ans.value ELSE NoApi,
                                     !.apiLoading = FALSE]
    OBVIOUS
  <2>2. PICK new : new = IF EditorMounted(p) THEN FillForm(p) ELSE p
    OBVIOUS
  <2>3. Apply(i, new, <<>>)
    BY <1>5, <1>6, <2>1, <2>2 DEF ApiDetailArrives
  <2>4. Alike(p) /\ DOMAIN p = Fields
    BY <1>0, <2>1 DEF IsPage, Fields, Same
  <2>5. Alike(new)
    BY <2>2, <2>4 DEF FillForm, IsPage, Fields, Same
  <2> QED BY <1>4, <2>3, <2>5
<1>7. CASE IterationArrives(i)
  <2>1. PICK p : p = DraftsApplied(page, x)
    OBVIOUS
  <2>2. PICK new : new = SaveEnds(p, x.arg.then)
    OBVIOUS
  <2>3. Apply(i, new, <<>>)
    BY <1>5, <1>7, <2>1, <2>2 DEF IterationArrives
  <2>4. Alike(p)
    BY <1>0, <2>1 DEF DraftsApplied, IsPage, Fields, Same
  <2>5. Alike(new)
    BY <2>2, <2>4 DEF SaveEnds, IsPage, Fields, Same
  <2> QED BY <1>4, <2>3, <2>5
<1>8. CASE StartArrives(i) \/ CommitArrives(i)
  <2>1. PICK new : /\ Apply(i, new, <<>>)
                   /\ \/ new = page
                      \/ new = [page EXCEPT !.inIteration = TRUE, !.iterationId = net[i].ans.value]
                      \/ new = [page EXCEPT !.reload = TRUE]
    BY <1>8 DEF StartArrives, CommitArrives
  <2>2. Alike(new)
    BY <1>0, <2>1 DEF IsPage, Fields, Same
  <2> QED BY <1>4, <2>1, <2>2
<1>9. CASE DraftChangeArrives(i) \/ SaveArrives(i)
  <2>1. PICK b \in BOOLEAN : b = (page.saving /\ net[i].arg.then # "saved")
    OBVIOUS
  <2>2. PICK new : new = [page EXCEPT !.saving = b]
    OBVIOUS
  <2>3. PICK load : load = [page EXCEPT !.iterationLoading = TRUE]
    OBVIOUS
  <2>4. \/ \E then : Apply(i, load, Refresh(net[i], then))
        \/ Apply(i, page, <<>>)
        \/ Apply(i, new, <<>>)
    BY <1>9, <2>1, <2>2, <2>3, Zenon DEF DraftChangeArrives, SaveArrives
  <2>5. Alike(page) /\ Alike(new) /\ Alike(load)
    BY <1>0, <2>1, <2>2, <2>3 DEF IsPage, Fields, Same
  <2>6. ASSUME NEW then, Apply(i, load, Refresh(net[i], then)) PROVE BlankInv'
    <3>1. PICK y : y = AskIteration(net[i].arg.it, then)
      OBVIOUS
    <3>2. PICK out : out = <<y>>
      OBVIOUS
    <3>3. IsNet(out) /\ Items(out) = {y} /\ y.ans = None
      BY <3>1, <3>2, OneItem DEF AskIteration, Ask
    <3>4. Apply(i, load, out)
      BY <2>6, <3>1, <3>2 DEF Refresh
    <3> QED BY <1>3, <2>5, <3>3, <3>4
  <2> HIDE DEF Alike
  <2> QED BY <1>4, <2>4, <2>5, <2>6
<1>10. CASE CategoryChangeArrives(i)
  <2>1. PICK moved : moved = MoveApplied(page, x)
    OBVIOUS
  <2>2. PICK new : /\ Apply(i, new, <<>>)
                   /\ \/ new = moved
                      \/ new = page
                      \/ \E c : new = [page EXCEPT !.cats = c]
    BY <1>5, <1>10, <2>1, Zenon DEF CategoryChangeArrives
  <2>3. Alike(moved)
    <3>1. \/ moved = page
          \/ \E rows : moved = [page EXCEPT !.apis = rows]
      BY <2>1 DEF MoveApplied
    <3> QED BY <1>0, <3>1 DEF IsPage, Fields, Same
  <2>4. Alike(new)
    BY <1>0, <2>2, <2>3 DEF IsPage, Fields, Same
  <2> QED BY <1>4, <2>2, <2>4
<1> QED BY <1>6, <1>7, <1>8, <1>9, <1>10

LEMMA DropReloadBlank ==
  ASSUME StateInv, BlankInv, Reload \/ \E i \in DOMAIN net : Drop(i) PROVE BlankInv'
<1>0. IsNet(net)
  BY DEF StateInv, Inv
<1>1. ASSUME NEW i \in DOMAIN net, Drop(i) PROVE BlankInv'
  <2>1. Items(net') \subseteq Items(net) /\ UNCHANGED <<db, page, failures>>
    BY <1>1, RestFacts DEF Drop
  <2> QED BY <2>1 DEF BlankInv, BlankOK
<1>2. CASE Reload
  <2>1. PICK s : s = [i \in DOMAIN net |-> [net[i] EXCEPT !.live = FALSE]]
    OBVIOUS
  <2>2. PICK x : x = Ask("versions", None)
    OBVIOUS
  <2>3. net' = Append(s, x) /\ page' = FreshPage /\ UNCHANGED <<db, failures>>
    BY <1>2, <2>1, <2>2 DEF Reload
  <2>4. x.kind = "versions"
    BY <2>2 DEF Ask
  <2>5. \A i \in DOMAIN net : Shape(net[i]) /\ (RefusedDetail(net[i]) => db.deleted)
    BY DEF StateInv, Inv, Requests, Request, BlankInv, Items
  <2>6. DOMAIN s = DOMAIN net /\ \A i \in DOMAIN net : s[i].kind = net[i].kind /\ s[i].ans = net[i].ans
    BY <2>1, <2>5 DEF Shape
  <2>7. DOMAIN net = 1 .. Len(net) /\ Len(net) \in Nat
    BY <1>0, NetFacts
  <2>8. \A z \in Items(net') : z = x \/ \E i \in DOMAIN net : z = s[i]
    <3>1. s = [i \in 1 .. Len(net) |-> s[i]]
      BY <2>1, <2>7
    <3>2. IsNet(s)
      BY <2>7, <3>1, FunctionIsNet
    <3>3. PICK S : s \in Seq(S) /\ x \in S
      <4>1. PICK T : s \in Seq(T)
        BY <3>2 DEF IsNet
      <4>2. s \in Seq(T \cup {x})
        BY <4>1
      <4> QED BY <4>2
    <3>4. \A j \in DOMAIN Append(s, x) :
            Append(s, x)[j] = x \/ (j \in DOMAIN s /\ Append(s, x)[j] = s[j])
      BY <3>3
    <3> QED BY <2>3, <2>6, <3>4 DEF Items
  <2>9. FreshPage.loading
    BY DEF FreshPage
  <2> QED BY <2>3, <2>4, <2>5, <2>6, <2>8, <2>9 DEF BlankInv, BlankOK, RefusedDetail
<1> QED BY <1>1, <1>2

LEMMA BlankInit == Init => BlankInv
<1> SUFFICES ASSUME Init PROVE BlankInv
  OBVIOUS
<1>1. page = FreshPage /\ net = <<Ask("versions", None)>>
  BY DEF Init
<1>2. PICK x : x = Ask("versions", None)
  OBVIOUS
<1>3. Items(net) = {x} /\ x.kind = "versions"
  BY <1>1, <1>2, OneItem DEF Ask
<1>4. page.loading
  BY <1>1 DEF FreshPage
<1> QED BY <1>3, <1>4 DEF BlankInv, BlankOK, RefusedDetail

LEMMA BlankStep == StateInv /\ BlankInv /\ [Next]_vars => BlankInv'
<1> SUFFICES ASSUME StateInv, BlankInv, [Next]_vars PROVE BlankInv'
  OBVIOUS
<1>1. CASE UNCHANGED vars
  BY <1>1 DEF vars, BlankInv, BlankOK
<1>2. CASE User
  BY <1>2, UserBlank
<1>3. CASE Serving \/ Throwing
  BY <1>3, ServedBlank DEF Serving, Throwing
<1>4. CASE Delivering
  BY <1>4, MainBlank, OtherBlank, DropReloadBlank DEF Delivering, Deliver
<1>5. CASE OthersCommit \/ OwnerDeletes
  BY <1>5, OthersBlank
<1>6. CASE Reload
  BY <1>6, DropReloadBlank
<1> QED BY <1>1, <1>2, <1>3, <1>4, <1>5, <1>6 DEF Next

(* No spinner outlives what it waits for, through refusals, exceptions and    *)
(* reloads; the page itself may be left without a detail, and with its        *)
(* spinner, once the service was deleted or a request threw.                  *)
THEOREM SpinnersEndAlways == Spec => []SpinnersEnd
<1>1. StateInv /\ BlankInv => SpinnersEnd
  <2> SUFFICES ASSUME StateInv, BlankInv PROVE SpinnersEnd
    OBVIOUS
  <2>1. \A K : Expects(Items(net), K) => Awaits(K)
    BY DEF Expects, Awaits, Items
  <2>2. Saving(Items(net)) => Awaits({"save", "iteration"})
    BY DEF Saving, Awaits, Items
  <2>3. Spin(page, Items(net))
    BY DEF StateInv, Inv
  <2>4. isLoading(page) /\ ~page.gone => page.loading \/ db.deleted \/ failures # 0
    BY DEF BlankInv, BlankOK, isLoading
  <2> QED BY <2>1, <2>2, <2>3, <2>4 DEF Spin, SpinnersEnd
<1> QED BY <1>1, BlankInit, BlankStep, StateInvAlways, PTL DEF Spec

--------------------------------------------------------------------------------
(* The shape of rows, details and requests.                                   *)

(* A set of numbers has a least element.                                      *)
LEMMA Least ==
  ASSUME NEW T \in SUBSET Nat, T # {}
  PROVE  \E x \in T : \A y \in T : x <= y
<1>1. IsWellFoundedOn(OpToRel(<, Nat), Nat)
  BY NatLessThanWellFounded
<1> DEFINE R == OpToRel(<, Nat)
<1>2. \A x, y \in Nat : x < y => <<x, y>> \in R
  BY DEF OpToRel
<1> HIDE DEF R
<1>3. IsWellFoundedOn(R, Nat)
  BY <1>1 DEF R
<1>4. PICK x \in T : \A y \in T : ~(<<y, x>> \in R)
  BY <1>3, WFMin
<1>5. \A y \in T : ~(y < x)
  BY <1>2, <1>4
<1> QED BY <1>4, <1>5

LEMMA FirstBodyIn == FirstBody \in Bodies
<1>1. \E b \in Bodies : \A c \in Bodies : b <= c
  BY BodiesNat, Least
<1> QED BY <1>1 DEF FirstBody

LEMMA RowsFinite ==
  ASSUME NEW rows, NEW next \in Positive, IsRows(rows, next)
  PROVE  /\ IsFiniteSet(DOMAIN rows) /\ Cardinality(DOMAIN rows) \in Nat
         /\ DOMAIN rows \subseteq Nat /\ \A id \in DOMAIN rows : rows[id] \in Row
<1>1. DOMAIN rows \subseteq 1 .. next - 1 /\ \A id \in DOMAIN rows : rows[id] \in Row
  BY DEF IsRows
<1>2. IsFiniteSet(1 .. next - 1)
  BY FS_Interval DEF Positive
<1>3. IsFiniteSet(DOMAIN rows)
  BY <1>1, <1>2, FS_Subset
<1>4. 1 .. next - 1 \subseteq Nat
  BY DEF Positive
<1> QED BY <1>1, <1>3, <1>4, FS_CardinalityType

(* The copies of rows take as many ids, from the next one on.                 *)
LEMMA RenumberedFacts ==
  ASSUME NEW rows, NEW next \in Positive, IsFiniteSet(DOMAIN rows), DOMAIN rows \subseteq Nat,
         \A id \in DOMAIN rows : rows[id] \in Row
  PROVE  LET new == Renumbered(rows, next)
         IN  /\ Cardinality(DOMAIN rows) \in Nat
             /\ Cardinality(DOMAIN new) = Cardinality(DOMAIN rows)
             /\ IsRows(new, next + Cardinality(DOMAIN rows))
<1> DEFINE D == DOMAIN rows
           Below(id) == {j \in D : j < id}
           place(id) == next + Cardinality(Below(id))
           from(new) == CHOOSE id \in D : place(id) = new
           T == {place(id) : id \in D}
           new == [i \in T |-> rows[from(i)]]
<1>1. D \subseteq Nat
  OBVIOUS
<1>2. IsFiniteSet(D) /\ Cardinality(D) \in Nat
  BY FS_CardinalityType
<1>3. \A id \in D : IsFiniteSet(Below(id)) /\ Cardinality(Below(id)) \in Nat
  BY <1>2, FS_Subset, FS_CardinalityType
<1>4. ASSUME NEW id \in D PROVE Cardinality(Below(id)) < Cardinality(D)
  <2>1. Below(id) \in SUBSET D /\ Below(id) # D
    BY <1>1
  <2> QED BY <1>2, <1>3, <2>1, FS_Subset
<1>5. ASSUME NEW i \in D, NEW j \in D, i < j PROVE Cardinality(Below(i)) < Cardinality(Below(j))
  <2>1. Below(i) \in SUBSET Below(j) /\ Below(i) # Below(j)
    BY <1>1, <1>5
  <2>2. IsFiniteSet(Below(j)) /\ Cardinality(Below(i)) \in Nat /\ Cardinality(Below(j)) \in Nat
    BY <1>3
  <2> HIDE DEF Below
  <2> QED BY <2>1, <2>2, FS_Subset
<1> HIDE DEF Below
<1>6. \A id \in D : place(id) \in next .. next + Cardinality(D) - 1
  BY <1>2, <1>3, <1>4 DEF Positive
<1>7. ASSUME NEW i \in D, NEW j \in D, place(i) = place(j) PROVE i = j
  <2>1. ~(i < j) /\ ~(j < i)
    BY <1>3, <1>5, <1>7 DEF Positive
  <2> QED BY <1>1, <2>1
<1>8. PICK f : f = [id \in D |-> place(id)]
  OBVIOUS
<1> HIDE DEF place
<1>9. f \in Bijection(D, T)
  BY <1>7, <1>8 DEF Bijection, Injection, Surjection, IsInjective
<1>10. Cardinality(T) = Cardinality(D)
  BY <1>2, <1>9, FS_Bijection DEF ExistsBijection
<1>11. PICK n : n = next + Cardinality(D)
  OBVIOUS
<1>12. Renumbered(rows, next) = new
  BY Zenon DEF Renumbered, place, Below
<1>13. DOMAIN new = T
  OBVIOUS
<1>14. ASSUME NEW i \in T PROVE i \in 1 .. n - 1 /\ new[i] \in Row
  <2>1. i \in next .. next + Cardinality(D) - 1
    BY <1>6
  <2>2. i \in 1 .. n - 1
    BY <1>2, <1>11, <2>1 DEF Positive
  <2>3. from(i) \in D
    OBVIOUS
  <2>4. new[i] = rows[from(i)]
    OBVIOUS
  <2> HIDE DEF from, new
  <2>5. rows[from(i)] \in Row
    BY <2>3
  <2> QED BY <2>2, <2>4, <2>5
<1> HIDE DEF T, new
<1>15. IsRows(new, n)
  BY <1>13, <1>14 DEF IsRows
<1> QED BY <1>2, <1>10, <1>11, <1>12, <1>13, <1>15

(* The rows of the server: ids below the counters, of which the one of the    *)
(* APIs never overtakes the one of the drafts.                                *)
RowsInv(d) ==
  /\ d.nextApi \in Positive /\ d.nextDraft \in Positive
  /\ d.nextApi + Cardinality(DOMAIN d.drafts) <= d.nextDraft
  /\ d.cats \subseteq Cats
  /\ IsRows(d.api, d.nextApi) /\ IsRows(d.drafts, d.nextDraft)
  /\ \A j \in DOMAIN d.hist : IsRows(d.hist[j].rows, d.nextDraft) /\ d.hist[j].ver <= MaxVersion
Later(d, e) == Grows(d, e) /\ d.nextDraft <= e.nextDraft

LEMMA MoreRows ==
  ASSUME NEW rows, NEW m \in Positive, NEW n \in Positive, m <= n, IsRows(rows, m)
  PROVE  IsRows(rows, n)
BY DEF IsRows, Positive

LEMMA RowsCounted ==
  ASSUME NEW d, RowsInv(d)
  PROVE  /\ Cardinality(DOMAIN d.drafts) \in Nat /\ Cardinality(DOMAIN d.api) \in Nat
         /\ d.nextApi <= d.nextDraft
BY RowsFinite DEF RowsInv, Positive

LEMMA PublishRows ==
  ASSUME NEW d, DbInv(d), d.nextApi \in Positive, NEW v, NEW rows,
         IsFiniteSet(DOMAIN rows), DOMAIN rows \subseteq Nat, \A id \in DOMAIN rows : rows[id] \in Row
  PROVE  LET p == Publish(d, v, rows)
         IN  /\ DOMAIN p = DbFields
             /\ p.nextApi = d.nextApi + Cardinality(DOMAIN rows) /\ IsRows(p.api, p.nextApi)
             /\ p.drafts = d.drafts /\ p.nextDraft = d.nextDraft /\ p.cats = d.cats
             /\ p.open = d.open /\ p.nextIt = d.nextIt
             /\ \A j \in DOMAIN p.hist : \/ j \in DOMAIN d.hist /\ p.hist[j] = d.hist[j]
                                         \/ p.hist[j].ver = v /\ p.hist[j].rows = rows
<1> DEFINE apis == Renumbered(rows, d.nextApi)
           last == [ver |-> v, rows |-> rows, apis |-> DOMAIN apis]
           h == d.hist
           g == Append(h, last)
           p == Publish(d, v, rows)
<1>1. /\ Cardinality(DOMAIN apis) = Cardinality(DOMAIN rows)
      /\ IsRows(apis, d.nextApi + Cardinality(DOMAIN rows))
  BY RenumberedFacts
<1>2. /\ DOMAIN p = DbFields /\ p.nextApi = d.nextApi + Cardinality(DOMAIN apis) /\ p.api = apis
      /\ p.drafts = d.drafts /\ p.nextDraft = d.nextDraft /\ p.cats = d.cats
      /\ p.open = d.open /\ p.nextIt = d.nextIt /\ p.hist = g
  BY DEF Publish, DbInv, DbFields
<1>3. last.ver = v /\ last.rows = rows
  OBVIOUS
<1>4. h \in Seq(Items(h)) /\ DOMAIN h = 1 .. Len(h) /\ Len(h) \in Nat
  BY NetFacts DEF DbInv, IsHistory
<1> HIDE DEF apis, last, h, p
<1>5. DOMAIN g = 1 .. Len(h) + 1 /\ g[Len(h) + 1] = last /\ \A j \in DOMAIN h : g[j] = h[j]
  <2>1. h \in Seq(Items(h) \cup {last}) /\ last \in Items(h) \cup {last}
    BY <1>4
  <2> QED BY <1>4, <2>1
<1> HIDE DEF g
<1>6. \A j \in DOMAIN g : (j \in DOMAIN h /\ g[j] = h[j]) \/ g[j] = last
  BY <1>4, <1>5
<1> QED BY <1>1, <1>2, <1>3, <1>6 DEF h, p

LEMMA DraftsReplaced ==
  ASSUME NEW d, RowsInv(d), NEW e, e.nextApi = d.nextApi, e.api = d.api, e.cats = d.cats,
         e.hist = d.hist, e.nextDraft \in Positive, d.nextDraft <= e.nextDraft,
         IsRows(e.drafts, e.nextDraft), d.nextApi + Cardinality(DOMAIN e.drafts) <= e.nextDraft
  PROVE  RowsInv(e)
<1>1. \A j \in DOMAIN e.hist : IsRows(e.hist[j].rows, e.nextDraft)
  BY MoreRows DEF RowsInv
<1> QED BY <1>1 DEF RowsInv

LEMMA NewDraftRows ==
  ASSUME NEW d, DbInv(d), RowsInv(d), NEW row \in Row
  PROVE  LET e == NewDraft(d, row) IN RowsInv(e) /\ d.nextDraft <= e.nextDraft
<1> DEFINE e == NewDraft(d, row)
           D == DOMAIN d.drafts
<1>1. /\ e.nextApi = d.nextApi /\ e.api = d.api /\ e.cats = d.cats /\ e.hist = d.hist
      /\ e.nextDraft = d.nextDraft + 1 /\ e.drafts = With(d.drafts, d.nextDraft, row)
  BY DEF NewDraft, DbInv, DbFields
<1>2. DOMAIN e.drafts = D \cup {d.nextDraft}
  BY <1>1 DEF With
<1>3. d.nextDraft \in Positive /\ d.nextApi \in Positive /\ IsRows(d.drafts, d.nextDraft)
  BY DEF RowsInv
<1>4. IsRows(e.drafts, e.nextDraft)
  BY <1>1, <1>3 DEF IsRows, With, Positive
<1> HIDE DEF e
<1>5. IsFiniteSet(D) /\ Cardinality(D) \in Nat
  BY <1>3, RowsFinite
<1>6. d.nextDraft \notin D
  BY <1>3 DEF IsRows, Positive
<1>7. Cardinality(DOMAIN e.drafts) = Cardinality(D) + 1
  BY <1>2, <1>5, <1>6, FS_AddElement
<1>8. d.nextApi + Cardinality(D) <= d.nextDraft
  BY DEF RowsInv
<1>9. /\ e.nextDraft \in Positive /\ d.nextDraft <= e.nextDraft
      /\ d.nextApi + Cardinality(DOMAIN e.drafts) <= e.nextDraft
  BY <1>1, <1>3, <1>5, <1>7, <1>8 DEF Positive
<1> QED BY <1>1, <1>4, <1>9, DraftsReplaced DEF e

(* The rows of a deleted category keep their bodies.                          *)
Freed(rows, c) == [i \in DOMAIN rows |->
  IF rows[i].cat = c THEN [rows[i] EXCEPT !.cat = 0] ELSE rows[i]]

LEMMA FreedRows ==
  ASSUME NEW rows, NEW n, IsRows(rows, n), NEW c
  PROVE  /\ IsRows(Freed(rows, c), n) /\ DOMAIN Freed(rows, c) = DOMAIN rows
         /\ \A id \in DOMAIN rows : Freed(rows, c)[id].body = rows[id].body
<1>1. ASSUME NEW id \in DOMAIN rows
      PROVE  Freed(rows, c)[id] \in Row /\ Freed(rows, c)[id].body = rows[id].body
  <2>1. rows[id] \in Row
    BY DEF IsRows
  <2>2. Freed(rows, c)[id] = IF rows[id].cat = c THEN [rows[id] EXCEPT !.cat = 0] ELSE rows[id]
    BY DEF Freed
  <2> QED BY <2>1, <2>2 DEF Row
<1>2. DOMAIN Freed(rows, c) = DOMAIN rows
  BY DEF Freed
<1> QED BY <1>1, <1>2 DEF IsRows

LEMMA CategoryDeletedRows ==
  ASSUME NEW d, DbInv(d), RowsInv(d), NEW c
  PROVE  LET e == CategoryDeleted(d, c)
         IN  /\ RowsInv(e) /\ e.nextDraft = d.nextDraft /\ e.open = d.open /\ e.nextIt = d.nextIt
             /\ DOMAIN e.drafts = DOMAIN d.drafts
             /\ \A id \in DOMAIN d.drafts : e.drafts[id].body = d.drafts[id].body
<1> DEFINE h == d.hist
           g == [i \in DOMAIN h |-> [h[i] EXCEPT !.rows = Freed(h[i].rows, c)]]
           e == [d EXCEPT !.cats = @ \ {c}, !.api = Freed(d.api, c), !.drafts = Freed(d.drafts, c),
                          !.hist = g]
<1>1. CASE c \notin d.cats
  BY <1>1 DEF CategoryDeleted
<1>2. CASE c \in d.cats
  <2>1. CategoryDeleted(d, c) = e
    BY <1>2, Zenon DEF CategoryDeleted, Freed
  <2>2. /\ e.nextApi = d.nextApi /\ e.nextDraft = d.nextDraft /\ e.open = d.open /\ e.nextIt = d.nextIt
        /\ e.cats = d.cats \ {c} /\ e.hist = g
        /\ e.api = Freed(d.api, c) /\ e.drafts = Freed(d.drafts, c)
    BY DEF DbInv, DbFields
  <2>3. DOMAIN g = DOMAIN h /\ \A i \in DOMAIN h : g[i] = [h[i] EXCEPT !.rows = Freed(h[i].rows, c)]
    OBVIOUS
  <2>4. \A i \in DOMAIN h : DOMAIN h[i] = {"ver", "rows", "apis"}
    BY DEF DbInv, IsHistory
  <2> HIDE DEF e, g, h
  <2>5. \A i \in DOMAIN h : g[i].ver = h[i].ver /\ g[i].rows = Freed(h[i].rows, c)
    BY <2>3, <2>4
  <2>6. \A i \in DOMAIN h : IsRows(h[i].rows, d.nextDraft) /\ h[i].ver <= MaxVersion
    BY DEF RowsInv, h
  <2>7. \A i \in DOMAIN g : IsRows(g[i].rows, d.nextDraft) /\ g[i].ver <= MaxVersion
    BY <2>3, <2>5, <2>6, FreedRows
  <2>8. /\ IsRows(e.api, d.nextApi) /\ IsRows(e.drafts, d.nextDraft) /\ DOMAIN e.drafts = DOMAIN d.drafts
        /\ \A id \in DOMAIN d.drafts : e.drafts[id].body = d.drafts[id].body
    BY <2>2, FreedRows DEF RowsInv
  <2>9. RowsInv(e)
    BY <2>2, <2>7, <2>8 DEF RowsInv
  <2> QED BY <2>1, <2>2, <2>8, <2>9
<1> QED BY <1>1, <1>2

TypedArg(d, x) ==
  /\ x.kind = "detail" => Known(d, x.arg, {})
  /\ x.kind = "commit" => x.arg.ver \in Positive /\ x.arg.ver <= MaxVersion
  /\ x.kind = "add" => x.arg.row \in Row
  /\ x.kind = "move" => x.arg.cat \in Cats \cup {0}
  /\ x.kind = "save" => x.arg.from \in Detail

LEMMA StartedRows ==
  ASSUME NEW d, DbInv(d), RowsInv(d)
  PROVE  RowsInv(Started(d)) /\ d.nextDraft <= Started(d).nextDraft
<1> DEFINE e == Started(d)
           new == Renumbered(d.api, d.nextDraft)
           n == Cardinality(DOMAIN d.api)
<1>0. d.nextDraft \in Positive /\ d.nextApi \in Positive /\ IsRows(d.api, d.nextApi)
  BY DEF RowsInv
<1>1. CASE d.open # 0
  BY <1>0, <1>1 DEF Started, Positive
<1>2. CASE d.open = 0
  <2>1. /\ e.nextApi = d.nextApi /\ e.api = d.api /\ e.cats = d.cats /\ e.hist = d.hist
        /\ e.drafts = new /\ e.nextDraft = d.nextDraft + Cardinality(DOMAIN new)
    BY <1>2 DEF Started, DbInv, DbFields
  <2>2. /\ IsFiniteSet(DOMAIN d.api) /\ n \in Nat /\ DOMAIN d.api \subseteq Nat
        /\ \A id \in DOMAIN d.api : d.api[id] \in Row
    BY <1>0, RowsFinite
  <2>3. Cardinality(DOMAIN new) = n /\ IsRows(new, d.nextDraft + n)
    BY <1>0, <2>2, RenumberedFacts
  <2> HIDE DEF e, new, n
  <2>4. d.nextApi <= d.nextDraft
    BY RowsCounted
  <2>5. /\ e.nextDraft \in Positive /\ d.nextDraft <= e.nextDraft
        /\ d.nextApi + Cardinality(DOMAIN e.drafts) <= e.nextDraft
    BY <1>0, <2>1, <2>2, <2>3, <2>4 DEF Positive
  <2>6. IsRows(e.drafts, e.nextDraft)
    BY <2>1, <2>3
  <2> QED BY <2>1, <2>5, <2>6, DraftsReplaced DEF e
<1> QED BY <1>1, <1>2

LEMMA CommittedRows ==
  ASSUME NEW d, DbInv(d), RowsInv(d), NEW a, a.ver <= MaxVersion
  PROVE  RowsInv(Committed(d, a)) /\ d.nextDraft <= Committed(d, a).nextDraft
<1> DEFINE p == Publish(d, a.ver, d.drafts)
           e == [p EXCEPT !.open = 0, !.drafts = NoRows]
           n == Cardinality(DOMAIN d.drafts)
<1>0. d.nextDraft \in Positive /\ d.nextApi \in Positive /\ IsRows(d.drafts, d.nextDraft)
      /\ d.nextApi + n <= d.nextDraft
  BY DEF RowsInv
<1>1. /\ IsFiniteSet(DOMAIN d.drafts) /\ n \in Nat /\ DOMAIN d.drafts \subseteq Nat
      /\ \A id \in DOMAIN d.drafts : d.drafts[id] \in Row
  BY <1>0, RowsFinite
<1>2. /\ DOMAIN p = DbFields /\ p.nextApi = d.nextApi + n /\ IsRows(p.api, p.nextApi)
      /\ p.nextDraft = d.nextDraft /\ p.cats = d.cats
      /\ \A j \in DOMAIN p.hist : \/ j \in DOMAIN d.hist /\ p.hist[j] = d.hist[j]
                                  \/ p.hist[j].ver = a.ver /\ p.hist[j].rows = d.drafts
  BY <1>0, <1>1, PublishRows
<1> HIDE DEF p, n
<1>3. /\ e.nextApi = p.nextApi /\ e.api = p.api /\ e.nextDraft = p.nextDraft /\ e.cats = p.cats
      /\ e.hist = p.hist /\ e.drafts = NoRows
  BY <1>2 DEF DbFields
<1> HIDE DEF e
<1>4. DOMAIN NoRows = {} /\ Cardinality(DOMAIN NoRows) = 0
  BY FS_EmptySet DEF NoRows
<1>5. \A j \in DOMAIN e.hist : IsRows(e.hist[j].rows, e.nextDraft) /\ e.hist[j].ver <= MaxVersion
  BY <1>0, <1>2, <1>3 DEF RowsInv
<1>6. IsRows(e.drafts, e.nextDraft)
  BY <1>3, <1>4 DEF IsRows
<1>7. /\ e.nextApi \in Positive /\ e.nextDraft \in Positive
      /\ e.nextApi + Cardinality(DOMAIN e.drafts) <= e.nextDraft
  BY <1>0, <1>1, <1>2, <1>3, <1>4 DEF Positive
<1>8. RowsInv(e)
  BY <1>2, <1>3, <1>5, <1>6, <1>7 DEF RowsInv
<1>9. Committed(d, a) = e \/ Committed(d, a) = d
  BY DEF Committed, e, p
<1> QED BY <1>0, <1>2, <1>3, <1>8, <1>9 DEF Positive

LEMMA DeletedRows ==
  ASSUME NEW d, DbInv(d), RowsInv(d), NEW a
  PROVE  RowsInv(Deleted(d, a)) /\ d.nextDraft <= Deleted(d, a).nextDraft
<1> DEFINE e == [d EXCEPT !.drafts = Without(d.drafts, a.id)]
           D == DOMAIN d.drafts
<1>0. d.nextDraft \in Positive /\ d.nextApi \in Positive /\ IsRows(d.drafts, d.nextDraft)
      /\ d.nextApi + Cardinality(D) <= d.nextDraft
  BY DEF RowsInv
<1>1. IsFiniteSet(D) /\ Cardinality(D) \in Nat
  BY <1>0, RowsFinite
<1>2. /\ e.nextApi = d.nextApi /\ e.api = d.api /\ e.nextDraft = d.nextDraft /\ e.cats = d.cats
      /\ e.hist = d.hist /\ e.drafts = Without(d.drafts, a.id)
  BY DEF DbInv, DbFields
<1>3. DOMAIN e.drafts = D \ {a.id} /\ IsRows(e.drafts, e.nextDraft)
  BY <1>0, <1>2 DEF Without, IsRows
<1> HIDE DEF e
<1>4. Cardinality(DOMAIN e.drafts) \in Nat /\ Cardinality(DOMAIN e.drafts) <= Cardinality(D)
  <2>1. D \ {a.id} \in SUBSET D
    OBVIOUS
  <2>2. IsFiniteSet(D \ {a.id}) /\ Cardinality(D \ {a.id}) <= Cardinality(D)
    BY <1>1, <2>1, FS_Subset
  <2> QED BY <1>3, <2>2, FS_CardinalityType
<1>5. d.nextApi + Cardinality(DOMAIN e.drafts) <= e.nextDraft /\ d.nextDraft <= e.nextDraft
  BY <1>0, <1>1, <1>2, <1>4 DEF Positive
<1>6. RowsInv(e)
  BY <1>0, <1>2, <1>3, <1>5, DraftsReplaced
<1>7. Deleted(d, a) = e \/ Deleted(d, a) = d
  BY DEF Deleted, e
<1> QED BY <1>0, <1>5, <1>6, <1>7 DEF Positive

LEMMA SavedRows ==
  ASSUME NEW d, DbInv(d), RowsInv(d), NEW a, a.from \in Detail
  PROVE  RowsInv(Saved(d, a)) /\ d.nextDraft <= Saved(d, a).nextDraft
<1>0. d.nextDraft \in Positive /\ IsRows(d.drafts, d.nextDraft)
  BY DEF RowsInv
<1>1. CASE ~HasDraft(d, a)
  BY <1>0, <1>1 DEF Saved, Positive
<1>2. CASE HasDraft(d, a)
  <2>1. PICK row : row = [d.drafts[a.id] EXCEPT !.body = a.from.body]
    OBVIOUS
  <2>2. PICK rows : rows = [d.drafts EXCEPT ![a.id] = row]
    OBVIOUS
  <2>3. PICK e : e = [d EXCEPT !.drafts = rows]
    OBVIOUS
  <2>4. Saved(d, a) = e
    BY <1>2, <2>1, <2>2, <2>3 DEF Saved
  <2>5. d.drafts[a.id] \in Row /\ a.from.body \in Bodies
    BY <1>0, <1>2 DEF HasDraft, IsRows, Detail
  <2>6. row \in Row
    BY <2>1, <2>5 DEF Row
  <2>7. DOMAIN rows = DOMAIN d.drafts /\ IsRows(rows, d.nextDraft)
    BY <1>0, <2>2, <2>6 DEF IsRows
  <2>8. /\ e.nextApi = d.nextApi /\ e.api = d.api /\ e.nextDraft = d.nextDraft /\ e.cats = d.cats
        /\ e.hist = d.hist /\ e.drafts = rows
    BY <2>3 DEF DbInv, DbFields
  <2>9. RowsInv(e)
    BY <2>7, <2>8 DEF RowsInv
  <2> QED BY <1>0, <2>4, <2>8, <2>9 DEF Positive
<1> QED BY <1>1, <1>2

LEMMA MovedRows ==
  ASSUME NEW d, DbInv(d), RowsInv(d), NEW a, a.cat \in Cats \cup {0}
  PROVE  /\ RowsInv(Moved(d, a)) /\ Moved(d, a).nextDraft = d.nextDraft
         /\ Moved(d, a).drafts = d.drafts /\ Moved(d, a).open = d.open /\ Moved(d, a).nextIt = d.nextIt
<1> DEFINE cond == a.id \in DOMAIN d.api /\ a.cat \in (d.cats \cup {0}) \ {d.api[a.id].cat}
<1>1. CASE ~cond
  BY <1>1 DEF Moved
<1>2. CASE cond
  <2>1. PICK row : row = [d.api[a.id] EXCEPT !.cat = a.cat]
    OBVIOUS
  <2>2. PICK rows : rows = [d.api EXCEPT ![a.id] = row]
    OBVIOUS
  <2>3. PICK e : e = [d EXCEPT !.api = rows]
    OBVIOUS
  <2>4. Moved(d, a) = e
    BY <1>2, <2>1, <2>2, <2>3 DEF Moved
  <2>5. IsRows(d.api, d.nextApi)
    BY DEF RowsInv
  <2>6. row \in Row
    BY <1>2, <2>1, <2>5 DEF Row, IsRows
  <2>7. DOMAIN rows = DOMAIN d.api /\ IsRows(rows, d.nextApi)
    BY <2>2, <2>5, <2>6 DEF IsRows
  <2>8. /\ e.nextApi = d.nextApi /\ e.api = rows /\ e.nextDraft = d.nextDraft /\ e.cats = d.cats
        /\ e.hist = d.hist /\ e.drafts = d.drafts /\ e.open = d.open /\ e.nextIt = d.nextIt
    BY <2>3 DEF DbInv, DbFields
  <2>9. RowsInv(e)
    BY <2>7, <2>8 DEF RowsInv
  <2> QED BY <2>4, <2>8, <2>9
<1> QED BY <1>1, <1>2

LEMMA CategoryAddedRows ==
  ASSUME NEW d, DbInv(d), RowsInv(d)
  PROVE  LET e == CategoryAdded(d)
         IN  /\ RowsInv(e) /\ e.nextDraft = d.nextDraft /\ e.cats \ d.cats \subseteq Cats
             /\ e.drafts = d.drafts /\ e.open = d.open /\ e.nextIt = d.nextIt
<1>1. CASE Cats \subseteq d.cats
  BY <1>1 DEF CategoryAdded
<1>2. CASE ~(Cats \subseteq d.cats)
  <2>1. PICK c : c = CHOOSE b \in Cats \ d.cats : TRUE
    OBVIOUS
  <2>2. c \in Cats
    BY <1>2, <2>1
  <2>3. PICK e : e = [d EXCEPT !.cats = @ \cup {c}]
    OBVIOUS
  <2>4. CategoryAdded(d) = e
    BY <1>2, <2>1, <2>3 DEF CategoryAdded
  <2>5. /\ e.nextApi = d.nextApi /\ e.api = d.api /\ e.nextDraft = d.nextDraft
        /\ e.cats = d.cats \cup {c}
        /\ e.hist = d.hist /\ e.drafts = d.drafts /\ e.open = d.open /\ e.nextIt = d.nextIt
    BY <2>3 DEF DbInv, DbFields
  <2>6. RowsInv(e) /\ e.cats \ d.cats \subseteq Cats
    BY <2>2, <2>5 DEF RowsInv
  <2> QED BY <2>4, <2>5, <2>6
<1> QED BY <1>1, <1>2

LEMMA WritesRows ==
  ASSUME NEW d, DbInv(d), RowsInv(d), NEW x, x.kind \in Kinds, TypedArg(d, x)
  PROVE  RowsInv(Writes(d, x)) /\ d.nextDraft <= Writes(d, x).nextDraft
<1>0. d.nextDraft \in Positive /\ d.nextDraft <= d.nextDraft
  BY DEF RowsInv, Positive
<1>1. CASE x.kind = "start"
  BY <1>1, StartedRows DEF Writes
<1>2. CASE x.kind = "commit"
  <2>1. Writes(d, x) = Committed(d, x.arg)
    BY <1>2 DEF Writes
  <2>2. x.arg.ver <= MaxVersion
    BY <1>2 DEF TypedArg
  <2> QED BY <2>1, <2>2, CommittedRows
<1>3. CASE x.kind = "add"
  <2>1. Writes(d, x) = Added(d, x.arg)
    BY <1>3 DEF Writes
  <2>2. x.arg.row \in Row
    BY <1>3 DEF TypedArg
  <2> QED BY <1>0, <2>1, <2>2, NewDraftRows DEF Added
<1>4. CASE x.kind = "copy"
  <2>1. Writes(d, x) = Copied(d, x.arg)
    BY <1>4 DEF Writes
  <2>2. HasDraft(d, x.arg) => d.drafts[x.arg.id] \in Row
    BY DEF HasDraft, RowsInv, IsRows
  <2> QED BY <1>0, <2>1, <2>2, NewDraftRows DEF Copied
<1>5. CASE x.kind = "delete"
  BY <1>5, DeletedRows DEF Writes
<1>6. CASE x.kind = "save"
  <2>1. Writes(d, x) = Saved(d, x.arg)
    BY <1>6 DEF Writes
  <2>2. x.arg.from \in Detail
    BY <1>6 DEF TypedArg
  <2> QED BY <2>1, <2>2, SavedRows
<1>7. CASE x.kind = "move"
  <2>1. Writes(d, x) = Moved(d, x.arg)
    BY <1>7 DEF Writes
  <2>2. x.arg.cat \in Cats \cup {0}
    BY <1>7 DEF TypedArg
  <2> QED BY <1>0, <2>1, <2>2, MovedRows
<1>8. CASE x.kind = "addCat"
  BY <1>0, <1>8, CategoryAddedRows DEF Writes
<1>9. CASE x.kind = "delCat"
  BY <1>0, <1>9, CategoryDeletedRows DEF Writes
<1>10. CASE x.kind \in {"versions", "detail", "api", "iteration"}
  BY <1>0, <1>10 DEF Writes
<1> QED BY <1>1, <1>2, <1>3, <1>4, <1>5, <1>6, <1>7, <1>8, <1>9, <1>10 DEF Kinds

(* An answer that was given is of the kind the request asks for.              *)
TypedAnswer(d, kind, ans) ==
  ans.status = "ok" =>
    /\ kind = "versions" => /\ \A v \in ans.value.versions : Known(d, v, {})
                            /\ Known(d, ans.value.ver, {})
    /\ kind = "detail" => /\ IsRows(ans.value.rows, d.nextDraft)
                          /\ ans.value.latest => ans.value.cats \subseteq Cats
    /\ kind = "iteration" => IsRows(ans.value, d.nextDraft)
    /\ kind = "api" => ans.value \in Detail
    /\ kind = "addCat" => ans.value \subseteq Cats
TypedRequest(d, x) == TypedArg(d, x) /\ (x.ans # None => TypedAnswer(d, x.kind, x.ans))

(* The page, but for what the effects restore.                                *)
TypedPage(d, p) ==
  /\ p.ver = 0 \/ Known(d, p.ver, {})
  /\ p.shown = 0 \/ Known(d, p.shown, {})
  /\ \A v \in p.versions : Known(d, v, {})
  /\ IsRows(p.apis, d.nextDraft) /\ IsRows(p.apiDrafts, d.nextDraft)
  /\ p.cats \subseteq Cats
  /\ p.apiDetail \in Detail /\ p.form \in Detail

Typed(d, p, R) ==
  /\ RowsInv(d) /\ TypedPage(d, p)
  /\ (p.isDraft \/ p.saving) => EditorMounted(p)
  /\ \A x \in R : TypedRequest(d, x)
TypedState == Typed(db, page, Items(net))

LEMMA TypedLater ==
  ASSUME NEW d, NEW e, RowsInv(d), RowsInv(e), Later(d, e)
  PROVE  /\ \A p : TypedPage(d, p) => TypedPage(e, p)
         /\ \A x : TypedRequest(d, x) => TypedRequest(e, x)
<1>1. \A rows : IsRows(rows, d.nextDraft) => IsRows(rows, e.nextDraft)
  BY MoreRows DEF RowsInv, Later
<1>2. \A v : Known(d, v, {}) => Known(e, v, {})
  BY DEF Later, Grows
<1>3. ASSUME NEW p, TypedPage(d, p) PROVE TypedPage(e, p)
  BY <1>1, <1>2, <1>3 DEF TypedPage
<1>4. ASSUME NEW x, TypedRequest(d, x) PROVE TypedRequest(e, x)
  BY <1>1, <1>2, <1>4 DEF TypedRequest, TypedArg, TypedAnswer
<1> QED BY <1>3, <1>4

LEMMA NoApiDetail == NoApi \in Detail
BY FirstBodyIn DEF NoApi, Detail

LEMMA IterationOfFacts ==
  ASSUME NEW d, DbInv(d), NEW v, Known(d, v, {})
  PROVE  IterationOf(d, v) \in DOMAIN d.hist
<1> DEFINE T == {j \in DOMAIN d.hist : d.hist[j].ver = v}
<1>1. T \in SUBSET Nat /\ T # {}
  <2>1. DOMAIN d.hist = 1 .. Len(d.hist) /\ Len(d.hist) \in Nat
    BY NetFacts DEF DbInv, IsHistory
  <2> QED BY <2>1 DEF Known
<1>2. PICK i \in T : \A j \in T : i <= j
  BY <1>1, Least
<1>3. \E k \in DOMAIN d.hist : d.hist[k].ver = v /\ \A j \in DOMAIN d.hist : d.hist[j].ver = v => k <= j
  BY <1>2
<1> QED BY <1>3 DEF IterationOf

LEMMA ApiOfFacts ==
  ASSUME NEW d, DbInv(d), RowsInv(d), NEW id, NEW latest, ApiOf(d, id, latest) # {}
  PROVE  id \in Nat /\ ApiOf(d, id, latest) \subseteq Row
<1>1. \A rows, n : IsRows(rows, n) /\ n \in Positive /\ id \in DOMAIN rows => id \in Nat /\ rows[id] \in Row
  BY DEF IsRows, Positive
<1>2. id \in DOMAIN d.api => id \in Nat /\ d.api[id] \in Row
  BY <1>1 DEF RowsInv
<1>3. id \in DOMAIN d.drafts => id \in Nat /\ d.drafts[id] \in Row
  BY <1>1 DEF RowsInv
<1>4. \A j \in DOMAIN d.hist : id \in DOMAIN d.hist[j].rows => id \in Nat /\ d.hist[j].rows[id] \in Row
  BY <1>1 DEF RowsInv
<1>5. CASE latest
  BY <1>2, <1>5 DEF ApiOf
<1>6. CASE ~latest
  BY <1>3, <1>4, <1>6 DEF ApiOf
<1> QED BY <1>5, <1>6

LEMMA TypedAnswers ==
  ASSUME NEW d, DbInv(d), RowsInv(d), NEW x, Request(d, x), TypedArg(d, x)
  PROVE  TypedAnswer(d, x.kind, Answer(d, x))
<1>0. /\ \A v : Ok(v).status = "ok" /\ Ok(v).value = v
      /\ Refused.status = "refused"
  BY DEF Ok, Refused
<1>1. PICK ans : ans = Answer(d, x)
  OBVIOUS
<1>2. CASE x.kind = "versions"
  <2>1. PICK w : w = [versions |-> VersionsOf(d), ver |-> d.latest]
    OBVIOUS
  <2>2. w.versions = VersionsOf(d) /\ w.ver = d.latest
    BY <2>1
  <2>3. ans = Refused \/ ans = Ok(w)
    BY <1>1, <1>2, <2>1 DEF Answer, AnswerVersions
  <2>4. Known(d, d.latest, {})
    BY DEF DbInv, Known
  <2>5. \A v \in VersionsOf(d) : Known(d, v, {})
    BY <2>4 DEF VersionsOf, Known
  <2> QED BY <1>0, <1>1, <1>2, <2>2, <2>3, <2>4, <2>5 DEF TypedAnswer
<1>3. CASE x.kind = "detail"
  <2>1. PICK v : v = [latest |-> TRUE, rows |-> d.api, cats |-> d.cats]
    OBVIOUS
  <2>2. PICK rows : rows = d.hist[IterationOf(d, x.arg)].rows
    OBVIOUS
  <2>3. PICK w : w = [latest |-> FALSE, rows |-> rows, cats |-> None]
    OBVIOUS
  <2>4. v.rows = d.api /\ v.cats = d.cats /\ w.rows = rows /\ ~w.latest
    BY <2>1, <2>3
  <2>5. ans = Refused \/ ans = Ok(v) \/ ans = Ok(w)
    BY <1>1, <1>3, <2>1, <2>2, <2>3 DEF Answer, AnswerDetail
  <2>6. IterationOf(d, x.arg) \in DOMAIN d.hist
    BY <1>3, IterationOfFacts DEF TypedArg
  <2>7. IsRows(rows, d.nextDraft)
    BY <2>2, <2>6 DEF RowsInv
  <2>8. IsRows(d.api, d.nextDraft) /\ d.cats \subseteq Cats
    BY RowsCounted, MoreRows DEF RowsInv
  <2> QED BY <1>0, <1>1, <1>3, <2>4, <2>5, <2>7, <2>8 DEF TypedAnswer
<1>4. CASE x.kind = "iteration"
  <2>1. ans = Refused \/ ans = Ok(d.drafts)
    BY <1>1, <1>4 DEF Answer, AnswerIteration
  <2> QED BY <1>0, <1>1, <1>4, <2>1 DEF TypedAnswer, RowsInv
<1>5. CASE x.kind = "api"
  <2>1. PICK found : found = ApiOf(d, x.arg.id, x.arg.latest)
    OBVIOUS
  <2>2. PICK k : k = IF x.arg.latest THEN "api" ELSE "draft"
    OBVIOUS
  <2>3. PICK row : row = CHOOSE r \in found : TRUE
    OBVIOUS
  <2>4. PICK v : v = [kind |-> k, id |-> x.arg.id, body |-> row.body]
    OBVIOUS
  <2>5. ans = AnswerApi(d, x.arg)
    BY <1>1, <1>5 DEF Answer
  <2>6. ans = Refused \/ (found # {} /\ ans = Ok(v))
    BY <2>1, <2>2, <2>3, <2>4, <2>5, Zenon DEF AnswerApi
  <2>7. found # {} => row \in Row /\ x.arg.id \in Nat
    BY <2>1, <2>3, ApiOfFacts
  <2>8. k \in {"none", "api", "draft"}
    BY <2>2
  <2>9. found # {} => v \in Detail
    BY <2>4, <2>7, <2>8 DEF Detail, Row
  <2> QED BY <1>0, <1>1, <1>5, <2>6, <2>9 DEF TypedAnswer
<1>6. CASE x.kind = "addCat"
  <2>1. ans = Refused \/ ans = Ok(CategoryAdded(d).cats \ d.cats)
    BY <1>1, <1>6 DEF Answer, Writes
  <2>2. CategoryAdded(d).cats \ d.cats \subseteq Cats
    BY CategoryAddedRows
  <2> QED BY <1>0, <1>1, <1>6, <2>1, <2>2 DEF TypedAnswer
<1>7. CASE x.kind \notin {"versions", "detail", "iteration", "api", "addCat"}
  BY <1>7 DEF TypedAnswer
<1> QED BY <1>2, <1>3, <1>4, <1>5, <1>6, <1>7

LEMMA TypedUpdate ==
  ASSUME StateInv, TypedState, NEW new, NEW rest, NEW out, Update(new, rest, out), db' = db,
         IsPage(new), new.ver \in Nat, TypedPage(db, new),
         IsNet(rest), Items(rest) \subseteq Items(net),
         IsNet(out), \A x \in Items(out) : TypedArg(db, x) /\ x.ans = None
  PROVE  TypedState'
<1>1. PICK p : p = Effects(page, new)
  OBVIOUS
<1>2. /\ IsPage(p) /\ Same(new, p, Kept)
      /\ p.saving => EditorMounted(p)
      /\ p.isDraft => EditorMounted(p)
      /\ p.apiDetail \in {new.apiDetail, NoApi}
      /\ p.form \in {new.form, new.apiDetail, NoApi}
  BY <1>1, EffectsFacts, Zenon
<1>3. /\ p.ver = new.ver /\ p.shown = new.shown /\ p.versions = new.versions /\ p.apis = new.apis
      /\ p.apiDrafts = new.apiDrafts /\ p.cats = new.cats
  BY <1>2 DEF Same, Kept, Fields
<1>4. TypedPage(db, p)
  BY <1>2, <1>3, NoApiDetail DEF TypedPage
<1> DEFINE left == EditorMounted(page) /\ ~EditorMounted(p)
           x1 == IF left THEN Forget(rest) ELSE rest
           x2 == x1 \o out
           x3 == Asked(page, p)
           s == x2 \o x3
<1>5. page' = p /\ net' = s
  BY <1>1, Zenon DEF Update, Render
<1>6. /\ IsNet(x3)
      /\ \A x \in Items(x3) : x.ans = None /\ x.kind \in {"detail", "iteration", "api"}
                              /\ (x.kind = "detail" => x.arg = p.ver)
      /\ ~NewVersion(page, p) => NoMain(Items(x3))
      /\ \A x \in Items(x3) : x.live
  BY <1>3, AskedFacts
<1> HIDE DEF x3
<1>7. \A x \in Items(x3) : TypedRequest(db, x)
  <2>1. \A x \in Items(x3) : x.kind = "detail" => NewVersion(page, p)
    BY <1>6 DEF NoMain, Main
  <2>2. NewVersion(page, p) => Known(db, p.ver, {})
    BY <1>4 DEF NewVersion, TypedPage
  <2> QED BY <1>6, <2>1, <2>2 DEF TypedRequest, TypedArg
<1>8. \A x \in Items(rest) : Request(db, x) /\ TypedRequest(db, x)
  BY DEF StateInv, Inv, Requests, TypedState, Typed
<1>9. IsNet(x1) /\ \A x \in Items(x1) : TypedRequest(db, x)
  <2>1. CASE ~left
    BY <1>8, <2>1
  <2>2. CASE left
    <3>1. x1 = Forget(rest)
      BY <2>2
    <3> HIDE DEF x1
    <3>2. /\ IsNet(x1) /\ DOMAIN x1 = DOMAIN rest
          /\ \A i \in DOMAIN rest :
               /\ x1[i].kind = rest[i].kind /\ x1[i].ans = rest[i].ans
               /\ rest[i].kind \notin {"save", "iteration"} => x1[i] = rest[i]
               /\ rest[i].kind = "save" => x1[i].arg.from = rest[i].arg.from
      BY <1>8, <3>1, ForgetFacts
    <3>3. ASSUME NEW i \in DOMAIN rest PROVE TypedRequest(db, x1[i])
      <4>1. TypedRequest(db, rest[i])
        BY <1>8 DEF Items
      <4> QED BY <3>2, <4>1 DEF TypedRequest, TypedArg
    <3> QED BY <3>2, <3>3 DEF Items
  <2> QED BY <2>1, <2>2
<1> HIDE DEF x1, left
<1>10. IsNet(x2) /\ Items(x2) = Items(x1) \cup Items(out)
  BY <1>9, Joined
<1> HIDE DEF x2
<1>11. IsNet(s) /\ Items(s) = Items(x2) \cup Items(x3)
  BY <1>6, <1>10, Joined
<1> HIDE DEF s
<1>12. \A x \in Items(out) : TypedRequest(db, x)
  BY DEF TypedRequest
<1>13. \A x \in Items(s) : TypedRequest(db, x)
  BY <1>7, <1>9, <1>10, <1>11, <1>12
<1>14. RowsInv(db)
  BY DEF TypedState, Typed
<1>15. Typed(db, p, Items(s))
  BY <1>2, <1>4, <1>13, <1>14 DEF Typed
<1> QED BY <1>5, <1>15 DEF TypedState

LEMMA TypedFacts ==
  ASSUME StateInv, TypedState
  PROVE  /\ IsPage(page) /\ page.ver \in Nat /\ TypedPage(db, page)
         /\ IsNet(net) /\ Items(net) \subseteq Items(net)
         /\ RowsInv(db) /\ DbInv(db) /\ \A x \in Items(net) : Request(db, x) /\ TypedRequest(db, x)
BY DEF StateInv, Inv, PageInv, Requests, TypedState, Typed

LEMMA TypedClick ==
  ASSUME StateInv, TypedState, NEW new, Update(new, net, <<>>), db' = db,
         IsPage(new), new.ver \in Nat, TypedPage(db, new)
  PROVE  TypedState'
<1>1. PICK out : out = <<>>
  OBVIOUS
<1>2. IsNet(out) /\ Items(out) = {} /\ Update(new, net, out)
  BY <1>1, OneItem
<1>3. \A x \in Items(out) : TypedArg(db, x) /\ x.ans = None
  BY <1>2
<1> QED BY <1>2, <1>3, TypedFacts, TypedUpdate

LEMMA TypedSend ==
  ASSUME StateInv, TypedState, NEW k, NEW a, Send(Ask(k, a)), TypedArg(db, Ask(k, a))
  PROVE  TypedState'
<1>1. PICK x : x = Ask(k, a)
  OBVIOUS
<1>2. x.ans = None /\ TypedArg(db, x)
  BY <1>1 DEF Ask
<1>3. PICK out : out = <<x>>
  OBVIOUS
<1>4. IsNet(out) /\ Items(out) = {x}
  BY <1>3, OneItem
<1>5. Update(page, net, out) /\ db' = db
  BY <1>1, <1>3 DEF Send, Click
<1>6. \A y \in Items(out) : TypedArg(db, y) /\ y.ans = None
  BY <1>2, <1>4
<1> QED BY <1>4, <1>5, <1>6, TypedFacts, TypedUpdate

LEMMA UserTyped == StateInv /\ TypedState /\ User => TypedState'
<1> SUFFICES ASSUME StateInv, TypedState, User PROVE TypedState'
  OBVIOUS
<1>0. IsPage(page) /\ page.ver \in Nat /\ page.versions \subseteq Positive /\ TypedPage(db, page)
  BY TypedFacts DEF StateInv, Inv, PageInv
<1>1. CASE SelectVersion
  <2>1. PICK v \in page.versions : Click /\ Update([page EXCEPT !.selected = 0, !.ver = v], net, <<>>)
    BY <1>1 DEF SelectVersion
  <2>2. PICK new : new = [page EXCEPT !.selected = 0, !.ver = v]
    OBVIOUS
  <2>3. IsPage(new) /\ new.ver = v /\ Same(page, new, Fields \ {"selected", "ver"})
    BY <1>0, <2>2 DEF IsPage, Fields, Same
  <2>4. TypedPage(db, new)
    BY <1>0, <2>3 DEF TypedPage, Same, Fields
  <2> QED BY <1>0, <2>1, <2>2, <2>3, <2>4, TypedClick DEF Positive, Click
<1>2. CASE handleSelectApi
  <2>1. PICK id : Click /\ Update([page EXCEPT !.selected = id], net, <<>>)
    BY <1>2 DEF handleSelectApi
  <2>2. PICK new : new = [page EXCEPT !.selected = id]
    OBVIOUS
  <2>3. IsPage(new) /\ Same(page, new, Fields \ {"selected"})
    BY <1>0, <2>2 DEF IsPage, Fields, Same
  <2>4. TypedPage(db, new) /\ new.ver = page.ver
    BY <1>0, <2>3 DEF TypedPage, Same, Fields
  <2> QED BY <1>0, <2>1, <2>2, <2>3, <2>4, TypedClick DEF Click
<1>3. CASE onValuesChange
  <2>1. PICK b \in Bodies : Click /\ Update([page EXCEPT !.form.body = b, !.isDraft = TRUE], net, <<>>)
    BY <1>3 DEF onValuesChange
  <2>2. PICK f : f = [page.form EXCEPT !.body = b]
    OBVIOUS
  <2>3. PICK new : new = [page EXCEPT !.form = f, !.isDraft = TRUE]
    OBVIOUS
  <2>4. new = [page EXCEPT !.form.body = b, !.isDraft = TRUE]
    BY <2>2, <2>3
  <2>5. IsPage(new) /\ Same(page, new, Fields \ {"form", "isDraft"}) /\ new.form = f
    BY <1>0, <2>3 DEF IsPage, Fields, Same
  <2>6. f \in Detail
    BY <1>0, <2>1, <2>2 DEF TypedPage, Detail
  <2>7. TypedPage(db, new) /\ new.ver = page.ver
    BY <1>0, <2>5, <2>6 DEF TypedPage, Same, Fields
  <2> QED BY <1>0, <2>1, <2>4, <2>5, <2>7, TypedClick DEF Click
<1>4. CASE exitIteration
  <2>1. PICK new : new = [page EXCEPT !.inIteration = FALSE, !.iterationId = 0]
    OBVIOUS
  <2>2. IsPage(new) /\ Same(page, new, Fields \ {"inIteration", "iterationId"})
    BY <1>0, <2>1 DEF IsPage, Fields, Same
  <2>3. TypedPage(db, new) /\ new.ver = page.ver
    BY <1>0, <2>2 DEF TypedPage, Same, Fields
  <2>4. Update(new, net, <<>>) /\ db' = db
    BY <1>4, <2>1 DEF exitIteration, Click
  <2> QED BY <1>0, <2>2, <2>3, <2>4, TypedClick
<1>5. CASE handleSubmit
  <2>1. PICK x : x = SaveRequest
    OBVIOUS
  <2>2. x.ans = None /\ x.kind = "save" /\ x.arg.from = page.form
    BY <2>1 DEF SaveRequest, Ask
  <2>3. PICK out : out = <<x>>
    OBVIOUS
  <2>4. IsNet(out) /\ Items(out) = {x}
    BY <2>3, OneItem
  <2>5. PICK new : new = [page EXCEPT !.saving = TRUE]
    OBVIOUS
  <2>6. Update(new, net, out) /\ db' = db
    BY <1>5, <2>1, <2>3, <2>5 DEF handleSubmit, Click
  <2>7. IsPage(new) /\ Same(page, new, Fields \ {"saving"})
    BY <1>0, <2>5 DEF IsPage, Fields, Same
  <2>8. TypedPage(db, new) /\ new.ver = page.ver
    BY <1>0, <2>7 DEF TypedPage, Same, Fields
  <2>9. \A y \in Items(out) : TypedArg(db, y) /\ y.ans = None
    BY <1>0, <2>2, <2>4 DEF TypedArg, TypedPage
  <2> QED BY <1>0, <2>4, <2>6, <2>7, <2>8, <2>9, TypedFacts, TypedUpdate
<1>6. ASSUME NEW k \in {"addCat", "delCat", "start", "copy", "delete"}, NEW a, Send(Ask(k, a))
      PROVE  TypedState'
  <2>1. TypedArg(db, Ask(k, a))
    BY DEF TypedArg, Ask
  <2> QED BY <1>6, <2>1, TypedSend
<1>7. CASE handleDrag
  <2>1. PICK id \in DOMAIN page.apis, c \in page.cats \cup {0} :
          Send(Ask("move", [id |-> id, cat |-> c, shown |-> page.shown, latest |-> page.isLatest]))
    BY <1>7 DEF handleDrag
  <2>2. PICK a : a = [id |-> id, cat |-> c, shown |-> page.shown, latest |-> page.isLatest]
    OBVIOUS
  <2>3. a.cat \in Cats \cup {0}
    BY <1>0, <2>2 DEF TypedPage
  <2>4. TypedArg(db, Ask("move", a))
    BY <2>3 DEF TypedArg, Ask
  <2> QED BY <2>1, <2>2, <2>4, TypedSend
<1>8. CASE handleCompleteIteration
  <2>1. PICK v \in CompleteIterationForm(page) :
          page.inIteration /\ Send(Ask("commit", [it |-> page.iterationId, ver |-> v]))
    BY <1>8 DEF handleCompleteIteration
  <2>2. PICK a : a = [it |-> page.iterationId, ver |-> v]
    OBVIOUS
  <2>3. page.ver # 0
    BY <2>1 DEF StateInv, Inv, PageInv, Send, Click, Visible, isLoading
  <2>4. a.ver \in Positive /\ a.ver <= MaxVersion
    BY <1>0, <2>1, <2>2, <2>3, MaxVersionNat DEF CompleteIterationForm, Positive
  <2>5. TypedArg(db, Ask("commit", a))
    BY <2>4 DEF TypedArg, Ask
  <2> QED BY <2>1, <2>2, <2>5, TypedSend
<1>9. CASE handleAddApi
  <2>1. PICK row \in AddApiForm(page) : Send(Ask("add", [it |-> page.iterationId, row |-> row]))
    BY <1>9 DEF handleAddApi
  <2>2. PICK a : a = [it |-> page.iterationId, row |-> row]
    OBVIOUS
  <2>3. a.row \in Row
    BY <1>0, <2>1, <2>2 DEF TypedPage, AddApiForm, Row
  <2>4. TypedArg(db, Ask("add", a))
    BY <2>3 DEF TypedArg, Ask
  <2> QED BY <2>1, <2>2, <2>4, TypedSend
<1>10. CASE handleAddCategory
  BY <1>6, <1>10 DEF handleAddCategory
<1>11. CASE handleDeleteCategory
  BY <1>6, <1>11 DEF handleDeleteCategory
<1>12. CASE handleStartIteration
  BY <1>6, <1>12 DEF handleStartIteration
<1>13. CASE handleCopyApi
  BY <1>6, <1>13 DEF handleCopyApi
<1>14. CASE handleDeleteApi
  BY <1>6, <1>14 DEF handleDeleteApi
<1> QED
  BY <1>1, <1>2, <1>3, <1>4, <1>5, <1>7, <1>8, <1>9, <1>10, <1>11, <1>12, <1>13, <1>14 DEF User

LEMMA ServeTyped ==
  ASSUME StateInv, TypedState, NEW i \in DOMAIN net, Serve(i) PROVE TypedState'
<1>1. PICK x : x = net[i]
  OBVIOUS
<1>2. PICK ans : ans = Answer(db, x)
  OBVIOUS
<1>3. PICK e : e = Writes(db, x)
  OBVIOUS
<1>4. /\ RowsInv(db) /\ DbInv(db) /\ IsNet(net) /\ TypedPage(db, page) /\ x \in Items(net)
      /\ Request(db, x) /\ TypedArg(db, x)
  BY <1>1, TypedFacts DEF Items, TypedRequest
<1>5. RowsInv(e) /\ Later(db, e)
  BY <1>3, <1>4, WritesRows, WritesFacts DEF Request, Shape, Later
<1>6. TypedAnswer(db, x.kind, ans)
  BY <1>2, <1>4, TypedAnswers
<1>7. PICK y : y = [x EXCEPT !.ans = ans]
  OBVIOUS
<1>8. y.kind = x.kind /\ y.arg = x.arg /\ y.ans = ans
  BY <1>4, <1>7 DEF Request, Shape
<1>9. TypedRequest(db, y)
  BY <1>4, <1>6, <1>8 DEF TypedRequest, TypedArg
<1>10. PICK t : t = [net EXCEPT ![i] = y]
  OBVIOUS
<1>11. Items(t) \subseteq Items(net) \cup {y}
  BY <1>4, <1>10, ChangedItem
<1>12. \A z \in Items(t) : TypedRequest(e, z)
  BY <1>4, <1>5, <1>9, <1>11, TypedFacts, TypedLater
<1>13. TypedPage(e, page)
  BY <1>4, <1>5, TypedLater
<1>14. Typed(e, page, Items(t))
  BY <1>5, <1>12, <1>13 DEF Typed, TypedState
<1>15. db' = e /\ page' = page /\ net' = t
  BY <1>1, <1>2, <1>3, <1>7, <1>10 DEF Serve
<1> QED BY <1>14, <1>15 DEF TypedState

LEMMA ThrowTyped ==
  ASSUME StateInv, TypedState, NEW i \in DOMAIN net, Throw(i) PROVE TypedState'
<1>1. PICK x : x = net[i]
  OBVIOUS
<1>2. PICK ans : ans = Thrown
  OBVIOUS
<1>3. IsNet(net) /\ x \in Items(net) /\ Request(db, x) /\ TypedArg(db, x)
  BY <1>1, TypedFacts DEF Items, TypedRequest
<1>4. PICK y : y = [x EXCEPT !.ans = ans]
  OBVIOUS
<1>5. y.kind = x.kind /\ y.arg = x.arg /\ y.ans = ans /\ ans.status = "thrown"
  BY <1>2, <1>3, <1>4 DEF Request, Shape, Thrown
<1>6. TypedRequest(db, y)
  BY <1>3, <1>5 DEF TypedRequest, TypedArg, TypedAnswer
<1>7. PICK t : t = [net EXCEPT ![i] = y]
  OBVIOUS
<1>8. Items(t) \subseteq Items(net) \cup {y}
  BY <1>3, <1>7, ChangedItem
<1>9. Typed(db, page, Items(t))
  BY <1>6, <1>8 DEF Typed, TypedState
<1>10. db' = db /\ page' = page /\ net' = t
  BY <1>1, <1>2, <1>4, <1>7 DEF Throw
<1> QED BY <1>9, <1>10 DEF TypedState

LEMMA OthersCommitFacts ==
  ASSUME NEW d, DbInv(d), RowsInv(d), d.latest < MaxVersion,
         NEW drafts, drafts = Renumbered(d.api, d.nextDraft),
         NEW p, p = Publish(d, d.latest + 1, drafts),
         NEW e, e = [p EXCEPT !.nextIt = @ + 1, !.nextDraft = @ + Cardinality(DOMAIN drafts)]
  PROVE  /\ RowsInv(e) /\ d.nextDraft <= e.nextDraft
         /\ e.drafts = d.drafts /\ e.open = d.open /\ e.nextIt = d.nextIt + 1
<1>1. /\ d.nextDraft \in Positive /\ d.nextApi \in Positive /\ IsRows(d.api, d.nextApi)
      /\ d.nextApi + Cardinality(DOMAIN d.drafts) <= d.nextDraft
      /\ IsRows(d.drafts, d.nextDraft) /\ d.cats \subseteq Cats
  BY DEF RowsInv
<1>2. PICK n : n = Cardinality(DOMAIN d.api)
  OBVIOUS
<1>3. /\ IsFiniteSet(DOMAIN d.api) /\ n \in Nat /\ DOMAIN d.api \subseteq Nat
      /\ \A id \in DOMAIN d.api : d.api[id] \in Row
  BY <1>1, <1>2, RowsFinite
<1>4. Cardinality(DOMAIN drafts) = n /\ IsRows(drafts, d.nextDraft + n)
  BY <1>1, <1>2, <1>3, RenumberedFacts
<1>5. d.nextDraft + n \in Positive /\ d.nextDraft <= d.nextDraft + n
  BY <1>1, <1>3 DEF Positive
<1>6. /\ IsFiniteSet(DOMAIN drafts) /\ DOMAIN drafts \subseteq Nat
      /\ \A id \in DOMAIN drafts : drafts[id] \in Row
  BY <1>4, <1>5, RowsFinite
<1>7. /\ DOMAIN p = DbFields /\ p.nextApi = d.nextApi + n /\ IsRows(p.api, p.nextApi)
      /\ p.drafts = d.drafts /\ p.nextDraft = d.nextDraft /\ p.cats = d.cats
      /\ p.open = d.open /\ p.nextIt = d.nextIt
      /\ \A j \in DOMAIN p.hist : \/ j \in DOMAIN d.hist /\ p.hist[j] = d.hist[j]
                                  \/ p.hist[j].ver = d.latest + 1 /\ p.hist[j].rows = drafts
  BY <1>1, <1>4, <1>6, PublishRows
<1>8. /\ e.nextApi = p.nextApi /\ e.api = p.api /\ e.drafts = p.drafts /\ e.cats = p.cats
      /\ e.hist = p.hist /\ e.open = p.open /\ e.nextIt = p.nextIt + 1
      /\ e.nextDraft = d.nextDraft + n
  BY <1>4, <1>7 DEF DbFields
<1>9. d.latest + 1 <= MaxVersion
  BY MaxVersionNat DEF DbInv, Positive
<1>10. \A j \in DOMAIN d.hist : IsRows(d.hist[j].rows, e.nextDraft) /\ d.hist[j].ver <= MaxVersion
  BY <1>1, <1>5, <1>8, MoreRows DEF RowsInv
<1>11. \A j \in DOMAIN e.hist : IsRows(e.hist[j].rows, e.nextDraft) /\ e.hist[j].ver <= MaxVersion
  BY <1>4, <1>7, <1>8, <1>9, <1>10
<1>12. IsRows(e.drafts, e.nextDraft)
  BY <1>1, <1>5, <1>7, <1>8, MoreRows
<1>13. Cardinality(DOMAIN d.drafts) \in Nat
  BY RowsCounted
<1>14. e.nextApi \in Positive /\ e.nextApi + Cardinality(DOMAIN e.drafts) <= e.nextDraft
  BY <1>1, <1>3, <1>7, <1>8, <1>13 DEF Positive
<1>15. RowsInv(e)
  BY <1>1, <1>5, <1>7, <1>8, <1>11, <1>12, <1>14 DEF RowsInv
<1> QED BY <1>5, <1>7, <1>8, <1>15

LEMMA OthersGrow ==
  ASSUME NEW d, DbInv(d), NEW drafts, NEW p, p = Publish(d, d.latest + 1, drafts),
         NEW e, e = [p EXCEPT !.nextIt = @ + 1, !.nextDraft = @ + Cardinality(DOMAIN drafts)]
  PROVE  DbInv(e) /\ Grows(d, e)
<1>1. DbInv(p) /\ Grows(d, p)
  <2>1. d.latest + 1 \in Positive
    BY DEF DbInv, Positive
  <2> QED BY <2>1, PublishFacts
<1>2. DOMAIN e = DbFields /\ e.latest = p.latest /\ e.hist = p.hist /\ e.api = p.api
  BY <1>1 DEF DbInv, DbFields
<1>3. DbInv(e) /\ Grows(p, e)
  BY <1>1, <1>2, HistoryKept
<1> QED BY <1>1, <1>3 DEF Grows

LEMMA OthersTyped == StateInv /\ TypedState /\ (OthersCommit \/ OwnerDeletes) => TypedState'
<1> SUFFICES ASSUME StateInv, TypedState, OthersCommit \/ OwnerDeletes PROVE TypedState'
  OBVIOUS
<1>1. /\ page' = page /\ net' = net /\ RowsInv(db) /\ DbInv(db) /\ TypedPage(db, page)
      /\ \A x \in Items(net) : TypedRequest(db, x)
  BY TypedFacts DEF OthersCommit, OwnerDeletes
<1>2. ASSUME NEW e, RowsInv(e), Later(db, e), db' = e PROVE TypedState'
  <2>1. TypedPage(e, page) /\ \A x \in Items(net) : TypedRequest(e, x)
    BY <1>1, <1>2, TypedLater
  <2>2. Typed(e, page, Items(net))
    BY <1>2, <2>1 DEF Typed, TypedState
  <2> QED BY <1>1, <1>2, <2>2 DEF TypedState
<1>3. CASE OwnerDeletes
  <2>1. PICK e : e = [db EXCEPT !.deleted = TRUE]
    OBVIOUS
  <2>2. /\ DOMAIN e = DbFields /\ e.latest = db.latest /\ e.hist = db.hist /\ e.api = db.api
        /\ e.nextApi = db.nextApi /\ e.nextDraft = db.nextDraft /\ e.drafts = db.drafts
        /\ e.cats = db.cats
    BY <1>1, <2>1 DEF DbInv, DbFields
  <2>3. RowsInv(e) /\ db.nextDraft <= e.nextDraft
    BY <1>1, <2>2 DEF RowsInv, Positive
  <2>4. Grows(db, e)
    BY <1>1, <2>2, HistoryKept
  <2> QED BY <1>2, <1>3, <2>1, <2>3, <2>4 DEF OwnerDeletes, Later
<1>4. CASE OthersCommit
  <2>1. PICK drafts : drafts = Renumbered(db.api, db.nextDraft)
    OBVIOUS
  <2>2. PICK p : p = Publish(db, db.latest + 1, drafts)
    OBVIOUS
  <2>3. PICK e : e = [p EXCEPT !.nextIt = @ + 1, !.nextDraft = @ + Cardinality(DOMAIN drafts)]
    OBVIOUS
  <2>4. db' = e /\ db.latest < MaxVersion
    BY <1>4, <2>1, <2>2, <2>3 DEF OthersCommit
  <2>5. RowsInv(e) /\ db.nextDraft <= e.nextDraft
    BY <1>1, <2>1, <2>2, <2>3, <2>4, OthersCommitFacts
  <2>6. Grows(db, e)
    BY <1>1, <2>2, <2>3, OthersGrow
  <2> QED BY <1>2, <2>4, <2>5, <2>6 DEF Later
<1> QED BY <1>3, <1>4

LEMMA ReloadedRequests ==
  ASSUME StateInv, Reload
  PROVE  \E s : /\ net' = s /\ IsNet(s)
                /\ \A x \in Items(s) :
                     \/ x = Ask("versions", None)
                     \/ ~x.live /\ \E y \in Items(net) : x.kind = y.kind /\ x.arg = y.arg /\ x.ans = y.ans
<1>1. PICK dead : dead = [i \in DOMAIN net |-> [net[i] EXCEPT !.live = FALSE]]
  OBVIOUS
<1>2. PICK v : v = Ask("versions", None)
  OBVIOUS
<1>3. IsNet(net) /\ Len(net) \in Nat /\ DOMAIN net = 1 .. Len(net)
  BY NetFacts DEF StateInv, Inv
<1>4. DOMAIN dead = DOMAIN net /\ \A i \in DOMAIN net : dead[i] = [net[i] EXCEPT !.live = FALSE]
  BY <1>1
<1>5. dead \in Seq(Items(dead) \cup {v})
  <2>1. dead = [i \in 1 .. Len(net) |-> dead[i]]
    BY <1>1, <1>3
  <2>2. dead \in Seq(Items(dead))
    BY <1>3, <2>1, FunctionIsNet, NetFacts
  <2> QED BY <2>2
<1>6. PICK s : s = Append(dead, v)
  OBVIOUS
<1>7. s \in Seq(Items(dead) \cup {v})
  BY <1>5, <1>6
<1>8. IsNet(s) /\ \A x \in Items(s) : x \in Items(dead) \cup {v}
  BY <1>7 DEF Items, IsNet
<1>9. ASSUME NEW i \in DOMAIN net
      PROVE  /\ ~dead[i].live /\ net[i] \in Items(net)
             /\ dead[i].kind = net[i].kind /\ dead[i].arg = net[i].arg /\ dead[i].ans = net[i].ans
  <2>1. net[i] \in Items(net) /\ Shape(net[i])
    BY DEF StateInv, Inv, Requests, Request, Items
  <2> QED BY <1>4, <2>1 DEF Shape
<1>10. \A x \in Items(dead) :
         ~x.live /\ \E y \in Items(net) : x.kind = y.kind /\ x.arg = y.arg /\ x.ans = y.ans
  BY <1>4, <1>9 DEF Items
<1>11. net' = s
  BY <1>1, <1>2, <1>6 DEF Reload
<1> QED BY <1>2, <1>8, <1>10, <1>11

LEMMA DropReloadTyped ==
  StateInv /\ TypedState /\ ((\E i \in DOMAIN net : Drop(i)) \/ Reload) => TypedState'
<1> SUFFICES ASSUME StateInv, TypedState, (\E i \in DOMAIN net : Drop(i)) \/ Reload PROVE TypedState'
  OBVIOUS
<1>1. ASSUME NEW i \in DOMAIN net, Drop(i) PROVE TypedState'
  <2>1. PICK rest : rest = Rest(i)
    OBVIOUS
  <2>2. Items(rest) \subseteq Items(net)
    BY <2>1, RestFacts
  <2>3. Typed(db, page, Items(rest))
    BY <2>2 DEF TypedState, Typed
  <2>4. db' = db /\ page' = page /\ net' = rest
    BY <1>1, <2>1 DEF Drop
  <2> QED BY <2>3, <2>4 DEF TypedState
<1>2. CASE Reload
  <2>1. PICK s : net' = s /\ IsNet(s) /\ \A x \in Items(s) :
          \/ x = Ask("versions", None)
          \/ ~x.live /\ \E y \in Items(net) : x.kind = y.kind /\ x.arg = y.arg /\ x.ans = y.ans
    BY <1>2, ReloadedRequests
  <2>2. TypedRequest(db, Ask("versions", None))
    BY DEF TypedRequest, TypedArg, Ask
  <2>3. ASSUME NEW x \in Items(s), NEW y \in Items(net), x.kind = y.kind, x.arg = y.arg, x.ans = y.ans
        PROVE  TypedRequest(db, x)
    <3>1. TypedRequest(db, y)
      BY TypedFacts
    <3> QED BY <2>3, <3>1 DEF TypedRequest, TypedArg
  <2>10. \A x \in Items(s) : TypedRequest(db, x)
    BY <2>1, <2>2, <2>3
  <2>11. PICK p : p = FreshPage
    OBVIOUS
  <2>12. /\ p.ver = 0 /\ p.shown = 0 /\ p.versions = {} /\ p.apis = NoRows /\ p.apiDrafts = NoRows
         /\ p.cats = {} /\ p.apiDetail = NoApi /\ p.form = NoApi /\ ~p.isDraft /\ ~p.saving
    BY <2>11 DEF FreshPage
  <2>13. IsRows(NoRows, db.nextDraft)
    BY DEF IsRows, NoRows
  <2>14. TypedPage(db, p)
    BY <2>12, <2>13, NoApiDetail DEF TypedPage
  <2>15. Typed(db, p, Items(s))
    BY <2>10, <2>12, <2>14, TypedFacts DEF Typed
  <2>16. db' = db /\ page' = p /\ net' = s
    BY <1>2, <2>1, <2>11 DEF Reload
  <2> QED BY <2>15, <2>16 DEF TypedState
<1> QED BY <1>1, <1>2

LEMMA ApplyTyped ==
  ASSUME StateInv, TypedState, NEW i \in DOMAIN net, NEW new, Apply(i, new, <<>>),
         IsPage(new), new.ver \in Nat, TypedPage(db, new)
  PROVE  TypedState'
<1>1. PICK out : out = <<>>
  OBVIOUS
<1>2. IsNet(out) /\ Items(out) = {}
  BY <1>1, OneItem
<1>3. PICK rest : rest = Rest(i)
  OBVIOUS
<1>4. IsNet(rest) /\ Items(rest) \subseteq Items(net)
  BY <1>3, RestFacts
<1>5. Update(new, rest, out) /\ db' = db
  BY <1>1, <1>3 DEF Apply
<1>6. \A x \in Items(out) : TypedArg(db, x) /\ x.ans = None
  BY <1>2
<1> QED BY <1>2, <1>4, <1>5, <1>6, TypedUpdate

LEMMA ArrivalTyped ==
  ASSUME StateInv, TypedState, NEW i \in DOMAIN net,
         \/ AllVersionsArrive(i) \/ ServiceDetailArrives(i) \/ ApiDetailArrives(i)
         \/ IterationArrives(i) \/ StartArrives(i) \/ CommitArrives(i)
  PROVE  TypedState'
<1>0. IsPage(page) /\ page.ver \in Nat /\ TypedPage(db, page)
  BY TypedFacts
<1>1. PICK x : x = net[i]
  OBVIOUS
<1>2. /\ Request(db, x) /\ TypedArg(db, x)
      /\ x.ans # None => TypedAnswer(db, x.kind, x.ans) /\ AnswerShape(x.kind, x.ans)
  BY <1>1, TypedFacts DEF Items, TypedRequest, Request
<1>3. CASE AllVersionsArrive(i)
  <2>1. x.kind = "versions" /\ x.ans # None
    BY <1>1, <1>3 DEF AllVersionsArrive, Arrived
  <2>2. CASE x.ans.status = "ok"
    <3>1. PICK new : new = [page EXCEPT !.versions = x.ans.value.versions, !.ver = x.ans.value.ver,
                                        !.isLatest = TRUE, !.loading = FALSE]
      OBVIOUS
    <3>2. Apply(i, new, <<>>)
      BY <1>1, <1>3, <2>2, <3>1 DEF AllVersionsArrive
    <3>3. /\ IsPage(new) /\ new.versions = x.ans.value.versions /\ new.ver = x.ans.value.ver
          /\ Same(page, new, Fields \ {"versions", "ver", "isLatest", "loading"})
      BY <1>0, <3>1 DEF IsPage, Fields, Same
    <3>4. /\ \A v \in x.ans.value.versions : Known(db, v, {})
          /\ Known(db, x.ans.value.ver, {}) /\ x.ans.value.ver \in Positive
      BY <1>2, <2>1, <2>2 DEF TypedAnswer, AnswerShape
    <3>5. TypedPage(db, new) /\ new.ver \in Nat
      BY <1>0, <3>3, <3>4 DEF TypedPage, Same, Fields, Positive
    <3> QED BY <3>2, <3>3, <3>5, ApplyTyped
  <2>3. CASE x.ans.status # "ok"
    <3>1. PICK new : new = [page EXCEPT !.gone = TRUE, !.loading = FALSE]
      OBVIOUS
    <3>2. Apply(i, new, <<>>)
      BY <1>1, <1>3, <2>3, <3>1 DEF AllVersionsArrive
    <3>3. IsPage(new) /\ Same(page, new, Fields \ {"gone", "loading"})
      BY <1>0, <3>1 DEF IsPage, Fields, Same
    <3>4. TypedPage(db, new) /\ new.ver \in Nat
      BY <1>0, <3>3 DEF TypedPage, Same, Fields
    <3> QED BY <3>2, <3>3, <3>4, ApplyTyped
  <2> QED BY <2>2, <2>3
<1>4. CASE ServiceDetailArrives(i)
  <2>1. x.kind = "detail" /\ x.ans # None
    BY <1>1, <1>4 DEF ServiceDetailArrives, Arrived
  <2>2. PICK new : new = DetailApplied(page, x)
    OBVIOUS
  <2>3. Apply(i, new, <<>>)
    BY <1>1, <1>4, <2>2 DEF ServiceDetailArrives
  <2>4. CASE x.ans.status = "ok"
    <3>1. PICK b \in BOOLEAN : b = x.ans.value.latest
      BY <1>2, <2>1, <2>4 DEF AnswerShape
    <3>2. PICK c : c = IF x.ans.value.latest THEN x.ans.value.cats ELSE page.cats
      OBVIOUS
    <3>3. new = [page EXCEPT !.shown = x.arg, !.isLatest = b, !.apis = x.ans.value.rows,
                             !.cats = c, !.loading = FALSE]
      BY <2>2, <2>4, <3>1, <3>2 DEF DetailApplied
    <3>4. /\ IsPage(new) /\ new.shown = x.arg /\ new.apis = x.ans.value.rows /\ new.cats = c
          /\ Same(page, new, Fields \ {"shown", "isLatest", "apis", "cats", "loading"})
      BY <1>0, <3>1, <3>3 DEF IsPage, Fields, Same
    <3>5. Known(db, x.arg, {}) /\ IsRows(x.ans.value.rows, db.nextDraft) /\ c \subseteq Cats
      BY <1>0, <1>2, <2>1, <2>4, <3>2 DEF TypedArg, TypedAnswer, TypedPage
    <3>6. TypedPage(db, new) /\ new.ver \in Nat
      BY <1>0, <3>4, <3>5 DEF TypedPage, Same, Fields
    <3> QED BY <2>3, <3>4, <3>6, ApplyTyped
  <2>5. CASE x.ans.status # "ok"
    <3>1. /\ IsPage(new) /\ new.shown \in {0, page.shown}
          /\ Same(page, new, Fields \ {"shown", "loading"})
      BY <1>0, <2>2, <2>5 DEF DetailApplied, IsPage, Fields, Same
    <3>2. TypedPage(db, new) /\ new.ver \in Nat
      BY <1>0, <3>1 DEF TypedPage, Same, Fields
    <3> QED BY <2>3, <3>1, <3>2, ApplyTyped
  <2> QED BY <2>4, <2>5
<1>5. CASE ApiDetailArrives(i)
  <2>1. PICK a : a = IF x.ans.status = "ok" THEN x.ans.value ELSE NoApi
    OBVIOUS
  <2>2. PICK p : p = [page EXCEPT !.apiDetail = a, !.apiLoading = FALSE]
    OBVIOUS
  <2>3. PICK new : new = IF EditorMounted(p) THEN FillForm(p) ELSE p
    OBVIOUS
  <2>4. x.kind = "api" /\ Apply(i, new, <<>>) /\ x.ans # None
    BY <1>1, <1>5, <2>1, <2>2, <2>3 DEF ApiDetailArrives, Arrived
  <2>5. a \in Detail
    BY <1>2, <2>1, <2>4, NoApiDetail DEF TypedAnswer
  <2>6. IsPage(p) /\ p.apiDetail = a /\ Same(page, p, Fields \ {"apiDetail", "apiLoading"})
    BY <1>0, <2>2 DEF IsPage, Fields, Same
  <2>7. TypedPage(db, p) /\ p.ver \in Nat
    BY <1>0, <2>5, <2>6 DEF TypedPage, Same, Fields
  <2>8. IsPage(new) /\ new.form \in {p.form, p.apiDetail} /\ Same(p, new, Fields \ {"form", "isDraft"})
    BY <2>3, <2>6 DEF FillForm, IsPage, Fields, Same
  <2>9. TypedPage(db, new) /\ new.ver \in Nat
    BY <2>7, <2>8 DEF TypedPage, Same, Fields
  <2> QED BY <2>4, <2>8, <2>9, ApplyTyped
<1>6. CASE IterationArrives(i)
  <2>1. PICK a : a = IF x.ans.status = "ok" THEN x.ans.value ELSE page.apiDrafts
    OBVIOUS
  <2>2. PICK p : p = [page EXCEPT !.apiDrafts = a, !.iterationLoading = FALSE]
    OBVIOUS
  <2>3. p = DraftsApplied(page, x)
    BY <2>1, <2>2 DEF DraftsApplied
  <2>4. PICK new : new = SaveEnds(p, x.arg.then)
    OBVIOUS
  <2>5. x.kind = "iteration" /\ Apply(i, new, <<>>) /\ x.ans # None
    BY <1>1, <1>6, <2>3, <2>4 DEF IterationArrives, Arrived
  <2>6. IsRows(a, db.nextDraft)
    BY <1>0, <1>2, <2>1, <2>5 DEF TypedAnswer, TypedPage
  <2>7. IsPage(p) /\ p.apiDrafts = a /\ Same(page, p, Fields \ {"apiDrafts", "iterationLoading"})
    BY <1>0, <2>2 DEF IsPage, Fields, Same
  <2>8. TypedPage(db, p) /\ p.ver \in Nat
    BY <1>0, <2>6, <2>7 DEF TypedPage, Same, Fields
  <2>9. IsPage(new) /\ Same(p, new, Fields \ {"isDraft", "saving"})
    BY <2>4, <2>7 DEF SaveEnds, IsPage, Fields, Same
  <2>10. TypedPage(db, new) /\ new.ver \in Nat
    BY <2>8, <2>9 DEF TypedPage, Same, Fields
  <2> QED BY <2>5, <2>9, <2>10, ApplyTyped
<1>7. CASE StartArrives(i) \/ CommitArrives(i)
  <2>1. PICK new : /\ Apply(i, new, <<>>)
                   /\ \/ new = page
                      \/ new = [page EXCEPT !.inIteration = TRUE, !.iterationId = net[i].ans.value]
                      \/ new = [page EXCEPT !.reload = TRUE]
    BY <1>7 DEF StartArrives, CommitArrives
  <2>2. IsPage(new) /\ Same(page, new, Fields \ {"inIteration", "iterationId", "reload"})
    BY <1>0, <2>1 DEF IsPage, Fields, Same
  <2>3. TypedPage(db, new) /\ new.ver \in Nat
    BY <1>0, <2>2 DEF TypedPage, Same, Fields
  <2> QED BY <2>1, <2>2, <2>3, ApplyTyped
<1> QED BY <1>3, <1>4, <1>5, <1>6, <1>7

LEMMA CategoryTyped ==
  ASSUME StateInv, TypedState, NEW i \in DOMAIN net, CategoryChangeArrives(i) PROVE TypedState'
<1>0. IsPage(page) /\ page.ver \in Nat /\ TypedPage(db, page)
  BY TypedFacts
<1>1. PICK x : x = net[i]
  OBVIOUS
<1>2. TypedArg(db, x) /\ (x.ans # None => TypedAnswer(db, x.kind, x.ans))
  BY <1>1, TypedFacts DEF Items, TypedRequest
<1>3. ASSUME NEW c, c \subseteq Cats, Apply(i, [page EXCEPT !.cats = c], <<>>) PROVE TypedState'
  <2>1. PICK new : new = [page EXCEPT !.cats = c]
    OBVIOUS
  <2>2. IsPage(new) /\ new.cats = c /\ Same(page, new, Fields \ {"cats"})
    BY <1>0, <2>1 DEF IsPage, Fields, Same
  <2>3. TypedPage(db, new) /\ new.ver \in Nat
    BY <1>0, <1>3, <2>2 DEF TypedPage, Same, Fields
  <2> QED BY <1>3, <2>1, <2>2, <2>3, ApplyTyped
<1>4. CASE Arrived(i, "move") /\ Apply(i, MoveApplied(page, net[i]), <<>>)
  <2>1. x.kind = "move" /\ x.arg.cat \in Cats \cup {0}
    BY <1>1, <1>2, <1>4 DEF Arrived, TypedArg
  <2>2. PICK row : row = [page.apis[x.arg.id] EXCEPT !.cat = x.arg.cat]
    OBVIOUS
  <2>3. PICK rows : rows = [page.apis EXCEPT ![x.arg.id] = row]
    OBVIOUS
  <2>4. PICK new : new = MoveApplied(page, x)
    OBVIOUS
  <2>5. new = page \/ (x.arg.id \in DOMAIN page.apis /\ new = [page EXCEPT !.apis = rows])
    BY <2>2, <2>3, <2>4 DEF MoveApplied
  <2>6. x.arg.id \in DOMAIN page.apis => IsRows(rows, db.nextDraft)
    <3> SUFFICES ASSUME x.arg.id \in DOMAIN page.apis PROVE IsRows(rows, db.nextDraft)
      OBVIOUS
    <3>1. IsRows(page.apis, db.nextDraft)
      BY <1>0 DEF TypedPage
    <3>2. row \in Row
      BY <2>1, <2>2, <3>1 DEF IsRows, Row
    <3> QED BY <2>3, <3>1, <3>2 DEF IsRows
  <2>7. IsPage(new) /\ IsRows(new.apis, db.nextDraft) /\ Same(page, new, Fields \ {"apis"})
    BY <1>0, <2>5, <2>6 DEF IsPage, Fields, Same, TypedPage
  <2>8. TypedPage(db, new) /\ new.ver \in Nat
    BY <1>0, <2>7 DEF TypedPage, Same, Fields
  <2> QED BY <1>1, <1>4, <2>4, <2>7, <2>8, ApplyTyped
<1>5. CASE Apply(i, page, <<>>)
  BY <1>0, <1>5, ApplyTyped
<1>6. CASE /\ Arrived(i, "addCat") /\ x.ans.status = "ok"
           /\ Apply(i, [page EXCEPT !.cats = @ \cup net[i].ans.value], <<>>)
  <2>1. x.ans.value \subseteq Cats
    BY <1>1, <1>2, <1>6 DEF Arrived, TypedAnswer
  <2>2. page.cats \cup x.ans.value \subseteq Cats
    BY <1>0, <2>1 DEF TypedPage
  <2> QED BY <1>1, <1>3, <1>6, <2>2
<1>7. CASE Apply(i, [page EXCEPT !.cats = @ \ {net[i].arg}], <<>>)
  <2>1. page.cats \ {x.arg} \subseteq Cats
    BY <1>0 DEF TypedPage
  <2> QED BY <1>1, <1>3, <1>7, <2>1
<1>8. \/ Arrived(i, "move") /\ Apply(i, MoveApplied(page, net[i]), <<>>)
      \/ Apply(i, page, <<>>)
      \/ /\ Arrived(i, "addCat") /\ x.ans.status = "ok"
         /\ Apply(i, [page EXCEPT !.cats = @ \cup net[i].ans.value], <<>>)
      \/ Apply(i, [page EXCEPT !.cats = @ \ {net[i].arg}], <<>>)
  BY <1>1, Zenon DEF CategoryChangeArrives
<1> QED BY <1>4, <1>5, <1>6, <1>7, <1>8

LEMMA ChangeTyped ==
  ASSUME StateInv, TypedState, NEW i \in DOMAIN net, DraftChangeArrives(i) \/ SaveArrives(i)
  PROVE  TypedState'
<1>0. IsPage(page) /\ page.ver \in Nat /\ TypedPage(db, page)
  BY TypedFacts
<1>1. ASSUME NEW then, Apply(i, [page EXCEPT !.iterationLoading = TRUE], Refresh(net[i], then))
      PROVE  TypedState'
  <2>1. PICK new : new = [page EXCEPT !.iterationLoading = TRUE]
    OBVIOUS
  <2>2. PICK x : x = AskIteration(net[i].arg.it, then)
    OBVIOUS
  <2>3. PICK out : out = <<x>>
    OBVIOUS
  <2>4. IsNet(out) /\ Items(out) = {x}
    BY <2>3, OneItem
  <2>5. PICK rest : rest = Rest(i)
    OBVIOUS
  <2>6. IsNet(rest) /\ Items(rest) \subseteq Items(net)
    BY <2>5, RestFacts
  <2>7. Update(new, rest, out) /\ db' = db
    BY <1>1, <2>1, <2>2, <2>3, <2>5 DEF Refresh, Apply
  <2>8. \A y \in Items(out) : TypedArg(db, y) /\ y.ans = None
    BY <2>2, <2>4 DEF AskIteration, Ask, TypedArg
  <2>9. IsPage(new) /\ Same(page, new, Fields \ {"iterationLoading"})
    BY <1>0, <2>1 DEF IsPage, Fields, Same
  <2>10. TypedPage(db, new) /\ new.ver \in Nat
    BY <1>0, <2>9 DEF TypedPage, Same, Fields
  <2> QED BY <2>4, <2>6, <2>7, <2>8, <2>9, <2>10, TypedUpdate
<1>2. PICK b \in BOOLEAN : b = (page.saving /\ net[i].arg.then # "saved")
  OBVIOUS
<1>3. PICK new : new = [page EXCEPT !.saving = b]
  OBVIOUS
<1>4. IsPage(new) /\ Same(page, new, Fields \ {"saving"})
  BY <1>0, <1>2, <1>3 DEF IsPage, Fields, Same
<1>5. TypedPage(db, new) /\ new.ver \in Nat
  BY <1>0, <1>4 DEF TypedPage, Same, Fields
<1>6. \/ Apply(i, [page EXCEPT !.iterationLoading = TRUE], Refresh(net[i], ""))
      \/ Apply(i, [page EXCEPT !.iterationLoading = TRUE], Refresh(net[i], net[i].arg.then))
      \/ Apply(i, page, <<>>)
      \/ Apply(i, new, <<>>)
  BY <1>2, <1>3, Zenon DEF DraftChangeArrives, SaveArrives
<1> QED BY <1>0, <1>1, <1>4, <1>5, <1>6, ApplyTyped

LEMMA InitTyped == Init => TypedState
<1> SUFFICES ASSUME Init PROVE TypedState
  OBVIOUS
<1>1. PICK open \in Opens :
        LET row == [cat |-> 0, body |-> FirstBody]
            mine == IF open = None THEN NoRows ELSE Renumbered(open, 3)
            draft == 3 + Cardinality(DOMAIN mine)
        IN  db = [latest |-> 2, api |-> OneRow(2, row), cats |-> {}, deleted |-> FALSE,
                  hist |-> <<[ver |-> 1, rows |-> OneRow(2, row), apis |-> {1}],
                             [ver |-> 2, rows |-> OneRow(draft, row), apis |-> {2}]>>,
                  open |-> IF open = None THEN 0 ELSE 3, drafts |-> mine,
                  nextApi |-> 3, nextIt |-> 4, nextDraft |-> draft + 1]
  BY Zenon DEF Init
<1>2. PICK row : row = [cat |-> 0, body |-> FirstBody]
  OBVIOUS
<1>3. PICK mine : mine = IF open = None THEN NoRows ELSE Renumbered(open, 3)
  OBVIOUS
<1>4. PICK n : n = Cardinality(DOMAIN mine)
  OBVIOUS
<1>5. n \in Nat /\ IsRows(mine, 3 + n)
  <2>1. CASE open = None
    <3>1. mine = NoRows /\ DOMAIN NoRows = {}
      BY <1>3, <2>1 DEF NoRows
    <3>2. n = 0
      BY <1>4, <3>1, FS_EmptySet
    <3> QED BY <3>1, <3>2 DEF IsRows
  <2>2. CASE open # None
    <3>1. /\ IsFiniteSet(DOMAIN open) /\ DOMAIN open \subseteq Nat
          /\ \A id \in DOMAIN open : open[id] \in Row
      BY <2>2, OpensAreRows
    <3>2. 3 \in Positive
      BY DEF Positive
    <3>3. /\ Cardinality(DOMAIN open) \in Nat
          /\ Cardinality(DOMAIN Renumbered(open, 3)) = Cardinality(DOMAIN open)
          /\ IsRows(Renumbered(open, 3), 3 + Cardinality(DOMAIN open))
      BY <3>1, <3>2, RenumberedFacts
    <3>4. mine = Renumbered(open, 3)
      BY <1>3, <2>2
    <3> QED BY <1>4, <3>3, <3>4
  <2> QED BY <2>1, <2>2
<1>6. PICK draft : draft = 3 + n
  OBVIOUS
<1>7. PICK a, b : /\ a = [ver |-> 1, rows |-> OneRow(2, row), apis |-> {1}]
                  /\ b = [ver |-> 2, rows |-> OneRow(draft, row), apis |-> {2}]
  OBVIOUS
<1>8. PICK o : o = IF open = None THEN 0 ELSE 3
  OBVIOUS
<1>9. db = [latest |-> 2, api |-> OneRow(2, row), cats |-> {}, deleted |-> FALSE,
            hist |-> <<a, b>>, open |-> o, drafts |-> mine,
            nextApi |-> 3, nextIt |-> 4, nextDraft |-> draft + 1]
  BY <1>1, <1>2, <1>3, <1>4, <1>6, <1>7, <1>8, Zenon
<1>10. /\ db.nextApi = 3 /\ db.nextDraft = draft + 1 /\ db.cats = {} /\ db.drafts = mine
       /\ db.api = OneRow(2, row) /\ db.hist = <<a, b>>
  BY <1>9
<1>11. row \in Row
  BY <1>2, FirstBodyIn DEF Row
<1>12. \A id, next : id \in 1 .. next - 1 => IsRows(OneRow(id, row), next)
  BY <1>11 DEF IsRows, OneRow
<1>13. DOMAIN db.hist = {1, 2} /\ db.hist[1] = a /\ db.hist[2] = b
  BY <1>10
<1>14. a.ver = 1 /\ b.ver = 2 /\ a.rows = OneRow(2, row) /\ b.rows = OneRow(draft, row)
  BY <1>7
<1>15. /\ draft \in Nat /\ 2 \in 1 .. 3 - 1 /\ 2 \in 1 .. (draft + 1) - 1
       /\ draft \in 1 .. (draft + 1) - 1 /\ draft + 1 \in Positive /\ 3 \in Positive
       /\ draft \in Positive /\ draft <= draft + 1 /\ 3 + n <= draft + 1
  BY <1>5, <1>6 DEF Positive
<1>16. \A j \in DOMAIN db.hist : IsRows(db.hist[j].rows, db.nextDraft) /\ db.hist[j].ver <= MaxVersion
  <2>1. IsRows(a.rows, draft + 1) /\ IsRows(b.rows, draft + 1)
    BY <1>12, <1>14, <1>15
  <2>2. a.ver <= MaxVersion /\ b.ver <= MaxVersion
    BY <1>14, MaxVersionNat
  <2> QED BY <1>10, <1>13, <2>1, <2>2
<1>17. IsRows(db.api, db.nextApi)
  BY <1>10, <1>12, <1>15
<1>18. IsRows(db.drafts, db.nextDraft)
  BY <1>5, <1>6, <1>10, <1>15, MoreRows
<1>19. RowsInv(db)
  BY <1>4, <1>10, <1>15, <1>16, <1>17, <1>18 DEF RowsInv
<1>20. /\ page.ver = 0 /\ page.shown = 0 /\ page.versions = {} /\ page.apis = NoRows
       /\ page.apiDrafts = NoRows /\ page.cats = {} /\ page.apiDetail = NoApi /\ page.form = NoApi
       /\ ~page.isDraft /\ ~page.saving
  BY DEF Init, FreshPage
<1>21. IsRows(NoRows, db.nextDraft)
  BY DEF IsRows, NoRows
<1>22. TypedPage(db, page)
  BY <1>20, <1>21, NoApiDetail DEF TypedPage
<1>23. \A x \in Items(net) : TypedRequest(db, x)
  <2>1. PICK v : v = Ask("versions", None)
    OBVIOUS
  <2>2. Items(net) = {v}
    BY <2>1, OneItem DEF Init
  <2>3. TypedRequest(db, v)
    BY <2>1 DEF TypedRequest, TypedArg, Ask
  <2> QED BY <2>2, <2>3
<1> QED BY <1>19, <1>20, <1>22, <1>23 DEF TypedState, Typed

LEMMA NextTyped == StateInv /\ TypedState /\ [Next]_vars => TypedState'
<1> SUFFICES ASSUME StateInv, TypedState, [Next]_vars PROVE TypedState'
  OBVIOUS
<1>1. CASE UNCHANGED vars
  BY <1>1 DEF vars, TypedState
<1>2. CASE User
  BY <1>2, UserTyped
<1>3. CASE Serving
  BY <1>3, ServeTyped DEF Serving
<1>4. CASE Delivering
  BY <1>4, ArrivalTyped, CategoryTyped, ChangeTyped, DropReloadTyped DEF Delivering, Deliver
<1>5. CASE Throwing
  BY <1>5, ThrowTyped DEF Throwing
<1>6. CASE OthersCommit \/ OwnerDeletes
  BY <1>6, OthersTyped
<1>7. CASE Reload
  BY <1>7, DropReloadTyped
<1> QED BY <1>1, <1>2, <1>3, <1>4, <1>5, <1>6, <1>7 DEF Next

LEMMA TypedAlways == Spec => [](StateInv /\ TypedState)
<1>1. Init => StateInv /\ TypedState
  BY InitInv, InitTyped
<1>2. (StateInv /\ TypedState) /\ [Next]_vars => (StateInv /\ TypedState)'
  BY NextKeeps, NextTyped
<1> QED BY <1>1, <1>2, PTL DEF Spec

(* The rows of the server and of the page keep their shape, the ids on the    *)
(* page stay below the counter of the drafts although two sequences give them *)
(* out, versions stay within their bound, and a mark or a running save exists *)
(* only in a mounted editor (useThisService, useServiceIteration, ApiEdit).   *)
THEOREM TypeCorrect == Spec => []TypeOK
<1>1. StateInv /\ TypedState => TypeOK
  <2> SUFFICES ASSUME StateInv, TypedState PROVE TypeOK
    OBVIOUS
  <2>1. \A v : Known(db, v, {}) => v \in 1 .. MaxVersion
    BY TypedFacts, MaxVersionNat DEF Known, DbInv, IsHistory, RowsInv, Positive
  <2>2. TypedPage(db, page) /\ RowsInv(db)
    BY TypedFacts
  <2>3. (page.isDraft \/ page.saving) => EditorMounted(page)
    BY DEF TypedState, Typed
  <2>4. \A i \in DOMAIN net : net[i].kind \in Kinds /\ net[i].live \in BOOLEAN
    BY DEF StateInv, Inv, Requests, Request, Shape, Items
  <2>5. 0 \in 0 .. MaxVersion /\ 1 .. MaxVersion \subseteq 0 .. MaxVersion
    BY MaxVersionNat
  <2>6. /\ page.ver \in 0 .. MaxVersion /\ page.shown \in 0 .. MaxVersion
        /\ page.versions \subseteq 1 .. MaxVersion
    BY <2>1, <2>2, <2>5 DEF TypedPage
  <2> QED BY <2>2, <2>3, <2>4, <2>6 DEF TypeOK, TypedPage, RowsInv
<1> QED BY <1>1, TypedAlways, PTL

--------------------------------------------------------------------------------
(* Freshness of the drafts in the tree.                                       *)
Changes == {"add", "copy", "delete", "save"}
Refreshing(x) == x.live /\ x.kind = "iteration"
NoRefresh(R) == \A x \in R : ~Refreshing(x)
OneRefresh(s) == \A j, k \in DOMAIN s : Refreshing(s[j]) /\ Refreshing(s[k]) => j = k
Match(rows, drafts) ==
  DOMAIN rows = DOMAIN drafts /\ \A id \in DOMAIN drafts : rows[id].body = drafts[id].body

(* A change of the open iteration whose answer will ask for a refresh.        *)
Applied(d, x) == x.live /\ x.kind \in Changes /\ x.arg.it = d.open /\ x.ans = Ok(None)

(* A refresh brings the drafts of the open iteration, or nothing.             *)
Sound(d, x) ==
  Refreshing(x) => \/ x.ans = None
                   \/ x.arg.it = d.open /\ x.ans.status = "ok" /\ Match(x.ans.value, d.drafts)
                   \/ x.arg.it # d.open /\ x.ans = Refused

(* In the open iteration the tree is right, or will be refreshed.             *)
Fresh(d, p, R) ==
  p.inIteration /\ p.iterationId = d.open =>
    \/ \E x \in R : Applied(d, x)
    \/ /\ \A x \in R : Sound(d, x)
       /\ (\A x \in R : Refreshing(x) => x.arg.it # d.open) => Match(p.apiDrafts, d.drafts)

StartedOk(d, x) ==
  x.kind = "start" /\ x.ans # None /\ x.ans.status = "ok" =>
    x.ans.value \in Positive /\ x.ans.value < d.nextIt
Iterations(d, p, R) ==
  /\ d.nextIt \in Positive /\ d.open \in Nat /\ d.open < d.nextIt
  /\ p.iterationId \in Nat /\ p.iterationId < d.nextIt
  /\ p.inIteration <=> p.iterationId # 0
  /\ \A x \in R : StartedOk(d, x)

FreshInv(d, p, s, t) ==
  Iterations(d, p, Items(s)) /\ (~t => OneRefresh(s) /\ Fresh(d, p, Items(s)))
FreshState == doubt \in BOOLEAN /\ FreshInv(db, page, net, doubt)

LEMMA CountedRefreshes ==
  ASSUME NEW s, IsNet(s), ~(Refreshes(s) > 1)
  PROVE  OneRefresh(s)
<1> DEFINE S == {i \in DOMAIN s : s[i].kind = "iteration" /\ s[i].live}
<1>1. DOMAIN s = 1 .. Len(s) /\ Len(s) \in Nat
  BY NetFacts
<1>2. IsFiniteSet(1 .. Len(s))
  BY <1>1, FS_Interval
<1>3. IsFiniteSet(S) /\ Cardinality(S) \in Nat
  BY <1>1, <1>2, FS_Subset, FS_CardinalityType
<1>4. Refreshes(s) = Cardinality(S)
  BY DEF Refreshes
<1>5. ASSUME NEW j \in S, NEW k \in S, j # k PROVE FALSE
  <2>1. IsFiniteSet({j}) /\ Cardinality({j}) = 1
    BY FS_Singleton
  <2>2. Cardinality({j} \cup {k}) = 2
    BY <1>5, <2>1, FS_AddElement, SMTT(30)
  <2>3. {j} \cup {k} \in SUBSET S
    OBVIOUS
  <2> HIDE DEF S
  <2>4. Cardinality({j} \cup {k}) <= Cardinality(S)
    BY <1>3, <2>3, FS_Subset
  <2> QED BY <1>3, <1>4, <2>2, <2>4
<1>6. \A j \in DOMAIN s : Refreshing(s[j]) => j \in S
  BY DEF Refreshing
<1> QED BY <1>5, <1>6 DEF OneRefresh

LEMMA RefreshJoined ==
  ASSUME NEW s, NEW t, IsNet(s), IsNet(t), OneRefresh(s \o t)
  PROVE  /\ (\E x \in Items(t) : Refreshing(x)) => NoRefresh(Items(s))
         /\ OneRefresh(s)
<1> DEFINE u == s \o t
<1>1. /\ \A i \in DOMAIN s : i \in DOMAIN u /\ u[i] = s[i]
      /\ \A j \in DOMAIN t : j + Len(s) \in DOMAIN u /\ u[j + Len(s)] = t[j]
  BY Joined
<1>2. DOMAIN s = 1 .. Len(s) /\ Len(s) \in Nat /\ DOMAIN t = 1 .. Len(t) /\ Len(t) \in Nat
  BY NetFacts
<1>3. OneRefresh(u)
  OBVIOUS
<1> HIDE DEF u
<1>4. ASSUME NEW j \in DOMAIN t, Refreshing(t[j]), NEW i \in DOMAIN s, Refreshing(s[i]) PROVE FALSE
  <2>1. i = j + Len(s)
    BY <1>1, <1>3, <1>4 DEF OneRefresh
  <2> QED BY <1>2, <2>1
<1>5. OneRefresh(s)
  BY <1>1, <1>3 DEF OneRefresh
<1> QED BY <1>4, <1>5 DEF NoRefresh, Items

LEMMA FreshUpdate ==
  ASSUME StateInv, FreshState, NEW new, NEW rest, NEW out, Update(new, rest, out), db' = db,
         IsPage(new), new.ver \in Nat, IsNet(rest), Items(rest) \subseteq Items(net),
         IsNet(out), \A x \in Items(out) : x.ans = None,
         new.iterationId \in Nat, new.iterationId < db.nextIt,
         new.inIteration <=> new.iterationId # 0,
         ~doubt /\ ((\E x \in Items(out) : Refreshing(x)) => NoRefresh(Items(rest)))
           => NewIteration(page, new) \/ Fresh(db, new, Items(rest) \cup Items(out))
  PROVE  FreshState'
<1>1. PICK p : p = Effects(page, new)
  OBVIOUS
<1>2. IsPage(p) /\ Same(new, p, Kept)
  BY <1>1, EffectsFacts, Zenon
<1>3. /\ p.ver = new.ver /\ p.inIteration = new.inIteration /\ p.iterationId = new.iterationId
      /\ p.apiDrafts = new.apiDrafts
  BY <1>2 DEF Same, Kept, Fields
<1>4. NewIteration(page, p) <=> NewIteration(page, new)
  BY <1>3 DEF NewIteration
<1> DEFINE left == EditorMounted(page) /\ ~EditorMounted(p)
           x1 == IF left THEN Forget(rest) ELSE rest
           x2 == x1 \o out
           x3 == Asked(page, p)
           s == x2 \o x3
<1>5. page' = p /\ net' = s /\ doubt' = (doubt \/ Refreshes(net') > 1)
  BY <1>1, Zenon DEF Update, Render
<1>6. /\ IsNet(x3) /\ \A x \in Items(x3) : Request(db, x) /\ x.live /\ x.ans = None
      /\ NewIteration(page, p) => Expects(Items(x3), {"iteration"})
      /\ \A x \in Items(x3) : /\ x.kind \in {"detail", "iteration", "api"}
                              /\ x.kind = "iteration" =>
                                   NewIteration(page, p) /\ x.arg.it = p.iterationId
  BY <1>3, AskedFacts
<1> HIDE DEF x3
<1>7. \A x \in Items(rest) : Request(db, x)
  BY DEF StateInv, Inv, Requests
<1>8. /\ IsNet(x1) /\ DOMAIN x1 = DOMAIN rest
      /\ \A i \in DOMAIN rest :
           /\ x1[i].kind = rest[i].kind /\ x1[i].live = rest[i].live /\ x1[i].ans = rest[i].ans
           /\ x1[i].arg.it = rest[i].arg.it
  <2>1. CASE ~left
    BY <2>1
  <2>2. CASE left
    <3>1. x1 = Forget(rest)
      BY <2>2
    <3> HIDE DEF x1
    <3> QED BY <1>7, <3>1, ForgetFacts
  <2> QED BY <2>1, <2>2
<1> HIDE DEF x1, left
<1>9. IsNet(x2) /\ Items(x2) = Items(x1) \cup Items(out)
  BY <1>8, Joined
<1>10. OneRefresh(x2) => ((\E x \in Items(out) : Refreshing(x)) => NoRefresh(Items(x1)))
  BY <1>8, RefreshJoined
<1> HIDE DEF x2
<1>11. IsNet(s) /\ Items(s) = Items(x2) \cup Items(x3)
  BY <1>6, <1>9, Joined
<1>12. OneRefresh(s) =>
         OneRefresh(x2) /\ ((\E x \in Items(x3) : Refreshing(x)) => NoRefresh(Items(x2)))
  BY <1>6, <1>9, RefreshJoined
<1> HIDE DEF s
<1>13. NoRefresh(Items(x1)) => NoRefresh(Items(rest))
  BY <1>8 DEF NoRefresh, Refreshing, Items
<1>14. Iterations(db, p, Items(s))
  <2>1. ASSUME NEW x \in Items(x1) PROVE StartedOk(db, x)
    <3>1. PICK y \in Items(rest) : x.kind = y.kind /\ x.ans = y.ans
      BY <1>8 DEF Items
    <3> QED BY <3>1 DEF FreshState, FreshInv, Iterations, StartedOk
  <2>2. \A x \in Items(out) \cup Items(x3) : StartedOk(db, x)
    BY <1>6 DEF StartedOk
  <2>3. \A x \in Items(s) : StartedOk(db, x)
    BY <1>9, <1>11, <2>1, <2>2
  <2> QED BY <1>3, <2>3 DEF FreshState, FreshInv, Iterations
<1>15. ASSUME ~doubt' PROVE OneRefresh(s) /\ Fresh(db, p, Items(s))
  <2>1. ~doubt /\ ~(Refreshes(s) > 1)
    BY <1>5, <1>15, Zenon
  <2>2. OneRefresh(s)
    BY <1>11, <2>1, CountedRefreshes
  <2>3. CASE NewIteration(page, new)
    <3>1. PICK z \in Items(x3) : z.live /\ z.kind = "iteration"
      BY <1>4, <1>6, <2>3 DEF Expects
    <3>2. Refreshing(z) /\ z.ans = None /\ z.arg.it = p.iterationId /\ z \in Items(s)
      BY <1>6, <1>11, <3>1 DEF Refreshing
    <3>3. NoRefresh(Items(x2))
      BY <1>12, <2>2, <3>2
    <3>4. \A x \in Items(s) : Sound(db, x)
      BY <1>6, <1>11, <3>3 DEF Sound, NoRefresh
    <3> QED BY <2>2, <3>2, <3>4 DEF Fresh
  <2>4. CASE ~NewIteration(page, new)
    <3>1. \A x \in Items(x3) : ~Refreshing(x)
      BY <1>4, <1>6, <2>4 DEF Refreshing
    <3>2. Fresh(db, new, Items(rest) \cup Items(out))
      BY <1>10, <1>12, <1>13, <2>1, <2>2, <2>4
    <3>3. ASSUME NEW x \in Items(rest) \cup Items(out)
          PROVE  \E y \in Items(s) : /\ y.live = x.live /\ y.kind = x.kind /\ y.ans = x.ans
                                     /\ y.arg.it = x.arg.it
      <4>1. CASE x \in Items(out)
        BY <1>9, <1>11, <4>1
      <4>2. CASE x \in Items(rest)
        <5>1. PICK i \in DOMAIN rest : x = rest[i]
          BY <4>2 DEF Items
        <5>2. x1[i] \in Items(s)
          BY <1>8, <1>9, <1>11 DEF Items
        <5> QED BY <1>8, <5>1, <5>2
      <4> QED BY <4>1, <4>2
    <3>4. ASSUME NEW y \in Items(s)
          PROVE  \/ ~Refreshing(y)
                 \/ \E x \in Items(rest) \cup Items(out) :
                      /\ y.live = x.live /\ y.kind = x.kind /\ y.ans = x.ans /\ y.arg.it = x.arg.it
      <4>1. CASE y \in Items(x3)
        BY <3>1, <4>1
      <4>2. CASE y \in Items(out)
        BY <4>2
      <4>3. CASE y \in Items(x1)
        BY <1>8, <4>3 DEF Items
      <4> QED BY <1>9, <1>11, <4>1, <4>2, <4>3
    <3>5. (\E x \in Items(rest) \cup Items(out) : Applied(db, x)) => \E y \in Items(s) : Applied(db, y)
      <4> SUFFICES ASSUME NEW x \in Items(rest) \cup Items(out), Applied(db, x)
                   PROVE  \E y \in Items(s) : Applied(db, y)
        OBVIOUS
      <4> QED BY <3>3 DEF Applied
    <3>6. (\A x \in Items(rest) \cup Items(out) : Sound(db, x)) => \A y \in Items(s) : Sound(db, y)
      <4> SUFFICES ASSUME \A x \in Items(rest) \cup Items(out) : Sound(db, x), NEW y \in Items(s)
                   PROVE  Sound(db, y)
        OBVIOUS
      <4> QED BY <3>4 DEF Sound, Refreshing
    <3>7. (\A y \in Items(s) : Refreshing(y) => y.arg.it # db.open)
            => \A x \in Items(rest) \cup Items(out) : Refreshing(x) => x.arg.it # db.open
      <4> SUFFICES ASSUME \A y \in Items(s) : Refreshing(y) => y.arg.it # db.open,
                          NEW x \in Items(rest) \cup Items(out), Refreshing(x)
                   PROVE  x.arg.it # db.open
        OBVIOUS
      <4> QED BY <3>3 DEF Refreshing
    <3> QED BY <1>3, <2>2, <3>2, <3>5, <3>6, <3>7 DEF Fresh
  <2> QED BY <2>3, <2>4
<1>16. doubt' \in BOOLEAN
  BY <1>5, Zenon DEF FreshState
<1> QED BY <1>5, <1>14, <1>15, <1>16 DEF FreshState, FreshInv

Drafted == {"inIteration", "iterationId", "apiDrafts"}
LEMMA FreshClick ==
  ASSUME StateInv, FreshState, NEW new, NEW out, Update(new, net, out), db' = db,
         IsPage(new), new.ver \in Nat, Same(page, new, Drafted),
         IsNet(out), \A x \in Items(out) : x.ans = None /\ x.kind # "iteration"
  PROVE  FreshState'
<1>1. /\ new.inIteration = page.inIteration /\ new.iterationId = page.iterationId
      /\ new.apiDrafts = page.apiDrafts
  BY DEF Same, Drafted
<1>2. /\ new.iterationId \in Nat /\ new.iterationId < db.nextIt
      /\ new.inIteration <=> new.iterationId # 0
  BY <1>1 DEF FreshState, FreshInv, Iterations
<1>3. IsNet(net)
  BY DEF StateInv, Inv
<1>4. ~doubt => Fresh(db, new, Items(net) \cup Items(out))
  <2> SUFFICES ASSUME ~doubt PROVE Fresh(db, new, Items(net) \cup Items(out))
    OBVIOUS
  <2>1. Fresh(db, page, Items(net))
    BY DEF FreshState, FreshInv
  <2>2. \A x \in Items(out) : ~Refreshing(x) /\ Sound(db, x)
    BY DEF Refreshing, Sound
  <2> QED BY <1>1, <2>1, <2>2 DEF Fresh
<1> QED BY <1>2, <1>3, <1>4, FreshUpdate

LEMMA FreshSend ==
  ASSUME StateInv, FreshState, NEW k, NEW a, Send(Ask(k, a)), k # "iteration"
  PROVE  FreshState'
<1>1. PICK x : x = Ask(k, a)
  OBVIOUS
<1>2. x.ans = None /\ x.kind = k
  BY <1>1 DEF Ask
<1>3. PICK out : out = <<x>>
  OBVIOUS
<1>4. IsNet(out) /\ Items(out) = {x}
  BY <1>3, OneItem
<1>5. Update(page, net, out) /\ db' = db
  BY <1>1, <1>3 DEF Send, Click
<1>6. IsPage(page) /\ page.ver \in Nat /\ Same(page, page, Drafted)
  BY DEF StateInv, Inv, PageInv, Same
<1> QED BY <1>2, <1>4, <1>5, <1>6, FreshClick

LEMMA UserFresh == StateInv /\ FreshState /\ User => FreshState'
<1> SUFFICES ASSUME StateInv, FreshState, User PROVE FreshState'
  OBVIOUS
<1>0. IsPage(page) /\ page.ver \in Nat /\ page.versions \subseteq Positive
  BY DEF StateInv, Inv, PageInv
<1>1. PICK none : none = <<>>
  OBVIOUS
<1>2. IsNet(none) /\ Items(none) = {}
  BY <1>1, OneItem
<1>3. ASSUME NEW new, Click, Update(new, net, <<>>), IsPage(new), new.ver \in Nat,
             Same(page, new, Drafted)
      PROVE  FreshState'
  <2>1. Update(new, net, none) /\ db' = db
    BY <1>1, <1>3 DEF Click
  <2>2. \A x \in Items(none) : x.ans = None /\ x.kind # "iteration"
    BY <1>2
  <2> QED BY <1>2, <1>3, <2>1, <2>2, FreshClick
<1>4. CASE SelectVersion
  <2>1. PICK v \in page.versions : Click /\ Update([page EXCEPT !.selected = 0, !.ver = v], net, <<>>)
    BY <1>4 DEF SelectVersion
  <2>2. PICK new : new = [page EXCEPT !.selected = 0, !.ver = v]
    OBVIOUS
  <2>3. IsPage(new) /\ new.ver = v /\ Same(page, new, Drafted)
    BY <1>0, <2>2 DEF IsPage, Fields, Same, Drafted
  <2> QED BY <1>0, <1>3, <2>1, <2>2, <2>3 DEF Positive
<1>5. CASE handleSelectApi
  <2>1. PICK id : Click /\ Update([page EXCEPT !.selected = id], net, <<>>)
    BY <1>5 DEF handleSelectApi
  <2>2. PICK new : new = [page EXCEPT !.selected = id]
    OBVIOUS
  <2>3. IsPage(new) /\ new.ver = page.ver /\ Same(page, new, Drafted)
    BY <1>0, <2>2 DEF IsPage, Fields, Same, Drafted
  <2> QED BY <1>0, <1>3, <2>1, <2>2, <2>3
<1>6. CASE onValuesChange
  <2>1. PICK b : Click /\ Update([page EXCEPT !.form.body = b, !.isDraft = TRUE], net, <<>>)
    BY <1>6 DEF onValuesChange
  <2>2. PICK new : new = [page EXCEPT !.form.body = b, !.isDraft = TRUE]
    OBVIOUS
  <2>3. IsPage(new) /\ new.ver = page.ver /\ Same(page, new, Drafted)
    BY <1>0, <2>2 DEF IsPage, Fields, Same, Drafted
  <2> QED BY <1>0, <1>3, <2>1, <2>2, <2>3
<1>7. CASE handleSubmit
  <2>1. PICK x : x = SaveRequest
    OBVIOUS
  <2>2. x.ans = None /\ x.kind = "save"
    BY <2>1 DEF SaveRequest, Ask
  <2>3. PICK out : out = <<x>>
    OBVIOUS
  <2>4. IsNet(out) /\ Items(out) = {x}
    BY <2>3, OneItem
  <2>5. PICK new : new = [page EXCEPT !.saving = TRUE]
    OBVIOUS
  <2>6. Update(new, net, out) /\ db' = db
    BY <1>7, <2>1, <2>3, <2>5 DEF handleSubmit, Click
  <2>7. IsPage(new) /\ new.ver = page.ver /\ Same(page, new, Drafted)
    BY <1>0, <2>5 DEF IsPage, Fields, Same, Drafted
  <2> QED BY <1>0, <2>2, <2>4, <2>6, <2>7, FreshClick
<1>8. CASE exitIteration
  <2>1. PICK new : new = [page EXCEPT !.inIteration = FALSE, !.iterationId = 0]
    OBVIOUS
  <2>2. Update(new, net, none) /\ db' = db
    BY <1>1, <1>8, <2>1 DEF exitIteration, Click
  <2>3. IsPage(new) /\ new.ver = page.ver /\ ~new.inIteration /\ new.iterationId = 0
    BY <1>0, <2>1 DEF IsPage, Fields
  <2>4. Fresh(db, new, Items(net) \cup Items(none))
    BY <2>3 DEF Fresh
  <2>5. IsNet(net) /\ 0 < db.nextIt
    BY DEF StateInv, Inv, FreshState, FreshInv, Iterations, Positive
  <2> QED BY <1>0, <1>2, <2>2, <2>3, <2>4, <2>5, FreshUpdate
<1>9. CASE \E k, a : k # "iteration" /\ Send(Ask(k, a))
  BY <1>9, FreshSend
<1>10. \/ SelectVersion \/ handleSelectApi \/ onValuesChange \/ handleSubmit \/ exitIteration
       \/ \E k, a : k # "iteration" /\ Send(Ask(k, a))
  <2>1. CASE handleDrag
    <3>1. PICK a : Send(Ask("move", a))
      BY <2>1 DEF handleDrag
    <3> QED BY <3>1
  <2>2. CASE handleAddCategory
    BY <2>2 DEF handleAddCategory
  <2>3. CASE handleDeleteCategory
    <3>1. PICK a : Send(Ask("delCat", a))
      BY <2>3 DEF handleDeleteCategory
    <3> QED BY <3>1
  <2>4. CASE handleStartIteration
    BY <2>4 DEF handleStartIteration
  <2>5. CASE handleCompleteIteration
    <3>1. PICK a : Send(Ask("commit", a))
      BY <2>5 DEF handleCompleteIteration
    <3> QED BY <3>1
  <2>6. CASE handleAddApi
    <3>1. PICK a : Send(Ask("add", a))
      BY <2>6 DEF handleAddApi
    <3> QED BY <3>1
  <2>7. CASE handleCopyApi
    <3>1. PICK a : Send(Ask("copy", a))
      BY <2>7 DEF handleCopyApi
    <3> QED BY <3>1
  <2>8. CASE handleDeleteApi
    <3>1. PICK a : Send(Ask("delete", a))
      BY <2>8 DEF handleDeleteApi
    <3> QED BY <3>1
  <2> QED BY <2>1, <2>2, <2>3, <2>4, <2>5, <2>6, <2>7, <2>8 DEF User
<1> QED BY <1>4, <1>5, <1>6, <1>7, <1>8, <1>9, <1>10

LEMMA RefreshRemoved ==
  ASSUME NEW s, IsNet(s), OneRefresh(s), NEW i \in DOMAIN s
  PROVE  /\ OneRefresh(RemoveAt(s, i))
         /\ Refreshing(s[i]) => NoRefresh(Items(RemoveAt(s, i)))
<1> DEFINE r == RemoveAt(s, i)
<1>1. /\ \A j \in DOMAIN r : Skip(i, j) \in DOMAIN s /\ Skip(i, j) # i /\ r[j] = s[Skip(i, j)]
      /\ \A j, k \in DOMAIN r : Skip(i, j) = Skip(i, k) => j = k
  BY RemovedIndex
<1> HIDE DEF r
<1>2. OneRefresh(r)
  BY <1>1 DEF OneRefresh
<1>3. ASSUME Refreshing(s[i]), NEW j \in DOMAIN r PROVE ~Refreshing(r[j])
  BY <1>1, <1>3 DEF OneRefresh
<1> QED BY <1>2, <1>3 DEF NoRefresh, Items, r

LEMMA FreshFacts ==
  ASSUME StateInv, FreshState
  PROVE  /\ IsPage(page) /\ page.ver \in Nat /\ page.iterationId \in Nat /\ page.iterationId < db.nextIt
         /\ page.inIteration <=> page.iterationId # 0
         /\ ~doubt => OneRefresh(net) /\ Fresh(db, page, Items(net))
         /\ \A x \in Items(net) : StartedOk(db, x)
         /\ IsNet(net) /\ doubt \in BOOLEAN
BY DEF StateInv, Inv, PageInv, FreshState, FreshInv, Iterations

(* An answer that is applied without a request.                               *)
LEMMA FreshApply ==
  ASSUME StateInv, FreshState, NEW i \in DOMAIN net, NEW new, Apply(i, new, <<>>),
         IsPage(new), new.ver \in Nat, new.iterationId \in Nat, new.iterationId < db.nextIt,
         new.inIteration <=> new.iterationId # 0,
         ~doubt => NewIteration(page, new) \/ Fresh(db, new, Items(Rest(i)))
  PROVE  FreshState'
<1>1. PICK out : out = <<>>
  OBVIOUS
<1>2. IsNet(out) /\ Items(out) = {}
  BY <1>1, OneItem
<1>3. PICK rest : rest = Rest(i)
  OBVIOUS
<1>4. IsNet(rest) /\ Items(rest) \subseteq Items(net)
  BY <1>3, RestFacts
<1>5. Update(new, rest, out) /\ db' = db
  BY <1>1, <1>3 DEF Apply
<1>6. Items(rest) \cup Items(out) = Items(Rest(i))
  BY <1>2, <1>3
<1>7. ~doubt => NewIteration(page, new) \/ Fresh(db, new, Items(rest) \cup Items(out))
  BY <1>6
<1>8. \A x \in Items(out) : x.ans = None
  BY <1>2
<1> QED BY <1>2, <1>4, <1>5, <1>7, <1>8, FreshUpdate

(* One that is neither a refresh nor asks for one.                            *)
LEMMA FreshTaken ==
  ASSUME StateInv, FreshState, NEW i \in DOMAIN net, NEW new, Apply(i, new, <<>>),
         net[i].kind # "iteration", ~Applied(db, net[i]),
         IsPage(new), new.ver \in Nat, Same(page, new, Drafted)
  PROVE  FreshState'
<1>1. /\ new.inIteration = page.inIteration /\ new.iterationId = page.iterationId
      /\ new.apiDrafts = page.apiDrafts
  BY DEF Same, Drafted
<1>2. /\ new.iterationId \in Nat /\ new.iterationId < db.nextIt
      /\ new.inIteration <=> new.iterationId # 0
  BY <1>1, FreshFacts
<1>3. Items(Rest(i)) \subseteq Items(net) /\ Items(net) \subseteq Items(Rest(i)) \cup {net[i]}
  BY RestFacts
<1>4. ~doubt => Fresh(db, new, Items(Rest(i)))
  <2> SUFFICES ASSUME ~doubt PROVE Fresh(db, new, Items(Rest(i)))
    OBVIOUS
  <2>1. Fresh(db, page, Items(net))
    BY FreshFacts
  <2>2. ~Refreshing(net[i])
    BY DEF Refreshing
  <2>3. PICK R : R = Items(Rest(i))
    OBVIOUS
  <2>4. (\E x \in Items(net) : Applied(db, x)) => \E x \in R : Applied(db, x)
    BY <1>3, <2>3
  <2>5. (\A x \in R : Refreshing(x) => x.arg.it # db.open)
          => \A x \in Items(net) : Refreshing(x) => x.arg.it # db.open
    BY <1>3, <2>2, <2>3
  <2>6. Fresh(db, new, R)
    BY <1>1, <1>3, <2>1, <2>3, <2>4, <2>5 DEF Fresh
  <2> QED BY <2>3, <2>6
<1> QED BY <1>2, <1>4, FreshApply

LEMMA NotApplied ==
  ASSUME NEW d, NEW x
  PROVE  /\ x.kind \notin Changes => ~Applied(d, x)
         /\ x.ans.status # "ok" => ~Applied(d, x)
BY DEF Applied, Ok

LEMMA ArrivalFresh ==
  ASSUME StateInv, FreshState, NEW i \in DOMAIN net,
         \/ AllVersionsArrive(i) \/ ServiceDetailArrives(i) \/ ApiDetailArrives(i)
         \/ CommitArrives(i) \/ CategoryChangeArrives(i)
  PROVE  FreshState'
<1>0. IsPage(page) /\ page.ver \in Nat
  BY FreshFacts
<1>1. PICK x : x = net[i]
  OBVIOUS
<1>2. Request(db, x)
  BY <1>1, RestFacts
<1>3. ASSUME NEW new, Apply(i, new, <<>>), IsPage(new), new.ver \in Nat, Same(page, new, Drafted),
             x.kind \notin Changes \cup {"iteration"}
      PROVE  FreshState'
  BY <1>1, <1>3, NotApplied, FreshTaken
<1>4. CASE AllVersionsArrive(i)
  <2>1. x.kind = "versions" /\ x.ans # None /\ AnswerShape(x.kind, x.ans)
    BY <1>1, <1>2, <1>4 DEF AllVersionsArrive, Arrived, Request
  <2>2. PICK new :
          /\ Apply(i, new, <<>>)
          /\ \/ /\ x.ans.status = "ok"
                /\ new = [page EXCEPT !.versions = x.ans.value.versions, !.ver = x.ans.value.ver,
                                      !.isLatest = TRUE, !.loading = FALSE]
             \/ new = [page EXCEPT !.gone = TRUE, !.loading = FALSE]
    BY <1>1, <1>4 DEF AllVersionsArrive
  <2>3. /\ IsPage(new) /\ new.ver \in {page.ver, x.ans.value.ver} /\ Same(page, new, Drafted)
        /\ x.ans.status # "ok" => new.ver = page.ver
    BY <1>0, <2>2 DEF IsPage, Fields, Same, Drafted
  <2>4. new.ver \in Nat
    BY <1>0, <2>1, <2>3 DEF AnswerShape, Positive
  <2> QED BY <1>3, <2>1, <2>2, <2>3, <2>4 DEF Changes
<1>5. CASE ServiceDetailArrives(i)
  <2>1. x.kind = "detail" /\ x.ans # None /\ AnswerShape(x.kind, x.ans)
    BY <1>1, <1>2, <1>5 DEF ServiceDetailArrives, Arrived, Request
  <2>2. PICK new : new = DetailApplied(page, x)
    OBVIOUS
  <2>3. Apply(i, new, <<>>)
    BY <1>1, <1>5, <2>2 DEF ServiceDetailArrives
  <2>4. IsPage(new) /\ new.ver = page.ver /\ Same(page, new, Drafted)
    <3>1. CASE x.ans.status = "ok"
      <4>1. PICK b \in BOOLEAN : b = x.ans.value.latest
        BY <2>1, <3>1 DEF AnswerShape
      <4>2. PICK c : c = IF x.ans.value.latest THEN x.ans.value.cats ELSE page.cats
        OBVIOUS
      <4>3. new = [page EXCEPT !.shown = x.arg, !.isLatest = b, !.apis = x.ans.value.rows,
                               !.cats = c, !.loading = FALSE]
        BY <2>2, <3>1, <4>1, <4>2 DEF DetailApplied
      <4> QED BY <1>0, <4>1, <4>3 DEF IsPage, Fields, Same, Drafted
    <3>2. CASE x.ans.status # "ok"
      BY <1>0, <2>2, <3>2 DEF DetailApplied, IsPage, Fields, Same, Drafted
    <3> QED BY <3>1, <3>2
  <2> QED BY <1>0, <1>3, <2>1, <2>3, <2>4 DEF Changes
<1>6. CASE ApiDetailArrives(i)
  <2>1. PICK a : a = IF x.ans.status = "ok" THEN x.ans.value ELSE NoApi
    OBVIOUS
  <2>2. PICK p : p = [page EXCEPT !.apiDetail = a, !.apiLoading = FALSE]
    OBVIOUS
  <2>3. PICK new : new = IF EditorMounted(p) THEN FillForm(p) ELSE p
    OBVIOUS
  <2>4. x.kind = "api" /\ Apply(i, new, <<>>)
    BY <1>1, <1>6, <2>1, <2>2, <2>3 DEF ApiDetailArrives, Arrived
  <2>5. IsPage(p) /\ p.ver = page.ver /\ Same(page, p, Drafted)
    BY <1>0, <2>2 DEF IsPage, Fields, Same, Drafted
  <2>6. IsPage(new) /\ new.ver = p.ver /\ Same(p, new, Drafted)
    BY <2>3, <2>5 DEF FillForm, IsPage, Fields, Same, Drafted
  <2>7. Same(page, new, Drafted)
    BY <2>5, <2>6 DEF Same, Drafted
  <2> QED BY <1>0, <1>3, <2>4, <2>5, <2>6, <2>7 DEF Changes
<1>7. CASE CommitArrives(i)
  <2>1. PICK new : Apply(i, new, <<>>) /\ new \in {page, [page EXCEPT !.reload = TRUE]}
    BY <1>7 DEF CommitArrives
  <2>2. x.kind = "commit"
    BY <1>1, <1>7 DEF CommitArrives, Arrived
  <2>3. IsPage(new) /\ new.ver = page.ver /\ Same(page, new, Drafted)
    BY <1>0, <2>1 DEF IsPage, Fields, Same, Drafted
  <2> QED BY <1>0, <1>3, <2>1, <2>2, <2>3 DEF Changes
<1>8. CASE CategoryChangeArrives(i)
  <2>1. PICK new : /\ Apply(i, new, <<>>) /\ net[i].kind \in {"move", "addCat", "delCat"}
                   /\ \/ new = page
                      \/ new = MoveApplied(page, net[i])
                      \/ new = [page EXCEPT !.cats = @ \cup net[i].ans.value]
                      \/ new = [page EXCEPT !.cats = @ \ {net[i].arg}]
    BY <1>8 DEF CategoryChangeArrives, Arrived
  <2>2. ASSUME NEW c
        PROVE  LET q == [page EXCEPT !.cats = c]
               IN  IsPage(q) /\ q.ver = page.ver /\ Same(page, q, Drafted)
    BY <1>0 DEF IsPage, Fields, Same, Drafted
  <2>3. ASSUME NEW r
        PROVE  LET q == MoveApplied(page, r)
               IN  IsPage(q) /\ q.ver = page.ver /\ Same(page, q, Drafted)
    BY <1>0 DEF IsPage, Fields, Same, Drafted, MoveApplied
  <2>4. IsPage(new) /\ new.ver = page.ver /\ Same(page, new, Drafted)
    <3>1. CASE new = page
      BY <1>0, <3>1 DEF Same
    <3>2. CASE new = MoveApplied(page, net[i])
      BY <2>3, <3>2
    <3>3. CASE \E c : new = [page EXCEPT !.cats = c]
      BY <2>2, <3>3
    <3> QED BY <2>1, <3>1, <3>2, <3>3, Zenon
  <2>5. x.kind \notin Changes \cup {"iteration"}
    BY <1>1, <2>1 DEF Changes
  <2> QED BY <1>0, <1>3, <2>1, <2>4, <2>5
<1> QED BY <1>4, <1>5, <1>6, <1>7, <1>8

(* The refresh arrives.                                                       *)
LEMMA RefreshFresh ==
  ASSUME StateInv, FreshState, NEW i \in DOMAIN net, IterationArrives(i) PROVE FreshState'
<1>0. IsPage(page) /\ page.ver \in Nat
  BY FreshFacts
<1>1. PICK x : x = net[i]
  OBVIOUS
<1>2. PICK a : a = IF x.ans.status = "ok" THEN x.ans.value ELSE page.apiDrafts
  OBVIOUS
<1>3. PICK p : p = [page EXCEPT !.apiDrafts = a, !.iterationLoading = FALSE]
  OBVIOUS
<1>4. p = DraftsApplied(page, x)
  BY <1>2, <1>3 DEF DraftsApplied
<1>5. PICK new : new = SaveEnds(p, x.arg.then)
  OBVIOUS
<1>6. x.kind = "iteration" /\ Apply(i, new, <<>>) /\ x.ans # None /\ Refreshing(x)
  BY <1>1, <1>4, <1>5 DEF IterationArrives, Arrived, Refreshing
<1>7. IsPage(p) /\ p.apiDrafts = a /\ Same(page, p, {"ver", "inIteration", "iterationId"})
  BY <1>0, <1>3 DEF IsPage, Fields, Same
<1>8. IsPage(new) /\ new.apiDrafts = a /\ Same(p, new, {"ver", "inIteration", "iterationId"})
  BY <1>5, <1>7 DEF SaveEnds, IsPage, Fields, Same
<1>9. new.ver = page.ver /\ new.inIteration = page.inIteration /\ new.iterationId = page.iterationId
  BY <1>7, <1>8 DEF Same
<1>10. /\ new.iterationId \in Nat /\ new.iterationId < db.nextIt
       /\ new.inIteration <=> new.iterationId # 0
  BY <1>9, FreshFacts
<1>11. PICK R : R = Items(Rest(i))
  OBVIOUS
<1>12. R \subseteq Items(net) /\ Items(net) \subseteq R \cup {x} /\ x \in Items(net)
  BY <1>1, <1>11, RestFacts
<1>13. ~doubt => Fresh(db, new, R)
  <2> SUFFICES ASSUME ~doubt PROVE Fresh(db, new, R)
    OBVIOUS
  <2>1. Fresh(db, page, Items(net)) /\ OneRefresh(net) /\ IsNet(net)
    BY FreshFacts
  <2>2. NoRefresh(R)
    BY <1>1, <1>6, <1>11, <2>1, RefreshRemoved DEF Rest
  <2>3. \A y \in R : Sound(db, y)
    BY <2>2 DEF NoRefresh, Sound
  <2>4. ~Applied(db, x)
    BY <1>6, NotApplied DEF Changes
  <2>5. CASE ~(page.inIteration /\ page.iterationId = db.open)
    BY <1>9, <2>5 DEF Fresh
  <2>6. CASE \E y \in Items(net) : Applied(db, y)
    BY <1>12, <2>4, <2>6 DEF Fresh
  <2>7. CASE /\ \A y \in Items(net) : Sound(db, y)
             /\ (\A y \in Items(net) : Refreshing(y) => y.arg.it # db.open)
                  => Match(page.apiDrafts, db.drafts)
    <3>1. CASE x.arg.it = db.open /\ x.ans.status = "ok" /\ Match(x.ans.value, db.drafts)
      <4>1. Match(new.apiDrafts, db.drafts)
        BY <1>2, <1>8, <3>1
      <4> QED BY <2>3, <4>1 DEF Fresh
    <3>2. CASE x.arg.it # db.open /\ x.ans = Refused
      <4>1. new.apiDrafts = page.apiDrafts
        BY <1>2, <1>8, <3>2 DEF Refused
      <4>2. \A y \in Items(net) : Refreshing(y) => y.arg.it # db.open
        BY <1>12, <2>2, <3>2 DEF NoRefresh
      <4> QED BY <2>3, <2>7, <4>1, <4>2 DEF Fresh
    <3> QED BY <1>6, <1>12, <2>7, <3>1, <3>2 DEF Sound
  <2> QED BY <2>1, <2>5, <2>6, <2>7 DEF Fresh
<1>14. ~doubt => Fresh(db, new, Items(Rest(i)))
  BY <1>11, <1>13
<1> QED BY <1>0, <1>6, <1>8, <1>9, <1>10, <1>14, FreshApply

LEMMA StartFresh ==
  ASSUME StateInv, FreshState, NEW i \in DOMAIN net, StartArrives(i) PROVE FreshState'
<1>0. IsPage(page) /\ page.ver \in Nat
  BY FreshFacts
<1>1. PICK x : x = net[i]
  OBVIOUS
<1>2. x.kind = "start" /\ x.ans # None /\ StartedOk(db, x)
  BY <1>1, FreshFacts DEF StartArrives, Arrived, Items
<1>3. ~Applied(db, x)
  BY <1>2, NotApplied DEF Changes
<1>4. CASE x.ans.status = "ok"
  <2>1. PICK v : v = x.ans.value
    OBVIOUS
  <2>2. v \in Positive /\ v < db.nextIt
    BY <1>2, <1>4, <2>1 DEF StartedOk
  <2>3. PICK new : new = [page EXCEPT !.inIteration = TRUE, !.iterationId = v]
    OBVIOUS
  <2>4. Apply(i, new, <<>>)
    BY <1>1, <1>4, <2>1, <2>3 DEF StartArrives
  <2>5. /\ IsPage(new) /\ new.ver = page.ver /\ new.inIteration /\ new.iterationId = v
        /\ new.apiDrafts = page.apiDrafts
    BY <1>0, <2>3 DEF IsPage, Fields
  <2>6. CASE v = page.iterationId
    <3>1. page.inIteration /\ page.inIteration \in BOOLEAN /\ new.inIteration \in BOOLEAN
      BY <1>0, <2>2, <2>5, <2>6, FreshFacts DEF Positive, IsPage
    <3>2. Same(page, new, Drafted)
      BY <2>5, <2>6, <3>1 DEF Same, Drafted
    <3> QED BY <1>0, <1>1, <1>2, <1>3, <2>4, <2>5, <3>2, FreshTaken
  <2>7. CASE v # page.iterationId
    <3>1. NewIteration(page, new)
      BY <2>2, <2>5, <2>7 DEF NewIteration, Positive
    <3>2. new.iterationId \in Nat /\ new.iterationId < db.nextIt /\ (new.inIteration <=> new.iterationId # 0)
      BY <2>2, <2>5 DEF Positive
    <3> QED BY <1>0, <2>4, <2>5, <3>1, <3>2, FreshApply
  <2> QED BY <2>6, <2>7
<1>5. CASE x.ans.status # "ok"
  <2>1. Apply(i, page, <<>>)
    BY <1>1, <1>5 DEF StartArrives
  <2>2. Same(page, page, Drafted)
    BY DEF Same
  <2> QED BY <1>0, <1>1, <1>2, <1>3, <2>1, <2>2, FreshTaken
<1> QED BY <1>4, <1>5

LEMMA ChangeFresh ==
  ASSUME StateInv, FreshState, NEW i \in DOMAIN net, DraftChangeArrives(i) \/ SaveArrives(i)
  PROVE  FreshState'
<1>0. IsPage(page) /\ page.ver \in Nat
  BY FreshFacts
<1>1. PICK x : x = net[i]
  OBVIOUS
<1>2. x.kind \in Changes /\ ~Refreshing(x)
  BY <1>1 DEF DraftChangeArrives, SaveArrives, Arrived, Changes, Refreshing
<1>3. ASSUME NEW then, Apply(i, [page EXCEPT !.iterationLoading = TRUE], Refresh(net[i], then))
      PROVE  FreshState'
  <2>1. PICK new : new = [page EXCEPT !.iterationLoading = TRUE]
    OBVIOUS
  <2>2. PICK z : z = AskIteration(x.arg.it, then)
    OBVIOUS
  <2>3. PICK out : out = <<z>>
    OBVIOUS
  <2>4. IsNet(out) /\ Items(out) = {z}
    BY <2>3, OneItem
  <2>5. PICK rest : rest = Rest(i)
    OBVIOUS
  <2>6. /\ IsNet(rest) /\ Items(rest) \subseteq Items(net)
        /\ Items(net) \subseteq Items(rest) \cup {x}
    BY <1>1, <2>5, RestFacts
  <2>7. Update(new, rest, out) /\ db' = db
    BY <1>1, <1>3, <2>1, <2>2, <2>3, <2>5 DEF Refresh, Apply
  <2>8. z.ans = None /\ Refreshing(z) /\ z.arg.it = x.arg.it
    BY <2>2 DEF AskIteration, Ask, Refreshing
  <2>9. IsPage(new) /\ new.ver = page.ver /\ Same(page, new, Drafted)
    BY <1>0, <2>1 DEF IsPage, Fields, Same, Drafted
  <2>10. /\ new.inIteration = page.inIteration /\ new.iterationId = page.iterationId
         /\ new.apiDrafts = page.apiDrafts
    BY <2>9 DEF Same, Drafted
  <2>11. /\ new.iterationId \in Nat /\ new.iterationId < db.nextIt
         /\ new.inIteration <=> new.iterationId # 0
    BY <2>10, FreshFacts
  <2>12. ASSUME ~doubt, NoRefresh(Items(rest)) PROVE Fresh(db, new, Items(rest) \cup Items(out))
    <3>1. Fresh(db, page, Items(net))
      BY <2>12, FreshFacts
    <3>2. PICK R : R = Items(rest) \cup Items(out)
      OBVIOUS
    <3>3. z \in R /\ \A y \in R : y = z \/ (y \in Items(rest) /\ ~Refreshing(y))
      BY <2>4, <2>12, <3>2 DEF NoRefresh
    <3>4. \A y \in R : Sound(db, y)
      BY <2>8, <3>3 DEF Sound
    <3>5. ASSUME x.arg.it = db.open PROVE Fresh(db, new, R)
      BY <2>8, <3>3, <3>4, <3>5 DEF Fresh
    <3>6. ASSUME x.arg.it # db.open PROVE Fresh(db, new, R)
      <4>1. ~Applied(db, x)
        BY <3>6 DEF Applied
      <4>2. (\E y \in Items(net) : Applied(db, y)) => \E y \in R : Applied(db, y)
        BY <2>6, <3>2, <4>1
      <4>3. \A y \in Items(net) : ~Refreshing(y)
        BY <1>2, <2>6, <2>12 DEF NoRefresh
      <4> QED BY <2>10, <3>1, <3>4, <4>2, <4>3 DEF Fresh
    <3>7. Fresh(db, new, R)
      BY <3>5, <3>6
    <3> QED BY <3>2, <3>7
  <2>13. ~doubt /\ ((\E y \in Items(out) : Refreshing(y)) => NoRefresh(Items(rest)))
           => Fresh(db, new, Items(rest) \cup Items(out))
    BY <2>4, <2>8, <2>12
  <2>14. \A y \in Items(out) : y.ans = None
    BY <2>4, <2>8
  <2> QED BY <1>0, <2>4, <2>6, <2>7, <2>9, <2>11, <2>13, <2>14, FreshUpdate
<1>4. PICK b \in BOOLEAN : b = (page.saving /\ net[i].arg.then # "saved")
  OBVIOUS
<1>5. PICK new : new = [page EXCEPT !.saving = b]
  OBVIOUS
<1>6. IsPage(new) /\ new.ver = page.ver /\ Same(page, new, Drafted) /\ Same(page, page, Drafted)
  BY <1>0, <1>4, <1>5 DEF IsPage, Fields, Same, Drafted
<1>7. \/ Apply(i, [page EXCEPT !.iterationLoading = TRUE], Refresh(net[i], ""))
      \/ Apply(i, [page EXCEPT !.iterationLoading = TRUE], Refresh(net[i], net[i].arg.then))
      \/ x.ans.status # "ok" /\ Apply(i, page, <<>>)
      \/ x.ans.status # "ok" /\ Apply(i, new, <<>>)
  BY <1>1, <1>4, <1>5, Zenon DEF DraftChangeArrives, SaveArrives
<1>8. x.kind # "iteration" /\ (x.ans.status # "ok" => ~Applied(db, x))
  BY <1>2, NotApplied DEF Changes
<1> QED BY <1>0, <1>1, <1>3, <1>6, <1>7, <1>8, FreshTaken

(* What a request does to the open iteration: it keeps the drafts, changes    *)
(* them and is answered so, or starts or ends the iteration.                  *)
Keeps(d, e) == e.open = d.open /\ e.nextIt = d.nextIt /\ Match(d.drafts, e.drafts)
Alters(d, e, x) ==
  /\ e.open = d.open /\ e.nextIt = d.nextIt /\ e.drafts # d.drafts
  /\ x.kind \in Changes /\ x.arg.it = d.open /\ Answer(d, x) = Ok(None)
Starts(d, e) == d.open = 0 /\ e.open = d.nextIt /\ e.nextIt = d.nextIt + 1
Ends(d, e) == e.open = 0 /\ e.nextIt = d.nextIt

LEMMA DraftsSet ==
  ASSUME NEW d, DbInv(d), NEW rows, NEW n
  PROVE  LET e == [d EXCEPT !.drafts = rows, !.nextDraft = n]
             f == [d EXCEPT !.drafts = rows]
         IN  /\ e.open = d.open /\ e.nextIt = d.nextIt /\ e.drafts = rows
             /\ f.open = d.open /\ f.nextIt = d.nextIt /\ f.drafts = rows
BY DEF DbInv, DbFields

LEMMA WritesIterations ==
  ASSUME NEW d, DbInv(d), RowsInv(d), NEW x, x.kind \in Kinds, TypedArg(d, x), NEW e, e = Writes(d, x)
  PROVE  Keeps(d, e) \/ Alters(d, e, x) \/ (x.kind = "start" /\ Starts(d, e)) \/ Ends(d, e)
<1>1. Match(d.drafts, d.drafts)
  BY DEF Match
<1>2. CASE e = d
  BY <1>1, <1>2 DEF Keeps
<1>3. ASSUME NEW row, e = NewDraft(d, row), x.kind \in {"add", "copy"}, x.arg.it = d.open
      PROVE  Alters(d, e, x)
  <2>1. PICK rows : rows = With(d.drafts, d.nextDraft, row)
    OBVIOUS
  <2>2. PICK n : n = d.nextDraft + 1
    OBVIOUS
  <2>3. e = [d EXCEPT !.drafts = rows, !.nextDraft = n]
    BY <1>3, <2>1, <2>2 DEF NewDraft
  <2>4. e.open = d.open /\ e.nextIt = d.nextIt /\ e.drafts = rows
    BY <2>3, DraftsSet
  <2>5. d.nextDraft \notin DOMAIN d.drafts /\ d.nextDraft \in DOMAIN rows
    BY <2>1 DEF RowsInv, IsRows, Positive, With
  <2>6. e.drafts # d.drafts /\ e # d
    BY <2>4, <2>5
  <2>7. Answer(d, x) = Ok(None)
    BY <1>3, <2>6 DEF Answer
  <2> QED BY <1>3, <2>4, <2>6, <2>7 DEF Alters, Changes
<1>4. CASE x.kind = "start"
  <2>1. CASE d.open # 0
    BY <1>2, <1>4, <2>1 DEF Writes, Started
  <2>2. CASE d.open = 0
    <3>1. PICK new : new = Renumbered(d.api, d.nextDraft)
      OBVIOUS
    <3>2. PICK n : n = d.nextDraft + Cardinality(DOMAIN new)
      OBVIOUS
    <3>3. PICK m : m = d.nextIt + 1
      OBVIOUS
    <3>4. e = [d EXCEPT !.open = d.nextIt, !.nextIt = m, !.drafts = new, !.nextDraft = n]
      BY <1>4, <2>2, <3>1, <3>2, <3>3 DEF Writes, Started
    <3>5. e.open = d.nextIt /\ e.nextIt = m
      BY <3>4 DEF DbInv, DbFields
    <3> QED BY <1>4, <2>2, <3>3, <3>5 DEF Starts
  <2> QED BY <2>1, <2>2
<1>5. CASE x.kind = "commit"
  <2>1. e = Committed(d, x.arg)
    BY <1>5 DEF Writes
  <2>2. PICK p : p = Publish(d, x.arg.ver, d.drafts)
    OBVIOUS
  <2>3. DOMAIN p = DbFields /\ p.nextIt = d.nextIt
    BY <2>2 DEF Publish, DbInv, DbFields
  <2>4. CASE e = [p EXCEPT !.open = 0, !.drafts = NoRows]
    BY <2>3, <2>4 DEF DbFields, Ends
  <2> QED BY <1>2, <2>1, <2>2, <2>4 DEF Committed
<1>6. CASE x.kind = "add"
  <2>1. e = Added(d, x.arg)
    BY <1>6 DEF Writes
  <2> QED BY <1>2, <1>3, <1>6, <2>1 DEF Added, Mine
<1>7. CASE x.kind = "copy"
  <2>1. e = Copied(d, x.arg)
    BY <1>7 DEF Writes
  <2> QED BY <1>2, <1>3, <1>7, <2>1 DEF Copied, HasDraft, Mine
<1>8. CASE x.kind = "delete"
  <2>1. e = Deleted(d, x.arg)
    BY <1>8 DEF Writes
  <2>2. CASE ~HasDraft(d, x.arg)
    BY <1>2, <2>1, <2>2 DEF Deleted
  <2>3. CASE HasDraft(d, x.arg)
    <3>1. PICK rows : rows = Without(d.drafts, x.arg.id)
      OBVIOUS
    <3>2. e = [d EXCEPT !.drafts = rows]
      BY <2>1, <2>3, <3>1 DEF Deleted
    <3>3. e.open = d.open /\ e.nextIt = d.nextIt /\ e.drafts = rows
      BY <3>2, DraftsSet
    <3>4. x.arg.id \in DOMAIN d.drafts /\ x.arg.id \notin DOMAIN rows
      BY <2>3, <3>1 DEF HasDraft, Without
    <3>5. e.drafts # d.drafts /\ e # d
      BY <3>3, <3>4
    <3>6. Answer(d, x) = Ok(None)
      BY <1>8, <3>5 DEF Answer
    <3> QED BY <1>8, <2>3, <3>3, <3>5, <3>6 DEF Alters, Changes, HasDraft, Mine
  <2> QED BY <2>2, <2>3
<1>9. CASE x.kind = "save"
  <2>1. e = Saved(d, x.arg)
    BY <1>9 DEF Writes
  <2>2. CASE ~HasDraft(d, x.arg)
    BY <1>2, <2>1, <2>2 DEF Saved
  <2>3. CASE HasDraft(d, x.arg)
    <3>1. PICK row : row = [d.drafts[x.arg.id] EXCEPT !.body = x.arg.from.body]
      OBVIOUS
    <3>2. PICK rows : rows = [d.drafts EXCEPT ![x.arg.id] = row]
      OBVIOUS
    <3>3. e = [d EXCEPT !.drafts = rows]
      BY <2>1, <2>3, <3>1, <3>2 DEF Saved
    <3>4. e.open = d.open /\ e.nextIt = d.nextIt
      BY <3>3, DraftsSet
    <3>5. Answer(d, x) = Ok(None)
      BY <1>9, <2>3 DEF Answer
    <3>6. CASE e.drafts = d.drafts
      BY <1>1, <3>4, <3>6 DEF Keeps
    <3>7. CASE e.drafts # d.drafts
      BY <1>9, <2>3, <3>4, <3>5, <3>7 DEF Alters, Changes, HasDraft, Mine
    <3> QED BY <3>6, <3>7
  <2> QED BY <2>2, <2>3
<1>10. CASE x.kind = "move"
  <2>1. e = Moved(d, x.arg) /\ x.arg.cat \in Cats \cup {0}
    BY <1>10 DEF Writes, TypedArg
  <2> QED BY <1>1, <2>1, MovedRows DEF Keeps
<1>11. CASE x.kind = "addCat"
  <2>1. e = CategoryAdded(d)
    BY <1>11 DEF Writes
  <2> QED BY <1>1, <2>1, CategoryAddedRows DEF Keeps
<1>12. CASE x.kind = "delCat"
  <2>1. e = CategoryDeleted(d, x.arg)
    BY <1>12 DEF Writes
  <2> QED BY <2>1, CategoryDeletedRows DEF Keeps, Match
<1>13. CASE x.kind \in {"versions", "detail", "api", "iteration"}
  BY <1>2, <1>13 DEF Writes
<1> QED BY <1>4, <1>5, <1>6, <1>7, <1>8, <1>9, <1>10, <1>11, <1>12, <1>13 DEF Kinds

(* A request is answered in its place.                                        *)
LEMMA ServedNet ==
  ASSUME StateInv, NEW i \in DOMAIN net, NEW ans
  PROVE  \E t : /\ t = [net EXCEPT ![i].ans = ans] /\ IsNet(t) /\ DOMAIN t = DOMAIN net
                /\ t[i].kind = net[i].kind /\ t[i].arg = net[i].arg /\ t[i].live = net[i].live
                /\ t[i].ans = ans
                /\ \A j \in DOMAIN net \ {i} : t[j] = net[j]
                /\ OneRefresh(net) => OneRefresh(t)
<1>1. IsNet(net) /\ Request(db, net[i])
  BY RestFacts, FreshFacts DEF StateInv, Inv
<1>2. PICK x : x = net[i]
  OBVIOUS
<1>3. PICK y : y = [x EXCEPT !.ans = ans]
  OBVIOUS
<1>4. y.kind = x.kind /\ y.arg = x.arg /\ y.live = x.live /\ y.ans = ans
  BY <1>1, <1>2, <1>3 DEF Request, Shape
<1>5. PICK t : t = [net EXCEPT ![i] = y]
  OBVIOUS
<1>6. IsNet(t) /\ DOMAIN t = DOMAIN net /\ t[i] = y /\ \A j \in DOMAIN net \ {i} : t[j] = net[j]
  BY <1>1, <1>5, ChangedItem
<1>7. t = [net EXCEPT ![i].ans = ans]
  BY <1>2, <1>3, <1>5
<1>8. \A j \in DOMAIN net : t[j].kind = net[j].kind /\ t[j].live = net[j].live
  BY <1>2, <1>4, <1>6
<1>9. OneRefresh(net) => OneRefresh(t)
  BY <1>6, <1>8 DEF OneRefresh, Refreshing
<1> QED BY <1>2, <1>4, <1>6, <1>7, <1>9

LEMMA MatchChain ==
  ASSUME NEW r, NEW s, NEW t, Match(r, s), Match(s, t) PROVE Match(r, t)
BY DEF Match

LEMMA ServeFresh ==
  ASSUME StateInv, TypedState, FreshState, NEW i \in DOMAIN net, Serve(i) PROVE FreshState'
<1>1. PICK d, x, ans : d = db /\ x = net[i] /\ ans = Answer(db, net[i])
  OBVIOUS
<1>2. PICK e : e = Writes(d, x)
  OBVIOUS
<1>3. PICK t : /\ t = [net EXCEPT ![i].ans = ans] /\ IsNet(t) /\ DOMAIN t = DOMAIN net
               /\ t[i].kind = x.kind /\ t[i].arg = x.arg /\ t[i].live = x.live /\ t[i].ans = ans
               /\ \A j \in DOMAIN net \ {i} : t[j] = net[j]
               /\ OneRefresh(net) => OneRefresh(t)
  BY <1>1, ServedNet
<1>4. /\ x.ans = None /\ db' = e /\ net' = t /\ page' = page
      /\ doubt' = (doubt \/ (~x.live /\ db'.drafts # db.drafts))
  BY <1>1, <1>2, <1>3 DEF Serve
<1>5. /\ DbInv(d) /\ RowsInv(d) /\ x \in Items(net) /\ x.kind \in Kinds /\ TypedArg(d, x)
      /\ x.live \in BOOLEAN
  BY <1>1, TypedFacts DEF Items, TypedRequest, Request, Shape
<1>6. Keeps(d, e) \/ Alters(d, e, x) \/ (x.kind = "start" /\ Starts(d, e)) \/ Ends(d, e)
  BY <1>2, <1>5, WritesIterations
<1>7. /\ d.nextIt \in Positive /\ d.open \in Nat /\ d.open < d.nextIt
      /\ page.iterationId \in Nat /\ page.iterationId < d.nextIt
      /\ page.inIteration <=> page.iterationId # 0
      /\ \A y \in Items(net) : StartedOk(d, y)
  BY <1>1 DEF FreshState, FreshInv, Iterations
<1>8. /\ e.nextIt \in Positive /\ e.open \in Nat /\ e.open < e.nextIt /\ d.nextIt <= e.nextIt
      /\ page.iterationId < e.nextIt
  BY <1>6, <1>7 DEF Keeps, Alters, Starts, Ends, Positive
<1>9. ASSUME NEW j \in DOMAIN t PROVE StartedOk(e, t[j])
  <2>1. CASE j # i
    <3>1. t[j] \in Items(net) /\ t[j] = net[j]
      BY <1>3, <2>1 DEF Items
    <3>2. StartedOk(d, t[j])
      BY <1>7, <3>1
    <3> QED BY <1>7, <1>8, <3>2 DEF StartedOk, Positive
  <2>2. CASE j = i
    <3>1. CASE x.kind = "start"
      <4>1. ans = Ok(e.open)
        BY <1>1, <1>2, <3>1 DEF Answer
      <4>2. ans.value = e.open
        BY <4>1 DEF Ok
      <4>3. e.open # 0
        BY <1>2, <1>7, <3>1 DEF Writes, Started, Positive, DbInv, DbFields
      <4> QED BY <1>3, <1>8, <2>2, <4>2, <4>3 DEF StartedOk, Positive
    <3>2. CASE x.kind # "start"
      BY <1>3, <2>2, <3>2 DEF StartedOk
    <3> QED BY <3>1, <3>2
  <2> QED BY <2>1, <2>2
<1>10. Iterations(e, page, Items(t))
  BY <1>7, <1>8, <1>9 DEF Iterations, Items
<1>11. ASSUME ~doubt' PROVE OneRefresh(t) /\ Fresh(e, page, Items(t))
  <2>1. ~doubt /\ (x.live \/ e.drafts = d.drafts)
    BY <1>1, <1>4, <1>11, Zenon
  <2>2. OneRefresh(t) /\ Fresh(d, page, Items(net))
    BY <1>1, <1>3, <2>1, FreshFacts
  <2>3. CASE ~(page.inIteration /\ page.iterationId = e.open)
    BY <2>2, <2>3 DEF Fresh
  <2>4. CASE page.inIteration /\ page.iterationId = e.open
    <3>1. e.open # 0 /\ e.open # d.nextIt
      BY <1>7, <2>4 DEF Positive
    <3>2. CASE Alters(d, e, x)
      <4>1. Applied(e, t[i])
        BY <1>1, <1>3, <1>5, <2>1, <3>2 DEF Applied, Alters
      <4> QED BY <1>3, <2>2, <4>1 DEF Fresh, Items
    <3>3. CASE Keeps(d, e)
      <4>1. e.open = d.open /\ Match(d.drafts, e.drafts)
        BY <3>3 DEF Keeps
      <4>2. CASE \E y \in Items(net) : Applied(d, y)
        <5>1. PICK j \in DOMAIN net : Applied(d, net[j])
          BY <4>2 DEF Items
        <5>2. j # i
          BY <1>1, <1>4, <5>1, NoneIsNoAnswer DEF Applied
        <5>3. Applied(e, t[j])
          BY <1>3, <4>1, <5>1, <5>2 DEF Applied
        <5> QED BY <1>3, <2>2, <5>3 DEF Fresh, Items
      <4>3. CASE /\ \A y \in Items(net) : Sound(d, y)
                 /\ (\A y \in Items(net) : Refreshing(y) => y.arg.it # d.open)
                      => Match(page.apiDrafts, d.drafts)
        <5>1. ASSUME NEW j \in DOMAIN t PROVE Sound(e, t[j])
          <6>1. CASE j # i
            <7>1. Sound(d, t[j])
              BY <1>3, <4>3, <6>1 DEF Items
            <7>2. Match(t[j].ans.value, d.drafts) => Match(t[j].ans.value, e.drafts)
              BY <4>1, MatchChain
            <7> QED BY <4>1, <7>1, <7>2 DEF Sound
          <6>2. CASE j = i /\ x.kind = "iteration"
            <7>1. ans = AnswerIteration(d, x.arg.it)
              BY <1>1, <6>2 DEF Answer
            <7>2. x.arg.it = d.open => ans = Ok(d.drafts)
              BY <3>1, <4>1, <7>1 DEF AnswerIteration, Mine
            <7>3. x.arg.it # d.open => ans = Refused
              BY <7>1 DEF AnswerIteration, Mine
            <7>4. x.arg.it = d.open => ans.status = "ok" /\ Match(ans.value, e.drafts)
              BY <4>1, <7>2 DEF Ok
            <7> QED BY <1>3, <4>1, <6>2, <7>3, <7>4 DEF Sound
          <6>3. CASE j = i /\ x.kind # "iteration"
            BY <1>3, <6>3 DEF Sound, Refreshing
          <6> QED BY <6>1, <6>2, <6>3
        <5>2. ASSUME \A y \in Items(t) : Refreshing(y) => y.arg.it # e.open
              PROVE  Match(page.apiDrafts, e.drafts)
          <6>1. ASSUME NEW j \in DOMAIN net, Refreshing(net[j]) PROVE net[j].arg.it # d.open
            <7>1. Refreshing(t[j]) /\ t[j].arg = net[j].arg /\ t[j] \in Items(t)
              BY <1>1, <1>3, <6>1 DEF Refreshing, Items
            <7> QED BY <4>1, <5>2, <7>1
          <6>2. Match(page.apiDrafts, d.drafts)
            BY <4>3, <6>1 DEF Items
          <6> QED BY <4>1, <6>2, MatchChain
        <5>3. \A y \in Items(t) : Sound(e, y)
          BY <5>1 DEF Items
        <5> QED BY <2>2, <5>2, <5>3 DEF Fresh
      <4> QED BY <2>2, <2>4, <4>1, <4>2, <4>3 DEF Fresh
    <3> QED BY <1>6, <3>1, <3>2, <3>3 DEF Starts, Ends
  <2> QED BY <2>3, <2>4
<1>12. doubt' \in BOOLEAN
  BY <1>4, Zenon DEF FreshState
<1> QED BY <1>4, <1>10, <1>11, <1>12 DEF FreshState, FreshInv

LEMMA ThrowFresh ==
  ASSUME StateInv, FreshState, NEW i \in DOMAIN net, Throw(i) PROVE FreshState'
<1>0. PICK ans : ans = Thrown
  OBVIOUS
<1>1. PICK t : /\ t = [net EXCEPT ![i].ans = ans] /\ IsNet(t) /\ DOMAIN t = DOMAIN net
               /\ t[i].kind = net[i].kind /\ t[i].arg = net[i].arg /\ t[i].live = net[i].live
               /\ t[i].ans = ans
               /\ \A j \in DOMAIN net \ {i} : t[j] = net[j]
               /\ OneRefresh(net) => OneRefresh(t)
  BY ServedNet
<1>2. \A j \in DOMAIN t : StartedOk(db, t[j])
  BY <1>0, <1>1, FreshFacts DEF StartedOk, Thrown, Items
<1>3. Iterations(db, page, Items(t))
  BY <1>2 DEF FreshState, FreshInv, Iterations, Items
<1>4. db' = db /\ page' = page /\ net' = t /\ doubt' = TRUE
  BY <1>0, <1>1 DEF Throw
<1> QED BY <1>3, <1>4 DEF FreshState, FreshInv

LEMMA OthersFresh ==
  StateInv /\ TypedState /\ FreshState /\ (OthersCommit \/ OwnerDeletes) => FreshState'
<1> SUFFICES ASSUME StateInv, TypedState, FreshState, OthersCommit \/ OwnerDeletes PROVE FreshState'
  OBVIOUS
<1>1. /\ page' = page /\ net' = net /\ doubt' = doubt /\ RowsInv(db) /\ DbInv(db)
      /\ db.nextIt \in Positive
  BY TypedFacts DEF OthersCommit, OwnerDeletes, FreshState, FreshInv, Iterations
<1>2. ASSUME NEW e, e.drafts = db.drafts, e.open = db.open, e.nextIt \in Positive,
             db.nextIt <= e.nextIt, db' = e
      PROVE  FreshState'
  <2>1. \A x \in Items(net) : StartedOk(e, x)
    BY <1>1, <1>2, FreshFacts DEF StartedOk, Positive
  <2>2. Iterations(e, page, Items(net))
    BY <1>2, <2>1 DEF FreshState, FreshInv, Iterations, Positive
  <2>3. Fresh(db, page, Items(net)) => Fresh(e, page, Items(net))
    BY <1>2 DEF Fresh, Applied, Sound
  <2>4. FreshInv(e, page, net, doubt)
    BY <2>2, <2>3 DEF FreshState, FreshInv
  <2> QED BY <1>1, <1>2, <2>4 DEF FreshState
<1>3. CASE OwnerDeletes
  <2>1. PICK e : e = [db EXCEPT !.deleted = TRUE]
    OBVIOUS
  <2>2. e.drafts = db.drafts /\ e.open = db.open /\ e.nextIt = db.nextIt /\ db' = e
    BY <1>1, <1>3, <2>1 DEF DbInv, DbFields, OwnerDeletes
  <2> QED BY <1>1, <1>2, <2>2 DEF Positive
<1>4. CASE OthersCommit
  <2>1. PICK drafts : drafts = Renumbered(db.api, db.nextDraft)
    OBVIOUS
  <2>2. PICK p : p = Publish(db, db.latest + 1, drafts)
    OBVIOUS
  <2>3. PICK e : e = [p EXCEPT !.nextIt = @ + 1, !.nextDraft = @ + Cardinality(DOMAIN drafts)]
    OBVIOUS
  <2>4. db' = e /\ db.latest < MaxVersion
    BY <1>4, <2>1, <2>2, <2>3 DEF OthersCommit
  <2>5. e.drafts = db.drafts /\ e.open = db.open /\ e.nextIt = db.nextIt + 1
    <3>1. /\ DOMAIN p = DbFields /\ p.drafts = db.drafts /\ p.open = db.open
          /\ p.nextIt = db.nextIt
      BY <1>1, <2>2 DEF Publish, DbInv, DbFields
    <3> QED BY <2>3, <3>1 DEF DbFields
  <2> QED BY <1>1, <1>2, <2>4, <2>5 DEF Positive
<1> QED BY <1>3, <1>4

LEMMA DropFresh ==
  ASSUME StateInv, FreshState, NEW i \in DOMAIN net, Drop(i) PROVE FreshState'
<1>1. PICK rest : rest = Rest(i)
  OBVIOUS
<1>2. PICK x : x = net[i]
  OBVIOUS
<1>3. /\ ~x.live /\ db' = db /\ page' = page /\ net' = rest /\ doubt' = doubt
  BY <1>1, <1>2 DEF Drop
<1>4. Items(rest) \subseteq Items(net) /\ Items(net) \subseteq Items(rest) \cup {x}
  BY <1>1, <1>2, RestFacts
<1>5. ~Refreshing(x) /\ ~Applied(db, x)
  BY <1>3 DEF Refreshing, Applied
<1>6. Iterations(db, page, Items(rest))
  BY <1>4 DEF FreshState, FreshInv, Iterations
<1>7. ~doubt => OneRefresh(rest)
  BY <1>1, FreshFacts, RefreshRemoved DEF Rest
<1>8. Fresh(db, page, Items(net)) => Fresh(db, page, Items(rest))
  <2>1. (\E y \in Items(net) : Applied(db, y)) => \E y \in Items(rest) : Applied(db, y)
    BY <1>4, <1>5
  <2>2. (\A y \in Items(rest) : Refreshing(y) => y.arg.it # db.open)
          => \A y \in Items(net) : Refreshing(y) => y.arg.it # db.open
    BY <1>4, <1>5
  <2> QED BY <1>4, <2>1, <2>2 DEF Fresh
<1>9. FreshInv(db, page, rest, doubt)
  BY <1>6, <1>7, <1>8 DEF FreshState, FreshInv
<1> QED BY <1>3, <1>9 DEF FreshState

LEMMA ReloadFresh == StateInv /\ FreshState /\ Reload => FreshState'
<1> SUFFICES ASSUME StateInv, FreshState, Reload PROVE FreshState'
  OBVIOUS
<1>1. PICK s : net' = s /\ IsNet(s) /\ \A x \in Items(s) :
        \/ x = Ask("versions", None)
        \/ ~x.live /\ \E y \in Items(net) : x.kind = y.kind /\ x.arg = y.arg /\ x.ans = y.ans
  BY ReloadedRequests
<1>2. \A x \in Items(s) : ~Refreshing(x) /\ StartedOk(db, x)
  <2>1. ASSUME NEW x, x = Ask("versions", None) PROVE ~Refreshing(x) /\ StartedOk(db, x)
    BY <2>1 DEF Ask, Refreshing, StartedOk
  <2>2. ASSUME NEW x, ~x.live, NEW y \in Items(net), x.kind = y.kind, x.ans = y.ans
        PROVE  ~Refreshing(x) /\ StartedOk(db, x)
    BY <2>2, FreshFacts DEF Refreshing, StartedOk
  <2> QED BY <1>1, <2>1, <2>2
<1>3. PICK p : p = FreshPage
  OBVIOUS
<1>4. ~p.inIteration /\ p.iterationId = 0
  BY <1>3 DEF FreshPage
<1>5. Iterations(db, p, Items(s))
  BY <1>2, <1>4 DEF FreshState, FreshInv, Iterations, Positive
<1>6. OneRefresh(s)
  BY <1>2 DEF OneRefresh, Items
<1>7. Fresh(db, p, Items(s))
  BY <1>4 DEF Fresh
<1>8. db' = db /\ page' = p /\ net' = s /\ doubt' = doubt
  BY <1>1, <1>3 DEF Reload
<1>9. FreshInv(db, p, s, doubt)
  BY <1>5, <1>6, <1>7 DEF FreshInv
<1> QED BY <1>8, <1>9 DEF FreshState

LEMMA InitFresh == Init => FreshState
<1> SUFFICES ASSUME Init PROVE FreshState
  OBVIOUS
<1>1. db.open \in {0, 3} /\ db.nextIt = 4
  BY DEF Init
<1>2. ~page.inIteration /\ page.iterationId = 0 /\ ~doubt /\ doubt \in BOOLEAN
  BY DEF Init, FreshPage
<1>3. PICK v : v = Ask("versions", None)
  OBVIOUS
<1>4. net = <<v>> /\ Items(net) = {v} /\ IsNet(net)
  BY <1>3, OneItem DEF Init
<1>5. StartedOk(db, v)
  BY <1>3 DEF StartedOk, Ask
<1>6. OneRefresh(net)
  BY <1>4 DEF OneRefresh
<1>7. Iterations(db, page, Items(net))
  BY <1>1, <1>2, <1>4, <1>5 DEF Iterations, Positive
<1>8. Fresh(db, page, Items(net))
  BY <1>2 DEF Fresh
<1> QED BY <1>2, <1>6, <1>7, <1>8 DEF FreshState, FreshInv

LEMMA NextFresh == StateInv /\ TypedState /\ FreshState /\ [Next]_vars => FreshState'
<1> SUFFICES ASSUME StateInv, TypedState, FreshState, [Next]_vars PROVE FreshState'
  OBVIOUS
<1>1. CASE UNCHANGED vars
  BY <1>1 DEF vars, FreshState
<1>2. CASE User
  BY <1>2, UserFresh
<1>3. CASE Serving
  BY <1>3, ServeFresh DEF Serving
<1>4. CASE Delivering
  BY <1>4, ArrivalFresh, RefreshFresh, StartFresh, ChangeFresh, DropFresh DEF Delivering, Deliver
<1>5. CASE Throwing
  BY <1>5, ThrowFresh DEF Throwing
<1>6. CASE OthersCommit \/ OwnerDeletes
  BY <1>6, OthersFresh
<1>7. CASE Reload
  BY <1>7, ReloadFresh
<1> QED BY <1>1, <1>2, <1>3, <1>4, <1>5, <1>6, <1>7 DEF Next

(* When every answer is in, the drafts in the tree are those of the server:   *)
(* a refresh follows every change, and the refresh itself reads the drafts    *)
(* after every change that was served before it.                              *)
THEOREM FreshAtRestAlways == Spec => []FreshAtRest
<1>1. Init => StateInv /\ TypedState /\ FreshState
  BY InitInv, InitTyped, InitFresh
<1>2. (StateInv /\ TypedState /\ FreshState) /\ [Next]_vars => (StateInv /\ TypedState /\ FreshState)'
  BY NextKeeps, NextTyped, NextFresh
<1>3. StateInv /\ FreshState => FreshAtRest
  <2> SUFFICES ASSUME FreshState, net = <<>>, EditorMounted(page), db.open = page.iterationId, ~doubt
               PROVE  Match(page.apiDrafts, db.drafts)
    BY DEF FreshAtRest, Match
  <2>1. Items(net) = {}
    BY OneItem
  <2>2. Fresh(db, page, {}) /\ page.inIteration
    BY <2>1 DEF FreshState, FreshInv, EditorMounted
  <2> QED BY <2>2 DEF Fresh
<1> QED BY <1>1, <1>2, <1>3, PTL DEF Spec
================================================================================
