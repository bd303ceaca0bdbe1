---------------------------- MODULE CodePullProofs ----------------------------
(* Proofs about the cam command line, for any accounts, services, names and  *)
(* APIs, any configuration of the checked-out project and any number of      *)
(* commands and commits: what a pull writes is of one version of the service *)
(* its entry names, and a pull that says it is done has written all entries. *)
EXTENDS CodePull, TLAPS, SequenceTheorems, FiniteSetTheorems, FunctionTheorems

------------------------------------------------------------------------------
(* The inductive invariant.                                                  *)

(* Rows of one version of the service that an entry names, of its version.   *)
Matches(rows, e) ==
  /\ \A r \in rows : r.service = e.service /\ e.version \in {Latest, r.version}
  /\ \A q, r \in rows : q.version = r.version

(* The directories are those of the first k entries, each still without      *)
(* files or with the APIs of its entry.                                      *)
Done(dir, cfg, k) ==
  /\ DOMAIN dir = {cfg[i].name : i \in 1 .. k}
  /\ \A i \in 1 .. k : dir[cfg[i].name] = NULL \/ Matches(dir[cfg[i].name], cfg[i])

(* The ids of a table are unique and come from its sequence.                 *)
TableOK(rows, last) ==
  /\ last \in Nat
  /\ \A r \in rows : r.id \in Nat /\ r.id <= last
  /\ \A q, r \in rows : q.id = r.id => q = r

BackendOK ==
  /\ TableOK(apis, lastApi) /\ TableOK(drafts, lastDraft)
  /\ \A q, r \in apis : q.service = r.service => q.version = r.version

(* The details still to be asked for: ids that were given out before, so no  *)
(* later row gets one of them, and rows that fit those already there.        *)
LastOf(isLatest) == IF isLatest THEN lastApi ELSE lastDraft

Awaited(isLatest, todo) == {r \in TableOf(isLatest) : r.id \in todo}

Fetching(isLatest, todo, got, e) ==
  /\ \A id \in todo : id \in Nat /\ id <= LastOf(isLatest)
  /\ Matches(got \cup Awaited(isLatest, todo), e)

(* The commands, and where a pull is in the configuration.                   *)
Job(c) ==
  \/ c = Idle \/ c = [pc |-> "init"] \/ c = [pc |-> "pull"]
  \/ \E e \in Entry : c = [pc |-> "add", name |-> e.name, service |-> e.service,
                           version |-> e.version]
  \/ \E n \in Names : c = [pc |-> "remove", name |-> n]

AtLogin(c) ==
  \E pc \in {"login", "me"} : \E next : Job(next) /\ c = [pc |-> pc, next |-> next]

ServiceAt(cfg, k) == [pc |-> "service", left |-> SubSeq(cfg, k + 1, Len(cfg))]
DetailAt(cfg, k, isLatest, todo, got) ==
  [pc |-> "detail", left |-> SubSeq(cfg, k, Len(cfg)), isLatest |-> isLatest,
   todo |-> todo, got |-> got]

AtService ==
  /\ config # NULL
  /\ \E k \in 0 .. Len(config) : command = ServiceAt(config, k) /\ Done(outDir, config, k)

AtDetail ==
  /\ config # NULL
  /\ \E k \in 1 .. Len(config), isLatest \in BOOLEAN : \E todo, got :
       /\ command = DetailAt(config, k, isLatest, todo, got)
       /\ Done(outDir, config, k)
       /\ Fetching(isLatest, todo, got, config[k])

CommandOK == Job(command) \/ AtLogin(command) \/ AtService \/ AtDetail

OneVersion(rows) == \A q, r \in rows : q.version = r.version /\ q.service = r.service

DirsOK == outDir # NULL =>
  \A n \in DOMAIN outDir : outDir[n] # NULL => OneVersion(outDir[n])

ReportedOK ==
  reported => command = Idle /\ config # NULL /\ Done(outDir, config, Len(config))

PullInv == TypeOK /\ CommandOK /\ BackendOK /\ DirsOK /\ ReportedOK

------------------------------------------------------------------------------
(* Operators.                                                                *)

(* Numbered gives the elements of a finite set different numbers.            *)
LEMMA NumberedFacts ==
  ASSUME NEW S, IsFiniteSet(S)
  PROVE  /\ Numbered(S) \in [S -> 1 .. Cardinality(S)]
         /\ \A x, y \in S : Numbered(S)[x] = Numbered(S)[y] => x = y
<1>1. PICK f : f \in Bijection(1 .. Cardinality(S), S)
  BY FS_CardinalityType, Zenon DEF ExistsBijection
<1>2. PICK g : g \in Bijection(S, 1 .. Cardinality(S))
  BY <1>1, Fun_BijInverse
<1>3. g \in [S -> 1 .. Cardinality(S)] /\ \A x, y \in S : g[x] = g[y] => x = y
  BY <1>2 DEF Bijection, Injection, IsInjective
<1> QED BY <1>3, Zenon DEF Numbered

(* Taking an entry out of the configuration keeps it well formed.            *)
LEMMA RemoveEntry ==
  ASSUME NEW c \in Seq(Entry), Distinct(c), NEW i \in DOMAIN c
  PROVE  RemoveAt(c, i) \in Seq(Entry) /\ Distinct(RemoveAt(c, i))
<1> DEFINE a == SubSeq(c, 1, i - 1)
           b == SubSeq(c, i + 1, Len(c))
           r == RemoveAt(c, i)
           f(j) == IF j < i THEN j ELSE j + 1
<1>0. i \in 1 .. Len(c) /\ Len(c) \in Nat
  BY LenProperties
<1>1. a \in Seq(Entry) /\ Len(a) = i - 1 /\ \A j \in 1 .. i - 1 : a[j] = c[j]
  BY <1>0
<1>2. b \in Seq(Entry) /\ Len(b) = Len(c) - i /\ \A j \in 1 .. Len(c) - i : b[j] = c[i + j]
  BY <1>0
<1>3. r = a \o b
  BY DEF RemoveAt
<1> HIDE DEF a, b, r
<1>4. r \in Seq(Entry) /\ Len(r) = Len(c) - 1
  BY <1>0, <1>1, <1>2, <1>3
<1>5. ASSUME NEW j \in DOMAIN r PROVE f(j) \in DOMAIN c /\ r[j] = c[f(j)]
  <2>0. j \in 1 .. Len(c) - 1
    BY <1>4
  <2>1. CASE j < i
    BY <1>0, <1>1, <1>2, <1>3, <2>0, <2>1
  <2>2. CASE ~(j < i)
    <3>1. r[j] = b[j - (i - 1)]
      BY <1>0, <1>1, <1>2, <1>3, <2>0, <2>2
    <3>2. b[j - (i - 1)] = c[i + (j - (i - 1))]
      BY <1>0, <1>2, <2>0, <2>2
    <3>3. i + (j - (i - 1)) = j + 1 /\ j + 1 \in DOMAIN c
      BY <1>0, <2>0, <2>2
    <3> QED BY <2>2, <3>1, <3>2, <3>3
  <2> QED BY <2>1, <2>2
<1>6. ASSUME NEW j \in DOMAIN r, NEW k \in DOMAIN r,
             r[j].name = r[k].name \/ r[j].service = r[k].service
      PROVE  j = k
  <2>1. f(j) = f(k)
    BY <1>5, <1>6 DEF Distinct
  <2>2. j \in Int /\ k \in Int
    BY <1>4
  <2> QED BY <1>0, <2>1, <2>2
<1> QED BY <1>4, <1>6 DEF Distinct, r

(* An entry with a new name and a new service may be appended.               *)
LEMMA AppendEntry ==
  ASSUME NEW c \in Seq(Entry), Distinct(c), NEW e \in Entry,
         \A i \in DOMAIN c : c[i].name # e.name /\ c[i].service # e.service
  PROVE  Append(c, e) \in Seq(Entry) /\ Distinct(Append(c, e))
<1> DEFINE r == Append(c, e)
<1>1. r \in Seq(Entry) /\ Len(r) = Len(c) + 1 /\ Len(c) \in Nat
      /\ r[Len(c) + 1] = e /\ \A i \in DOMAIN c : r[i] = c[i]
  BY LenProperties
<1> HIDE DEF r
<1>2. \A i \in DOMAIN r : i \in DOMAIN c \/ i = Len(c) + 1
  BY <1>1
<1>3. Distinct(r)
  BY <1>1, <1>2 DEF Distinct
<1> QED BY <1>1, <1>3 DEF r

(* What a pull has before it: the first entry, and the rest.                 *)
LEMMA LeftFacts ==
  ASSUME NEW c \in Seq(Entry), NEW k \in 1 .. Len(c)
  PROVE  /\ SubSeq(c, k, Len(c)) # <<>>
         /\ Head(SubSeq(c, k, Len(c))) = c[k]
         /\ Tail(SubSeq(c, k, Len(c))) = SubSeq(c, k + 1, Len(c))
         /\ c[k] \in Entry
<1>0. Len(c) \in Nat /\ Len(c) \in k .. Len(c) /\ k \in Int
  BY LenProperties
<1>1. Len(SubSeq(c, k, Len(c))) = Len(c) - k + 1
  BY <1>0
<1>2. Len(SubSeq(c, k, Len(c))) > 0
  BY <1>0, <1>1
<1>3. SubSeq(c, k, Len(c)) # <<>>
  BY <1>2
<1>4. c[k] \in Entry
  BY <1>0
<1> QED BY <1>0, <1>3, <1>4, HeadTailOfSubSeq

LEMMA NothingLeft ==
  ASSUME NEW c \in Seq(Entry), NEW k \in 0 .. Len(c), SubSeq(c, k + 1, Len(c)) = <<>>
  PROVE  k = Len(c)
<1>0. Len(c) \in Nat /\ k \in Int
  BY LenProperties
<1>1. ASSUME k # Len(c) PROVE FALSE
  BY <1>0, <1>1, LeftFacts
<1> QED BY <1>1

------------------------------------------------------------------------------
(* What each variable is written by.                                         *)

LEMMA BackendWriters ==
  ASSUME [Next]_vars
  PROVE  UNCHANGED backend \/ \E s \in Services : Commit(s)
<1>1. CASE User
  BY <1>1 DEF User, LoginCommand, InitCommand, UpdateCommand, Logout, AddCommand,
     RemoveCommand, LoginSubmit, LoginRefused, Interrupt, Begin, Step
<1>2. CASE Process
  BY <1>2 DEF Process, setUser, MyInfoArrives, MyInfoRefused, MyInfoFails, init, AddRefused, storeServiceInfo,
     removeService, PullExits, PullBegins, ListArrives, ListFails, DetailArrives,
     DetailFails, WriteService, PullEnds, Step
<1>3. CASE Others
  BY <1>3 DEF Others, Expire, Revoke
<1> QED BY <1>1, <1>2, <1>3 DEF Next, vars

LEMMA ConfigWriters ==
  ASSUME [Next]_vars
  PROVE  UNCHANGED config \/ init \/ storeServiceInfo \/ removeService
<1>1. CASE User
  BY <1>1 DEF User, LoginCommand, InitCommand, UpdateCommand, Logout, AddCommand,
     RemoveCommand, LoginSubmit, LoginRefused, Interrupt, Begin
<1>2. CASE Process
  BY <1>2 DEF Process, setUser, MyInfoArrives, MyInfoRefused, MyInfoFails, AddRefused, PullExits, PullBegins,
     ListArrives, ListFails, DetailArrives, DetailFails, WriteService, PullEnds
<1>3. CASE Others
  BY <1>3 DEF Others, Expire, Revoke, Commit
<1> QED BY <1>1, <1>2, <1>3 DEF Next, vars

LEMMA OutDirWriters ==
  ASSUME [Next]_vars
  PROVE  UNCHANGED outDir \/ PullBegins \/ ListArrives \/ ListFails \/ WriteService
<1>1. CASE User
  BY <1>1 DEF User, LoginCommand, InitCommand, UpdateCommand, Logout, AddCommand,
     RemoveCommand, LoginSubmit, LoginRefused, Interrupt, Begin
<1>2. CASE Process
  BY <1>2 DEF Process, setUser, MyInfoArrives, MyInfoRefused, MyInfoFails, init, AddRefused, storeServiceInfo,
     removeService, PullExits, DetailArrives, DetailFails, PullEnds
<1>3. CASE Others
  BY <1>3 DEF Others, Expire, Revoke, Commit
<1> QED BY <1>1, <1>2, <1>3 DEF Next, vars

(* Only the end of a pull reports; a step of a command changes nothing of    *)
(* what was reported, and a new command withdraws the report.                *)
LEMMA ReportWriters ==
  ASSUME [Next]_vars, TypeOK
  PROVE  \/ reported' = FALSE
         \/ PullEnds
         \/ /\ reported' = reported /\ command' \in {command, Idle}
            /\ UNCHANGED <<config, outDir>>
         \/ reported' = reported /\ command.pc # "idle"
<1>1. CASE User
  <2>1. CASE Interrupt
    BY <2>1 DEF Interrupt, Step
  <2>2. CASE LoginRefused \/ \E a \in Accounts : LoginSubmit(a)
    BY <2>2 DEF LoginRefused, LoginSubmit
  <2> QED BY <1>1, <2>1, <2>2 DEF User, LoginCommand, InitCommand, UpdateCommand, Logout,
            AddCommand, RemoveCommand, Begin
<1>2. CASE Process
  BY <1>2 DEF Process, setUser, MyInfoArrives, MyInfoRefused, MyInfoFails, init, AddRefused, storeServiceInfo,
     removeService, PullExits, PullBegins, ListArrives, ListFails, DetailArrives,
     DetailFails, WriteService, Step
<1>3. CASE Others
  BY <1>3 DEF Others, Expire, Revoke, Commit
<1> QED BY <1>1, <1>2, <1>3 DEF Next, vars

------------------------------------------------------------------------------
(* The backend: a commit gives out new ids and one version.                  *)
New(last, s, v) == {Row(last + Numbered(ApiNames)[n], s, v, n) : n \in ApiNames}

LEMMA NewIds ==
  ASSUME NEW last \in Nat, NEW s, NEW v, NEW r \in New(last, s, v)
  PROVE  /\ r.id \in Nat /\ r.id > last /\ r.id <= last + Cardinality(ApiNames)
         /\ r.service = s /\ r.version = v
         /\ \A q \in New(last, s, v) : q.id = r.id => q = r
<1> DEFINE nth == Numbered(ApiNames)
<1>1. Cardinality(ApiNames) \in Nat
  BY PullAssumption, FS_CardinalityType
<1>2. /\ nth \in [ApiNames -> 1 .. Cardinality(ApiNames)]
      /\ \A x, y \in ApiNames : nth[x] = nth[y] => x = y
  BY PullAssumption, NumberedFacts
<1>3. \A q \in New(last, s, v) : \E n \in ApiNames : q = Row(last + nth[n], s, v, n)
  BY DEF New
<1> HIDE DEF nth
<1>4. PICK n \in ApiNames : r = Row(last + nth[n], s, v, n)
  BY <1>3
<1>5. nth[n] \in 1 .. Cardinality(ApiNames)
  BY <1>2
<1>6. r.id = last + nth[n] /\ r.service = s /\ r.version = v
  BY <1>4 DEF Row
<1>7. ASSUME NEW q \in New(last, s, v), q.id = r.id PROVE q = r
  <2>1. PICK m \in ApiNames : q = Row(last + nth[m], s, v, m)
    BY <1>3
  <2>2. nth[m] \in 1 .. Cardinality(ApiNames) /\ q.id = last + nth[m]
    BY <1>2, <2>1 DEF Row
  <2>3. nth[m] = nth[n]
    BY <1>1, <1>5, <1>6, <1>7, <2>2
  <2> QED BY <1>2, <1>4, <2>1, <2>3
<1> QED BY <1>1, <1>5, <1>6, <1>7

LEMMA NewRows ==
  ASSUME NEW rows, NEW last, TableOK(rows, last), NEW kept \in SUBSET rows,
         NEW s, NEW v
  PROVE  TableOK(kept \cup New(last, s, v), last + Cardinality(ApiNames))
<1> DEFINE new == New(last, s, v)
<1>1. Cardinality(ApiNames) \in Nat
  BY PullAssumption, FS_CardinalityType
<1>2. \A r \in new : /\ r.id \in Nat /\ r.id > last /\ r.id <= last + Cardinality(ApiNames)
                     /\ \A q \in new : q.id = r.id => q = r
  BY NewIds DEF TableOK
<1> HIDE DEF new
<1>3. TableOK(kept \cup new, last + Cardinality(ApiNames))
  BY <1>1, <1>2 DEF TableOK
<1> QED BY <1>3 DEF new

LEMMA BackendStep ==
  ASSUME PullInv, [Next]_vars
  PROVE  BackendOK'
<1>1. CASE UNCHANGED backend
  BY <1>1 DEF PullInv, BackendOK, TableOK, backend
<1>2. ASSUME NEW s \in Services, Commit(s) PROVE BackendOK'
  <2> DEFINE v == Version(s) + 1
             kept == {r \in apis : r.service # s}
             newA == New(lastApi, s, v)
             newD == New(lastDraft, s, v)
  <2>1. /\ apis' = kept \cup newA /\ lastApi' = lastApi + Cardinality(ApiNames)
        /\ drafts' = drafts \cup newD /\ lastDraft' = lastDraft + Cardinality(ApiNames)
    BY <1>2 DEF Commit, New
  <2>2. TableOK(apis, lastApi) /\ TableOK(drafts, lastDraft) /\ kept \in SUBSET apis
    BY DEF PullInv, BackendOK
  <2>3. \A r \in kept : r.service # s
    OBVIOUS
  <2> HIDE DEF v, kept
  <2>4. TableOK(kept \cup newA, lastApi + Cardinality(ApiNames))
    BY <2>2, NewRows
  <2>5. \A r \in newA : r.service = s /\ r.version = v
    BY <2>2, NewIds DEF TableOK
  <2>6. TableOK(drafts \cup newD, lastDraft + Cardinality(ApiNames))
    BY <2>2, NewRows
  <2> HIDE DEF newA, newD
  <2>7. TableOK(apis', lastApi') /\ TableOK(drafts', lastDraft')
    BY <2>1, <2>4, <2>6
  <2>8. \A q, r \in apis' : q.service = r.service => q.version = r.version
    BY <2>1, <2>2, <2>3, <2>5 DEF PullInv, BackendOK
  <2> QED BY <2>7, <2>8 DEF BackendOK, TableOK
<1> QED BY <1>1, <1>2, BackendWriters

------------------------------------------------------------------------------
(* Where a command is, by its pc.                                            *)
LEMMA Where ==
  ASSUME CommandOK
  PROVE  /\ command.pc = "service" => AtService
         /\ command.pc = "detail" => AtDetail
         /\ command.pc \in {"login", "me"} => AtLogin(command)
         /\ command.pc \notin {"service", "detail", "login", "me"} => Job(command)
<1>1. AtService => command.pc = "service"
  BY DEF AtService, ServiceAt
<1>2. AtDetail => command.pc = "detail"
  BY DEF AtDetail, DetailAt
<1>3. AtLogin(command) => command.pc \in {"login", "me"}
  BY DEF AtLogin
<1>4. Job(command) => command.pc \notin {"service", "detail", "login", "me"}
  BY DEF Job, Idle
<1> QED BY <1>1, <1>2, <1>3, <1>4 DEF CommandOK

(* The state of a pull in a service step: the entry it works on.             *)
LEMMA ServiceEntry ==
  ASSUME PullInv, command.pc = "service", command.left # <<>>
  PROVE  /\ config \in Seq(Entry) /\ Distinct(config) /\ config # NULL
         /\ \E k \in 1 .. Len(config) :
              /\ command.left = SubSeq(config, k, Len(config))
              /\ Current = config[k]
              /\ NextService = ServiceAt(config, k)
              /\ Done(outDir, config, k - 1)
<1>1. AtService
  BY Where DEF PullInv
<1>2. config \in Seq(Entry) /\ Distinct(config) /\ config # NULL
  BY <1>1 DEF PullInv, TypeOK, AtService
<1>3. PICK j \in 0 .. Len(config) : command = ServiceAt(config, j) /\ Done(outDir, config, j)
  BY <1>1 DEF AtService
<1>4. command.left = SubSeq(config, j + 1, Len(config))
  BY <1>3 DEF ServiceAt
<1>5. Len(config) \in Nat
  BY <1>2, LenProperties
<1>6. j # Len(config)
  <2>1. SUFFICES ASSUME j = Len(config) PROVE FALSE
    OBVIOUS
  <2>2. SubSeq(config, j + 1, Len(config)) = <<>>
    BY <1>5, <2>1, SubSeqEmpty
  <2> QED BY <1>4, <2>2
<1>7. PICK k \in 1 .. Len(config) : k = j + 1
  BY <1>5, <1>6
<1>8. command.left = SubSeq(config, k, Len(config)) /\ Done(outDir, config, k - 1)
  <2>1. j = k - 1
    BY <1>7
  <2> QED BY <1>3, <1>4, <1>7, <2>1
<1>9. /\ Head(command.left) = config[k]
      /\ Tail(command.left) = SubSeq(config, k + 1, Len(config))
  BY <1>2, <1>8, LeftFacts
<1> QED BY <1>2, <1>8, <1>9 DEF Current, NextService, ServiceAt

(* The state of a pull between the details of one service.                   *)
LEMMA DetailEntry ==
  ASSUME PullInv, command.pc = "detail"
  PROVE  /\ config \in Seq(Entry) /\ Distinct(config) /\ config # NULL
         /\ \E k \in 1 .. Len(config) :
              /\ command = DetailAt(config, k, command.isLatest, command.todo, command.got)
              /\ command.isLatest \in BOOLEAN
              /\ Current = config[k]
              /\ NextService = ServiceAt(config, k)
              /\ Done(outDir, config, k)
              /\ Fetching(command.isLatest, command.todo, command.got, config[k])
<1>1. AtDetail
  BY Where DEF PullInv
<1>2. config \in Seq(Entry) /\ Distinct(config) /\ config # NULL
  BY <1>1 DEF PullInv, TypeOK, AtDetail
<1>a. PICK k \in 1 .. Len(config), isLatest \in BOOLEAN : \E todo, got :
        /\ command = DetailAt(config, k, isLatest, todo, got)
        /\ Done(outDir, config, k)
        /\ Fetching(isLatest, todo, got, config[k])
  BY <1>1 DEF AtDetail
<1>3. PICK todo, got :
        /\ command = DetailAt(config, k, isLatest, todo, got)
        /\ Done(outDir, config, k)
        /\ Fetching(isLatest, todo, got, config[k])
  BY <1>a
<1>4. /\ command.isLatest = isLatest /\ command.todo = todo /\ command.got = got
      /\ command.left = SubSeq(config, k, Len(config))
  BY <1>3 DEF DetailAt
<1>5. /\ Head(command.left) = config[k]
      /\ Tail(command.left) = SubSeq(config, k + 1, Len(config))
  BY <1>2, <1>4, LeftFacts
<1>6. Current = config[k] /\ NextService = ServiceAt(config, k)
  BY <1>5 DEF Current, NextService, ServiceAt
<1>7. Fetching(command.isLatest, command.todo, command.got, config[k])
  BY <1>3, <1>4
<1>8. command = DetailAt(config, k, command.isLatest, command.todo, command.got)
  BY <1>3, <1>4
<1> QED BY <1>2, <1>3, <1>4, <1>6, <1>7, <1>8

------------------------------------------------------------------------------
(* Directories.                                                              *)
LEMMA WithDirFacts ==
  ASSUME NEW n, NEW content
  PROVE  /\ DOMAIN WithDir(n, content) = DOMAIN outDir \cup {n}
         /\ WithDir(n, content)[n] = content
         /\ \A m \in DOMAIN outDir \ {n} : WithDir(n, content)[m] = outDir[m]
BY DEF WithDir

LEMMA MatchesSub ==
  ASSUME NEW rows, NEW e, Matches(rows, e), NEW some \in SUBSET rows
  PROVE  Matches(some, e)
BY DEF Matches

LEMMA MatchesOne ==
  ASSUME NEW rows, NEW e, Matches(rows, e)
  PROVE  OneVersion(rows)
BY DEF Matches, OneVersion

(* The directory of the entry at hand is made, or gets its files.            *)
LEMMA DoneNext ==
  ASSUME NEW cfg \in Seq(Entry), Distinct(cfg), NEW k \in 1 .. Len(cfg),
         NEW dir, Done(dir, cfg, k - 1) \/ Done(dir, cfg, k),
         NEW content, content = NULL \/ Matches(content, cfg[k]),
         NEW new, DOMAIN new = DOMAIN dir \cup {cfg[k].name},
         new[cfg[k].name] = content,
         \A m \in DOMAIN dir \ {cfg[k].name} : new[m] = dir[m]
  PROVE  Done(new, cfg, k)
<1>0. Len(cfg) \in Nat /\ k \in Int
  BY LenProperties
<1>1. DOMAIN new = {cfg[i].name : i \in 1 .. k}
  BY <1>0 DEF Done
<1>2. ASSUME NEW i \in 1 .. k
      PROVE  new[cfg[i].name] = NULL \/ Matches(new[cfg[i].name], cfg[i])
  <2>1. CASE i = k
    BY <2>1
  <2>2. CASE i # k
    <3>1. i \in 1 .. k - 1 /\ i \in DOMAIN cfg /\ k \in DOMAIN cfg
      BY <1>0, <2>2
    <3>2. cfg[i].name # cfg[k].name
      BY <2>2, <3>1 DEF Distinct
    <3>3. cfg[i].name \in DOMAIN dir
      BY <1>1, <3>1, <3>2
    <3>4. new[cfg[i].name] = dir[cfg[i].name]
      BY <3>2, <3>3
    <3>5. dir[cfg[i].name] = NULL \/ Matches(dir[cfg[i].name], cfg[i])
      BY <3>1 DEF Done
    <3> QED BY <3>4, <3>5
  <2> QED BY <2>1, <2>2
<1> QED BY <1>1, <1>2 DEF Done

LEMMA DirsStep ==
  ASSUME PullInv, [Next]_vars
  PROVE  DirsOK' /\ (outDir' # NULL => DOMAIN outDir' \subseteq Names)
<1>0. DirsOK /\ (outDir # NULL => DOMAIN outDir \subseteq Names)
  BY DEF PullInv, TypeOK
<1>1. CASE UNCHANGED outDir
  BY <1>0, <1>1 DEF DirsOK, OneVersion
<1>2. CASE PullBegins
  BY <1>2 DEF PullBegins, Emptied, Empty, DirsOK
<1>3. ASSUME NEW k \in 1 .. Len(config), config \in Seq(Entry), Distinct(config),
             NEW content, content = NULL \/ Matches(content, config[k]),
             Done(outDir, config, k - 1) \/ Done(outDir, config, k),
             outDir' = WithDir(config[k].name, content)
      PROVE  DirsOK' /\ (outDir' # NULL => DOMAIN outDir' \subseteq Names)
  <2>1. Done(outDir', config, k)
    BY <1>3, WithDirFacts, DoneNext, ZenonT(60)
  <2>2. \A i \in 1 .. k : config[i] \in Entry
    BY <1>3, LenProperties
  <2>3. \A n \in DOMAIN outDir' : n \in Names /\ (outDir'[n] = NULL \/ OneVersion(outDir'[n]))
    <3>1. SUFFICES ASSUME NEW n \in DOMAIN outDir'
                   PROVE  n \in Names /\ (outDir'[n] = NULL \/ OneVersion(outDir'[n]))
      OBVIOUS
    <3>2. PICK i \in 1 .. k : n = config[i].name
      BY <2>1 DEF Done
    <3>3. n \in Names
      BY <2>2, <3>2 DEF Entry
    <3>4. outDir'[n] = NULL \/ Matches(outDir'[n], config[i])
      BY <2>1, <3>2 DEF Done
    <3> QED BY <3>3, <3>4, MatchesOne
  <2> QED BY <2>3 DEF DirsOK, OneVersion
<1>4. CASE ListArrives \/ ListFails
  <2>1. command.pc = "service" /\ command.left # <<>> /\ outDir' = WithDir(Current.name, NULL)
    BY <1>4 DEF ListArrives, ListFails
  <2> QED BY <1>3, <2>1, ServiceEntry
<1>5. CASE WriteService
  <2>1. /\ command.pc = "detail" /\ command.todo = {}
        /\ outDir' = WithDir(Current.name, command.got)
    BY <1>5 DEF WriteService
  <2>2. PICK k \in 1 .. Len(config) :
          /\ Current = config[k] /\ Done(outDir, config, k)
          /\ Fetching(command.isLatest, command.todo, command.got, config[k])
    BY <2>1, DetailEntry
  <2>3. Matches(command.got, config[k])
    BY <2>2, MatchesSub DEF Fetching
  <2> QED BY <1>3, <2>1, <2>2, <2>3, DetailEntry
<1> QED BY <1>1, <1>2, <1>4, <1>5, OutDirWriters

------------------------------------------------------------------------------
(* Requests for details.                                                     *)

(* The list names rows of one version, which no other row can be taken for.  *)
LEMMA ListFetches ==
  ASSUME BackendOK, NEW e
  PROVE  Fetching(IsLatest(e.service, e.version),
                  {r.id : r \in Listing(e.service, e.version)}, {}, e)
<1> DEFINE l == IsLatest(e.service, e.version)
           L == Listing(e.service, e.version)
           todo == {r.id : r \in L}
<1>0. l \in BOOLEAN
  BY DEF IsLatest
<1>1. L \subseteq TableOf(l) /\ TableOK(TableOf(l), LastOf(l))
  BY DEF Listing, TableOf, LastOf, BackendOK
<1>2. \A r \in L : r.service = e.service /\ (~l => r.version = e.version)
  BY DEF Listing
<1>3. ASSUME l, NEW r \in L PROVE r \in apis /\ e.version \in {Latest, r.version}
  <2>1. r \in apis /\ r.service = e.service
    BY <1>2, <1>3 DEF Listing
  <2>2. PICK q \in apis : q.service = e.service /\ Version(e.service) = q.version
    BY <2>1 DEF Version
  <2>3. Version(e.service) = r.version
    BY <2>1, <2>2 DEF BackendOK
  <2> QED BY <1>3, <2>1, <2>3 DEF IsLatest
<1>4. \A q, r \in L : q.version = r.version
  BY <1>2, <1>3 DEF BackendOK
<1> HIDE DEF l, L
<1>5. Matches(L, e)
  BY <1>0, <1>2, <1>3, <1>4 DEF Matches
<1>6. Awaited(l, todo) \in SUBSET L
  BY <1>1 DEF Awaited, TableOK
<1>7. \A id \in todo : id \in Nat /\ id <= LastOf(l)
  BY <1>1 DEF TableOK
<1>8. Matches({} \cup Awaited(l, todo), e)
  BY <1>5, <1>6, MatchesSub
<1> QED BY <1>7, <1>8 DEF Fetching, l, L

(* No commit puts a row under an id that is still to be asked for.           *)
LEMMA CommitFetching ==
  ASSUME BackendOK, NEW s \in Services, Commit(s), NEW isLatest \in BOOLEAN,
         NEW todo, NEW got, NEW e, Fetching(isLatest, todo, got, e)
  PROVE  Fetching(isLatest, todo, got, e)'
<1> DEFINE v == Version(s) + 1
<1>1. /\ apis' \subseteq apis \cup New(lastApi, s, v)
      /\ drafts' \subseteq drafts \cup New(lastDraft, s, v)
      /\ lastApi' = lastApi + Cardinality(ApiNames)
      /\ lastDraft' = lastDraft + Cardinality(ApiNames)
  BY DEF Commit, New
<1>2. Cardinality(ApiNames) \in Nat /\ lastApi \in Nat /\ lastDraft \in Nat
  BY PullAssumption, FS_CardinalityType DEF BackendOK, TableOK
<1> HIDE DEF v
<1>3. /\ \A r \in New(lastApi, s, v) : r.id \in Nat /\ r.id > lastApi
      /\ \A r \in New(lastDraft, s, v) : r.id \in Nat /\ r.id > lastDraft
  BY <1>2, NewIds
<1>4. \A id \in todo : id \in Nat /\ id <= LastOf(isLatest)
  BY DEF Fetching
<1>5. PICK before : before = Awaited(isLatest, todo)
  OBVIOUS
<1>6. PICK after : after = Awaited(isLatest, todo)'
  OBVIOUS
<1>7. after \in SUBSET before
  <2>1. CASE isLatest
    BY <1>1, <1>2, <1>3, <1>4, <1>5, <1>6, <2>1 DEF Awaited, TableOf, LastOf
  <2>2. CASE ~isLatest
    BY <1>1, <1>2, <1>3, <1>4, <1>5, <1>6, <2>2 DEF Awaited, TableOf, LastOf
  <2> QED BY <2>1, <2>2
<1>8. Matches(got \cup before, e)
  BY <1>5 DEF Fetching
<1>9. Matches(got \cup after, e)
  BY <1>7, <1>8, MatchesSub
<1>10. \A id \in todo : id \in Nat /\ id <= LastOf(isLatest)'
  BY <1>1, <1>2, <1>4 DEF LastOf
<1> QED BY <1>6, <1>9, <1>10 DEF Fetching, Matches

(* A detail that arrives is one of the rows awaited.                         *)
LEMMA DetailFetching ==
  ASSUME NEW isLatest, NEW todo, NEW got, NEW e, Fetching(isLatest, todo, got, e),
         NEW id \in todo, NEW more \in SUBSET Detail(id, isLatest)
  PROVE  Fetching(isLatest, todo \ {id}, got \cup more, e)
<1> DEFINE before == got \cup Awaited(isLatest, todo)
           after == (got \cup more) \cup Awaited(isLatest, todo \ {id})
<1>1. after \in SUBSET before
  BY DEF Awaited, Detail
<1>2. Matches(after, e)
  <2>1. Matches(before, e)
    BY DEF Fetching
  <2> HIDE DEF before, after
  <2> QED BY <1>1, <2>1, MatchesSub
<1> QED BY <1>2 DEF Fetching

------------------------------------------------------------------------------
(* Commands.                                                                 *)

LEMMA BeginOK ==
  ASSUME NEW next, Job(next) \/ AtLogin(next), AtLogin(next) => next.pc = "login", Begin(next)
  PROVE  CommandOK'
<1>1. ASSUME Job(next), command' = [pc |-> "login", next |-> next] PROVE AtLogin(command')
  BY <1>1 DEF AtLogin
<1>2. next.pc = "login" => AtLogin(next)
  BY DEF Job, Idle
<1>3. Job(command') \/ AtLogin(command')
  BY <1>1, <1>2 DEF Begin
<1> QED BY <1>3 DEF CommandOK, Job, AtLogin, Idle

LEMMA JobOK ==
  ASSUME Job(command') \/ AtLogin(command')
  PROVE  CommandOK'
BY DEF CommandOK, Job, AtLogin, Idle

LEMMA UserStep ==
  ASSUME PullInv, User
  PROVE  CommandOK'
<1>1. CASE LoginCommand
  <2>1. AtLogin([pc |-> "login", next |-> Idle])
    BY DEF AtLogin, Job
  <2> QED BY <1>1, <2>1, BeginOK DEF LoginCommand
<1>2. CASE InitCommand \/ UpdateCommand
  BY <1>2, BeginOK DEF InitCommand, UpdateCommand, Job, AtLogin
<1>3. ASSUME NEW n \in Names, NEW s \in Services, NEW v \in Asked, AddCommand(n, s, v)
      PROVE  CommandOK'
  <2>1. PICK e \in Entry : e = [name |-> n, service |-> s, version |-> v]
    BY DEF Entry
  <2>2. PICK c : c = [pc |-> "add", name |-> n, service |-> s, version |-> v]
    OBVIOUS
  <2>3. Job(c) /\ c.pc # "login"
    BY <2>1, <2>2 DEF Job
  <2>4. ~AtLogin(c)
    BY <2>2 DEF AtLogin
  <2> QED BY <1>3, <2>2, <2>3, <2>4, BeginOK DEF AddCommand
<1>4. ASSUME NEW n \in Names, RemoveCommand(n) PROVE CommandOK'
  BY <1>4, BeginOK DEF RemoveCommand, Job, AtLogin
<1>5. CASE Logout
  <2>1. Job(command) /\ command' = command
    BY <1>5, Where DEF Logout, PullInv
  <2> QED BY <2>1, JobOK
<1>6. ASSUME NEW a \in Accounts, LoginSubmit(a) PROVE CommandOK'
  <2>a. PICK pc \in {"login", "me"} :
          \E next : Job(next) /\ command = [pc |-> pc, next |-> next]
    BY <1>6, Where DEF LoginSubmit, PullInv, AtLogin
  <2>1. PICK next : Job(next) /\ command = [pc |-> pc, next |-> next]
    BY <2>a
  <2>2. command' = [pc |-> "me", next |-> next]
    BY <1>6, <2>1 DEF LoginSubmit
  <2>3. AtLogin(command')
    BY <2>1, <2>2 DEF AtLogin
  <2> QED BY <2>3, JobOK
<1>7. CASE LoginRefused
  <2>1. Job(command.next)
    BY <1>7, Where DEF LoginRefused, PullInv, AtLogin
  <2>2. Job(command')
    BY <1>7, <2>1 DEF LoginRefused, Step, Job
  <2> QED BY <2>2, JobOK
<1>8. CASE Interrupt
  <2>1. Job(command')
    BY <1>8 DEF Interrupt, Step, Job
  <2> QED BY <2>1, JobOK
<1> QED BY <1>1, <1>2, <1>3, <1>4, <1>5, <1>6, <1>7, <1>8 DEF User

(* A pull goes on with the next service once the entry at hand is done.      *)
LEMMA NextServiceOK ==
  ASSUME NEW k \in 0 .. Len(config), config # NULL, config' = config,
         command' = ServiceAt(config, k), Done(outDir', config, k)
  PROVE  CommandOK'
<1>1. command' = ServiceAt(config', k) /\ Done(outDir', config', k) /\ config' # NULL
      /\ k \in 0 .. Len(config')
  BY Zenon
<1>2. AtService'
  BY <1>1, Zenon DEF AtService, ServiceAt, Done, Matches
<1> QED BY <1>2 DEF CommandOK

LEMMA DetailOK ==
  ASSUME NEW k \in 1 .. Len(config), config # NULL, config' = config,
         NEW isLatest \in BOOLEAN, NEW todo, NEW got,
         command' = DetailAt(config, k, isLatest, todo, got), Done(outDir', config, k),
         Fetching(isLatest, todo, got, config[k])'
  PROVE  CommandOK'
<1>1. /\ command' = DetailAt(config', k, isLatest, todo, got)
      /\ Done(outDir', config', k) /\ config' # NULL
      /\ k \in 1 .. Len(config')
  BY Zenon
<1>2. AtDetail'
  BY <1>1, Zenon DEF AtDetail, DetailAt, Done, Matches
<1> QED BY <1>2 DEF CommandOK

(* A detail record is given by its fields.                                   *)
HasDetailFields(d) == d = [f \in {"pc", "left", "isLatest", "todo", "got"} |-> d[f]]

LEMMA DetailFields ==
  ASSUME NEW cfg, NEW k, NEW l, NEW t, NEW g, NEW d,
         HasDetailFields(d),
         d.pc = "detail", d.left = SubSeq(cfg, k, Len(cfg)), d.isLatest = l,
         d.todo = t, d.got = g
  PROVE  d = DetailAt(cfg, k, l, t, g)
<1>1. PICK left : left = SubSeq(cfg, k, Len(cfg))
  OBVIOUS
<1> DEFINE e == [pc |-> "detail", left |-> left, isLatest |-> l, todo |-> t, got |-> g]
           F == {"pc", "left", "isLatest", "todo", "got"}
<1>2. /\ e = [f \in F |-> e[f]]
      /\ e.pc = "detail" /\ e.left = left /\ e.isLatest = l /\ e.todo = t /\ e.got = g
  OBVIOUS
<1> HIDE DEF e
<1>3. \A f \in F : d[f] = e[f]
  BY <1>1, <1>2
<1>4. d = e
  BY <1>2, <1>3 DEF HasDetailFields
<1> QED BY <1>1, <1>4 DEF DetailAt, e

(* Fetching depends on the backend only.                                     *)
LEMMA FetchingKept ==
  ASSUME UNCHANGED backend, NEW isLatest, NEW todo, NEW got, NEW e,
         Fetching(isLatest, todo, got, e)
  PROVE  Fetching(isLatest, todo, got, e)'
BY DEF Fetching, Awaited, TableOf, LastOf, backend, Matches

LEMMA ProcessStep ==
  ASSUME PullInv, Process, ~setUser
  PROVE  CommandOK'
<1>1. CASE MyInfoArrives \/ MyInfoRefused
  <2>1. Job(command.next)
    BY <1>1, Where DEF MyInfoArrives, MyInfoRefused, PullInv, AtLogin
  <2>2. Job(command')
    BY <1>1, <2>1 DEF MyInfoArrives, MyInfoRefused, Step
  <2> QED BY <2>2, JobOK
<1>2. CASE MyInfoFails \/ init \/ AddRefused \/ storeServiceInfo \/ removeService
           \/ PullExits \/ PullEnds
  <2>1. Job(command')
    BY <1>2 DEF MyInfoFails, init, AddRefused, storeServiceInfo, removeService, PullExits,
       PullEnds, Step, Job
  <2> QED BY <2>1, JobOK
<1>3. CASE PullBegins
  <2>1. config \in Seq(Entry) /\ config # NULL /\ config' = config /\ outDir' = Empty
        /\ command' = [pc |-> "service", left |-> config]
    BY <1>3 DEF PullBegins, PullInv, TypeOK, Emptied, Step
  <2>2. command' = ServiceAt(config, 0)
    BY <2>1, SubSeqFull DEF ServiceAt
  <2>3. Done(outDir', config, 0)
    BY <2>1 DEF Done, Empty
  <2>4. 0 \in 0 .. Len(config)
    BY <2>1, LenProperties
  <2> QED BY <2>1, <2>2, <2>3, <2>4, NextServiceOK
<1>4. CASE ListArrives \/ ListFails
  <2>1. /\ command.pc = "service" /\ command.left # <<>> /\ config' = config
        /\ outDir' = WithDir(Current.name, NULL) /\ UNCHANGED backend
    BY <1>4 DEF ListArrives, ListFails, Step
  <2>2. config \in Seq(Entry) /\ Distinct(config) /\ config # NULL /\ Len(config) \in Nat
    BY <2>1, ServiceEntry, LenProperties
  <2>3. PICK k \in 1 .. Len(config) :
          /\ command.left = SubSeq(config, k, Len(config))
          /\ Current = config[k]
          /\ NextService = ServiceAt(config, k)
          /\ Done(outDir, config, k - 1)
    BY <2>1, ServiceEntry
  <2>4. Done(outDir', config, k)
    BY <2>1, <2>2, <2>3, WithDirFacts, DoneNext, Zenon
  <2>5. CASE command' = NextService
    BY <2>1, <2>2, <2>3, <2>4, <2>5, NextServiceOK
  <2>6. CASE command' # NextService
    <3> DEFINE l == IsLatest(config[k].service, config[k].version)
               todo == {r.id : r \in Listing(config[k].service, config[k].version)}
    <3>1. command' = DetailAt(config, k, l, todo, {})
      BY <1>4, <2>3, <2>6 DEF ListArrives, ListFails, Step, DetailAt
    <3>2. l \in BOOLEAN
      BY DEF IsLatest
    <3>3. Fetching(l, todo, {}, config[k])
      BY ListFetches DEF PullInv
    <3>4. PICK a, b, e : a = l /\ b = todo /\ e = config[k]
      OBVIOUS
    <3> HIDE DEF l, todo
    <3>5. command' = DetailAt(config, k, a, b, {}) /\ a \in BOOLEAN
          /\ Fetching(a, b, {}, e)
      BY <3>1, <3>2, <3>3, <3>4
    <3>6. Fetching(a, b, {}, e)'
      BY <2>1, <3>5, FetchingKept
    <3>7. Fetching(a, b, {}, config[k])'
      BY <2>1, <3>4, <3>6 DEF Fetching, Matches
    <3> QED BY <2>1, <2>2, <2>4, <3>5, <3>7, DetailOK
  <2> QED BY <2>5, <2>6
<1>5. CASE DetailArrives \/ DetailFails \/ WriteService
  <2>1. command.pc = "detail" /\ config' = config /\ UNCHANGED backend
    BY <1>5 DEF DetailArrives, DetailFails, WriteService, Step
  <2>2. config \in Seq(Entry) /\ Distinct(config) /\ config # NULL /\ Len(config) \in Nat
    BY <2>1, DetailEntry, LenProperties
  <2>3. PICK k \in 1 .. Len(config) :
          /\ command = DetailAt(config, k, command.isLatest, command.todo, command.got)
          /\ command.isLatest \in BOOLEAN
          /\ Current = config[k]
          /\ NextService = ServiceAt(config, k)
          /\ Done(outDir, config, k)
          /\ Fetching(command.isLatest, command.todo, command.got, config[k])
    BY <2>1, DetailEntry
  <2>4. CASE DetailFails
    <3>1. command' = NextService /\ outDir' = outDir
      BY <2>4 DEF DetailFails, Step
    <3> QED BY <2>1, <2>2, <2>3, <3>1, NextServiceOK
  <2>5. CASE WriteService
    <3>1. command' = NextService /\ outDir' = WithDir(Current.name, command.got)
      BY <2>5 DEF WriteService, Step
    <3>2. Matches(command.got, config[k])
      BY <2>3, MatchesSub DEF Fetching
    <3>3. Done(outDir', config, k)
      BY <2>2, <2>3, <3>1, <3>2, WithDirFacts, DoneNext, ZenonT(60)
    <3> QED BY <2>1, <2>2, <2>3, <3>1, <3>3, NextServiceOK
  <2>6. CASE DetailArrives
    <3>1. PICK id \in command.todo :
            command' = [command EXCEPT !.todo = @ \ {id},
                                       !.got = @ \cup Detail(id, command.isLatest)]
      BY <2>6 DEF DetailArrives, Step
    <3>2. PICK l, t, g, e, more : l = command.isLatest /\ t = command.todo /\ g = command.got
                                  /\ e = config[k] /\ more = Detail(id, l)
      OBVIOUS
    <3>3. command' = DetailAt(config, k, l, t \ {id}, g \cup more)
      <4>1. PICK left : left = SubSeq(config, k, Len(config))
        OBVIOUS
      <4>2. command = [pc |-> "detail", left |-> left, isLatest |-> l, todo |-> t, got |-> g]
        BY <2>3, <3>2, <4>1 DEF DetailAt
      <4>3. /\ DOMAIN command = {"pc", "left", "isLatest", "todo", "got"}
            /\ command.pc = "detail" /\ command.left = left /\ command.isLatest = l
            /\ command.todo = t /\ command.got = g
        BY <4>2
      <4>4. command' = [command EXCEPT !.todo = @ \ {id}, !.got = @ \cup more]
        BY <3>1, <3>2
      <4>5. /\ HasDetailFields(command')
            /\ command'.pc = "detail" /\ command'.left = left /\ command'.isLatest = l
        BY <4>3, <4>4 DEF HasDetailFields
      <4>6. command'.todo = t \ {id}
        BY <4>3, <4>4
      <4>7. command'.got = g \cup more
        BY <4>3, <4>4
      <4>8. PICK t2, g2 : t2 = t \ {id} /\ g2 = g \cup more
        OBVIOUS
      <4>9. command' = DetailAt(config, k, l, t2, g2)
        <5>1. PICK d : d = command'
          OBVIOUS
        <5>2. /\ HasDetailFields(d) /\ d.pc = "detail" /\ d.isLatest = l
              /\ d.left = SubSeq(config, k, Len(config)) /\ d.todo = t2 /\ d.got = g2
          BY <4>1, <4>5, <4>6, <4>7, <4>8, <5>1
        <5>3. d = DetailAt(config, k, l, t2, g2)
          BY <5>2, DetailFields, Zenon
        <5> QED BY <5>1, <5>3
      <4> QED BY <4>8, <4>9
    <3>4. Fetching(l, t, g, e) /\ id \in t
      BY <2>3, <3>2
    <3>5. Fetching(l, t \ {id}, g \cup more, e)
      BY <3>2, <3>4, DetailFetching
    <3>6. Fetching(l, t \ {id}, g \cup more, e)'
      BY <2>1, <3>5, FetchingKept
    <3>7. Fetching(l, t \ {id}, g \cup more, config[k])'
      BY <2>1, <3>2, <3>6 DEF Fetching, Matches
    <3>8. outDir' = outDir /\ l \in BOOLEAN
      BY <2>3, <2>6, <3>2 DEF DetailArrives
    <3> QED BY <2>1, <2>2, <2>3, <3>3, <3>7, <3>8, DetailOK
  <2> QED BY <1>5, <2>4, <2>5, <2>6
<1> QED BY <1>1, <1>2, <1>3, <1>4, <1>5 DEF Process

(* The steps of others do not move a command.                                *)
LEMMA StayOK ==
  ASSUME PullInv, UNCHANGED <<command, config, outDir>>,
         UNCHANGED backend \/ \E s \in Services : Commit(s)
  PROVE  CommandOK'
<1>1. CASE Job(command) \/ AtLogin(command)
  BY <1>1, JobOK
<1>2. CASE AtService
  BY <1>2, NextServiceOK DEF AtService
<1>3. CASE AtDetail
  <2>a. PICK k \in 1 .. Len(config), l \in BOOLEAN : \E t, g :
          /\ command = DetailAt(config, k, l, t, g)
          /\ Done(outDir, config, k)
          /\ Fetching(l, t, g, config[k])
    BY <1>3 DEF AtDetail
  <2>1. PICK t, g :
          /\ command = DetailAt(config, k, l, t, g)
          /\ Done(outDir, config, k)
          /\ Fetching(l, t, g, config[k])
    BY <2>a
  <2>2. PICK e : e = config[k]
    OBVIOUS
  <2>3. Fetching(l, t, g, e)
    BY <2>1, <2>2
  <2>4. Fetching(l, t, g, e)'
    <3>1. CASE UNCHANGED backend
      BY <2>3, <3>1, FetchingKept
    <3>2. ASSUME NEW s \in Services, Commit(s) PROVE Fetching(l, t, g, e)'
      BY <2>3, <3>2, CommitFetching DEF PullInv
    <3> QED BY <3>1, <3>2
  <2>5. Fetching(l, t, g, config[k])'
    BY <2>2, <2>4 DEF Fetching, Matches
  <2>6. config # NULL
    BY <1>3 DEF AtDetail
  <2> QED BY <2>1, <2>5, <2>6, DetailOK
<1> QED BY <1>1, <1>2, <1>3 DEF PullInv, CommandOK

LEMMA CommandStep ==
  ASSUME PullInv, [Next]_vars
  PROVE  CommandOK'
<1>1. CASE User
  BY <1>1, UserStep
<1>2. CASE Process /\ ~setUser
  BY <1>2, ProcessStep
<1>3. CASE setUser \/ Others \/ UNCHANGED vars
  <2>1. UNCHANGED <<command, config, outDir>>
    BY <1>3 DEF setUser, Others, Expire, Revoke, Commit, vars
  <2> QED BY <2>1, BackendWriters, StayOK
<1> QED BY <1>1, <1>2, <1>3 DEF Next

LEMMA ReportedStep ==
  ASSUME PullInv, [Next]_vars
  PROVE  ReportedOK'
<1>0. ReportedOK /\ TypeOK
  BY DEF PullInv
<1>1. CASE reported' = FALSE
  BY <1>1 DEF ReportedOK
<1>2. CASE PullEnds
  <2>1. /\ command.pc = "service" /\ command.left = <<>> /\ command' = Idle
        /\ config' = config /\ outDir' = outDir
    BY <1>2 DEF PullEnds, Step
  <2>2. AtService
    BY <2>1, Where DEF PullInv
  <2>3. config # NULL /\ config \in Seq(Entry)
    BY <2>2 DEF AtService, PullInv, TypeOK
  <2>4. PICK k \in 0 .. Len(config) : command = ServiceAt(config, k) /\ Done(outDir, config, k)
    BY <2>2 DEF AtService
  <2>5. SubSeq(config, k + 1, Len(config)) = <<>>
    BY <2>1, <2>4 DEF ServiceAt
  <2>6. k = Len(config)
    BY <2>3, <2>5, NothingLeft
  <2>7. Done(outDir', config', Len(config'))
    BY <2>1, <2>4, <2>6, Zenon
  <2> QED BY <2>1, <2>3, <2>7, Zenon DEF ReportedOK, Idle, Done, Matches
<1>3. CASE /\ reported' = reported /\ command' \in {command, Idle}
           /\ UNCHANGED <<config, outDir>>
  <2>1. reported' => command' = Idle /\ config' # NULL /\ Done(outDir', config', Len(config'))
    BY <1>0, <1>3, Zenon DEF ReportedOK
  <2> QED BY <2>1, Zenon DEF ReportedOK, Idle, Done, Matches
<1>4. CASE reported' = reported /\ command.pc # "idle"
  <2>1. command # Idle
    BY <1>4 DEF Idle
  <2> QED BY <1>0, <1>4, <2>1, Zenon DEF ReportedOK
<1> QED BY <1>0, <1>1, <1>2, <1>3, <1>4, ReportWriters

------------------------------------------------------------------------------
(* The type invariant.                                                       *)
RcOK ==
  /\ camrc \in [token: Accounts \cup {NULL}, user: Accounts \cup {NULL}]
  /\ clearing \in BOOLEAN /\ (clearing => camrc.token = NULL)

LEMMA RcStep ==
  ASSUME RcOK, [Next]_vars
  PROVE  RcOK'
<1>1. ASSUME UNCHANGED rc PROVE RcOK'
  BY <1>1 DEF RcOK, rc
<1>2. ASSUME Clear PROVE RcOK'
  BY <1>2 DEF Clear, RcOK
<1>3. ASSUME NEW a \in Accounts, LoginSubmit(a), ~clearing PROVE RcOK'
  BY <1>3 DEF LoginSubmit, RcOK
<1>4. ASSUME MyInfoArrives \/ setUser PROVE RcOK'
  <2>1. \A u \in Accounts \cup {NULL} :
          /\ [camrc EXCEPT !.user = u] \in [token: Accounts \cup {NULL}, user: Accounts \cup {NULL}]
          /\ [camrc EXCEPT !.user = u].token = camrc.token
    BY DEF RcOK
  <2>2. camrc.token \in Accounts \cup {NULL}
    BY DEF RcOK
  <2>3. CASE MyInfoArrives
    <3>1. camrc' = [camrc EXCEPT !.user = camrc.token] /\ clearing' = clearing
      BY <2>3 DEF MyInfoArrives
    <3> QED BY <2>1, <2>2, <3>1, Zenon DEF RcOK
  <2>4. CASE setUser
    <3>1. camrc' = [camrc EXCEPT !.user = NULL] /\ clearing' = FALSE
      BY <2>4 DEF setUser
    <3> QED BY <2>1, <3>1 DEF RcOK
  <2> QED BY <1>4, <2>3, <2>4
<1>5. ASSUME Interrupt PROVE RcOK'
  BY <1>5 DEF Interrupt, RcOK
<1>6. CASE User
  BY <1>1, <1>2, <1>3, <1>5, <1>6 DEF User, LoginCommand, InitCommand, UpdateCommand, Logout,
     AddCommand, RemoveCommand, LoginRefused, Begin
<1>7. CASE Process
  BY <1>1, <1>2, <1>4, <1>7 DEF Process, MyInfoRefused, MyInfoFails, init, AddRefused,
     storeServiceInfo, removeService, PullExits, PullBegins, ListArrives, ListFails,
     DetailArrives, DetailFails, WriteService, PullEnds, Answered, Fails
<1>8. CASE Others \/ UNCHANGED vars
  BY <1>1, <1>8 DEF Others, Expire, Revoke, Commit, vars
<1> QED BY <1>6, <1>7, <1>8 DEF Next

LEMMA ConfigStep ==
  ASSUME PullInv, [Next]_vars
  PROVE  config' # NULL => config' \in Seq(Entry) /\ Distinct(config')
<1>0. config # NULL => config \in Seq(Entry) /\ Distinct(config)
  BY DEF PullInv, TypeOK
<1>1. CASE UNCHANGED config
  BY <1>0, <1>1, Zenon
<1>2. CASE init
  <2>1. <<>> \in Seq(Entry) /\ Distinct(<<>>)
    BY DEF Distinct
  <2> QED BY <1>0, <1>2, <2>1 DEF init
<1>3. CASE storeServiceInfo
  <2>1. Job(command)
    BY <1>3, Where DEF storeServiceInfo, PullInv
  <2>2. PICK e \in Entry : command = [pc |-> "add", name |-> e.name, service |-> e.service,
                                     version |-> e.version]
    BY <1>3, <2>1 DEF storeServiceInfo, Job, Idle
  <2>3. e = [name |-> e.name, service |-> e.service, version |-> e.version]
    BY DEF Entry
  <2>4. config' = Append(config, e)
    BY <1>3, <2>2, <2>3 DEF storeServiceInfo
  <2>5. /\ config \in Seq(Entry) /\ Distinct(config)
        /\ \A i \in DOMAIN config : config[i].name # e.name /\ config[i].service # e.service
    BY <1>0, <1>3, <2>2 DEF storeServiceInfo, Excluded, HasName, HasService
  <2> QED BY <2>4, <2>5, AppendEntry
<1>4. CASE removeService
  BY <1>0, <1>4, RemoveEntry DEF removeService
<1> QED BY <1>1, <1>2, <1>3, <1>4, ConfigWriters

LEMMA TypeStep ==
  ASSUME PullInv, [Next]_vars
  PROVE  TypeOK'
<1>0. TypeOK /\ RcOK
  BY DEF PullInv, TypeOK, RcOK
<1>1. RcOK'
  BY <1>0, RcStep
<1>2. /\ reported' \in BOOLEAN /\ commands' \in 0 .. MaxCommands
      /\ expired' \subseteq Accounts /\ access' \subseteq Services
  <2>0. MaxCommands \in Nat
    BY PullAssumption
  <2>1. CASE User
    <3>1. ASSUME NEW next, Begin(next)
          PROVE  /\ reported' = FALSE /\ commands' \in 0 .. MaxCommands
                 /\ expired' = expired /\ access' = access
      BY <1>0, <2>0, <3>1 DEF Begin, TypeOK
    <3>2. CASE LoginCommand \/ InitCommand \/ UpdateCommand
               \/ (\E n \in Names, s \in Services, v \in Asked : AddCommand(n, s, v))
               \/ \E n \in Names : RemoveCommand(n)
      BY <1>0, <3>1, <3>2 DEF LoginCommand, InitCommand, UpdateCommand, AddCommand,
         RemoveCommand, TypeOK
    <3>3. CASE Logout
      <4>1. commands \in 0 .. MaxCommands /\ expired \subseteq Accounts /\ access \subseteq Services
        BY <1>0 DEF TypeOK
      <4>2. /\ commands < MaxCommands /\ commands' = commands + 1 /\ reported' = FALSE
            /\ expired' = expired /\ access' = access
        BY <3>3 DEF Logout
      <4>3. commands' \in 0 .. MaxCommands
        BY <2>0, <4>1, <4>2
      <4> QED BY <4>1, <4>2, <4>3
    <3>4. CASE LoginRefused \/ Interrupt \/ \E a \in Accounts : LoginSubmit(a)
      BY <1>0, <3>4 DEF LoginRefused, Interrupt, LoginSubmit, Step, TypeOK
    <3> QED BY <2>1, <3>2, <3>3, <3>4 DEF User
  <2>2. CASE Process
    BY <1>0, <2>2 DEF Process, setUser, MyInfoArrives, MyInfoRefused, MyInfoFails, init, AddRefused, storeServiceInfo,
       removeService, PullExits, PullBegins, ListArrives, ListFails, DetailArrives,
       DetailFails, WriteService, PullEnds, Step, TypeOK
  <2>3. CASE Others \/ UNCHANGED vars
    BY <1>0, <2>3 DEF Others, Expire, Revoke, Commit, Valid, vars, TypeOK
  <2> QED BY <2>1, <2>2, <2>3 DEF Next
<1> QED BY <1>1, <1>2, ConfigStep, DirsStep DEF TypeOK, RcOK, Distinct

LEMMA InitOK == Init => PullInv
<1> SUFFICES ASSUME Init PROVE PullInv
  OBVIOUS
<1>1. TypeOK
  <2>1. RcOK
    <3>1. camrc \in [token: Accounts \cup {NULL}, user: Accounts \cup {NULL}]
      BY DEF Init, EmptyRc
    <3> QED BY <3>1 DEF Init, RcOK
  <2>2. config # NULL => config \in Seq(Entry) /\ Distinct(config)
    BY PullAssumption DEF Init
  <2>3. /\ outDir = NULL /\ reported = FALSE /\ expired = {} /\ access = Services
        /\ commands \in 0 .. MaxCommands
    BY PullAssumption DEF Init
  <2> QED BY <2>1, <2>2, <2>3 DEF TypeOK, RcOK
<1>2. CommandOK /\ ReportedOK
  BY DEF Init, CommandOK, Job, ReportedOK
<1>3. DirsOK
  BY DEF Init, DirsOK
<1>4. BackendOK
  <2> DEFINE P == Services \X ApiNames
             nth == Numbered(P)
  <2>1. IsFiniteSet(P) /\ Cardinality(P) \in Nat
    BY PullAssumption, FS_Product, FS_CardinalityType
  <2> HIDE DEF P
  <2>2. nth \in [P -> 1 .. Cardinality(P)] /\ \A x, y \in P : nth[x] = nth[y] => x = y
    BY <2>1, NumberedFacts
  <2>3. apis = {Row(nth[x], x[1], 1, x[2]) : x \in P} /\ lastApi = Cardinality(P)
    BY DEF Init, P
  <2> HIDE DEF nth
  <2>4. \A r \in apis : \E x \in P : r = Row(nth[x], x[1], 1, x[2]) /\ r.id = nth[x] /\ r.version = 1
    BY <2>3 DEF Row
  <2>5. TableOK(apis, lastApi)
    <3>1. \A r \in apis : r.id \in Nat /\ r.id <= lastApi
      BY <2>1, <2>2, <2>3, <2>4
    <3>2. \A q, r \in apis : q.id = r.id => q = r
      BY <2>2, <2>4
    <3> QED BY <2>1, <2>3, <3>1, <3>2 DEF TableOK
  <2>6. TableOK(drafts, lastDraft)
    BY PullAssumption DEF Init, TableOK
  <2> QED BY <2>4, <2>5, <2>6 DEF BackendOK
<1> QED BY <1>1, <1>2, <1>3, <1>4 DEF PullInv

LEMMA PullAlways == Spec => []PullInv
<1>1. PullInv /\ [Next]_vars => PullInv'
  BY TypeStep, CommandStep, BackendStep, DirsStep, ReportedStep DEF PullInv
<1> QED BY <1>1, InitOK, PTL DEF Spec

------------------------------------------------------------------------------
(* TypeOK: cam.config.json never names a service or a directory twice,       *)
(* whatever commands, failures and interruptions follow one another.         *)
THEOREM TypeCorrect == Spec => []TypeOK
<1> QED BY PullAlways, PTL DEF PullInv

(* FromOneVersion: the code generated for a service is of one version, and   *)
(* of the one its entry asks for when the pull reports success, although     *)
(* every commit between two requests of the pull replaces the rows.          *)
THEOREM FromOneVersionAlways == Spec => []FromOneVersion
<1>1. PullInv => FromOneVersion
  <2>1. SUFFICES ASSUME PullInv, outDir # NULL, NEW n \in DOMAIN outDir, outDir[n] # NULL
                 PROVE  /\ OneVersion(outDir[n])
                        /\ reported => \A i \in DOMAIN config : config[i].name = n =>
                             Matches(outDir[n], config[i])
    BY DEF FromOneVersion, OneVersion, Matches
  <2>2. OneVersion(outDir[n])
    BY <2>1 DEF PullInv, DirsOK
  <2>3. ASSUME reported, NEW i \in DOMAIN config, config[i].name = n
        PROVE  Matches(outDir[n], config[i])
    <3>1. Done(outDir, config, Len(config)) /\ config \in Seq(Entry)
      BY <2>1, <2>3 DEF PullInv, ReportedOK, TypeOK
    <3>2. i \in 1 .. Len(config)
      BY <3>1, LenProperties
    <3> QED BY <2>1, <2>3, <3>1, <3>2 DEF Done
  <2> QED BY <2>2, <2>3
<1> QED BY <1>1, PullAlways, PTL

(* MatchesConfig: a pull that says it is done leaves a directory for each    *)
(* configured service and for no other.                                      *)
THEOREM MatchesConfigAlways == Spec => []MatchesConfig
<1>1. PullInv => MatchesConfig
  <2>1. SUFFICES ASSUME PullInv, reported
                 PROVE  DOMAIN outDir = {config[i].name : i \in DOMAIN config}
    BY DEF MatchesConfig
  <2>2. Done(outDir, config, Len(config)) /\ config \in Seq(Entry)
    BY <2>1 DEF PullInv, ReportedOK, TypeOK
  <2>3. DOMAIN config = 1 .. Len(config)
    BY <2>2, LenProperties
  <2> QED BY <2>2, <2>3, Zenon DEF Done
<1> QED BY <1>1, PullAlways, PTL

==============================================================================
