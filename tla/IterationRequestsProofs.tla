------------------------ MODULE IterationRequestsProofs ------------------------
(* Proofs about overlapping requests on one service, for any users, requests, *)
(* names, saves and bounds: what the database keeps under every overlap.      *)
EXTENDS IterationRequests, TLAPS, FiniteSetTheorems

(* The inductive invariant of every overlap.                                  *)
IsFcn(f) == f = [x \in DOMAIN f |-> f[x]]

\* A table with no two rows of one name
GoodTable(rows) == IsFcn(rows) /\ IsTable(rows) /\ NamesDistinct(rows)

Texts == Descriptions \cup {NULL}

IterationOK(i) ==
  /\ DOMAIN iterations[i] =
       {"creator", "version", "description", "is_committed", "api_drafts"}
  /\ iterations[i].creator \in Users
  /\ iterations[i].version \in Versions \cup {0, 1}
  /\ iterations[i].description \in Texts
  /\ iterations[i].is_committed \in BOOLEAN
  /\ GoodTable(Drafts(i))

TablesOK ==
  /\ service.version \in Versions \cup {1} /\ service.description \in Texts
  /\ GoodTable(published)
  /\ Cardinality(DOMAIN iterations) \in Nat
  /\ DOMAIN iterations = 1 .. Cardinality(DOMAIN iterations)
  /\ \A i \in DOMAIN iterations : IterationOK(i)
  /\ head \in DOMAIN iterations

\* The steps of each handler
AtStep(x) ==
  /\ x.op = "none" => x.at \in {"idle", "ended"}
  /\ x.op = "start" => x.at \in {"apis", "params"}
  /\ x.op = "commit" => x.at \in {"clear", "clearing", "drafts", "lock", "params"}
  /\ x.op \in {"update", "delete"} => x.at \in {"clear", "clearing", "write"}
  /\ x.op \in {"add", "describe"} => x.at = "write"

ArgumentsOK(x) ==
  /\ x.op \in {"none", "start", "commit", "add", "update", "delete", "describe"}
  /\ x.op = "none" => x.user = Nobody
  /\ x.op # "none" => x.user \in Senders
  /\ x.op = "commit" => x.arg \in Versions /\ {x.seen.new, x.seen.old} \subseteq Texts
  /\ x.op = "add" => x.arg \in Names
  /\ x.op = "update" => x.arg.name \in Names /\ x.arg.save \in Saves
  /\ x.op = "describe" => x.arg \in Descriptions

\* A request is at a step of its handler, with the arguments of its operation
\* and a copy of rows in which no name occurs twice.
RequestOK(x) ==
  /\ DOMAIN x = {"op", "at", "user", "it", "arg", "seen", "rows", "todo", "gone"}
  /\ AtStep(x)
  /\ ArgumentsOK(x)
  /\ GoodTable(x.rows)
  /\ x.at \in {"lock", "params"} => x.todo \subseteq DOMAIN x.rows

RequestsOK ==
  /\ DOMAIN req = Requests
  /\ \A r \in Requests :
       /\ RequestOK(req[r])
       /\ req[r].op \notin {"none", "start"} => req[r].it \in DOMAIN iterations

LockHeld ==
  \A r \in Requests : lock = r <=> req[r].op = "commit" /\ req[r].at = "params"

Room == Cardinality(DOMAIN iterations) + Cardinality(InFlight("start")) <= MaxIterations

OverlapInv == TablesOK /\ RequestsOK /\ LockHeld /\ VersionAligned

--------------------------------------------------------------------------------
(* Tables                                                                     *)

(* A row whose name no other row has may be inserted or replace its own.      *)
LEMMA InsertGood ==
  ASSUME NEW rows, GoodTable(rows), NEW id, NEW row \in Row,
         \A x \in DOMAIN rows \ {id} : rows[x].name # row.name
  PROVE  GoodTable(Insert(rows, id, row))
<1> DEFINE new == Insert(rows, id, row)
<1>1. /\ DOMAIN new = DOMAIN rows \cup {id}
      /\ new[id] = row
      /\ \A x \in DOMAIN rows \ {id} : new[x] = rows[x]
      /\ IsFcn(new)
  BY DEF Insert, IsFcn
<1> HIDE DEF new
<1>2. IsTable(new)
  BY <1>1 DEF GoodTable, IsTable
<1>3. NamesDistinct(new)
  BY <1>1 DEF GoodTable, NamesDistinct
<1> QED BY <1>1, <1>2, <1>3 DEF GoodTable, new

(* Rows may be removed.                                                       *)
LEMMA RemoveGood ==
  ASSUME NEW rows, GoodTable(rows), NEW ids
  PROVE  GoodTable(Remove(rows, ids))
BY DEF GoodTable, Remove, IsFcn, IsTable, NamesDistinct

(* Loading the parameters of a row leaves its name.                           *)
LEMMA LoadGood ==
  ASSUME NEW rows, GoodTable(rows), NEW id \in DOMAIN rows, NEW params \in SUBSET Saves
  PROVE  /\ GoodTable([rows EXCEPT ![id].params = params])
         /\ DOMAIN [rows EXCEPT ![id].params = params] = DOMAIN rows
<1> DEFINE new == [rows EXCEPT ![id].params = params]
<1>1. rows[id] \in Row
  BY DEF GoodTable, IsTable
<1>2. /\ DOMAIN new = DOMAIN rows
      /\ new[id] \in Row /\ new[id].name = rows[id].name
      /\ \A x \in DOMAIN rows \ {id} : new[x] = rows[x]
      /\ IsFcn(new)
  BY <1>1 DEF IsFcn, Row
<1> HIDE DEF new
<1>3. IsTable(new)
  BY <1>2 DEF GoodTable, IsTable
<1>4. NamesDistinct(new)
  BY <1>2 DEF GoodTable, NamesDistinct
<1> QED BY <1>2, <1>3, <1>4 DEF GoodTable, new

(* The copies a commit inserts have the rows of the drafts, one per name.     *)
LEMMA NumberedFacts ==
  ASSUME NEW rows, GoodTable(rows), NEW k
  PROVE  /\ GoodTable(Numbered(rows, k))
         /\ Content(Numbered(rows, k)) = Content(rows)
<1> DEFINE new == Numbered(rows, k)
           at(row) == <<k, row.name, NamesOf(rows)>>
<1>1. /\ IsFcn(new)
      /\ DOMAIN new = {at(row) : row \in Content(rows)}
      /\ \A id \in DOMAIN new : new[id] = CHOOSE row \in Content(rows) : row.name = id[2]
  BY DEF Numbered, IsFcn
<1>2. ASSUME NEW row \in Content(rows)
      PROVE  at(row) \in DOMAIN new /\ new[at(row)] = row
  <2>1. at(row) \in DOMAIN new /\ at(row)[2] = row.name
    BY <1>1
  <2>2. \A other \in Content(rows) : other.name = row.name => other = row
    BY DEF Content, GoodTable, NamesDistinct
  <2>3. new[at(row)] = CHOOSE other \in Content(rows) : other.name = row.name
    BY <1>1, <2>1
  <2> QED BY <2>1, <2>2, <2>3
<1>3. \A id \in DOMAIN new : new[id] \in Content(rows) /\ id = at(new[id])
  BY <1>1, <1>2
<1>4. Content(rows) \subseteq Row
  BY DEF Content, GoodTable, IsTable
<1> HIDE DEF new
<1>5. IsTable(new)
  BY <1>3, <1>4 DEF IsTable
<1>6. NamesDistinct(new)
  BY <1>3 DEF NamesDistinct
<1>7. Content(new) = Content(rows)
  BY <1>2, <1>3 DEF Content
<1> QED BY <1>1, <1>5, <1>6, <1>7 DEF GoodTable, new

--------------------------------------------------------------------------------
(* Steps of one request                                                       *)

\* Only r moves.
Moves(r) == DOMAIN req' = Requests /\ \A q \in Requests \ {r} : req'[q] = req[q]

(* What a new request holds.                                                  *)
LEMMA RequestFields ==
  ASSUME NEW op, NEW at, NEW u, NEW i, NEW arg, NEW seen
  PROVE  /\ DOMAIN Request(op, at, u, i, arg, seen) =
              {"op", "at", "user", "it", "arg", "seen", "rows", "todo", "gone"}
         /\ Request(op, at, u, i, arg, seen).op = op
         /\ Request(op, at, u, i, arg, seen).at = at
         /\ Request(op, at, u, i, arg, seen).user = u
         /\ Request(op, at, u, i, arg, seen).it = i
         /\ Request(op, at, u, i, arg, seen).arg = arg
         /\ Request(op, at, u, i, arg, seen).seen = seen
         /\ Request(op, at, u, i, arg, seen).rows = NoRows
         /\ Request(op, at, u, i, arg, seen).todo = {}
         /\ Request(op, at, u, i, arg, seen).gone = {}
BY DEF Request, Idle

LEMMA NoRowsGood == GoodTable(NoRows)
BY DEF GoodTable, NoRows, IsFcn, IsTable, NamesDistinct

LEMMA IdleOK ==
  RequestOK(Idle) /\ Idle.op = "none" /\ RequestOK(Ended) /\ Ended.op = "none"
<1>1. Idle.rows = NoRows /\ Idle.at = "idle" /\ Idle.op = "none" /\ Idle.user = Nobody
  BY DEF Idle
<1>2. /\ Ended.rows = NoRows /\ Ended.at = "ended" /\ Ended.op = "none"
      /\ Ended.user = Nobody /\ DOMAIN Ended = DOMAIN Idle
  BY DEF Ended, Idle
<1>3. RequestOK(Idle)
  BY <1>1, NoRowsGood DEF RequestOK, Idle, AtStep, ArgumentsOK
<1>4. RequestOK(Ended)
  BY <1>2, NoRowsGood DEF RequestOK, Idle, AtStep, ArgumentsOK
<1> QED BY <1>1, <1>2, <1>3, <1>4

(* One request moves and no iteration disappears.                             *)
LEMMA OneMoves ==
  ASSUME RequestsOK, NEW r \in Requests, Moves(r), RequestOK(req'[r]),
         req'[r].op \notin {"none", "start"} => req'[r].it \in DOMAIN iterations',
         DOMAIN iterations \subseteq DOMAIN iterations'
  PROVE  RequestsOK'
<1>1. ASSUME NEW q \in Requests
      PROVE  RequestOK(req'[q]) /\ (req'[q].op \notin {"none", "start"} => req'[q].it \in DOMAIN iterations')
  <2>1. CASE q = r
    BY <2>1
  <2>2. CASE q # r
    <3>1. req'[q] = req[q]
      BY <2>2 DEF Moves
    <3> QED BY <3>1 DEF RequestsOK
  <2> QED BY <2>1, <2>2
<1> QED BY <1>1 DEF RequestsOK, Moves, RequestOK, GoodTable, IsFcn, IsTable, NamesDistinct, ArgumentsOK

(* Steps that leave the tables leave what is said of them.                    *)
LEMMA TablesKept ==
  ASSUME TablesOK, VersionAligned, UNCHANGED <<service, published, iterations, head>>
  PROVE  TablesOK' /\ VersionAligned'
BY DEF TablesOK, VersionAligned, IterationOK, Drafts

(* The end of a request, with or without its writes.                          *)
LEMMA Ends ==
  ASSUME RequestsOK, LockHeld, NEW r \in Requests, End(r)
  PROVE  Moves(r) /\ req'[r] = Ended /\ LockHeld'
<1>1. Moves(r) /\ req'[r] = Ended
  BY DEF RequestsOK, End, Moves
<1>2. ASSUME NEW q \in Requests
      PROVE  (lock' = q) <=> (req'[q].op = "commit" /\ req'[q].at = "params")
  <2>1. CASE q = r
    BY <1>1, <2>1, IdleOK, RequestsAssumption DEF End, Release
  <2>2. CASE q # r
    BY <1>1, <2>2, RequestsAssumption DEF End, Release, LockHeld, Moves
  <2> QED BY <2>1, <2>2
<1> QED BY <1>1, <1>2 DEF LockHeld

LEMMA EndKeeps ==
  ASSUME RequestsOK, LockHeld, NEW r \in Requests, End(r),
         DOMAIN iterations \subseteq DOMAIN iterations'
  PROVE  RequestsOK' /\ LockHeld'
<1>1. Moves(r) /\ req'[r] = Ended /\ LockHeld'
  BY Ends
<1>2. RequestOK(req'[r]) /\ req'[r].op = "none"
  BY <1>1, IdleOK
<1> QED BY <1>1, <1>2, OneMoves

LEMMA AbortKeeps ==
  ASSUME OverlapInv, NEW r \in Requests, Abort(r)
  PROVE  OverlapInv'
<1>1. End(r) /\ UNCHANGED <<service, published, iterations, head>>
  BY DEF Abort
<1>2. RequestsOK' /\ LockHeld'
  BY <1>1, EndKeeps DEF OverlapInv
<1>3. TablesOK' /\ VersionAligned'
  BY <1>1, TablesKept DEF OverlapInv
<1> QED BY <1>2, <1>3 DEF OverlapInv
--------------------------------------------------------------------------------
(* Steps that change no table: r goes on, and its hold on the lock stays.     *)
LEMMA QuietKeeps ==
  ASSUME OverlapInv, NEW r \in Requests, Moves(r), RequestOK(req'[r]),
         req'[r].op \notin {"none", "start"} => req'[r].it \in DOMAIN iterations,
         (req[r].op = "commit" /\ req[r].at = "params")
           <=> (req'[r].op = "commit" /\ req'[r].at = "params"),
         UNCHANGED <<service, published, iterations, head, lock>>
  PROVE  OverlapInv'
<1>1. TablesOK' /\ VersionAligned'
  BY TablesKept DEF OverlapInv
<1>2. RequestsOK'
  BY OneMoves DEF OverlapInv
<1>3. LockHeld'
  BY DEF OverlapInv, LockHeld, Moves
<1> QED BY <1>1, <1>2, <1>3 DEF OverlapInv

LEMMA BeginKeeps ==
  ASSUME OverlapInv, NEW r \in Requests, req[r].at = "idle", NEW x, Begin(r, x),
         RequestOK(x), x.op \notin {"none", "start"} => x.it \in DOMAIN iterations,
         x.at \notin {"lock", "params"}
  PROVE  OverlapInv'
<1>1. Moves(r) /\ req'[r] = x
  BY DEF Begin, OverlapInv, RequestsOK, Moves
<1> QED BY <1>1, QuietKeeps DEF Begin

(* A request that passes its check *)
LEMMA SendKeeps ==
  ASSUME OverlapInv, NEW r \in Requests, NEW u \in Senders, Send(r, u)
  PROVE  OverlapInv'
<1> DEFINE Good(op, at, i, arg, seen) == RequestOK(Request(op, at, u, i, arg, seen))
<1>1. CASE StartCheck(r, u)
  <2>1. Good("start", "apis", 0, NULL, NULL)
    BY RequestFields, NoRowsGood DEF RequestOK, AtStep, ArgumentsOK
  <2> QED BY <1>1, <2>1, RequestFields, BeginKeeps DEF StartCheck, Accepts
<1>2. ASSUME NEW i \in DOMAIN iterations, NEW v \in Versions, CommitCheck(r, u, i, v)
      PROVE  OverlapInv'
  <2> DEFINE seen == [new |-> iterations[i].description, old |-> service.description]
  <2>1. seen.new \in Texts /\ seen.old \in Texts
    BY DEF OverlapInv, TablesOK, IterationOK
  <2> HIDE DEF seen
  <2>2. Good("commit", "clear", i, v, seen)
    BY <2>1, RequestFields, NoRowsGood DEF RequestOK, AtStep, ArgumentsOK
  <2> QED BY <1>2, <2>2, RequestFields, BeginKeeps DEF CommitCheck, Accepts, seen
<1>3. ASSUME NEW i \in DOMAIN iterations, NEW name \in Names, AddCheck(r, u, i, name)
      PROVE  OverlapInv'
  <2>1. Good("add", "write", i, name, NULL)
    BY RequestFields, NoRowsGood DEF RequestOK, AtStep, ArgumentsOK
  <2> QED BY <1>3, <2>1, RequestFields, BeginKeeps DEF AddCheck, Accepts
<1>4. ASSUME NEW i \in DOMAIN iterations, NEW d \in DOMAIN Drafts(i), NEW name \in Names,
             NEW save \in Saves, UpdateCheck(r, u, i, d, name, save)
      PROVE  OverlapInv'
  <2> DEFINE arg == [draft |-> d, name |-> name, save |-> save]
             seen == Drafts(i)[d].name
  <2>1. arg.name \in Names /\ arg.save \in Saves
    OBVIOUS
  <2> HIDE DEF arg, seen
  <2>2. Good("update", "clear", i, arg, seen)
    BY <2>1, RequestFields, NoRowsGood DEF RequestOK, AtStep, ArgumentsOK
  <2> QED BY <1>4, <2>2, RequestFields, BeginKeeps DEF UpdateCheck, Accepts, arg, seen
<1>5. ASSUME NEW i \in DOMAIN iterations, NEW d \in DOMAIN Drafts(i), DeleteCheck(r, u, i, d)
      PROVE  OverlapInv'
  <2>1. Good("delete", "clear", i, [draft |-> d], NULL)
    BY RequestFields, NoRowsGood DEF RequestOK, AtStep, ArgumentsOK
  <2> QED BY <1>5, <2>1, RequestFields, BeginKeeps DEF DeleteCheck, Accepts
<1>6. ASSUME NEW i \in DOMAIN iterations, NEW description \in Descriptions,
             DescribeCheck(r, u, i, description)
      PROVE  OverlapInv'
  <2> DEFINE seen == iterations[i].description
  <2> HIDE DEF seen
  <2>1. Good("describe", "write", i, description, seen)
    BY RequestFields, NoRowsGood DEF RequestOK, AtStep, ArgumentsOK
  <2> QED BY <1>6, <2>1, RequestFields, BeginKeeps DEF DescribeCheck, Accepts, seen
<1> QED BY <1>1, <1>2, <1>3, <1>4, <1>5, <1>6 DEF Send

(* The parameters a row has now are saves.                                    *)
LEMMA ParamsNowTyped ==
  ASSUME NEW rows, IsTable(rows), NEW id
  PROVE  ParamsNow(rows, id) \in SUBSET Saves
BY DEF ParamsNow, IsTable, Row

(* The reads and deletions of a request that goes on.                         *)
LEMMA ReadKeeps ==
  ASSUME OverlapInv, NEW r \in Requests,
         \/ StartReadApis(r) \/ CommitReadDrafts(r) \/ ClearBegin(r) \/ ClearEnd(r)
  PROVE  OverlapInv'
<1>0. RequestOK(req[r]) /\ DOMAIN req = Requests
      /\ (req[r].op \notin {"none", "start"} => req[r].it \in DOMAIN iterations)
  BY DEF OverlapInv, RequestsOK
<1>1. CASE StartReadApis(r)
  <2>1. Moves(r)
    BY <1>0, <1>1 DEF StartReadApis, Moves
  <2>2. /\ DOMAIN req'[r] = DOMAIN req[r] /\ req'[r].at = "params"
        /\ req'[r].rows = published /\ req'[r].todo = DOMAIN published
        /\ req'[r].op = req[r].op /\ req'[r].user = req[r].user /\ req'[r].arg = req[r].arg
    BY <1>0, <1>1 DEF StartReadApis, RequestOK
  <2>3. RequestOK(req'[r])
    BY <1>0, <1>1, <2>2 DEF StartReadApis, RequestOK, AtStep, ArgumentsOK, OverlapInv, TablesOK
  <2> QED BY <1>1, <2>1, <2>2, <2>3, QuietKeeps DEF StartReadApis
<1>2. CASE CommitReadDrafts(r)
  <2>0. req[r].op = "commit"
    BY <1>0, <1>2 DEF CommitReadDrafts, RequestOK, AtStep, ArgumentsOK
  <2>1. Moves(r)
    BY <1>0, <1>2 DEF CommitReadDrafts, Moves
  <2>2. /\ DOMAIN req'[r] = DOMAIN req[r] /\ req'[r].at = "lock"
        /\ req'[r].rows = Drafts(req[r].it) /\ req'[r].todo = DOMAIN Drafts(req[r].it)
        /\ req'[r].op = req[r].op /\ req'[r].user = req[r].user /\ req'[r].arg = req[r].arg
        /\ req'[r].it = req[r].it /\ req'[r].seen = req[r].seen
    BY <1>0, <1>2 DEF CommitReadDrafts, RequestOK, Drafts
  <2>3. GoodTable(Drafts(req[r].it))
    BY <1>0, <2>0 DEF OverlapInv, TablesOK, IterationOK
  <2>4. RequestOK(req'[r])
    BY <1>0, <2>0, <2>2, <2>3 DEF RequestOK, AtStep, ArgumentsOK
  <2> QED BY <1>0, <1>2, <2>0, <2>1, <2>2, <2>4, QuietKeeps DEF CommitReadDrafts
<1>3. CASE ClearBegin(r)
  <2>1. Moves(r)
    BY <1>0, <1>3 DEF ClearBegin, Moves
  <2>2. /\ DOMAIN req'[r] = DOMAIN req[r] /\ req'[r].at = "clearing"
        /\ req'[r].rows = req[r].rows /\ req'[r].seen = req[r].seen
        /\ req'[r].op = req[r].op /\ req'[r].user = req[r].user /\ req'[r].arg = req[r].arg
        /\ req'[r].it = req[r].it
    BY <1>0, <1>3 DEF ClearBegin, RequestOK
  <2>3. RequestOK(req'[r])
    BY <1>0, <1>3, <2>2 DEF ClearBegin, RequestOK, AtStep, ArgumentsOK
  <2> QED BY <1>0, <1>3, <2>1, <2>2, <2>3, QuietKeeps DEF ClearBegin
<1>4. CASE ClearEnd(r)
  <2>1. Moves(r)
    BY <1>0, <1>4 DEF ClearEnd, Moves
  <2>2. /\ DOMAIN req'[r] = DOMAIN req[r]
        /\ req'[r].at = IF req[r].op = "commit" THEN "drafts" ELSE "write"
        /\ req'[r].rows = req[r].rows /\ req'[r].seen = req[r].seen
        /\ req'[r].op = req[r].op /\ req'[r].user = req[r].user /\ req'[r].arg = req[r].arg
        /\ req'[r].it = req[r].it
    BY <1>0, <1>4 DEF ClearEnd, RequestOK
  <2>3. RequestOK(req'[r])
    BY <1>0, <1>4, <2>2 DEF ClearEnd, RequestOK, AtStep, ArgumentsOK
  <2> QED BY <1>0, <1>4, <2>1, <2>2, <2>3, QuietKeeps, SMTT(30) DEF ClearEnd
<1> QED BY <1>1, <1>2, <1>3, <1>4

LEMMA ReadParamsKeeps ==
  ASSUME OverlapInv, NEW r \in Requests, NEW id \in req[r].todo, ReadParams(r, id)
  PROVE  OverlapInv'
<1> DEFINE table == IF req[r].op = "start" THEN published ELSE iterations[req[r].it].api_drafts
           params == ParamsNow(table, id)
<1>0. RequestOK(req[r]) /\ DOMAIN req = Requests /\ req[r].at = "params"
      /\ (req[r].op \notin {"none", "start"} => req[r].it \in DOMAIN iterations)
  BY DEF OverlapInv, RequestsOK, ReadParams
<1>1. req[r].op \in {"start", "commit"} /\ id \in DOMAIN req[r].rows /\ GoodTable(req[r].rows)
  BY <1>0 DEF RequestOK, AtStep, ArgumentsOK
<1>2. IsTable(table)
  BY <1>0, <1>1 DEF OverlapInv, TablesOK, IterationOK, GoodTable, Drafts
<1>3. params \in SUBSET Saves
  BY <1>2, ParamsNowTyped
<1>4. req' = [req EXCEPT ![r].todo = @ \ {id}, ![r].rows[id].params = params]
      /\ UNCHANGED <<service, published, iterations, head, lock>>
  BY DEF ReadParams
<1> HIDE DEF table, params
<1>5. Moves(r)
  BY <1>0, <1>4 DEF Moves
<1>6. /\ DOMAIN req'[r] = DOMAIN req[r]
      /\ req'[r].at = req[r].at
      /\ req'[r].rows = [req[r].rows EXCEPT ![id].params = params] /\ req'[r].seen = req[r].seen
      /\ req'[r].op = req[r].op /\ req'[r].user = req[r].user /\ req'[r].arg = req[r].arg
      /\ req'[r].it = req[r].it /\ req'[r].todo = req[r].todo \ {id}
  BY <1>0, <1>4 DEF RequestOK
<1>7. GoodTable(req'[r].rows) /\ DOMAIN req'[r].rows = DOMAIN req[r].rows
  BY <1>1, <1>3, <1>6, LoadGood
<1>8. RequestOK(req'[r])
  BY <1>0, <1>6, <1>7 DEF RequestOK, AtStep, ArgumentsOK
<1> QED BY <1>0, <1>4, <1>5, <1>6, <1>8, QuietKeeps
--------------------------------------------------------------------------------
(* Writes of an iteration: new drafts, or another description.                *)
LEMMA DraftsKeep ==
  ASSUME TablesOK, VersionAligned, NEW i \in DOMAIN iterations, NEW rows, GoodTable(rows),
         SetDrafts(i, rows)
  PROVE  TablesOK' /\ VersionAligned' /\ DOMAIN iterations' = DOMAIN iterations
<1>1. /\ DOMAIN iterations' = DOMAIN iterations
      /\ UNCHANGED <<service, published, head>>
      /\ \A j \in DOMAIN iterations \ {i} : iterations'[j] = iterations[j]
      /\ iterations'[i] = [iterations[i] EXCEPT !.api_drafts = rows]
  BY DEF SetDrafts
<1>2. /\ DOMAIN iterations'[i] = DOMAIN iterations[i]
      /\ iterations'[i].creator = iterations[i].creator
      /\ iterations'[i].version = iterations[i].version
      /\ iterations'[i].description = iterations[i].description
      /\ iterations'[i].is_committed = iterations[i].is_committed
      /\ iterations'[i].api_drafts = rows
  BY <1>1 DEF TablesOK, IterationOK
<1>3. ASSUME NEW j \in DOMAIN iterations PROVE IterationOK(j)'
  BY <1>1, <1>2 DEF TablesOK, IterationOK, Drafts
<1>4. VersionAligned'
  BY <1>1, <1>2 DEF VersionAligned, TablesOK
<1> QED BY <1>1, <1>3, <1>4 DEF TablesOK

LEMMA DraftsWritten ==
  ASSUME OverlapInv, NEW r \in Requests, req[r].it \in DOMAIN iterations,
         NEW rows, GoodTable(rows), SetDrafts(req[r].it, rows), End(r)
  PROVE  OverlapInv'
<1>1. TablesOK' /\ VersionAligned' /\ DOMAIN iterations' = DOMAIN iterations
  BY DraftsKeep DEF OverlapInv
<1>2. RequestsOK' /\ LockHeld'
  BY <1>1, EndKeeps DEF OverlapInv
<1> QED BY <1>1, <1>2 DEF OverlapInv

LEMMA AddKeeps ==
  ASSUME OverlapInv, NEW r \in Requests, AddWrite(r)
  PROVE  OverlapInv'
<1> DEFINE i == req[r].it
           id == <<Fresh(DraftIds(i)), req[r].arg, {req[r].arg}>>
           row == [name |-> req[r].arg, params |-> {}]
<1>1. i \in DOMAIN iterations /\ req[r].arg \in Names
  BY DEF AddWrite, OverlapInv, RequestsOK, RequestOK, ArgumentsOK
<1>2. CASE Abort(r)
  BY <1>2, AbortKeeps
<1>3. CASE /\ ~NameTaken(i, id, req[r].arg)
           /\ SetDrafts(i, Insert(Drafts(i), id, row)) /\ End(r)
  <2>1. GoodTable(Drafts(i))
    BY <1>1 DEF OverlapInv, TablesOK, IterationOK
  <2>2. row \in Row /\ row.name = req[r].arg
    BY <1>1 DEF Row
  <2> HIDE DEF i, id, row
  <2>3. \A x \in DOMAIN Drafts(i) \ {id} : Drafts(i)[x].name # row.name
    BY <1>3, <2>2 DEF NameTaken
  <2>4. GoodTable(Insert(Drafts(i), id, row))
    BY <2>1, <2>2, <2>3, InsertGood
  <2> QED BY <1>1, <1>3, <2>4, DraftsWritten DEF i
<1> QED BY <1>2, <1>3 DEF AddWrite

LEMMA UpdateKeeps ==
  ASSUME OverlapInv, NEW r \in Requests, UpdateWrite(r)
  PROVE  OverlapInv'
<1> DEFINE i == req[r].it
           d == req[r].arg.draft
           name == IF req[r].arg.name # req[r].seen THEN req[r].arg.name ELSE Drafts(i)[d].name
           row == [name |-> name, params |-> Left(r) \cup {req[r].arg.save}]
<1>1. i \in DOMAIN iterations /\ req[r].arg.name \in Names /\ req[r].arg.save \in Saves
  BY DEF UpdateWrite, OverlapInv, RequestsOK, RequestOK, ArgumentsOK
<1>2. CASE Abort(r)
  BY <1>2, AbortKeeps
<1>3. CASE /\ d \in DOMAIN Drafts(i) /\ ~NameTaken(i, d, name)
           /\ SetDrafts(i, Insert(Drafts(i), d, row)) /\ End(r)
  <2>1. GoodTable(Drafts(i))
    BY <1>1 DEF OverlapInv, TablesOK, IterationOK
  <2>2. name \in Names
    BY <1>1, <1>3, <2>1 DEF GoodTable, IsTable, Row
  <2>3. Left(r) \subseteq Saves
    BY <2>1, ParamsNowTyped DEF Left, GoodTable
  <2>4. row \in Row /\ row.name = name
    BY <1>1, <2>2, <2>3 DEF Row
  <2> HIDE DEF i, d, name, row
  <2>5. \A x \in DOMAIN Drafts(i) \ {d} : Drafts(i)[x].name # row.name
    BY <1>3, <2>4 DEF NameTaken
  <2>6. GoodTable(Insert(Drafts(i), d, row))
    BY <2>1, <2>4, <2>5, InsertGood
  <2> QED BY <1>1, <1>3, <2>6, DraftsWritten DEF i
<1> QED BY <1>2, <1>3 DEF UpdateWrite

LEMMA DeleteKeeps ==
  ASSUME OverlapInv, NEW r \in Requests, DeleteWrite(r)
  PROVE  OverlapInv'
<1> DEFINE i == req[r].it
<1>1. i \in DOMAIN iterations
  BY DEF DeleteWrite, OverlapInv, RequestsOK
<1>2. CASE Abort(r)
  BY <1>2, AbortKeeps
<1>3. CASE SetDrafts(i, Remove(Drafts(i), {req[r].arg.draft})) /\ End(r)
  <2>1. GoodTable(Remove(Drafts(i), {req[r].arg.draft}))
    BY <1>1, RemoveGood DEF OverlapInv, TablesOK, IterationOK
  <2> QED BY <1>1, <1>3, <2>1, DraftsWritten
<1> QED BY <1>2, <1>3 DEF DeleteWrite

LEMMA DescribeKeeps ==
  ASSUME OverlapInv, NEW r \in Requests, DescribeWrite(r)
  PROVE  OverlapInv'
<1> DEFINE i == req[r].it
           text == IF req[r].arg # req[r].seen THEN req[r].arg ELSE iterations[i].description
<1>1. i \in DOMAIN iterations /\ req[r].arg \in Descriptions
  BY DEF DescribeWrite, OverlapInv, RequestsOK, RequestOK, ArgumentsOK
<1>2. /\ iterations' = [iterations EXCEPT ![i] = [iterations[i] EXCEPT !.description = text]]
      /\ UNCHANGED <<service, published, head>>
      /\ End(r)
  BY <1>1 DEF DescribeWrite
<1>3. IterationOK(i)
  BY <1>1 DEF OverlapInv, TablesOK
<1>4. text \in Texts
  BY <1>1, <1>3 DEF IterationOK, Texts
<1> HIDE DEF i, text
<1>5. /\ DOMAIN iterations' = DOMAIN iterations
      /\ \A j \in DOMAIN iterations \ {i} : iterations'[j] = iterations[j]
      /\ DOMAIN iterations'[i] = DOMAIN iterations[i]
      /\ iterations'[i].creator = iterations[i].creator
      /\ iterations'[i].version = iterations[i].version
      /\ iterations'[i].description = text
      /\ iterations'[i].is_committed = iterations[i].is_committed
      /\ iterations'[i].api_drafts = iterations[i].api_drafts
  BY <1>1, <1>2, <1>3 DEF IterationOK
<1>6. ASSUME NEW j \in DOMAIN iterations PROVE IterationOK(j)'
  BY <1>4, <1>5 DEF OverlapInv, TablesOK, IterationOK, Drafts
<1>7. TablesOK'
  BY <1>2, <1>5, <1>6 DEF OverlapInv, TablesOK
<1>8. VersionAligned'
  BY <1>2, <1>5 DEF OverlapInv, VersionAligned, TablesOK
<1>9. RequestsOK' /\ LockHeld'
  BY <1>2, <1>5, EndKeeps DEF OverlapInv
<1> QED BY <1>7, <1>8, <1>9 DEF OverlapInv

--------------------------------------------------------------------------------
(* Start: the new iteration comes after the others.                           *)
LEMMA OpenedFields ==
  ASSUME NEW u, NEW rows
  PROVE  /\ DOMAIN Opened(u, rows) =
              {"creator", "version", "description", "is_committed", "api_drafts"}
         /\ Opened(u, rows).creator = u /\ Opened(u, rows).version = 0
         /\ Opened(u, rows).description = NULL
         /\ Opened(u, rows).is_committed = FALSE /\ Opened(u, rows).api_drafts = rows
BY DEF Opened

LEMMA StartEffect ==
  ASSUME OverlapInv, NEW r \in Requests, StartFinish(r)
  PROVE  LET n == Cardinality(DOMAIN iterations)
         IN  /\ n + 1 \notin DOMAIN iterations
             /\ DOMAIN iterations' = DOMAIN iterations \cup {n + 1}
             /\ DOMAIN iterations' = 1 .. n + 1
             /\ Cardinality(DOMAIN iterations') = n + 1
             /\ \A j \in DOMAIN iterations : iterations'[j] = iterations[j]
             /\ iterations'[n + 1] = Opened(req[r].user, req[r].rows)
<1> DEFINE n == Cardinality(DOMAIN iterations)
           new == Opened(req[r].user, req[r].rows)
<1>1. n \in Nat /\ DOMAIN iterations = 1 .. n
  BY DEF OverlapInv, TablesOK
<1>2. iterations' = Insert(iterations, n + 1, new)
  BY DEF StartFinish
<1> HIDE DEF n, new
<1>3. n + 1 \notin DOMAIN iterations
  BY <1>1
<1>4. /\ DOMAIN iterations' = DOMAIN iterations \cup {n + 1}
      /\ \A j \in DOMAIN iterations : iterations'[j] = iterations[j]
      /\ iterations'[n + 1] = new
  BY <1>2, <1>3 DEF Insert
<1>5. DOMAIN iterations' = 1 .. n + 1
  BY <1>1, <1>4
<1>6. Cardinality(DOMAIN iterations') = n + 1
  BY <1>1, <1>5, FS_Interval
<1> QED BY <1>3, <1>4, <1>5, <1>6 DEF n, new

LEMMA StartKeeps ==
  ASSUME OverlapInv, NEW r \in Requests, StartFinish(r)
  PROVE  OverlapInv'
<1>1. PICK n \in Nat : n = Cardinality(DOMAIN iterations)
  BY DEF OverlapInv, TablesOK
<1>2. /\ n + 1 \notin DOMAIN iterations
      /\ DOMAIN iterations' = DOMAIN iterations \cup {n + 1}
      /\ DOMAIN iterations' = 1 .. n + 1
      /\ Cardinality(DOMAIN iterations') = n + 1
      /\ \A j \in DOMAIN iterations : iterations'[j] = iterations[j]
      /\ iterations'[n + 1] = Opened(req[r].user, req[r].rows)
  BY <1>1, StartEffect
<1>3. UNCHANGED <<service, published, head>> /\ End(r)
  BY DEF StartFinish
<1>4. req[r].user \in Users /\ GoodTable(req[r].rows)
  BY RequestsAssumption DEF StartFinish, OverlapInv, RequestsOK, RequestOK, ArgumentsOK
<1>5. IterationOK(n + 1)'
  <2> DEFINE new == Opened(req[r].user, req[r].rows)
  <2>1. /\ DOMAIN new = {"creator", "version", "description", "is_committed", "api_drafts"}
        /\ new.creator = req[r].user /\ new.version = 0 /\ new.description = NULL
        /\ new.is_committed = FALSE /\ new.api_drafts = req[r].rows
    BY DEF Opened
  <2>2. iterations'[n + 1] = new
    BY <1>2
  <2> HIDE DEF new
  <2> QED BY <1>4, <2>1, <2>2 DEF IterationOK, Drafts, Texts
<1>6. ASSUME NEW j \in DOMAIN iterations PROVE IterationOK(j)'
  BY <1>2 DEF OverlapInv, TablesOK, IterationOK, Drafts
<1>7. \A j \in DOMAIN iterations' : IterationOK(j)'
  BY <1>2, <1>5, <1>6
<1>8. TablesOK'
  <2>1. /\ service.version' \in Versions \cup {1} /\ service.description' \in Texts
        /\ GoodTable(published)' /\ head' \in DOMAIN iterations'
    BY <1>2, <1>3 DEF OverlapInv, TablesOK
  <2>2. Cardinality(DOMAIN iterations') \in Nat
    BY <1>1, <1>2, n + 1 \in Nat, Zenon
  <2>3. DOMAIN iterations' = 1 .. Cardinality(DOMAIN iterations')
    BY <1>2, Zenon
  <2> QED BY <1>7, <2>1, <2>2, <2>3 DEF TablesOK
<1>9. VersionAligned'
  BY <1>2, <1>3 DEF OverlapInv, VersionAligned, TablesOK
<1>10. RequestsOK' /\ LockHeld'
  BY <1>2, <1>3, EndKeeps DEF OverlapInv
<1> QED BY <1>8, <1>9, <1>10 DEF OverlapInv
--------------------------------------------------------------------------------
(* Commit *)
LEMMA CommitLockKeeps ==
  ASSUME OverlapInv, NEW r \in Requests, CommitLock(r)
  PROVE  OverlapInv'
<1>0. RequestOK(req[r]) /\ DOMAIN req = Requests /\ req[r].at = "lock" /\ lock = Nobody
      /\ (req[r].op \notin {"none", "start"} => req[r].it \in DOMAIN iterations)
  BY DEF OverlapInv, RequestsOK, CommitLock
<1>1. req[r].op = "commit"
  BY <1>0 DEF RequestOK, AtStep, ArgumentsOK
<1>2. Moves(r)
  BY <1>0 DEF CommitLock, Moves
<1>3. /\ DOMAIN req'[r] = DOMAIN req[r] /\ req'[r].at = "params"
      /\ req'[r].rows = req[r].rows /\ req'[r].seen = req[r].seen
      /\ req'[r].op = req[r].op /\ req'[r].user = req[r].user /\ req'[r].arg = req[r].arg
      /\ req'[r].it = req[r].it /\ req'[r].todo = req[r].todo
  BY <1>0 DEF CommitLock, RequestOK
<1>4. RequestOK(req'[r])
  BY <1>0, <1>1, <1>3 DEF RequestOK, AtStep, ArgumentsOK
<1>5. UNCHANGED <<service, published, iterations, head>> /\ lock' = r
  BY DEF CommitLock
<1>6. RequestsOK'
  BY <1>0, <1>1, <1>2, <1>3, <1>4, <1>5, OneMoves DEF OverlapInv
<1>7. ASSUME NEW q \in Requests
      PROVE  (lock' = q) <=> (req'[q].op = "commit" /\ req'[q].at = "params")
  <2>1. CASE q = r
    BY <1>1, <1>3, <1>5, <2>1
  <2>2. CASE q # r
    <3>1. lock # q /\ req'[q] = req[q]
      BY <1>0, <1>2, <2>2, RequestsAssumption DEF Moves
    <3> QED BY <1>5, <2>2, <3>1 DEF OverlapInv, LockHeld
  <2> QED BY <2>1, <2>2
<1>8. TablesOK' /\ VersionAligned'
  BY <1>5, TablesKept DEF OverlapInv
<1> QED BY <1>6, <1>7, <1>8 DEF OverlapInv, LockHeld

(* What a commit inserts has no name of a row that stays.                     *)
LEMMA ReplacedGood ==
  ASSUME OverlapInv, NEW r \in Requests, Conflicts(r) = {}
  PROVE  GoodTable(Replaced(r))
<1> DEFINE new == Numbered(req[r].rows, Fresh(ApiIds))
           kept == DOMAIN published \ req[r].gone
           all == Replaced(r)
<1>1. GoodTable(req[r].rows) /\ GoodTable(published)
  BY DEF OverlapInv, RequestsOK, RequestOK, TablesOK
<1>2. GoodTable(new) /\ Content(new) = Content(req[r].rows)
  BY <1>1, NumberedFacts
<1>3. /\ IsFcn(all) /\ DOMAIN all = kept \cup DOMAIN new
      /\ \A id \in DOMAIN new : all[id] = new[id]
      /\ \A id \in kept \ DOMAIN new : all[id] = published[id]
  BY DEF Replaced, IsFcn
<1> HIDE DEF new, all
<1>4. ASSUME NEW x \in kept, NEW y \in DOMAIN new PROVE published[x].name # new[y].name
  <2>1. PICK d \in DOMAIN req[r].rows : req[r].rows[d] = new[y]
    BY <1>2 DEF Content
  <2>2. x \notin Conflicts(r)
    OBVIOUS
  <2> QED BY <2>1, <2>2 DEF Conflicts
<1>5. IsTable(all)
  BY <1>1, <1>2, <1>3 DEF GoodTable, IsTable
<1>6. NamesDistinct(all)
  BY <1>1, <1>2, <1>3, <1>4 DEF GoodTable, NamesDistinct
<1> QED BY <1>3, <1>5, <1>6 DEF GoodTable, all

\* What CommitFinish does to its iteration
LEMMA CommitEffect ==
  ASSUME OverlapInv, NEW r \in Requests, CommitFinish(r)
  PROVE  LET i == req[r].it
         IN  /\ req[r].op = "commit" /\ i \in DOMAIN iterations /\ req[r].arg \in Versions
             /\ DOMAIN iterations' = DOMAIN iterations
             /\ \A j \in DOMAIN iterations \ {i} : iterations'[j] = iterations[j]
             /\ DOMAIN iterations'[i] = DOMAIN iterations[i]
             /\ iterations'[i].creator = iterations[i].creator
             /\ iterations'[i].version = req[r].arg
             /\ iterations'[i].description = iterations[i].description
             /\ iterations'[i].is_committed = TRUE
             /\ iterations'[i].api_drafts = iterations[i].api_drafts
             /\ head' = i /\ service'.version = req[r].arg
             /\ service'.description = IF req[r].seen.new # req[r].seen.old
                                       THEN req[r].seen.new ELSE service.description
<1>1. /\ req[r].op = "commit" /\ req[r].it \in DOMAIN iterations /\ req[r].arg \in Versions
      /\ IterationOK(req[r].it)
  BY DEF CommitFinish, CommitReady, OverlapInv, RequestsOK, RequestOK, ArgumentsOK, TablesOK
<1>2. /\ iterations' = [iterations EXCEPT ![req[r].it] = MarkCommitted(@, req[r].arg)]
      /\ head' = req[r].it
      /\ service' = [version |-> req[r].arg,
                     description |-> IF req[r].seen.new # req[r].seen.old
                                     THEN req[r].seen.new ELSE service.description]
  BY DEF CommitFinish
<1> QED BY <1>1, <1>2 DEF MarkCommitted, IterationOK

LEMMA CommitFinishKeeps ==
  ASSUME OverlapInv, NEW r \in Requests, CommitFinish(r)
  PROVE  OverlapInv'
<1>1. PICK i \in DOMAIN iterations : i = req[r].it
  BY CommitEffect
<1>2. /\ DOMAIN iterations' = DOMAIN iterations
      /\ \A j \in DOMAIN iterations \ {i} : iterations'[j] = iterations[j]
      /\ DOMAIN iterations'[i] = DOMAIN iterations[i]
      /\ iterations'[i].creator = iterations[i].creator
      /\ iterations'[i].version = req[r].arg
      /\ iterations'[i].description = iterations[i].description
      /\ iterations'[i].is_committed = TRUE
      /\ iterations'[i].api_drafts = iterations[i].api_drafts
      /\ head' = i /\ service'.version = req[r].arg
  BY <1>1, CommitEffect
<1>3. req[r].arg \in Versions /\ req[r].op = "commit"
      /\ service'.description = IF req[r].seen.new # req[r].seen.old
                                THEN req[r].seen.new ELSE service.description
  BY CommitEffect
<1>4. service'.description \in Texts
  BY <1>3 DEF OverlapInv, TablesOK, RequestsOK, RequestOK, ArgumentsOK
<1>5. published' = Replaced(r) /\ Conflicts(r) = {} /\ End(r)
  BY DEF CommitFinish
<1>6. GoodTable(published')
  BY <1>5, ReplacedGood
<1>7. ASSUME NEW j \in DOMAIN iterations PROVE IterationOK(j)'
  <2>1. IterationOK(j)
    BY DEF OverlapInv, TablesOK
  <2>2. CASE j = i
    BY <1>2, <1>3, <2>1, <2>2 DEF IterationOK, Drafts
  <2>3. CASE j # i
    BY <1>2, <2>1, <2>3 DEF IterationOK, Drafts
  <2> QED BY <2>2, <2>3
<1>8. TablesOK'
  <2>1. Cardinality(DOMAIN iterations)' \in Nat
        /\ DOMAIN iterations' = 1 .. Cardinality(DOMAIN iterations)'
    BY <1>2 DEF OverlapInv, TablesOK
  <2> QED BY <1>2, <1>3, <1>4, <1>6, <1>7, <2>1 DEF TablesOK, GoodTable, IsFcn, IsTable, NamesDistinct
<1>9. VersionAligned'
  BY <1>1, <1>2 DEF VersionAligned
<1>10. RequestsOK' /\ LockHeld'
  BY <1>2, <1>5, EndKeeps DEF OverlapInv
<1> QED BY <1>8, <1>9, <1>10 DEF OverlapInv

--------------------------------------------------------------------------------
\* What the iterations that are open at the beginning hold
FirstOpen == Remove(FirstRows, {id \in DOMAIN FirstRows : id[2] \notin FirstDrafts})

LEMMA FirstRowsGood == GoodTable(FirstRows) /\ GoodTable(FirstOpen)
<1> DEFINE at(name) == <<1, name, FirstNames>>
           row(name) == [name |-> name, params |-> {FirstSave}]
<1>1. IsFcn(FirstRows) /\ DOMAIN FirstRows = {at(name) : name \in FirstNames}
  BY DEF FirstRows, IsFcn
<1>2. \A name \in FirstNames : FirstRows[at(name)] = row(name)
  BY DEF FirstRows
<1>3. \A name \in FirstNames : row(name) \in Row /\ row(name).name = name
  BY RequestsAssumption DEF Row
<1>4. IsTable(FirstRows)
  <2>1. SUFFICES ASSUME NEW id \in DOMAIN FirstRows PROVE FirstRows[id] \in Row
    BY DEF IsTable
  <2>2. PICK name \in FirstNames : id = at(name)
    BY <1>1
  <2>3. FirstRows[id] = row(name) /\ row(name) \in Row
    BY <2>2, <1>2, <1>3
  <2> QED BY <2>3, Zenon
<1>5. NamesDistinct(FirstRows)
  <2>1. \A id \in DOMAIN FirstRows : id = at(FirstRows[id].name)
    BY <1>1, <1>2, <1>3
  <2> QED BY <2>1 DEF NamesDistinct
<1>6. GoodTable(FirstRows)
  BY <1>1, <1>4, <1>5 DEF GoodTable
<1> QED BY <1>6, RemoveGood DEF FirstOpen

LEMMA FirstIterations ==
  ASSUME Init
  PROVE  /\ DOMAIN iterations = 1 .. 1 + Len(OpenBy) /\ Len(OpenBy) \in Nat
         /\ Cardinality(DOMAIN iterations) = 1 + Len(OpenBy)
         /\ \A i \in DOMAIN iterations : IterationOK(i)
         /\ iterations[1].version = 1 /\ iterations[1].is_committed = TRUE
<1>1. Len(OpenBy) \in Nat /\ DOMAIN OpenBy = 1 .. Len(OpenBy)
      /\ \A k \in DOMAIN OpenBy : OpenBy[k] \in Users
  BY RequestsAssumption
<1>2. DOMAIN iterations = 1 .. 1 + Len(OpenBy)
  BY DEF Init
<1>3. Cardinality(DOMAIN iterations) = 1 + Len(OpenBy)
  BY <1>1, <1>2, FS_Interval
<1>4. iterations[1] = FirstIteration
  BY <1>1 DEF Init
<1>5. /\ DOMAIN iterations[1] = {"creator", "version", "description", "is_committed", "api_drafts"}
      /\ iterations[1].creator = Owner /\ iterations[1].version = 1
      /\ iterations[1].description = NULL /\ iterations[1].is_committed = TRUE
      /\ iterations[1].api_drafts = FirstRows
  BY <1>4 DEF FirstIteration, Opened
<1>6. ASSUME NEW i \in DOMAIN iterations, i # 1
      PROVE  /\ i - 1 \in DOMAIN OpenBy
             /\ DOMAIN iterations[i] = {"creator", "version", "description", "is_committed", "api_drafts"}
             /\ iterations[i].creator = OpenBy[i - 1] /\ iterations[i].version = 0
             /\ iterations[i].description = NULL /\ iterations[i].is_committed = FALSE
             /\ iterations[i].api_drafts = FirstOpen
  <2>1. i - 1 \in DOMAIN OpenBy /\ iterations[i] = Opened(OpenBy[i - 1], FirstOpen)
    BY <1>1, <1>2, <1>6 DEF Init, FirstOpen
  <2>2. PICK rows : rows = FirstOpen
    OBVIOUS
  <2>3. iterations[i] = Opened(OpenBy[i - 1], rows)
    BY <2>1, <2>2
  <2> QED BY <2>1, <2>2, <2>3 DEF Opened
<1>7. ASSUME NEW i \in DOMAIN iterations PROVE IterationOK(i)
  <2>1. CASE i = 1
    BY <1>5, <2>1, FirstRowsGood, RequestsAssumption DEF IterationOK, Drafts, Texts
  <2>2. CASE i # 1
    BY <1>1, <1>6, <2>2, FirstRowsGood DEF IterationOK, Drafts, Texts
  <2> QED BY <2>1, <2>2
<1> QED BY <1>1, <1>2, <1>3, <1>5, <1>7

LEMMA OverlapInit == Init => OverlapInv
<1> SUFFICES ASSUME Init PROVE OverlapInv
  OBVIOUS
<1>1. /\ DOMAIN iterations = 1 .. 1 + Len(OpenBy) /\ Len(OpenBy) \in Nat
      /\ Cardinality(DOMAIN iterations) = 1 + Len(OpenBy)
      /\ \A i \in DOMAIN iterations : IterationOK(i)
      /\ iterations[1].version = 1 /\ iterations[1].is_committed = TRUE
  BY FirstIterations
<1>2. /\ service.version = 1 /\ service.description = NULL
      /\ published = FirstRows /\ head = 1 /\ lock = Nobody
      /\ req = [r \in Requests |-> Idle]
  BY DEF Init
<1>3. head \in DOMAIN iterations
  BY <1>1, <1>2
<1>4. Cardinality(DOMAIN iterations) \in Nat /\ DOMAIN iterations = 1 .. Cardinality(DOMAIN iterations)
  <2>1. 1 + Len(OpenBy) \in Nat
    BY <1>1
  <2> QED BY <1>1, <2>1, Zenon
<1>5. TablesOK
  BY <1>1, <1>2, <1>3, <1>4, FirstRowsGood DEF TablesOK, Texts
<1>6. RequestsOK
  BY <1>2, IdleOK DEF RequestsOK
<1>7. LockHeld
  BY <1>2, IdleOK, RequestsAssumption DEF LockHeld
<1>8. VersionAligned
  BY <1>1, <1>2 DEF VersionAligned
<1> QED BY <1>5, <1>6, <1>7, <1>8 DEF OverlapInv

(* One step per action.                                                       *)
LEMMA OverlapStep == OverlapInv /\ [Next]_vars => OverlapInv'
<1> SUFFICES ASSUME OverlapInv, [Next]_vars PROVE OverlapInv'
  OBVIOUS
<1>1. CASE UNCHANGED vars
  <2>1. UNCHANGED <<service, published, iterations, head>> /\ UNCHANGED <<lock, req>>
    BY <1>1 DEF vars
  <2>2. TablesOK' /\ VersionAligned'
    BY <2>1, TablesKept DEF OverlapInv
  <2> QED BY <2>1, <2>2 DEF OverlapInv, RequestsOK, LockHeld
<1>2. ASSUME NEW r \in Requests, NEW u \in Senders, Send(r, u) PROVE OverlapInv'
  BY <1>2, SendKeeps
<1>3. ASSUME NEW r \in Requests, Serve(r) PROVE OverlapInv'
  BY <1>3, ReadKeeps, ReadParamsKeeps, StartKeeps, AddKeeps, UpdateKeeps, DeleteKeeps,
     DescribeKeeps DEF Serve
<1>4. ASSUME NEW r \in Requests, Wake(r) PROVE OverlapInv'
  <2>1. CASE CommitClash(r)
    BY <2>1, AbortKeeps DEF CommitClash
  <2> QED BY <1>4, <2>1, ReadKeeps, CommitLockKeeps, CommitFinishKeeps DEF Wake
<1>5. ASSUME NEW r \in Requests, NEW q \in Requests, BreakDeadlock(r, q) PROVE OverlapInv'
  BY <1>5, AbortKeeps DEF BreakDeadlock
<1> QED BY <1>1, <1>2, <1>3, <1>4, <1>5 DEF Next

LEMMA OverlapAlways == Spec => []OverlapInv
<1> QED BY OverlapInit, OverlapStep, PTL DEF Spec

(* NamesUnique: uq_api_method_name and uq_api_method_name_draft hold under    *)
(* every overlap of requests, although each handler's own check may be stale  *)
(* when it writes.                                                            *)
THEOREM NamesUniqueAlways == Spec => []NamesUnique
<1>1. OverlapInv => NamesUnique
  BY DEF OverlapInv, TablesOK, IterationOK, GoodTable, NamesUnique
<1> QED BY <1>1, OverlapAlways, PTL

(* VersionAligned: however commits overlap, the version of the Service row is *)
(* that of the iteration committed last.                                      *)
THEOREM VersionAlignedAlways == Spec => []VersionAligned
<1>1. OverlapInv => VersionAligned
  BY DEF OverlapInv
<1> QED BY <1>1, OverlapAlways, PTL
--------------------------------------------------------------------------------
(* The bound on iterations counts the ones that are being started.            *)
NoNewStart ==
  /\ \A q \in Requests : req'[q].op = "start" => req[q].op = "start"
  /\ DOMAIN iterations' = DOMAIN iterations

LEMMA StartsOnly ==
  ASSUME OverlapInv, Next
  PROVE  \/ NoNewStart
         \/ \E r \in Requests : (\E u \in Senders : StartCheck(r, u)) \/ StartFinish(r)
<1>0. DOMAIN req = Requests /\ \A r \in Requests : RequestOK(req[r])
  BY DEF OverlapInv, RequestsOK
<1>1. ASSUME NEW r \in Requests, NEW op, NEW at, NEW u, NEW i, NEW arg, NEW seen,
             op # "start", Begin(r, Request(op, at, u, i, arg, seen))
      PROVE  NoNewStart
  <2>1. req'[r].op = op /\ \A q \in Requests \ {r} : req'[q] = req[q]
    BY <1>0, <1>1, RequestFields DEF Begin
  <2> QED BY <1>1, <2>1 DEF NoNewStart, Begin
<1>2. ASSUME NEW r \in Requests, End(r), DOMAIN iterations' = DOMAIN iterations
      PROVE  NoNewStart
  <2>1. req'[r].op = "none" /\ \A q \in Requests \ {r} : req'[q] = req[q]
    BY <1>2, Ends, IdleOK DEF OverlapInv, Moves
  <2> QED BY <1>2, <2>1 DEF NoNewStart
<1>3. ASSUME NEW r \in Requests, NEW u \in Senders, Send(r, u)
      PROVE  NoNewStart \/ StartCheck(r, u)
  BY <1>1, <1>3 DEF Send, CommitCheck, AddCheck, UpdateCheck, DeleteCheck, DescribeCheck
<1>4. ASSUME NEW r \in Requests, Serve(r) PROVE NoNewStart \/ StartFinish(r)
  <2>1. CASE StartReadApis(r) \/ ClearBegin(r) \/ CommitReadDrafts(r)
    BY <1>0, <2>1 DEF StartReadApis, ClearBegin, CommitReadDrafts, RequestOK, NoNewStart
  <2>2. ASSUME NEW id \in req[r].todo, ReadParams(r, id) PROVE NoNewStart
    BY <1>0, <2>2 DEF ReadParams, RequestOK, NoNewStart
  <2>3. CASE AddWrite(r) \/ UpdateWrite(r) \/ DeleteWrite(r) \/ DescribeWrite(r)
    <3>1. End(r) /\ DOMAIN iterations' = DOMAIN iterations
      BY <2>3 DEF AddWrite, UpdateWrite, DeleteWrite, DescribeWrite, Abort, SetDrafts
    <3> QED BY <1>2, <3>1
  <2> QED BY <1>4, <2>1, <2>2, <2>3 DEF Serve
<1>5. ASSUME NEW r \in Requests, Wake(r) PROVE NoNewStart
  <2>1. CASE ClearEnd(r) \/ CommitLock(r)
    BY <1>0, <2>1 DEF ClearEnd, CommitLock, RequestOK, NoNewStart
  <2>2. CASE CommitFinish(r)
    BY <1>2, <2>2, CommitEffect DEF CommitFinish
  <2>3. CASE CommitClash(r)
    BY <1>2, <2>3 DEF CommitClash, Abort
  <2> QED BY <1>5, <2>1, <2>2, <2>3 DEF Wake
<1>6. ASSUME NEW r \in Requests, NEW q \in Requests, BreakDeadlock(r, q) PROVE NoNewStart
  BY <1>2, <1>6 DEF BreakDeadlock, Abort
<1> QED BY <1>3, <1>4, <1>5, <1>6 DEF Next

LEMMA RoomStep == OverlapInv /\ Room /\ [Next]_vars => Room'
<1> SUFFICES ASSUME OverlapInv, Room, [Next]_vars PROVE Room'
  OBVIOUS
<1> DEFINE S == InFlight("start")
           n == Cardinality(DOMAIN iterations)
<1>0. IsFiniteSet(S) /\ IsFiniteSet(S') /\ Cardinality(S) \in Nat /\ Cardinality(S') \in Nat
  <2>1. S \subseteq Requests /\ S' \subseteq Requests
    BY DEF InFlight
  <2>2. IsFiniteSet(S) /\ IsFiniteSet(S')
    BY <2>1, FS_Subset, RequestsAssumption
  <2> QED BY <2>2, FS_CardinalityType
<1>1. n \in Nat /\ MaxIterations \in Nat
  BY RequestsAssumption DEF OverlapInv, TablesOK
<1>2. CASE NoNewStart
  <2>1. S' \subseteq S /\ n' = n
    BY <1>2 DEF NoNewStart, InFlight
  <2>2. Cardinality(S') <= Cardinality(S)
    BY <1>0, <2>1, FS_Subset
  <2> QED BY <1>0, <1>1, <2>1, <2>2 DEF Room
<1>3. ASSUME NEW r \in Requests, NEW u \in Senders, StartCheck(r, u) PROVE Room'
  <2>1. req' = [req EXCEPT ![r] = Request("start", "apis", u, 0, NULL, NULL)] /\ n' = n
        /\ n + Cardinality(S) < MaxIterations
    BY <1>3 DEF StartCheck, Begin
  <2>2. S' \subseteq S \cup {r}
    BY <2>1 DEF InFlight, OverlapInv, RequestsOK
  <2>3. IsFiniteSet(S \cup {r}) /\ Cardinality(S \cup {r}) <= Cardinality(S) + 1
    <3>1. r \notin S
      BY <1>3 DEF StartCheck, Accepts, InFlight, OverlapInv, RequestsOK, RequestOK, AtStep
    <3>2. IsFiniteSet(S \cup {r}) /\ Cardinality(S \cup {r}) = Cardinality(S) + 1
      BY <1>0, <3>1, FS_AddElement
    <3> QED BY <1>0, <3>2
  <2>4. Cardinality(S') <= Cardinality(S \cup {r}) /\ Cardinality(S \cup {r}) \in Nat
    BY <2>2, <2>3, FS_Subset, FS_CardinalityType
  <2> QED BY <1>0, <1>1, <2>1, <2>3, <2>4 DEF Room
<1>4. ASSUME NEW r \in Requests, StartFinish(r) PROVE Room'
  <2>1. n' = n + 1
    BY <1>4, StartEffect
  <2>2. r \in S
    BY <1>4 DEF InFlight, StartFinish
  <2>3. S' \subseteq S \ {r}
    <3>1. req'[r].op = "none" /\ \A q \in Requests \ {r} : req'[q] = req[q]
      BY <1>4, Ends, IdleOK DEF OverlapInv, Moves, StartFinish
    <3> QED BY <3>1 DEF InFlight
  <2>4. IsFiniteSet(S \ {r}) /\ Cardinality(S \ {r}) = Cardinality(S) - 1
    BY <1>0, <2>2, FS_RemoveElement
  <2>5. Cardinality(S') <= Cardinality(S \ {r})
    BY <2>3, <2>4, FS_Subset
  <2> QED BY <1>0, <1>1, <2>1, <2>4, <2>5 DEF Room
<1>5. CASE UNCHANGED vars
  BY <1>5 DEF vars, Room, InFlight
<1> QED BY <1>2, <1>3, <1>4, <1>5, StartsOnly

LEMMA RoomInit == Init => Room
<1> SUFFICES ASSUME Init PROVE Room
  OBVIOUS
<1>1. InFlight("start") = {}
  BY IdleOK DEF Init, InFlight
<1>2. Cardinality(InFlight("start")) = 0
  BY <1>1, FS_EmptySet
<1>3. Cardinality(DOMAIN iterations) = 1 + Len(OpenBy) /\ Len(OpenBy) \in Nat
  BY FirstIterations
<1> QED BY <1>2, <1>3, RequestsAssumption DEF Room

(* TypeOK: the tables are well formed, and the lock of the Service row is     *)
(* held exactly by a commit between its first flush and its end.              *)
THEOREM TypeCorrect == Spec => []TypeOK
<1>1. OverlapInv /\ Room => TypeOK
  <2> SUFFICES ASSUME OverlapInv, Room PROVE TypeOK
    OBVIOUS
  <2>1. Cardinality(InFlight("start")) \in Nat
    <3>1. IsFiniteSet(InFlight("start"))
      BY FS_Subset, RequestsAssumption DEF InFlight
    <3> QED BY <3>1, FS_CardinalityType
  <2>2. Cardinality(DOMAIN iterations) <= MaxIterations
    BY <2>1, RequestsAssumption DEF OverlapInv, TablesOK, Room
  <2> QED BY <2>2 DEF OverlapInv, TablesOK, LockHeld, IterationOK, GoodTable, TypeOK, Texts
<1> QED BY <1>1, OverlapAlways, OverlapStep, RoomInit, RoomStep, PTL DEF Spec
--------------------------------------------------------------------------------
(* What one commit inserted is deleted as a whole: every DELETE of a commit   *)
(* finds all the rows of another one or none.                                 *)

\* A set of Api ids with which each id all those of its commit are
Whole(ids) ==
  \A id \in ids :
    /\ id = <<id[1], id[2], id[3]>> /\ id[2] \in id[3]
    /\ \A name \in id[3] : <<id[1], name, id[3]>> \in ids

WholeInv ==
  /\ Whole(DOMAIN published)
  /\ \A r \in Requests : req[r].op = "commit" =>
       Whole(req[r].gone) /\ (req[r].at = "clearing" => Whole(req[r].todo))

LEMMA WholeSets ==
  ASSUME NEW S, NEW T, Whole(S), Whole(T)
  PROVE  Whole(S \cap T) /\ Whole(S \cup T) /\ Whole(S \ T)
<1>1. Whole(S \cap T) /\ Whole(S \cup T)
  BY DEF Whole
<1>2. ASSUME NEW id \in S \ T, NEW name \in id[3]
      PROVE  <<id[1], name, id[3]>> \in S \ T
  <2>1. PICK other : other = <<id[1], name, id[3]>>
    OBVIOUS
  <2>2. other[1] = id[1] /\ other[3] = id[3] /\ id = <<id[1], id[2], id[3]>> /\ id[2] \in id[3]
    BY <2>1 DEF Whole
  <2>3. ASSUME other \in T PROVE FALSE
    <3>1. <<other[1], id[2], other[3]>> \in T
      BY <2>2, <2>3 DEF Whole
    <3> QED BY <2>2, <3>1
  <2>4. other \in S
    BY <2>1 DEF Whole
  <2> QED BY <2>1, <2>3, <2>4
<1>3. \A id \in S \ T : id = <<id[1], id[2], id[3]>> /\ id[2] \in id[3]
  BY DEF Whole
<1>4. Whole(S \ T)
  BY <1>2, <1>3 DEF Whole
<1> QED BY <1>1, <1>4

LEMMA BatchWhole ==
  ASSUME NEW k, NEW names
  PROVE  Whole({<<k, name, names>> : name \in names})
BY DEF Whole

(* A request other than a commit, or the end of one, holds nothing.           *)
LEMMA WholeKept ==
  ASSUME OverlapInv, WholeInv, NEW r \in Requests, Moves(r), Whole(DOMAIN published'),
         req'[r].op = "commit" =>
           Whole(req'[r].gone) /\ (req'[r].at = "clearing" => Whole(req'[r].todo))
  PROVE  WholeInv'
<1>1. ASSUME NEW q \in Requests, req'[q].op = "commit"
      PROVE  Whole(req'[q].gone) /\ (req'[q].at = "clearing" => Whole(req'[q].todo))
  <2>1. CASE q = r
    BY <1>1, <2>1
  <2>2. CASE q # r
    <3>1. req'[q] = req[q]
      BY <2>2 DEF Moves
    <3> QED BY <1>1, <3>1 DEF WholeInv
  <2> QED BY <2>1, <2>2
<1> QED BY <1>1 DEF WholeInv, Whole

LEMMA EmptyWhole == Whole({})
BY DEF Whole

LEMMA EndWhole ==
  ASSUME OverlapInv, WholeInv, NEW r \in Requests, End(r), Whole(DOMAIN published')
  PROVE  WholeInv'
<1>1. Moves(r) /\ req'[r] = Ended
  BY Ends DEF OverlapInv
<1>2. req'[r].op = "none"
  BY <1>1, IdleOK
<1> QED BY <1>1, <1>2, WholeKept

LEMMA AbortWhole ==
  ASSUME OverlapInv, WholeInv, NEW r \in Requests, Abort(r)
  PROVE  WholeInv'
BY EndWhole DEF Abort, WholeInv

LEMMA CommitWhole ==
  ASSUME OverlapInv, WholeInv, NEW r \in Requests, CommitFinish(r)
  PROVE  WholeInv'
<1>1. PICK k : k = Fresh(ApiIds)
  OBVIOUS
<1>2. PICK new : new = DOMAIN Numbered(req[r].rows, k)
  OBVIOUS
<1>3. published' = Replaced(r) /\ req[r].op = "commit" /\ End(r)
  BY DEF CommitFinish, CommitReady
<1>4. DOMAIN published' = (DOMAIN published \ req[r].gone) \cup new
  BY <1>1, <1>2, <1>3 DEF Replaced
<1>5. new = {<<k, name, NamesOf(req[r].rows)>> : name \in NamesOf(req[r].rows)}
  BY <1>2 DEF Numbered, NamesOf
<1>6. Whole(new)
  BY <1>5, BatchWhole
<1>7. Whole(DOMAIN published \ req[r].gone)
  BY <1>3, WholeSets DEF WholeInv
<1>8. Whole(DOMAIN published')
  BY <1>4, <1>6, <1>7, WholeSets
<1> QED BY <1>3, <1>8, EndWhole

LEMMA SendWhole ==
  ASSUME OverlapInv, WholeInv, NEW r \in Requests, NEW u \in Senders, Send(r, u)
  PROVE  WholeInv'
<1>1. ASSUME NEW op, NEW at, NEW i, NEW arg, NEW seen,
             Begin(r, Request(op, at, u, i, arg, seen)), at # "clearing"
      PROVE  WholeInv'
  <2>1. Moves(r) /\ req'[r] = Request(op, at, u, i, arg, seen) /\ published' = published
    BY <1>1 DEF Begin, OverlapInv, RequestsOK, Moves
  <2>2. req'[r].gone = {} /\ req'[r].at # "clearing"
    BY <1>1, <2>1, RequestFields
  <2> QED BY <2>1, <2>2, EmptyWhole, WholeKept DEF WholeInv
<1> QED BY <1>1 DEF Send, StartCheck, CommitCheck, AddCheck, UpdateCheck, DeleteCheck, DescribeCheck

LEMMA ServeWhole ==
  ASSUME OverlapInv, WholeInv, NEW r \in Requests,
         Serve(r) \/ ClearEnd(r) \/ CommitLock(r)
  PROVE  WholeInv'
<1>0. DOMAIN req = Requests /\ RequestOK(req[r])
      /\ (req[r].op = "commit" => Whole(req[r].gone))
  BY DEF OverlapInv, RequestsOK, WholeInv
<1>1. CASE StartReadApis(r) \/ CommitReadDrafts(r) \/ CommitLock(r)
  <2>1. /\ Moves(r) /\ req'[r].op = req[r].op /\ req'[r].gone = req[r].gone
        /\ req'[r].at # "clearing" /\ published' = published
    BY <1>0, <1>1 DEF StartReadApis, CommitReadDrafts, CommitLock, Moves, RequestOK
  <2> QED BY <1>0, <2>1, WholeKept DEF WholeInv
<1>2. ASSUME NEW id \in req[r].todo, ReadParams(r, id) PROVE WholeInv'
  <2>1. /\ Moves(r) /\ req'[r].op = req[r].op /\ req'[r].gone = req[r].gone
        /\ req'[r].at # "clearing" /\ published' = published
    BY <1>0, <1>2 DEF ReadParams, Moves, RequestOK
  <2> QED BY <1>0, <2>1, WholeKept DEF WholeInv
<1>3. CASE ClearBegin(r)
  <2>1. /\ Moves(r) /\ req'[r].op = req[r].op /\ req'[r].gone = req[r].gone
        /\ req'[r].todo = Targets(r) /\ published' = published
    BY <1>0, <1>3 DEF ClearBegin, Moves, RequestOK
  <2>2. req[r].op = "commit" => Whole(Targets(r))
    BY DEF WholeInv, Targets
  <2> QED BY <1>0, <2>1, <2>2, WholeKept DEF WholeInv
<1>4. CASE ClearEnd(r)
  <2>1. /\ Moves(r) /\ req'[r].op = req[r].op /\ req'[r].gone = req[r].todo \cap Targets(r)
        /\ req'[r].at # "clearing" /\ req[r].at = "clearing" /\ published' = published
    BY <1>0, <1>4 DEF ClearEnd, Moves, RequestOK
  <2>2. req[r].op = "commit" => Whole(req[r].todo \cap Targets(r))
    BY <2>1, WholeSets DEF WholeInv, Targets
  <2> QED BY <2>1, <2>2, WholeKept DEF WholeInv
<1>5. CASE StartFinish(r) \/ AddWrite(r) \/ UpdateWrite(r) \/ DeleteWrite(r) \/ DescribeWrite(r)
  <2>1. End(r) /\ published' = published
    BY <1>5 DEF StartFinish, AddWrite, UpdateWrite, DeleteWrite, DescribeWrite, Abort, SetDrafts
  <2> QED BY <2>1, EndWhole DEF WholeInv
<1> QED BY <1>1, <1>2, <1>3, <1>4, <1>5 DEF Serve

LEMMA WholeInit == Init => WholeInv
<1> SUFFICES ASSUME Init PROVE WholeInv
  OBVIOUS
<1>1. published = FirstRows /\ req = [r \in Requests |-> Idle]
  BY DEF Init
<1>2. DOMAIN published = {<<1, name, FirstNames>> : name \in FirstNames}
  BY <1>1 DEF FirstRows
<1>3. Whole(DOMAIN published)
  BY <1>2 DEF Whole
<1>4. \A r \in Requests : req[r].op = "none"
  BY <1>1, IdleOK
<1> QED BY <1>3, <1>4 DEF WholeInv

LEMMA WholeStep == OverlapInv /\ WholeInv /\ [Next]_vars => WholeInv'
<1> SUFFICES ASSUME OverlapInv, WholeInv, [Next]_vars PROVE WholeInv'
  OBVIOUS
<1>1. CASE UNCHANGED vars
  BY <1>1 DEF vars, WholeInv
<1>2. ASSUME NEW r \in Requests, NEW u \in Senders, Send(r, u) PROVE WholeInv'
  BY <1>2, SendWhole
<1>3. ASSUME NEW r \in Requests, Serve(r) PROVE WholeInv'
  BY <1>3, ServeWhole
<1>4. ASSUME NEW r \in Requests, Wake(r) PROVE WholeInv'
  <2>1. CASE CommitClash(r)
    BY <2>1, AbortWhole DEF CommitClash
  <2> QED BY <1>4, <2>1, ServeWhole, CommitWhole DEF Wake
<1>5. ASSUME NEW r \in Requests, NEW q \in Requests, BreakDeadlock(r, q) PROVE WholeInv'
  BY <1>5, AbortWhole DEF BreakDeadlock
<1> QED BY <1>1, <1>2, <1>3, <1>4, <1>5 DEF Next

(* PublishedWhole: however commits overlap, clash and are rolled back, the    *)
(* APIs that one commit published stay together until another replaces them   *)
(* all.                                                                       *)
THEOREM PublishedWholeAlways == Spec => []PublishedWhole
<1>1. WholeInv => PublishedWhole
  BY DEF WholeInv, Whole, PublishedWhole
<1> QED BY <1>1, WholeInit, WholeStep, OverlapAlways, PTL DEF Spec
================================================================================
