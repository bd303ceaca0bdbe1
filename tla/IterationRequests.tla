------------------------- MODULE IterationRequests -------------------------
(***************************************************************************)
(* Overlapping requests of the version workflow on one service.  BE-CAM    *)
(* runs every request in a database session of its own, at PostgreSQL's    *)
(* default level READ COMMITTED: a statement sees what was committed when  *)
(* it started, and the writes of a request reach the others when it        *)
(* commits.  A step of this module is therefore one of                     *)
(*   - a check: the reads up to the decision a handler takes from them;    *)
(*   - one later read, or one DELETE, whose result is used after it;       *)
(*   - the writes that end the request, or the rollback they end in.       *)
(* The session is created with autoflush=False, so assignments to a row    *)
(* are written at the next explicit flush or at the commit.                *)
(*                                                                         *)
(* An API is its name (standing for method and name) and its parameters.   *)
(* Parameters are the set of saves they come from: a save inserts a batch  *)
(* of parameter rows, and nothing in the schema keeps two batches apart.   *)
(***************************************************************************)
EXTENDS Integers, Sequences, FiniteSets

CONSTANTS
  Users, Owner,    \* the members of the service and its owner
  Senders,         \* the members who send requests
  Requests,        \* the requests that are sent, each once
  Ops,             \* the operations users send
  OneAtATime,      \* TRUE: a user waits for the answer to a request
  Names, Saves,
  FirstNames, FirstSave,  \* the APIs published at the beginning
  Versions, Descriptions, NULL,
  OpenBy,          \* who has an iteration open at the beginning, and
  FirstDrafts,     \* the APIs that have not been deleted in these
  MaxIterations    \* bound

Nobody == "nobody"

ASSUME RequestsAssumption ==
  /\ Owner \in Users
  /\ Senders \subseteq Users
  /\ Ops \subseteq {"start", "commit", "add", "update", "delete", "describe"}
  /\ OneAtATime \in BOOLEAN
  /\ FirstDrafts \subseteq FirstNames /\ FirstNames \subseteq Names
  /\ FirstSave \in Saves
  /\ Versions \subseteq Nat \ (0 .. 1)
  /\ OpenBy \in Seq(Users)
  /\ NULL \notin Descriptions
  /\ MaxIterations \in Nat /\ 1 + Len(OpenBy) <= MaxIterations
  /\ IsFiniteSet(Requests)
  /\ Nobody \notin Requests \cup Users

VARIABLES
  service,     \* the Service row: version and description
  published,   \* the Api rows by id, as committed in the database
  iterations,  \* the ServiceIteration rows by id, with their drafts by id
  head,        \* history: the iteration committed last
  lock,        \* the request that holds the row lock of the Service row
  req          \* the requests in flight and what they have read

vars == <<service, published, iterations, head, lock, req>>

NoRows == [id \in {} |-> {}]

\* Content of a table of Api or ApiDraft rows, without their ids
Content(rows) == {rows[id] : id \in DOMAIN rows}

NamesOf(rows) == {row.name : row \in Content(rows)}

Insert(table, id, row) ==
  [x \in DOMAIN table \cup {id} |-> IF x = id THEN row ELSE table[x]]

Remove(table, ids) == [x \in DOMAIN table \ ids |-> table[x]]

-----------------------------------------------------------------------------
(* Requests *)

\* at: the next step; it, arg: the request's arguments; seen: what its check
\* loaded; rows: Api or ApiDraft rows it copies; todo: what it has yet to
\* read or delete; gone: rows it has deleted, which the others still see.
Idle == [op |-> "none", at |-> "idle", user |-> Nobody, it |-> 0,
         arg |-> NULL, seen |-> NULL, rows |-> NoRows,
         todo |-> {}, gone |-> {}]

Ended == [Idle EXCEPT !.at = "ended"]

Request(op, at, u, i, arg, seen) ==
  [Idle EXCEPT !.op = op, !.at = at, !.user = u, !.it = i,
               !.arg = arg, !.seen = seen]

InFlight(op) == {r \in Requests : req[r].op = op}

Accepts(r, op, u) ==
  /\ req[r].at = "idle"
  /\ op \in Ops
  /\ OneAtATime => \A q \in Requests : req[q].user # u

\* r passes its check; nothing is written.
Begin(r, request) ==
  /\ req' = [req EXCEPT ![r] = request]
  /\ UNCHANGED <<service, published, iterations, head, lock>>

\* Mutant: the lock outlives the transaction.
MutRelease(r) == lock' = lock

\* The locks of a request end with its transaction.
Release(r) == lock' = IF lock = r THEN Nobody ELSE lock

\* Mutant: the rows a transaction deleted stay locked.
MutEnd(r) == Release(r) /\ req' = [req EXCEPT ![r].at = "ended"]

End(r) == Release(r) /\ req' = [req EXCEPT ![r] = Ended]

\* Rolled back: the client gets an HTTP 500 and nothing is written.
Abort(r) == End(r) /\ UNCHANGED <<service, published, iterations, head>>

\* L0 users are left out: they may do what the owner may.
checkServiceIterationPermission(u, i) ==
  /\ i \in DOMAIN iterations
  /\ ~iterations[i].is_committed
  /\ u \in {Owner, iterations[i].creator}

-----------------------------------------------------------------------------
(* At the beginning the service has been committed once, from iteration 1, *)
(* and the users in OpenBy have each started an iteration from that and    *)
(* deleted the APIs that are not in FirstDrafts.                           *)
FirstRows == [id \in {<<1, name, FirstNames>> : name \in FirstNames} |->
                [name |-> id[2], params |-> {FirstSave}]]

Opened(u, rows) == [creator |-> u, version |-> 0, description |-> NULL,
                    is_committed |-> FALSE, api_drafts |-> rows]

FirstIteration ==
  [Opened(Owner, FirstRows) EXCEPT !.version = 1, !.is_committed = TRUE]

Init ==
  /\ service = [version |-> 1, description |-> NULL]
  /\ published = FirstRows
  /\ iterations = [i \in 1 .. 1 + Len(OpenBy) |->
       IF i = 1 THEN FirstIteration
       ELSE Opened(OpenBy[i - 1],
                   Remove(FirstRows, {id \in DOMAIN FirstRows :
                                        id[2] \notin FirstDrafts}))]
  /\ head = 1
  /\ lock = Nobody
  /\ req = [r \in Requests |-> Idle]

-----------------------------------------------------------------------------
(* serviceStartIteration *)

HasOpenIteration(u) ==
  \E i \in DOMAIN iterations :
    iterations[i].creator = u /\ ~iterations[i].is_committed

\* Finds no open iteration of the user.
StartCheck(r, u) ==
  /\ Accepts(r, "start", u)
  /\ ~HasOpenIteration(u)
  /\ Cardinality(DOMAIN iterations) + Cardinality(InFlight("start"))
       < MaxIterations
  /\ Begin(r, Request("start", "apis", u, 0, NULL, NULL))

\* Reads the Api rows; their parameters are loaded later, API by API.
StartReadApis(r) ==
  /\ req[r].op = "start" /\ req[r].at = "apis"
  /\ req' = [req EXCEPT ![r].at = "params", ![r].rows = published,
                        ![r].todo = DOMAIN published]
  /\ UNCHANGED <<service, published, iterations, head, lock>>

\* The parameters of row id now: none once the row is deleted.
ParamsNow(rows, id) == IF id \in DOMAIN rows THEN rows[id].params ELSE {}

\* Loads the parameters of one row r copies, from the table it copies.
ReadParams(r, id) ==
  /\ req[r].at = "params"
  /\ id \in req[r].todo
  /\ LET table == IF req[r].op = "start" THEN published
                  ELSE iterations[req[r].it].api_drafts
     IN  req' = [req EXCEPT ![r].todo = @ \ {id},
                            ![r].rows[id].params = ParamsNow(table, id)]
  /\ UNCHANGED <<service, published, iterations, head, lock>>

StartFinish(r) ==
  /\ req[r].op = "start" /\ req[r].at = "params" /\ req[r].todo = {}
  /\ iterations' = Insert(iterations, Cardinality(DOMAIN iterations) + 1,
       Opened(req[r].user, req[r].rows))
  /\ End(r)
  /\ UNCHANGED <<service, published, head>>

-----------------------------------------------------------------------------
(* Bulk DELETE, as serviceCommitIteration uses it on the Api rows, and     *)
(* apiUpdateApiByApiDraftId and apiDeleteApiByApiDraftId on the parameter  *)
(* rows of one draft.                                                      *)

\* Mutant: a commit deletes only the APIs that it inserts again.
MutTargets(r) ==
  LET drafts == iterations[req[r].it].api_drafts
  IN  IF req[r].op = "commit"
      THEN {id \in DOMAIN published : published[id].name \in NamesOf(drafts)}
      ELSE {<<req[r].it, req[r].arg.draft, p>> :
              p \in ParamsNow(drafts, req[r].arg.draft)}

\* The rows the statement of r finds now
Targets(r) ==
  IF req[r].op = "commit" THEN DOMAIN published
  ELSE {<<req[r].it, req[r].arg.draft, p>> :
          p \in ParamsNow(iterations[req[r].it].api_drafts, req[r].arg.draft)}

\* The statement starts and takes its snapshot.
ClearBegin(r) ==
  /\ req[r].at = "clear"
  /\ req' = [req EXCEPT ![r].at = "clearing", ![r].todo = Targets(r)]
  /\ UNCHANGED <<service, published, iterations, head, lock>>

\* It waits for every transaction that is deleting one of these rows, then
\* deletes those that are left.  Rows inserted meanwhile are not in its
\* snapshot: they stay.
ClearEnd(r) ==
  /\ req[r].at = "clearing"
  /\ \A q \in Requests \ {r} : req[q].gone \cap req[r].todo = {}
  /\ req' = [req EXCEPT
       ![r].at = IF req[r].op = "commit" THEN "drafts" ELSE "write",
       ![r].gone = req[r].todo \cap Targets(r),
       ![r].todo = {}]
  /\ UNCHANGED <<service, published, iterations, head, lock>>

-----------------------------------------------------------------------------
(* serviceCommitIteration *)

\* Loads iteration and service; description and version are only assigned.
CommitCheck(r, u, i, v) ==
  /\ Accepts(r, "commit", u)
  /\ checkServiceIterationPermission(u, i)
  /\ v # service.version
  /\ Begin(r, Request("commit", "clear", u, i, v,
                      [new |-> iterations[i].description,
                       old |-> service.description]))

CommitReadDrafts(r) ==
  /\ req[r].at = "drafts"
  /\ LET drafts == iterations[req[r].it].api_drafts
     IN  req' = [req EXCEPT ![r].at = "lock", ![r].rows = drafts,
                            ![r].todo = DOMAIN drafts]
  /\ UNCHANGED <<service, published, iterations, head, lock>>

\* The first flush updates the Service row and keeps its lock.
CommitLock(r) ==
  /\ req[r].at = "lock"
  /\ lock = Nobody
  /\ lock' = r
  /\ req' = [req EXCEPT ![r].at = "params"]
  /\ UNCHANGED <<service, published, iterations, head>>

\* Published rows, not deleted by r itself, with a name r wants to insert
Conflicts(r) ==
  {id \in DOMAIN published \ req[r].gone :
     \E d \in DOMAIN req[r].rows : req[r].rows[d].name = published[id].name}

\* An insert waits for a transaction that is deleting the row in its way.
WaitsFor(r, q) == r # q /\ Conflicts(r) \cap req[q].gone # {}

CommitReady(r) ==
  /\ req[r].op = "commit" /\ req[r].at = "params" /\ req[r].todo = {}
  /\ \A q \in Requests : ~WaitsFor(r, q)

\* A batch number that no id in use has.  The id of an Api row is the number
\* of the commit that inserted it, its name and, as history, the names that
\* were inserted with it.
Fresh(ids) ==
  LET used == {id[1] : id \in ids}
  IN  CHOOSE k \in 1 .. Cardinality(used) + 1 :
        k \notin used /\ \A j \in 1 .. k - 1 : j \in used

Numbered(rows, k) ==
  [id \in {<<k, row.name, NamesOf(rows)>> : row \in Content(rows)} |->
     CHOOSE row \in Content(rows) : row.name = id[2]]

ApiIds ==
  DOMAIN published \cup
  (UNION {req[q].todo \cup DOMAIN req[q].rows : q \in InFlight("start")}) \cup
  (UNION {req[q].todo \cup req[q].gone : q \in InFlight("commit")})

\* The Api table when r has deleted and inserted
Replaced(r) ==
  LET new  == Numbered(req[r].rows, Fresh(ApiIds))
      kept == DOMAIN published \ req[r].gone
  IN  [id \in kept \cup DOMAIN new |->
         IF id \in DOMAIN new THEN new[id] ELSE published[id]]

\* Mutant: an iteration that is committed already keeps its version.
MutMarkCommitted(iteration, version) ==
  IF iteration.is_committed THEN iteration
  ELSE [iteration EXCEPT !.version = version, !.is_committed = TRUE]

MarkCommitted(iteration, version) ==
  [iteration EXCEPT !.version = version, !.is_committed = TRUE]

\* Only a description that differs from the one loaded is written.
CommitFinish(r) ==
  /\ CommitReady(r)
  /\ Conflicts(r) = {}
  /\ published' = Replaced(r)
  /\ service' = [version |-> req[r].arg,
                 description |-> IF req[r].seen.new # req[r].seen.old
                                 THEN req[r].seen.new
                                 ELSE service.description]
  /\ iterations' = [iterations EXCEPT ![req[r].it] =
                       MarkCommitted(@, req[r].arg)]
  /\ head' = req[r].it
  /\ End(r)

\* uq_api_method_name: a row of another commit has the name.
CommitClash(r) ==
  /\ CommitReady(r)
  /\ Conflicts(r) # {}
  /\ Abort(r)

\* r holds the Service row and waits for a row that q deletes, while q waits
\* for the Service row: the database rolls one of them back.
BreakDeadlock(r, q) ==
  /\ lock = r
  /\ req[r].at = "params" /\ req[r].todo = {}
  /\ WaitsFor(r, q)
  /\ req[q].at = "lock"
  /\ \E victim \in {r, q} : Abort(victim)

-----------------------------------------------------------------------------
(* Edits of the drafts.  No handler looks at is_committed again after its  *)
(* check.                                                                  *)

Drafts(i) == iterations[i].api_drafts

SetDrafts(i, rows) ==
  /\ iterations' = [iterations EXCEPT ![i].api_drafts = rows]
  /\ UNCHANGED <<service, published, head>>

\* apiAddApi looks for the name in the published APIs and in the drafts.
AddCheck(r, u, i, name) ==
  /\ Accepts(r, "add", u)
  /\ checkServiceIterationPermission(u, i)
  /\ name \notin NamesOf(published) \cup NamesOf(Drafts(i))
  /\ Begin(r, Request("add", "write", u, i, name, NULL))

\* Draft ids in use in iteration i
DraftIds(i) ==
  DOMAIN Drafts(i) \cup
  (UNION {DOMAIN req[q].rows : q \in {c \in InFlight("commit") : req[c].it = i}}) \cup
  {req[q].arg.draft : q \in {e \in InFlight("update") \cup InFlight("delete") :
                              req[e].it = i}}

\* Mutant: no unique constraint on the drafts.
MutNameTaken(i, d, name) == FALSE

\* Is the name taken by another draft of i?  (uq_api_method_name_draft)
NameTaken(i, d, name) ==
  \E id \in DOMAIN Drafts(i) \ {d} : Drafts(i)[id].name = name

AddWrite(r) ==
  /\ req[r].op = "add"
  /\ LET i  == req[r].it
         id == <<Fresh(DraftIds(i)), req[r].arg, {req[r].arg}>>
     IN  IF NameTaken(i, id, req[r].arg)
         THEN Abort(r)
         ELSE /\ SetDrafts(i, Insert(Drafts(i), id,
                                     [name |-> req[r].arg, params |-> {}]))
              /\ End(r)

\* Is save a new batch of rows for draft d of i?  Row ids are never reused.
NewSave(i, d, save) ==
  /\ save \notin Drafts(i)[d].params
  /\ \A q \in InFlight("update") \cup InFlight("delete") :
       /\ <<i, d, save>> \notin req[q].todo \cup req[q].gone
       /\ req[q].op = "update" /\ req[q].it = i /\ req[q].arg.draft = d
            => req[q].arg.save # save

\* apiUpdateApiByApiDraftId loads the draft.
UpdateCheck(r, u, i, d, name, save) ==
  /\ Accepts(r, "update", u)
  /\ checkServiceIterationPermission(u, i)
  /\ d \in DOMAIN Drafts(i)
  /\ NewSave(i, d, save)
  /\ Begin(r, Request("update", "clear", u, i,
                      [draft |-> d, name |-> name, save |-> save],
                      Drafts(i)[d].name))

\* The parameters left after the DELETE of r
Left(r) ==
  {p \in ParamsNow(Drafts(req[r].it), req[r].arg.draft) :
     <<req[r].it, req[r].arg.draft, p>> \notin req[r].gone}

\* Only a name that differs from the one loaded is written; a draft that is
\* gone, or a name that is taken, rolls the request back.
UpdateWrite(r) ==
  /\ req[r].op = "update" /\ req[r].at = "write"
  /\ LET i    == req[r].it
         d    == req[r].arg.draft
         name == IF req[r].arg.name # req[r].seen THEN req[r].arg.name
                 ELSE Drafts(i)[d].name
     IN  IF d \notin DOMAIN Drafts(i) \/ NameTaken(i, d, name)
         THEN Abort(r)
         ELSE /\ SetDrafts(i, Insert(Drafts(i), d,
                  [name |-> name, params |-> Left(r) \cup {req[r].arg.save}]))
              /\ End(r)

\* apiDeleteApiByApiDraftId
DeleteCheck(r, u, i, d) ==
  /\ Accepts(r, "delete", u)
  /\ checkServiceIterationPermission(u, i)
  /\ d \in DOMAIN Drafts(i)
  /\ Begin(r, Request("delete", "clear", u, i, [draft |-> d], NULL))

\* Parameters that were saved meanwhile would lose their draft, and their
\* api_draft_id is NOT NULL: the request is rolled back.
DeleteWrite(r) ==
  /\ req[r].op = "delete" /\ req[r].at = "write"
  /\ IF Left(r) # {}
     THEN Abort(r)
     ELSE /\ SetDrafts(req[r].it, Remove(Drafts(req[r].it), {req[r].arg.draft}))
          /\ End(r)

\* serviceUpdateDescription
DescribeCheck(r, u, i, description) ==
  /\ Accepts(r, "describe", u)
  /\ checkServiceIterationPermission(u, i)
  /\ Begin(r, Request("describe", "write", u, i, description,
                      iterations[i].description))

DescribeWrite(r) ==
  /\ req[r].op = "describe"
  /\ iterations' = [iterations EXCEPT ![req[r].it].description =
       IF req[r].arg # req[r].seen THEN req[r].arg ELSE @]
  /\ End(r)
  /\ UNCHANGED <<service, published, head>>

-----------------------------------------------------------------------------
\* A user sends a request that passes its check.
Send(r, u) ==
  \/ StartCheck(r, u)
  \/ \E i \in DOMAIN iterations :
       \/ \E v \in Versions : CommitCheck(r, u, i, v)
       \/ \E name \in Names : AddCheck(r, u, i, name)
       \/ \E d \in DOMAIN Drafts(i), name \in Names, save \in Saves :
            UpdateCheck(r, u, i, d, name, save)
       \/ \E d \in DOMAIN Drafts(i) : DeleteCheck(r, u, i, d)
       \/ \E description \in Descriptions : DescribeCheck(r, u, i, description)

\* The server and the database carry it on.
Serve(r) ==
  \/ StartReadApis(r)
  \/ \E id \in req[r].todo : ReadParams(r, id)
  \/ StartFinish(r)
  \/ ClearBegin(r)
  \/ CommitReadDrafts(r)
  \/ AddWrite(r)
  \/ UpdateWrite(r)
  \/ DeleteWrite(r)
  \/ DescribeWrite(r)

\* The steps that may find a row locked.
Wake(r) == ClearEnd(r) \/ CommitLock(r) \/ CommitFinish(r) \/ CommitClash(r)

Next ==
  \E r \in Requests :
    \/ \E u \in Senders : Send(r, u)
    \/ Serve(r)
    \/ Wake(r)
    \/ \E q \in Requests : BreakDeadlock(r, q)

(* A request that can proceed does so: handlers wait for each other only   *)
(* in the database, which breaks a deadlock and, when a transaction ends,  *)
(* wakes those that wait for its rows before later ones get them (strong   *)
(* fairness of Wake).  Nobody has to send a request.                       *)
Fairness ==
  \A r \in Requests :
    /\ WF_vars(Serve(r))
    /\ SF_vars(Wake(r))
    /\ WF_vars(\E q \in Requests : BreakDeadlock(r, q))

Spec == Init /\ [][Next]_vars /\ Fairness

-----------------------------------------------------------------------------
(* Types *)

Row == [name: Names, params: SUBSET Saves]

IsTable(rows) == \A id \in DOMAIN rows : rows[id] \in Row

(* The tables are well formed and the lock of the Service row is held only *)
(* by a commit that is between its first flush and its end.                *)
TypeOK ==
  /\ service.version \in Versions \cup {1}
  /\ service.description \in Descriptions \cup {NULL}
  /\ IsTable(published)
  /\ DOMAIN iterations = 1 .. Cardinality(DOMAIN iterations)
  /\ Cardinality(DOMAIN iterations) <= MaxIterations
  /\ \A i \in DOMAIN iterations :
       /\ iterations[i].creator \in Users
       /\ iterations[i].version \in Versions \cup {0, 1}
       /\ iterations[i].description \in Descriptions \cup {NULL}
       /\ iterations[i].is_committed \in BOOLEAN
       /\ IsTable(Drafts(i))
  /\ head \in DOMAIN iterations
  /\ \A r \in Requests : lock = r <=>
       req[r].op = "commit" /\ req[r].at = "params"

-----------------------------------------------------------------------------
(* What survives any overlap *)

(* However requests overlap, no two published APIs and no two drafts of an *)
(* iteration have the same method and name: the constraints hold where the *)
(* checks of the handlers are stale.                                       *)
NamesDistinct(rows) ==
  \A x, y \in DOMAIN rows : rows[x].name = rows[y].name => x = y

NamesUnique ==
  /\ NamesDistinct(published)
  /\ \A i \in DOMAIN iterations : NamesDistinct(Drafts(i))

(* However commits overlap, the version of the Service row is the version  *)
(* of the iteration that was committed last, and that one is committed:    *)
(* the row lock puts the two updates of different commits in one order.    *)
VersionAligned ==
  /\ iterations[head].is_committed
  /\ iterations[head].version = service.version

(* However commits overlap, fail and are rolled back, what one of them     *)
(* published is replaced as a whole: as long as one of the APIs it         *)
(* inserted is published, all are.                                         *)
PublishedWhole ==
  \A id \in DOMAIN published : \A name \in id[3] :
    <<id[1], name, id[3]>> \in DOMAIN published

(* Every request ends: no wait for a row, a name or the Service row lasts  *)
(* for ever.                                                               *)
RequestsEnd ==
  \A r \in Requests : req[r].at # "idle" ~> req[r].at = "ended"

-----------------------------------------------------------------------------
(* What overlapping requests break *)

(* BE-CAM/README.md: a user has at most one iteration of a service open.   *)
OneOpenPerUser ==
  \A i, j \in DOMAIN iterations :
    /\ ~iterations[i].is_committed
    /\ ~iterations[j].is_committed
    /\ iterations[i].creator = iterations[j].creator
    => i = j

(* models.py: the latest version is consistent with Service.  The APIs and *)
(* the description that are published are those of the iteration committed *)
(* last.                                                                   *)
LatestPublished ==
  /\ Content(published) = Content(Drafts(head))
  /\ service.description = iterations[head].description

=============================================================================
