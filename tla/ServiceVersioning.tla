------------------------- MODULE ServiceVersioning -------------------------
(***************************************************************************)
(* The version workflow of the CAM backend (BE-CAM), one action per        *)
(* request handler.  A service has a published version (the rows of Service*)
(* and Api) and iterations (ServiceIteration and its ApiDraft rows): an    *)
(* iteration starts as a copy of the published version, is edited as a     *)
(* draft, and becomes the published version when it is committed.          *)
(*                                                                         *)
(* Here every handler is one step: this is what the code does when         *)
(* requests do not overlap.  Module IterationRequests splits the handlers  *)
(* at their database statements.                                           *)
(*                                                                         *)
(* A request that is refused (an early return with a negative status) or   *)
(* that a database constraint rolls back (an HTTP 500) changes nothing, so *)
(* it is a stuttering step: its condition is a guard of the action.        *)
(***************************************************************************)
EXTENDS Integers, Sequences

CONSTANTS
  Users,           \* accounts; accounts are never removed
  L0,              \* the users of level L0, who may act on any service
  Services,        \* service_uuids that can be registered
  Tokens,          \* the pieces that names and paths are made of
  Names, Paths,    \* names and paths a user types
  Stamps,          \* int(time.time()) values
  Methods,
  Bodies,          \* an API's request and response parameter trees
  EmptyBody,       \* no parameters: an API that was just added
  Versions,        \* x.y.z numbers, ordered as the numbers of this set
  InitVersion,     \* 0.0.1
  Descriptions, NULL,
  CategoryNames,
  WebForm,         \* TRUE: commits come through the web form, on a fresh page
  MaxIterations, MaxCategories, MaxCopies  \* bounds

Text == Seq(Tokens)

ASSUME UsersAssumption == L0 \subseteq Users
ASSUME TextAssumption ==
  /\ Names \subseteq Text
  /\ Paths \subseteq Text
  /\ Stamps \subseteq Tokens
ASSUME BodiesAssumption == EmptyBody \in Bodies
ASSUME VersionsAssumption ==
  /\ Versions \subseteq Nat \ {0}
  /\ InitVersion \in Versions
ASSUME DescriptionsAssumption == NULL \notin Descriptions
ASSUME BoundsAssumption ==
  /\ WebForm \in BOOLEAN
  /\ MaxIterations \in Nat
  /\ MaxCategories \in Nat
  /\ MaxCopies \in Nat

VARIABLES
  services,    \* the Service rows by service_uuid, each with its Api rows
  iterations,  \* the ServiceIteration rows by id, each with its ApiDraft rows
  categories,  \* the ApiCategory rows by id
  iterationSeq, categorySeq,  \* the last id each autoincrement column gave out
  head         \* history: the iteration each service was last committed from

vars == <<services, iterations, categories, iterationSeq, categorySeq, head>>

NoVersion == 0     \* version IS NULL
NoCategory == 0    \* category_id IS NULL
NoIteration == 0

(***************************************************************************)
(* Rows.  An Api or ApiDraft row is identified by its content: the         *)
(* (method, name) constraint leaves no two equal rows in one service or    *)
(* iteration, and a handler given an id acts on the row that has it.       *)
(***************************************************************************)
ApiRow ==
  [name: Text, method: Methods, path: Text, category: Nat, body: Bodies]

ServiceRow ==
  [owner: Users, maintainers: SUBSET Users, version: Versions,
   description: Descriptions \cup {NULL}, is_deleted: BOOLEAN,
   apis: SUBSET ApiRow]

IterationRow ==
  [service: Services, creator: Users, version: Versions \cup {NoVersion},
   description: Descriptions \cup {NULL}, is_committed: BOOLEAN,
   api_drafts: SUBSET ApiRow]

CategoryRow == [service: Services, name: CategoryNames]

(* Every row of every table is well formed, no id is ahead of the sequence *)
(* it came from, every iteration and category belongs to a service that    *)
(* exists (the foreign keys of models.py), and only such a service has     *)
(* been committed to.                                                      *)
TypeOK ==
  /\ DOMAIN services \subseteq Services
  /\ services \in [DOMAIN services -> ServiceRow]
  /\ iterationSeq \in 0 .. MaxIterations
  /\ DOMAIN iterations \subseteq 1 .. iterationSeq
  /\ iterations \in [DOMAIN iterations -> IterationRow]
  /\ \A i \in DOMAIN iterations : iterations[i].service \in DOMAIN services
  /\ categorySeq \in 0 .. MaxCategories
  /\ DOMAIN categories \subseteq 1 .. categorySeq
  /\ categories \in [DOMAIN categories -> CategoryRow]
  /\ \A c \in DOMAIN categories : categories[c].service \in DOMAIN services
  /\ head \in [Services -> 0 .. iterationSeq]
  /\ \A s \in Services \ DOMAIN services : head[s] = NoIteration

Insert(table, id, row) ==
  [x \in DOMAIN table \cup {id} |-> IF x = id THEN row ELSE table[x]]

Remove(table, id) == [x \in DOMAIN table \ {id} |-> table[x]]

-----------------------------------------------------------------------------
(* Who may do what *)

\* May u act on service s?  (owner, maintainer or L0)
IsMember(u, s) ==
  u = services[s].owner \/ u \in services[s].maintainers \/ u \in L0

IsOwner(u, s) == u = services[s].owner \/ u \in L0

\* Mutant: committed iterations stay editable.
MutPermission(u, i) ==
  /\ i \in DOMAIN iterations
  /\ IsOwner(u, iterations[i].service) \/ u = iterations[i].creator

checkServiceIterationPermission(u, i) ==
  /\ i \in DOMAIN iterations
  /\ ~iterations[i].is_committed
  /\ IsOwner(u, iterations[i].service) \/ u = iterations[i].creator

-----------------------------------------------------------------------------
(* Services *)

Init ==
  /\ services = [s \in {} |-> {}]
  /\ iterations = [i \in {} |-> {}]
  /\ categories = [c \in {} |-> {}]
  /\ iterationSeq = 0
  /\ categorySeq = 0
  /\ head = [s \in Services |-> NoIteration]

\* The uuid must be new: deleted services keep theirs.
CreateNewService(u, s, description) ==
  /\ s \notin DOMAIN services
  /\ services' = Insert(services, s,
       [owner |-> u, maintainers |-> {}, version |-> InitVersion,
        description |-> description, is_deleted |-> FALSE, apis |-> {}])
  /\ UNCHANGED <<iterations, categories, iterationSeq, categorySeq, head>>

\* Deletion is soft, touches only the Service row and may be repeated.
DeleteServiceById(u, s) ==
  /\ s \in DOMAIN services
  /\ IsOwner(u, s)
  /\ services' = [services EXCEPT ![s].is_deleted = TRUE]
  /\ UNCHANGED <<iterations, categories, iterationSeq, categorySeq, head>>

RestoreServiceById(u, s) ==
  /\ s \in DOMAIN services
  /\ IsOwner(u, s)
  /\ services[s].is_deleted
  /\ services' = [services EXCEPT ![s].is_deleted = FALSE]
  /\ UNCHANGED <<iterations, categories, iterationSeq, categorySeq, head>>

\* Toggles the candidate's membership.
AddOrRemoveServiceMaintainerById(u, s, candidate) ==
  /\ s \in DOMAIN services
  /\ IsOwner(u, s)
  /\ candidate # services[s].owner
  /\ services' = [services EXCEPT ![s].maintainers =
       IF candidate \in @ THEN @ \ {candidate} ELSE @ \cup {candidate}]
  /\ UNCHANGED <<iterations, categories, iterationSeq, categorySeq, head>>

-----------------------------------------------------------------------------
(* Iterations *)

HasOpenIteration(u, s) ==
  \E i \in DOMAIN iterations :
    /\ iterations[i].service = s
    /\ iterations[i].creator = u
    /\ ~iterations[i].is_committed

\* A user with an open iteration of s is sent back to it (status 201);
\* otherwise the published APIs are copied.  The description is not.
StartIteration(u, s) ==
  /\ s \in DOMAIN services
  /\ IsMember(u, s)
  /\ ~HasOpenIteration(u, s)
  /\ iterationSeq < MaxIterations
  /\ iterationSeq' = iterationSeq + 1
  /\ iterations' = Insert(iterations, iterationSeq + 1,
       [service |-> s, creator |-> u, version |-> NoVersion,
        description |-> NULL, is_committed |-> FALSE,
        api_drafts |-> services[s].apis])
  /\ UNCHANGED <<services, categories, categorySeq, head>>

UpdateDescription(u, i, description) ==
  /\ checkServiceIterationPermission(u, i)
  /\ iterations' = [iterations EXCEPT ![i].description = description]
  /\ UNCHANGED <<services, categories, iterationSeq, categorySeq, head>>

\* Mutant: the form accepts any version.
MutValidateVersion(current, version) == TRUE

\* The web form lets no version through that is smaller than the one shown.
validateVersion(current, version) == WebForm => version >= current

\* Mutant: the iteration is never marked as committed.
MutMarkCommitted(row, version) == [row EXCEPT !.version = version]

MarkCommitted(row, version) ==
  [row EXCEPT !.version = version, !.is_committed = TRUE]

\* Mutant: the published APIs are kept and the drafts added to them.
MutPublish(row, iteration, version) ==
  [row EXCEPT !.description = iteration.description,
              !.version = version,
              !.apis = @ \cup iteration.api_drafts]

\* Mutant: the version is read from the iteration, which has none yet.
MutPublishVersion(row, iteration, version) ==
  [row EXCEPT !.description = iteration.description,
              !.version = iteration.version,
              !.apis = iteration.api_drafts]

\* The Service row takes description and version, its Api rows are deleted
\* and the drafts inserted in their place.
Publish(row, iteration, version) ==
  [row EXCEPT !.description = iteration.description,
              !.version = version,
              !.apis = iteration.api_drafts]

\* Mutant: the current version may be committed again.
MutVersionIsNew(current, version) == validateVersion(current, version)

VersionIsNew(current, version) ==
  version # current /\ validateVersion(current, version)

\* The mail that follows the commit changes nothing, sent or not.
CommitIteration(u, i, version) ==
  /\ checkServiceIterationPermission(u, i)
  /\ LET s == iterations[i].service
     IN  /\ VersionIsNew(services[s].version, version)
         /\ services' = [services EXCEPT ![s] =
              Publish(@, iterations[i], version)]
         /\ iterations' = [iterations EXCEPT ![i] = MarkCommitted(@, version)]
         /\ head' = [head EXCEPT ![s] = i]
  /\ UNCHANGED <<categories, iterationSeq, categorySeq>>

\* ApiDraft.service_iteration_id is NOT NULL and the relationship has no
\* delete cascade, so an iteration that has drafts cannot be deleted.
Deletable(i) == iterations[i].api_drafts = {}

DeleteIterationById(u, i) ==
  /\ i \in DOMAIN iterations
  /\ IsOwner(u, iterations[i].service) \/ u = iterations[i].creator
  /\ Deletable(i)
  /\ iterations' = Remove(iterations, i)
  /\ UNCHANGED <<services, categories, iterationSeq, categorySeq, head>>

-----------------------------------------------------------------------------
(* Drafts *)

\* Is (method, name) free in rows?  (uq_api_method_name, .._draft)
NameFree(rows, method, name) ==
  \A r \in rows : ~(r.method = method /\ r.name = name)

\* AddApi's own test, on the published APIs and on the drafts.
NoClash(rows, method, name, path) ==
  \A r \in rows : r.method = method => r.path # path /\ r.name # name

CategoryUsable(c, s) ==
  \/ c = NoCategory
  \/ c \in DOMAIN categories /\ categories[c].service = s

SetDrafts(i, rows) ==
  /\ iterations' = [iterations EXCEPT ![i].api_drafts = rows]
  /\ UNCHANGED <<services, categories, iterationSeq, categorySeq, head>>

AddApi(u, i, name, method, path, c) ==
  /\ checkServiceIterationPermission(u, i)
  /\ NoClash(services[iterations[i].service].apis, method, name, path)
  /\ NoClash(iterations[i].api_drafts, method, name, path)
  /\ CategoryUsable(c, iterations[i].service)
  /\ SetDrafts(i, iterations[i].api_drafts \cup
       {[name |-> name, method |-> method, path |-> path,
         category |-> c, body |-> EmptyBody]})

\* f"{text}-copy-{timestamp}"
Copied(text, stamp) == Append(text, stamp)

CopyApiByApiDraftId(u, i, r, stamp) ==
  /\ checkServiceIterationPermission(u, i)
  /\ r \in iterations[i].api_drafts
  /\ Len(r.name) <= MaxCopies
  /\ NameFree(iterations[i].api_drafts, r.method, Copied(r.name, stamp))
  /\ SetDrafts(i, iterations[i].api_drafts \cup
       {[r EXCEPT !.name = Copied(r.name, stamp),
                  !.path = Copied(r.path, stamp)]})

DeleteApiByApiDraftId(u, i, r) ==
  /\ checkServiceIterationPermission(u, i)
  /\ r \in iterations[i].api_drafts
  /\ SetDrafts(i, iterations[i].api_drafts \ {r})

\* Mutant: no unique constraint on (method, name).
MutRenamable(rows, r, method, name) == TRUE

\* The update has no test of its own: only the constraint can refuse it.
Renamable(rows, r, method, name) == NameFree(rows \ {r}, method, name)

\* Category and draft stay, the rest is replaced.
UpdateApiByApiDraftId(u, i, r, name, method, path, body) ==
  /\ checkServiceIterationPermission(u, i)
  /\ r \in iterations[i].api_drafts
  /\ Renamable(iterations[i].api_drafts, r, method, name)
  /\ SetDrafts(i, (iterations[i].api_drafts \ {r}) \cup
       {[r EXCEPT !.name = name, !.method = method,
                  !.path = path, !.body = body]})

-----------------------------------------------------------------------------
(* Categories *)

CategoryNameFree(s, name) ==
  \A c \in DOMAIN categories :
    ~(categories[c].service = s /\ categories[c].name = name)

AddCategoryByServiceId(u, s, name) ==
  /\ s \in DOMAIN services
  /\ IsMember(u, s)
  /\ CategoryNameFree(s, name)
  /\ categorySeq < MaxCategories
  /\ categorySeq' = categorySeq + 1
  /\ categories' = Insert(categories, categorySeq + 1,
                          [service |-> s, name |-> name])
  /\ UNCHANGED <<services, iterations, iterationSeq, head>>

\* The new name must be unused in the service, by this category too.
UpdateCategoryById(u, c, name) ==
  /\ c \in DOMAIN categories
  /\ IsOwner(u, categories[c].service)
  /\ CategoryNameFree(categories[c].service, name)
  /\ categories' = [categories EXCEPT ![c].name = name]
  /\ UNCHANGED <<services, iterations, iterationSeq, categorySeq, head>>

\* Mutant: rows keep the id of the deleted category.
MutUncategorise(rows, c) == rows

\* The ORM sets category_id to NULL in every Api and ApiDraft that has it.
Uncategorise(rows, c) ==
  {[r EXCEPT !.category = IF @ = c THEN NoCategory ELSE @] : r \in rows}

DeleteCategoryById(u, c) ==
  /\ c \in DOMAIN categories
  /\ IsMember(u, categories[c].service)
  /\ categories' = Remove(categories, c)
  /\ services' = [s \in DOMAIN services |->
       [services[s] EXCEPT !.apis = Uncategorise(@, c)]]
  /\ iterations' = [i \in DOMAIN iterations |->
       [iterations[i] EXCEPT !.api_drafts = Uncategorise(@, c)]]
  /\ UNCHANGED <<iterationSeq, categorySeq, head>>

\* Moves a published API, outside any iteration.
UpdateApiCategory(u, s, r, c) ==
  /\ s \in DOMAIN services
  /\ r \in services[s].apis
  /\ IsMember(u, s)
  /\ r.category # c
  /\ CategoryUsable(c, s)
  /\ services' = [services EXCEPT ![s].apis =
       (@ \ {r}) \cup {[r EXCEPT !.category = c]}]
  /\ UNCHANGED <<iterations, categories, iterationSeq, categorySeq, head>>

-----------------------------------------------------------------------------
ServiceNext(u, s) ==
  \/ \E d \in Descriptions : CreateNewService(u, s, d)
  \/ DeleteServiceById(u, s)
  \/ RestoreServiceById(u, s)
  \/ \E candidate \in Users :
       AddOrRemoveServiceMaintainerById(u, s, candidate)
  \/ StartIteration(u, s)

IterationNext(u, i) ==
  \/ \E d \in Descriptions : UpdateDescription(u, i, d)
  \/ \E v \in Versions : CommitIteration(u, i, v)
  \/ DeleteIterationById(u, i)

DraftNext(u, i) ==
  \/ \E n \in Names, m \in Methods, p \in Paths,
        c \in DOMAIN categories \cup {NoCategory} : AddApi(u, i, n, m, p, c)
  \/ \E r \in iterations[i].api_drafts :
       \/ \E t \in Stamps : CopyApiByApiDraftId(u, i, r, t)
       \/ DeleteApiByApiDraftId(u, i, r)
       \/ \E n \in Names, m \in Methods, p \in Paths, b \in Bodies :
            UpdateApiByApiDraftId(u, i, r, n, m, p, b)

CategoryNext(u) ==
  \/ \E s \in DOMAIN services, n \in CategoryNames :
       AddCategoryByServiceId(u, s, n)
  \/ \E c \in DOMAIN categories :
       \/ \E n \in CategoryNames : UpdateCategoryById(u, c, n)
       \/ DeleteCategoryById(u, c)
  \/ \E s \in DOMAIN services, c \in DOMAIN categories \cup {NoCategory} :
       \E r \in services[s].apis : UpdateApiCategory(u, s, r, c)

Next ==
  \E u \in Users :
    \/ \E s \in Services : ServiceNext(u, s)
    \/ \E i \in DOMAIN iterations : IterationNext(u, i) \/ DraftNext(u, i)
    \/ CategoryNext(u)

Spec == Init /\ [][Next]_vars

-----------------------------------------------------------------------------
(* What a reader of a version sees *)

\* The rows without their category: category moves are not versioned.
Surface(rows) ==
  {[name |-> r.name, method |-> r.method, path |-> r.path, body |-> r.body] :
     r \in rows}

\* Iterations of s with this version, of which .first() returns any.
IterationsAt(s, v) ==
  {i \in DOMAIN iterations : /\ iterations[i].service = s
                             /\ iterations[i].version = v}

\* The surfaces version v of s may be answered with: the current version is
\* answered from Api, any other from the drafts of an iteration; {} is "not
\* found".  A deleted service and a stranger get no answer, never another.
VersionSurfaces(s, v) ==
  IF v = services[s].version
  THEN {Surface(services[s].apis)}
  ELSE {Surface(iterations[i].api_drafts) : i \in IterationsAt(s, v)}

-----------------------------------------------------------------------------
(* Invariants *)

(* The published version is the last committed iteration: same version,    *)
(* same description and the same APIs up to their category, whatever was   *)
(* edited, restarted or deleted since ("the latest version is consistent   *)
(* with Service", models.py).  An iteration without APIs may have been     *)
(* deleted.                                                                *)
LatestAligned ==
  \A s \in DOMAIN services :
    head[s] \in DOMAIN iterations =>
      LET it == iterations[head[s]]
      IN  /\ it.service = s
          /\ it.is_committed
          /\ it.version = services[s].version
          /\ it.description = services[s].description
          /\ Surface(it.api_drafts) = Surface(services[s].apis)

(* Every category an API or a draft refers to exists and belongs to the    *)
(* same service, through copies, moves and deletions of categories.        *)
RowsScoped(rows, s) ==
  \A r \in rows : r.category # NoCategory =>
    /\ r.category \in DOMAIN categories
    /\ categories[r.category].service = s

CategoriesScoped ==
  /\ \A s \in DOMAIN services : RowsScoped(services[s].apis, s)
  /\ \A i \in DOMAIN iterations :
       RowsScoped(iterations[i].api_drafts, iterations[i].service)

(* No two APIs of a service, and no two drafts of an iteration, have the   *)
(* same method and name; so a commit, which inserts the drafts into the    *)
(* emptied Api rows, is never refused by uq_api_method_name.               *)
NamesDistinct(rows) ==
  \A r1, r2 \in rows : r1.method = r2.method /\ r1.name = r2.name => r1 = r2

NamesUnique ==
  /\ \A s \in DOMAIN services : NamesDistinct(services[s].apis)
  /\ \A i \in DOMAIN iterations : NamesDistinct(iterations[i].api_drafts)

(* If every commit passes the web form on a fresh page, a version names    *)
(* one committed iteration of its service, and none is newer than the      *)
(* published one; the version lookup is then never ambiguous.              *)
VersionsIdentify ==
  \A i, j \in DOMAIN iterations :
    (WebForm /\ iterations[i].is_committed /\ iterations[j].is_committed
             /\ iterations[i].service = iterations[j].service) =>
      /\ iterations[i].version = iterations[j].version => i = j
      /\ iterations[i].version <= services[iterations[i].service].version

-----------------------------------------------------------------------------
(* Action properties *)

(* A committed iteration is history: its service, version, description and *)
(* APIs (up to category) never change again, and it can only be deleted    *)
(* when it has no APIs.                                                    *)
CommittedFrozen ==
  [][\A i \in DOMAIN iterations : iterations[i].is_committed =>
       IF i \in DOMAIN iterations'
       THEN /\ iterations'[i].is_committed
            /\ iterations'[i].service = iterations[i].service
            /\ iterations'[i].version = iterations[i].version
            /\ iterations'[i].description = iterations[i].description
            /\ Surface(iterations'[i].api_drafts)
                 = Surface(iterations[i].api_drafts)
       ELSE iterations[i].api_drafts = {}]_vars

(* A client that pinned a version keeps getting the same APIs for it, or   *)
(* at worst "version not found"; never other ones.  It holds when every    *)
(* commit passes the web form on a fresh page.                             *)
PinnedVersionStable ==
  [][\A s \in DOMAIN services, v \in Versions :
       VersionSurfaces(s, v) # {} =>
         VersionSurfaces(s, v)' \subseteq VersionSurfaces(s, v)]_vars

-----------------------------------------------------------------------------
(* Refinement *)

Committed == {i \in DOMAIN iterations : iterations[i].is_committed}

\* The rows of Service and Api as a reader of the latest version sees them.
CurrentView ==
  [s \in DOMAIN services |->
     [version |-> services[s].version,
      description |-> services[s].description,
      surface |-> Surface(services[s].apis)]]

\* The committed iterations as a reader of an old version sees them.
HistoryView ==
  [i \in Committed |->
     [service |-> iterations[i].service,
      content |-> [version |-> iterations[i].version,
                   description |-> iterations[i].description,
                   surface |-> Surface(iterations[i].api_drafts)]]]

Store == INSTANCE VersionStore
  WITH current <- CurrentView, history <- HistoryView,
       Ids <- 1 .. MaxIterations

(* The workflow implements the version store: a commit replaces what is    *)
(* published and files the same content in the history in one step, and no *)
(* edit, start, deletion or category change of the real tables is visible  *)
(* to a reader of versions before that.                                    *)
ImplementsVersionStore == Store!StoreSpec

-----------------------------------------------------------------------------
(* What the documentation says and the code does not do: this is violated, *)
(* see README.md.                                                          *)

(* README.md: "method + path" is unique within a service.                  *)
PathsUnique ==
  \A s \in DOMAIN services : \A r1, r2 \in services[s].apis :
    r1.method = r2.method /\ r1.path = r2.path => r1 = r2

=============================================================================
