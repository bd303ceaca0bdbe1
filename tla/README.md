# A TLA+ model of CAM

CAM (Charlie API Management) keeps the definitions of a team's services and
APIs under version control. These modules specify the version workflow of the
backend, the pages of the web client that work with it, and the command line that
generates code from it. TLC checks them on small instances, and TLAPS proves the
main results for every instance.

## 1. The system

| Part | Code | State | Operations |
|---|---|---|---|
| Service registry | `BE-CAM/services/service.py` | `Service` rows: uuid, owner, version, description, soft deletion; `user_service_link` | create, delete, restore, toggle maintainer, list |
| Iteration workflow | `service.py`, `utils.py` | `ServiceIteration` rows: creator, version (NULL until committed), description, `is_committed` | start, describe, commit, delete |
| API drafts | `services/api.py` | `ApiDraft` and its parameter rows, per iteration | add, copy, update, delete |
| Published APIs | `service.py` | `Api` and its parameter rows, per service | replaced by a commit |
| Categories | `api.py` | `ApiCategory` rows, per service | add, rename, delete, move a published API |
| Version lookup | `service.py` | none | latest or by number; list of versions |
| Parameter trees | `api.py`, `utils.py` | parent links between parameter rows | recursive save, copy and reading back |
| OpenAPI export | `utils.py` | none | builds a document from an API |
| Accounts | `services/user.py`, `authentication.py` | `User` rows, JWTs | register, login, change password |
| Mail | `mailer.py` | none | told of a commit after it |
| Web session | `FE-CAM/src/hooks/useUser.tsx`, `request/index.ts` | token in localStorage, profile in the store and in sessionStorage | sign in, sign out, fetch the profile, react to 401 |
| Home page | `LoggedInView.tsx`, `hooks/useService.tsx` | tab, page, list, spinner, the last fetch | select tab or page, create, delete, restore |
| Service page | `components/ApiManagement`, `hooks/useService.tsx`, `useApi.tsx` | version shown, API tree, iteration, selected API, editor | select, drag, categories, start, edit, save, complete |
| Maintainer menu | `ApiManagement/Header.tsx` | list of maintainers, options found | search, toggle |
| API editor | `ApiManagement/ApiEdit` | nested parameter tables, status-code tabs | edit, submit |
| Code generator | `cam-fe-code-generator/src` | `~/.camrc`, `cam.config.json`, generated files | login, logout, init, add, remove, update |

A service has one published version. A member of it *starts* an iteration: the
published APIs are copied into drafts. The creator of the iteration, the owner of
the service and L0 users edit the drafts and *commit* under a new version number:
the published APIs are deleted, the drafts are copied in their place and the
iteration becomes a record of the history. The parts interact through the
PostgreSQL tables. Each HTTP request is one handler with one session; the web
client and the code generator are HTTP clients.

What is hard:

- **Concurrency.** `run-prod.sh` starts four processes with three workers each.
  The handlers read, decide and write in separate statements at READ COMMITTED,
  with no explicit locking and no version column; the session is created with
  `autoflush=False`, so a row that was assigned to is written later than it looks.
- **Copying in both directions.** Start and commit copy whole API sets between
  tables that the category, draft and deletion handlers also change, and rebuild
  the parent links of the parameters on the way.
- **History.** Versions are free text for the backend; what a version number
  means depends on every earlier commit.
- **Answers.** The pages send requests from effects and clicks and apply the
  answers as they come, without cancelling or numbering them. `Api` and `ApiDraft`
  ids overlap. The endpoint for maintainers toggles.
- **Shared session.** All tabs share one token, and each keeps its own profile.
- **Many requests, one result.** A pull reads a list and then every API in a
  request of its own, while others commit; it has emptied its directory before.

Correctness, part by part: what is published is the last committed iteration
(workflow); history does not change (workflow, drafts); method and name identify
an API (drafts); categories stay inside their service (categories); a version
number keeps meaning what it meant (lookup); a request ends and leaves either all
or nothing (sessions); a page shows one version, and its saves, drags and clicks
reach the rows the user saw (pages); a page acts as the account it shows (web
session); a parameter tree comes back as it was entered (parameters); generated
code is of one version (code generator).

## 2. The modules

| Module | What it is | Made of |
|---|---|---|
| `ServiceVersioning` | registry, iterations, drafts, categories and lookup; one action per handler | |
| `VersionStore` | what the workflow promises about versions: the abstract specification | implemented by `ServiceVersioning` |
| `IterationRequests` | start, commit, describe and the draft edits on one service, split at their database statements | |
| `ServicePage` | the service page over a changing server | |
| `MaintainerPicker` | the maintainer menu over the toggling endpoint | |
| `WebSession` | token and profile of the web client | |
| `HomePage` | the service lists of the home page | extends `WebSession`: a change of the user mounts and unmounts the list |
| `ParamTrees` | the three forms of a parameter tree and the conversions between them | |
| `GeneratedCode` | the interfaces and imports generated from an API | extends `ParamTrees` |
| `ParamForm` | the API editor over parameter rows, from save to generated code | extends `GeneratedCode` |
| `CodePull` | the command line against a backend that commits, revokes and expires | |
| `MC...` | constants for TLC, one per specification | |
| `...Proofs` | the theorems: `ServiceVersioningProofs` and `VersionStoreProofs` on the workflow, `IterationRequestsProofs`, `HomePageProofs`, `MaintainerPickerProofs`, `ServicePageProofs`, `CodePullProofs` and `ParamFormProofs` on the module they are named after | extends that module |

### ServiceVersioning

`services`, `iterations` and `categories` are the tables, as functions from uuid
or id to a row; `Api` and `ApiDraft` rows are sets inside the row they belong to,
which the (method, name) constraint allows. `iterationSeq` and `categorySeq` are
the autoincrement columns, so ids are never reused. `head` is a history variable:
the iteration each service was committed from last. Actions are named after the
handlers (`serviceCommitIteration` is `CommitIteration`). A refused request, and
one that a constraint rolls back, changes nothing and is a stuttering step.

Data is abstracted: a name or path is a sequence of tokens, so that `Copied`
appends the time stamp the code appends; version numbers are naturals in the
order of `x.y.z`; the parameter trees of an API are one value, its body.
Timestamps and the owner, description, level and enabled flag of an API are left
out: they travel with the row and no decision depends on them. `WebForm` restricts
commits to those the web form lets through when its page shows the published
version (`CompleteIterationForm.tsx`).

### VersionStore

Two variables: `current`, the version, description and APIs of each service, and
`history`, what was released under each id. `Release` replaces the one and files
the same content in the other in one step; `Forget` drops an empty release.
`ServiceVersioning!ImplementsVersionStore` maps the tables to it: `current` is
`Service` and `Api` without categories, `history` the committed iterations.

### IterationRequests

A request goes through the steps of its handler; its local state (what it read,
what it deleted and has not committed) is in `req`. The steps are a check (the
reads up to the decision), one later read, one DELETE in two steps (its snapshot;
the wait for other transactions and the re-check of its rows), and the writes
that end it. PostgreSQL is external, modelled from how the handlers use it:

- a DELETE waits for transactions that delete the same rows and does not see rows
  that were inserted after it started;
- the first flush of a commit updates the `Service` row and keeps its lock;
- an insert that meets a row with its name waits if that row is being deleted and
  is refused otherwise; a refused request is rolled back (`Abort`, HTTP 500);
- a cycle of waits is broken by rolling one request back;
- a column is written only if its new value differs from the one loaded, as the
  ORM does: a commit may leave the description of another commit in place.

Nothing keeps requests apart: not the four processes of `run-prod.sh`, and on the
side of the client not two tabs. The constants `Senders` (an owner among them may
work on the iterations of others) and `OneAtATime` (a user waits for each answer)
only choose who takes part in a run. The id of a published row names its commit and
the set of APIs that commit inserted, so that `PublishedWhole` can say that what one
commit published is replaced as a whole, whatever is rolled back.

### ServicePage

`page` is one record with the state of `useThisService`, `useServiceIteration`,
`useApi` and of the components that share it; `net` holds the requests in flight.
A click sends a request, `Serve` answers it from the server's rows of that moment,
and an `...Arrives` action applies the answer; between them anything else may
happen, and `Throw` replaces an answer by an exception. React runs the effects of
an update before the next event: `Effects(old, new)` is therefore part of every
page action, and is where a new version asks for its detail, a new iteration for
its drafts, a changed first key of the tree is selected, and a new selection asks
for its API with the flag of that render. The whole page is a spinner while a
version loads and while it has no detail (`isLoading`), which unmounts the editor.
A refused detail leaves the page without one. The server is what the
page can tell of it: `Api` and `ApiDraft` rows with id sequences of their own,
versions, categories, and the user's open iteration; other users publish, and the
owner may delete the service. An API is its category and its body. The history
variable `doubt` says that a request threw, that two refreshes overlapped, or that a
change sent in the half second between a commit and its reload reached the drafts
after it, when nobody waits for its answer any more. `AddApiForm` takes the categories
of now, where `handleAddApi` closes over those of the render in which one of its
dependencies changed last (`useService.tsx:831` leaves `apiCategories` out): the
category of a new API may be older than in the model, and no property depends on it.

### MaintainerPicker

The header's list `maintainersHere` is counted, because a check that is answered
with yes appends to it even when the user is there. A search is debounced, its
results are checked one after the other, a click sends a toggle that carries what
the page meant by it (`add`, for the properties only). `stale` is set by what the
page cannot know: another administrator's toggle, a toggle that failed or outlived
its page, and a check that was answered before a removal.

### WebSession and HomePage

The token is in localStorage (shared) and in a closure of the store (per tab), the
profile in the store and in sessionStorage. `Boot` is the loading of the page, and
also what the interceptor does after 401 or a network error. The surroundings are
another tab that signs in or out, the time to live of the stored profile, and F5.
The login form covers the page while it waits. `HomePage` conjoins every session
step with `Follow`: the list is mounted with the user and goes with it; a reload
mounts a new one also when the stored profile brings the same user back. Answers to
the old list find nobody, but a deletion, restoration or creation it had sent may
still reach the server: those requests become `orphans`. A fetch is remembered in
`refetch`, and a change of the list runs it when its answer arrives. The server's
lists are computed from rows with owner and deletion, one service per page, newest
first, and the deleted ones by the time of their deletion; a deletion may be
repeated and then counts anew. `raced` and `overtaken` are history variables for
the excuses the properties name: `overtaken` says of the list that is mounted that a
request threw, that two fetches were in flight or that an orphan changed the rows;
`threw` is weaker and says only that an exception reached the page and no fetch was
answered since. The list needs the first to be right, the spinner only the second.

### ParamTrees, GeneratedCode and ParamForm

What the code nests, the model addresses. An item of a table has a *place*: the ids of
the items it is inside of and its own. A table is a function from places to items, a
*node* is a place of one of several tables, and what the code does by recursion on
children is said of the places above a place: `Reached` are the nodes below which the
backend's recursion gets (`_process_params_recursively`), `Chains` the ways from a
root row down to a row that `organizeReqParams` follows by `parent_param_id`, `Entered`
the parameters that `generateInterface` calls itself for. So no definition is recursive
and all of them can be proved about. Ids are numbers; `generateId` draws seven random
characters, taken to be new in the form.

`ProcessItems` turns the tables of the editor into the list of a save request,
`Processed` stores it, each row before its children, `Organized` reads rows back into
tables, `Remapped` is the two-pass copy of start and commit, `Copied` the recursive
copy of an API. The database returns rows without an order, so the copies take one
of two, parents first or children first. `ParamForm` drives these
conversions through the editor: every handler of `ParamTable` in a table or in one
nested in it, the tabs of status codes, the checks of `handleSubmit`, saves that
overlap edits, copies, commits and new iterations. An API carries, as history, what
its form held when it was saved, and each row the node it was saved from.

A status code is what is typed: its spelling, and the number `Number` (which tabs are
rendered, `ResponseParamsEdit.tsx:38`) and `parseInt` (what is sent, `utils.ts:56`)
make of it. For "0200" they agree with "200", for "2e2" they are 200 and 2. A table whose
tab is not rendered is in the form and is sent all the same, so `holds` counts it; what
is sent under one number is one table afterwards. Codes with a fraction or a sign, or
that `parseInt` reads as no number, are left out.

`GeneratedCode` follows the generator. A name is the sequence of its words and
`capitalizeFirstLetter` changes the first, so names are appended to each other as in
`generator.ts`: the request interface of an API has the name of the API without its
method, and the names of two interfaces may be equal. In the run an array `x` of
objects and an object `xItem` in one body are. The generator writes one `interface` for each, and
the model keeps them apart by their fields, as the text does. Cookies get an interface,
are imported and collected, and sent nowhere (`SentFields`).

### CodePull

One process with its files and a backend that moves between its requests: each
`await` ends a step. A request fails with the network, which leaves `.camrc` alone, or
with 401: the first one clears `.camrc` in two writes, token and user (`Clear`, then
`setUser`), as a logout does, a later one finds no token and changes nothing.
`Interrupt` kills the process anywhere, also between the two writes, and leaves the
files as they are: then `.camrc` has a user without a token. `GetMyInfo` may be refused
after a login, and the command goes on with the token and no user (`MyInfoRefused`). Both id
columns of the backend count from 1, each from a sequence of its own that never goes
back, so an `Api` and an `ApiDraft` may share an id, as in `ServicePage`, and the id
of a row that is gone is not given to another.

## 3. What is checked

Passing runs:

| Run | Shows |
|---|---|
| `workflow` | two services with categories, copies and iterations: type correctness, `LatestAligned`, `CategoriesScoped`, `NamesUnique` (so a commit is never refused by the constraint when requests do not overlap), `CommittedFrozen`, refinement of `VersionStore` |
| `web_versions` | with `WebForm`: a version names one committed iteration (`VersionsIdentify`) and never answers with other APIs than before (`PinnedVersionStable`) |
| `requests_overlap` | three requests of the owner in flight together, on the iteration of another member and on new ones: names stay unique (`NamesUnique`), the version of the service is that of the iteration committed last (`VersionAligned`), what a commit published is replaced as a whole or stays as a whole when a later one is rolled back (`PublishedWhole`), every request ends (`RequestsEnd`) |
| `page` | the menu and the page show one version (`OneVersion`) because the spinner hides the menu while a detail loads; a drag moves an API published under the version shown (`MovesPublished`); a save goes to the draft that filled its form (`SavesItsForm`); at rest the tree has the server's drafts (`FreshAtRest`); every spinner has an answer to come, but for the one of a page whose service was deleted or whose request threw (`SpinnersEnd`) |
| `maintainers` | the page's list is the server's when nothing is on its way (`ListRight`), a click adds or removes as the page said (`ClicksMeant`), and the menu accepts clicks again (`SwitchEnds`) |
| `home` | requests are made as the account shown (`ActsAsShown`), the profile mark waits for a request (`LoadingAwaits`), the spinner too unless an exception reached the page and no fetch was answered since (`BusyAwaits`), the table shows the tab, page and account it says (`ListCurrent`) |
| `params` | trees survive save, copy, commit and start (`KeptAsSaved`), the generated interfaces have the names and fields the saved form calls for, and every parameter but a cookie is sent in its part of the request (`CodeAsSaved`), a response tab is always active (`TabActive`) |
| `pull` | generated code is of one service and version (`FromOneVersion`), a finished pull has a directory per configured service (`MatchesConfig`), commands end (`CommandsEnd`) |

Runs that exhibit a disagreement between the code and what the repository says
of it (the lines are quoted in `PROJECT.json`):

| Run | Disagreement |
|---|---|
| `path_uniqueness` | method and path are not unique: updates are unchecked, and the second `__table_args__` of the models replaces the first |
| `commit_race` | two overlapping commits publish the APIs of both |
| `double_start` | two start requests of one user both find no open iteration and both create one |
| `editor_draft` | entering an iteration whose first draft has the id of the API on the screen fetches nothing: the editor keeps the published API, and saving it overwrites the draft |

What a fix of the two races has to restore: a unique partial index on open
iterations, and a lock on the service row before the DELETE of a commit.

Limits that the models show and no run is spent on:

- **Edits and commits that overlap** (`IterationRequests`). An edit that passed its check
  (`utils.py:26`) writes after the commit of its iteration: history then has a draft
  that was never published. Two commits of one iteration both pass
  (`service.py:701`), and the second one's version replaces the first's, in the
  history too. Two saves of one draft delete the same old parameters and insert each
  its own: the tree is doubled (`api.py:785`); one page sends one save at a time, two
  pages do not wait for each other. A lock on the iteration row in each handler that
  changes it would end all three. `CommittedFrozen` is therefore claimed only where a
  handler is one step.
- A commit between the statements of a start leaves drafts without their parameters
  (`service.py:611`). Iterations that start from one version do not merge, the second
  commit publishes what it started from.
- An iteration starts without the description of the service and its commit writes
  that back (`service.py:605`, `717`): it is erased unless it was typed again.
  `LatestAligned` accepts this, because service and iteration then agree.
- Through the API (`WebForm = FALSE`) an old version number can be committed again,
  and then `PinnedVersionStable` fails; the same is possible in the form of a page
  that is behind. The initial version `0.0.1` has no iteration and cannot be
  retrieved after the first commit.
- An iteration that has drafts cannot be deleted (`Deletable`), because the ORM
  would set a NOT NULL foreign key to NULL; a second copy of an API within one
  second is refused (`NameFree`).
- The page keeps its spinner for good when the owner deletes the service while its
  detail is asked for (`useService.tsx:352` stores an empty detail), and when the first
  detail throws. Two refreshes of the iteration that overtake each other leave
  the tree with the older one (`useService.tsx:692`), until the next change.
- A change that makes another API the first of the tree selects it, and what was
  typed into the editor is gone; typing while a save is on its way is marked as
  saved by its answer, although the server has the values from before.
- A toggle clicked on a maintainer menu that is behind does the opposite of what was
  meant; the message that follows says what was done.
- `rejectSubmit` belongs to the editor, not to a table, and the table that was
  validated last decides (`ParamTable.tsx:54`). An error in a row that is then left
  behind by closing the tab or opening another API keeps the save button disabled.
  The other way round an error gets through: type a name with a space into a row of the
  body, which `isLegalValue` rejects, then change a field of the path table, whose
  rows are right; the button is enabled again, and `handleSubmit` asks only for empty
  names of root rows, so the name is saved. An empty name of a nested row is saved in
  the same way, or at once, since the outer table validates after the inner one and
  sees its own rows only.
- A list request that throws leaves the spinner of the home page turning
  (`useService.tsx:81`) until the next fetch that is answered; the total of the
  pagination is not fetched again after a deletion. A change that is served after the
  page that sent it was reloaded leaves the new page with an old list.
- A sign-in or sign-out in another tab changes the token under this page
  (`request/index.ts:25`): until it is reloaded it shows one account and acts as
  another. A sign-in that meets an older profile request does the same.
- Two interfaces of one name, which TypeScript merges or refuses: an array `x` beside
  an object `xItem`, `x` beside `X`, `b` inside of `a` beside `aB`, a GET and a POST
  of one name. Cookie parameters get an interface and are not sent by the generated
  function.
- A pull empties its directory before the first request (`code-generate/index.ts:116`).
  A service whose list or detail fails keeps an empty directory, one that is
  committed meanwhile lacks the APIs that were not yet asked for, and the pull reports
  done in both cases; `MatchesConfig` counts directories, not code. Removing the last
  service leaves its code, because a pull without services exits before it empties the
  directory.

**Bounds.** Two users suffice for every permission case (owner, creator, maintainer,
stranger differ only by membership tests; users are symmetric when none is L0). Two or
three iterations let one be committed, one be open and one be based on an older
version. Two names make a rename and a clash possible; two categories and two services
let a category be foreign; three requests show every pair of handlers and a third one
between them. Version numbers go up to 2, 3 or 4, so that a number can be skipped or
reused. On the pages `MaxClicks`, `MaxFlight` and `MaxInputs` are two or three, and
`MaxLogins` is one (the page may be signed in when it opens, so that one sign-in gives
a second session): a property fails when an answer meets one later click, and
`MaxFlight` bounds only the requests in flight when the user clicks again, not the
ones that effects and answers add. `MaxFailures` is one, since one exception is what
the error paths handle at a time. Parameter tables have two levels (`Depth` 2) and
items with seven ids (`MaxIds` 7), enough for an array of objects beside an object,
for a child that is read before its parent and for a new row; the editor starts on an
API that has these, a path parameter and a cookie, and makes two edits and a copy or a
commit, or one edit and both (`MaxEdits` 2, `MaxSteps` 3). `CodePull` has three
commands (a login, an addition and an update), versions up to three for one service,
and a first draft id that makes a draft share its id with an API.

**Deadlock.** `workflow` and `web_versions` check for it. The others do not: when
their bounds on clicks, edits, commands or iterations are reached nobody has
anything to send. That requests, the menu and commands are not stuck before is said by
`RequestsEnd`, `SwitchEnds` and `CommandsEnd`.

**Fairness.** A handler is running code: each of its steps that can happen does
(weak fairness of `Serve` in `IterationRequests`). PostgreSQL wakes the waiters of a
transaction when it ends, before later ones get the row (strong fairness of `Wake`,
without which a stream of new commits could overtake a waiting one for ever), and
its deadlock detection runs after a timeout (weak fairness of `BreakDeadlock`). In
`MaintainerPicker` answers are delivered (weak fairness of `Network`): axios gives up
after 60 s, and a failure is an answer. In `CodePull` the process goes on (weak
fairness of `Process`): its requests time out after 15 s, and a step that fails is
always possible. Users need not do anything, and a prompt may stay open.

## 4. What is proved

All theorems are about the specifications that the runs check, for every value of
the constants that satisfies the named assumptions of the module: any number of
users, services, names, requests, commands and versions. TLC evaluates the
assumptions in every run of the module.

**`ServiceVersioning`** (`ServiceVersioningProofs`, `VersionStoreProofs`):

- `TypeCorrect`: `Spec => []TypeOK`. `TypeOK` is inductive: it includes the foreign
  keys (iterations and categories belong to services that exist) and that no id
  is ahead of its sequence, which makes the id of a new iteration fresh. One step
  per action.
- `Refinement`: `Spec => ImplementsVersionStore`. `StepKinds` sorts the actions into
  creations, commits, deletions and *quiet* steps, which leave both views alone;
  the lemmas on `Surface` show that category changes are quiet; `CommitEffect`,
  `CreateEffect` and `DeleteEffect` show that the others are `Release`, `Register`
  and `Forget`. The type invariant supplies freshness of ids.
- `Alignment`: `Spec => []LatestAligned`. Not inductive on its own: it rests on the
  type invariant and on the effect of each kind of step on both views.
- `HistoryImmutable`: `Spec => CommittedFrozen`, from the same case distinction.
- `VersionsIdentifyAlways`: `Spec => []VersionsIdentify`. That versions differ is not
  enough for the next commit, whose version the form compares with the published one
  only. `Ordered` adds that no committed version is above the published one and that
  the one equal to it, if any, is the iteration committed last. It is stated over the
  views of the refinement, so a commit is one `Release` (`ReleaseOrdered`).
- `PinnedVersionAlways`: `WebForm` implies `Spec => PinnedVersionStable`. The lookup
  takes the published APIs for the current version and the history for others, so a
  commit moves what a version answers from one table to the other: `Alignment` says
  that the two agree at that moment, `Ordered` that nothing else has the version, and
  `OpenUnversioned` (an open iteration has no version yet) that the lookup, which does
  not ask whether an iteration is committed, sees committed ones only.
- `NamesUniqueAlways`: `Spec => []NamesUnique`, and `CategoriesScopedAlways`:
  `Spec => []CategoriesScoped`. Both are inductive next to `TypeOK` and share one
  lemma, `RowOrigins`: whatever the step, the APIs of a service are empty, as
  before, the drafts of one of its iterations, or the old ones with one category
  cleared or one row moved; the drafts of an iteration are some of the old ones,
  the APIs of a service, the old ones with one category cleared, or some of the
  old ones and one row whose name is free and whose category is usable. The two
  invariants are then checked on these few sources instead of on every action.

**`IterationRequests`** (`IterationRequestsProofs`). Requests are finitely many, and
the iterations that are open at the beginning fit into the bound.

- `TypeCorrect`, `NamesUniqueAlways` and `VersionAlignedAlways` hold for every
  overlap. `OverlapInv` says of each request at which step of its handler it can be
  and with what: the rows it copied have distinct names (they were a table when it
  read them), the iteration it works on exists, and the lock is held by exactly the
  commit that has flushed. Stale checks do not matter for names because the
  constraint is evaluated at the write. `Room` counts starts in flight against the
  bound on iterations.
- `PublishedWholeAlways`: `Spec => []PublishedWhole`, for every overlap. It is not
  inductive: a DELETE works on the rows of its snapshot. `WholeInv` adds that what a
  commit has deleted, and what it still has to delete, contains with one row of
  another commit all of them, and so do unions and differences of such sets
  (`WholeSets`). A commit inserts its whole set in one step, and one name that is taken
  rolls all of it back, deletions included (`CommitWhole`, `AbortWhole`).
- That a user has one open iteration, that the published APIs are those of the last
  commit and that a committed iteration is frozen is not proved here, because it is not
  true here (`double_start`, `commit_race` and the first of the limits above).

**`HomePage`** (`HomePageProofs`):

- `ActsAsShownAlways`: `Spec => []ActsAsShown`, and `LoadingAwaitsAlways`:
  `Spec => []LoadingAwaits`. Neither is inductive: a profile that is on its way must
  be known to be the one of the token that is stored. `SessionInv` says that until a
  race the stored profile is the one shown (a reload restores it), that a profile
  is asked for only while none is shown, at most once and for the stored token, and
  that loading means it is asked for. The lemmas on `RemoveAt` say what an answer
  leaves in flight; `OthersKeep` covers the steps that touch no profile request,
  and `ListSteps` shows that the list adds none to those of the session.
- `BusyAwaitsAlways`, from `SpinnerInv`: unless an exception reached the page and no fetch
  was answered since, the spinner waits for something else than a creation, because
  a refused creation leaves it as it is. No assumption on the order of answers is
  needed: whichever fetch is answered first ends the spinner.
- `TypeCorrect` and `ListCurrentAlways`, from `HomeInv`. The list is right at rest
  because of what is in flight before (`Consistent`): what the last fetch asked for is
  what is on the screen, one fetch at most is on its way, for this view and account,
  and either a change has been served, whose answer will fetch again, or the fetch on
  its way brings the server's list of now, or that list is shown. The lemmas on
  `Consistent` say what sending, serving and applying a request does to it;
  `UserStays` carries the account over the steps of the session.

**`MaintainerPicker`** (`MaintainerPickerProofs`): `TypeCorrect`, `ListRightAlways` and
`ClicksMeantAlways`, from `PickInv`. The menu is blocked while a toggle is out, so one
click at most is in flight (`OneClick`); until the list is stale, a user who was
checked as a maintainer still is one, a toggle not yet served will do what the page
showed, and the list is right about everybody but the user of a toggle that has been
answered (`Agree`). Users and searches are arbitrary.

**`CodePull`** (`CodePullProofs`): `TypeCorrect`, `FromOneVersionAlways` and
`MatchesConfigAlways`, from `PullInv`. The ids a pull still has to ask for were given
out before, so a row that has one of them now is the row of the list, or the row is
gone (`Fetching`); the rows of such a list are of one version, because a commit replaces
all of them. `RcOK` is about the two writes of `.camrc`: the second is due only while the
token is gone. `Done` says how far the directories are, entry by entry. Assumed are
finite services and APIs, versions that start at 1, and configuration files without
duplicates, which is what the commands write.

**`ServicePage`** (`ServicePageProofs`). Assumed are category ids that are positive,
bodies that are numbers, a bound on versions that admits the two published at the
beginning, drafts at the beginning that are finitely many rows, and a `None` that is no
answer. There are four invariants, each inductive next to ones before it.

- `StateInv` gives `OneVersionAlways`, `SavesItsFormAlways` and `MovesPublishedAlways`,
  and with `BlankInv` `SpinnersEndAlways`. It says that one request at most is in flight for the page
  itself, its versions or a detail, and only behind the spinner (`MainInv`); that a
  detail is asked for the version of the menu; that each mark of loading has its
  request (`Spin`), where the mark of a save follows it into the refresh after it and
  ends when the editor is unmounted (`Saving`, `Forget`); that the form is of the
  detail the editor holds; and that what a page or a request names was published
  (`Known`, which only grows). All page actions go through `Update`, so `EffectsKeep`
  shows once that the effects and what they ask for restore the invariant (`Ready`
  says from what); each action then only shows that it is `Ready`. `BlankInv` adds that a
  page without a detail is loading one unless the service was deleted or a request
  threw, which needs that a detail is refused only by a deleted service.
- `TypedState` gives `TypeCorrect`. `TypeOK` bounds every id on the page by the counter of
  the drafts, also ids of published APIs, which come from another sequence. `RowsInv`
  says why: the counter of the APIs together with the open drafts never exceeds that
  of the drafts, because whoever publishes had drafts first. `RenumberedFacts` is about
  the copying of a table to new ids: it is a bijection that counts.
- `FreshState` gives `FreshAtRestAlways`. Without `doubt` one refresh at most is in flight
  (`OneRefresh`), and while the page shows the open iteration (`Fresh`) either a change
  was served whose answer will ask for a refresh (`Applied`), or every refresh that has
  been answered brings the drafts of now (`Sound`) and, if none is on its way, the tree
  has them. `WritesIterations` sorts requests into those that keep the drafts, alter
  them, start and end the iteration. The proof attempt corrected the model: a change
  sent before the reload and served after it leaves a tree behind that no refresh
  follows, in more clicks than a run affords, and is now a cause of `doubt`.

**`ParamForm`** (`ParamFormProofs`): `Typed`, `RowsKeptAsSaved`, `GeneratedAsSaved` and
`AlwaysTabActive`, for tables of any depth and any number of items, locations, codes,
names and APIs. Assumed are the bounds to be numbers, that a code can be typed as the
numeral `parseInt` reads in it, that 200 can be typed, that names are made of the
words, and first drafts that are forms.

- `Inv` relates rows to history. `DocOK` says of every draft and published API that its
  rows are `Kept`: finitely many with ids of their own, one for each parameter that
  the form held, with its fields and below the row of the parameter around it
  (`RowsHold`), and that what was held is closed under the parameters around a
  parameter (`HeldOK`). `EditorOK` says that the editor holds a form (`TablesOK`: places
  inside of places, an id for each item), and a save on its way is a `DocOK` already,
  so that the answer may come at any time. No fact about `rejectSubmit` or the checks of
  `handleSubmit` is used: what is kept does not depend on what they let through.
- A lemma per conversion carries `Kept` along: `ProcessedKept` (a save),
  `RemappedKept` (commit and start, by any order, since `Serial` numbers rows
  one to one), `CopiedKept` (the copy reaches every row), `OrganizedOK` (what is read
  back is a form again). They rest on `ChainTo` and `ChainUnique`: in such rows one
  chain leads to each row, over the rows of the parameters around it. The only
  induction in it, up a chain, is over a number and stated as the absence of
  a least counterexample. `EditOK` says that each handler of a table leaves a form.
- `DocCode` follows the generator: at each place of a table the words appended to its
  interface name are those of the parameters the form held around it (`NamedAt`), so
  the fields there are the form's (`FieldHeld`, `Siblings`), and with them each interface
  (`InterfaceHeld`), those of a table (`TableCode`) and of one side of an API (`SideCode`).
  That names are appended, and may be equal, does not matter to it: interfaces are
  compared with the reference by name and fields, not told apart by name.

Only model-checked is liveness (`RequestsEnd`, `SwitchEnds`, `CommandsEnd`), which is out
of the prover's reach. Every invariant and action property of the passing runs is
proved. tlapm reads `UNION P \cup Q` as `UNION (P \cup Q)`, TLC as `(UNION P) \cup Q`:
the modules write the parentheses, so that both speak of the same set.

## 5. What is not modelled, and the plan

Not modelled:

- mail, which follows the commit and which nothing depends on, and the routers,
  which extract arguments and call one handler each;
- the OpenAPI export, a function of one published version that nothing else reads;
- registration and password change: they write one `User` row and touch neither the
  session of a client nor a service; the encoding of tokens and passwords is a
  library's;
- the connection pool, and the registry, category and copy handlers in statements;
- the layout of pages and generated code, the read-only view of an API, the forms
  for a single field of a service or an API, and the totals and sizes of pages.

The plan was to model the workflow first, then what overlaps in it, then the
clients, and to prove in the same order. What a next step could add:

1. Facts about pairs of modules: that a commit of `IterationRequests` that no other
   request overlaps is the `Commit` of `ServiceVersioning`, so that its theorems carry
   over to it.
2. The condition on names under which two interfaces of an API never get the same one,
   and the one under which `parseInt` and `Number` read every code alike.
