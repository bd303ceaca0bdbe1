----------------------------- MODULE ServicePage -----------------------------
(* The service page of the web client: the hooks useThisService,             *)
(* useServiceIteration and useApi, the components ApiManagement, ApiList and *)
(* ApiEdit that share their state, and the answers they wait for.            *)
(*                                                                           *)
(* One user works on one service.  Every click that calls the server puts a  *)
(* request in `net`; it is served and its answer delivered in any order, or  *)
(* it fails.  Other users publish meanwhile.  React runs the effects of an   *)
(* update before the next event, so Effects is part of every page action.    *)
(* The server is what the page can tell of it: two tables of API rows with   *)
(* id sequences of their own, which is why ids alone do not name a row.      *)
EXTENDS Naturals, Sequences, FiniteSets, SequencesExt

CONSTANTS
  Cats,          \* category ids, positive; 0 stands for no category
  Bodies,        \* what the editor can hold; its order is that of the methods
  Opens,         \* drafts of the user's open iteration at the beginning, or None
  None,          \* no value
  MaxVersion,    \* bound on version numbers
  MaxClicks,     \* bound on the operations of the user
  MaxFlight,     \* bound on the requests in flight when the user clicks
  MaxFailures    \* bound on the requests that throw

ASSUME CatsPositive == Cats \subseteq Nat \ {0}
ASSUME BodiesNat == Bodies # {} /\ Bodies \subseteq Nat
ASSUME MaxVersionNat == MaxVersion \in Nat /\ MaxVersion >= 2

VARIABLES
  db,        \* the server's rows
  page,      \* state of the hooks and components
  net,       \* requests in flight, in the order they were sent
  clicks,    \* operations of the user so far
  failures,  \* requests that threw so far
  doubt      \* a request threw, two refreshes of one iteration overlapped, or
             \* a change of the page before a reload reached the drafts after it

vars == <<db, page, net, clicks, failures, doubt>>

FirstBody == CHOOSE b \in Bodies : \A c \in Bodies : b <= c
Row == [cat : Cats \cup {0}, body : Bodies]
IsRows(rows, next) == \A id \in DOMAIN rows : id \in 1 .. next - 1 /\ rows[id] \in Row
NoRows == [i \in {} |-> None]
ASSUME OpensAreRows ==
  \A open \in Opens \ {None} :
    /\ IsFiniteSet(DOMAIN open) /\ DOMAIN open \subseteq Nat
    /\ \A id \in DOMAIN open : open[id] \in Row
OneRow(id, row) == [i \in {id} |-> row]
NoApi == [kind |-> "none", id |-> 0, body |-> FirstBody]

(* Mutant: the copies start one id too late.                                 *)
MutRenumbered(rows, next) ==
  LET place(id) == next + 1 + Cardinality({j \in DOMAIN rows : j < id})
      from(new) == CHOOSE id \in DOMAIN rows : place(id) = new
  IN  [i \in {place(id) : id \in DOMAIN rows} |-> rows[from(i)]]

(* The rows of a table copied to the ids from `next` on, in id order.        *)
Renumbered(rows, next) ==
  LET place(id) == next + Cardinality({j \in DOMAIN rows : j < id})
      from(new) == CHOOSE id \in DOMAIN rows : place(id) = new
  IN  [i \in {place(id) : id \in DOMAIN rows} |-> rows[from(i)]]

------------------------------------------------------------------------------
(* The page.                                                                 *)

(* What a mounted page holds before the first answer.                        *)
FreshPage ==
  [gone |-> FALSE, reload |-> FALSE, loading |-> TRUE,
   versions |-> {}, ver |-> 0, isLatest |-> TRUE, shown |-> 0,
   apis |-> NoRows, cats |-> {},
   inIteration |-> FALSE, iterationId |-> 0,
   apiDrafts |-> NoRows, iterationLoading |-> FALSE,
   selected |-> 0, first |-> None,
   apiDetail |-> NoApi, apiLoading |-> FALSE,
   form |-> NoApi, isDraft |-> FALSE, saving |-> FALSE]

(* A request: what was asked, and no answer yet.                             *)
Ask(kind, arg) == [kind |-> kind, arg |-> arg, ans |-> None, live |-> TRUE]
AskIteration(it, then) == Ask("iteration", [it |-> it, then |-> then])

(* Mutant: only a missing detail hides the page.                             *)
MutIsLoading(p) == p.shown = 0

(* The whole page is replaced by a spinner while a version loads, and when   *)
(* there is no detail to show.                                               *)
isLoading(p) == p.loading \/ p.shown = 0
Visible(p) == ~p.gone /\ ~isLoading(p)
EditorMounted(p) == Visible(p) /\ p.inIteration
EditorUsable(p) ==
  EditorMounted(p) /\ p.apiDetail # NoApi /\ ~p.iterationLoading /\ ~p.apiLoading

(* The tree on the left, and its order: category, then method, then row.     *)
Listed(p) == IF p.inIteration THEN p.apiDrafts ELSE p.apis
Group(p, row) == IF row.cat \in p.cats THEN row.cat ELSE 0
Precedes(p, i, j) ==
  LET a == Listed(p)[i]  b == Listed(p)[j]
      g == Group(p, a)   h == Group(p, b)
  IN  \/ g # h /\ (h = 0 \/ (g # 0 /\ g < h))
      \/ g = h /\ (a.body < b.body \/ (a.body = b.body /\ i < j))
firstOptionKey(p) ==
  LET ids == DOMAIN Listed(p)
  IN  IF ids = {} THEN 0 ELSE CHOOSE i \in ids : \A j \in ids \ {i} : Precedes(p, i, j)

(* A new detail fills the form of the editor and clears its mark.            *)
FillForm(p) == [p EXCEPT !.form = p.apiDetail, !.isDraft = FALSE]

(* ApiList follows its first key: when the key changes, or on mount, it is   *)
(* selected.  A list that becomes empty selects nothing.                     *)
Follow(p, key) ==
  IF key = p.first THEN p
  ELSE [p EXCEPT !.first = key, !.selected = IF key = 0 THEN @ ELSE key]
FollowFirst(p) ==
  IF Visible(p) THEN Follow(p, firstOptionKey(p)) ELSE [p EXCEPT !.first = None]

(* The effects of an update from old to new, in their order: a new version   *)
(* loads its detail, a new iteration its drafts, the first key is selected,  *)
(* a new selection loads its API, and the editor is filled when it is        *)
(* mounted and forgets its state when it is unmounted.                       *)
NewVersion(old, new) == new.ver # old.ver /\ new.ver # 0
NewIteration(old, new) == new.iterationId # old.iterationId /\ new.iterationId # 0
NewApi(old, new) == new.selected # old.selected /\ new.selected # 0
StartLoading(old, p) ==
  [p EXCEPT !.loading = @ \/ NewVersion(old, p),
            !.iterationLoading = @ \/ NewIteration(old, p)]
LoadApi(old, p) ==
  IF p.selected = old.selected THEN p
  ELSE IF p.selected = 0 THEN FillForm([p EXCEPT !.apiDetail = NoApi])
  ELSE [p EXCEPT !.apiLoading = TRUE]
MountEditor(old, p) ==
  IF ~EditorMounted(p) THEN [p EXCEPT !.form = NoApi, !.isDraft = FALSE, !.saving = FALSE]
  ELSE IF EditorMounted(old) THEN p ELSE FillForm(p)
Effects(old, new) ==
  MountEditor(old, LoadApi(old, FollowFirst(StartLoading(old, new))))

(* What the effects ask for.  useApi asks again when the id changes, with    *)
(* the flag of that render.                                                  *)
AskApi(p) == Ask("api", [id |-> p.selected, latest |-> IF p.inIteration THEN FALSE ELSE p.isLatest])
Asked(old, p) ==
  (IF NewVersion(old, p) THEN <<Ask("detail", p.ver)>> ELSE <<>>)
  \o (IF NewIteration(old, p) THEN <<AskIteration(p.iterationId, "")>> ELSE <<>>)
  \o (IF NewApi(old, p) THEN <<AskApi(p)>> ELSE <<>>)

(* An answer that would have told the editor "saved" tells an unmounted one  *)
(* nothing.                                                                  *)
Forget(s) ==
  [i \in DOMAIN s |->
    IF s[i].kind = "iteration" THEN [s[i] EXCEPT !.arg.then = ""]
    ELSE IF s[i].kind = "save" THEN [s[i] EXCEPT !.arg.then = ""] ELSE s[i]]

(* The page moves to new with its effects; rest is in flight, out is sent.   *)
Refreshes(s) == Cardinality({i \in DOMAIN s : s[i].kind = "iteration" /\ s[i].live})
Render(p, rest, out) ==
  /\ page' = p
  /\ net' = (IF EditorMounted(page) /\ ~EditorMounted(p) THEN Forget(rest) ELSE rest)
            \o out \o Asked(page, p)
  /\ doubt' = (doubt \/ Refreshes(net') > 1)
Update(new, rest, out) == Render(Effects(page, new), rest, out)

------------------------------------------------------------------------------
(* The user.  Nothing below the spinner can be clicked.                      *)

Click ==
  /\ Visible(page)
  /\ clicks < MaxClicks
  /\ Len(net) < MaxFlight
  /\ clicks' = clicks + 1
  /\ UNCHANGED <<db, failures>>

Send(request) == Click /\ Update(page, net, <<request>>)

(* The version menu: refused in an iteration.                                *)
SelectVersion ==
  /\ ~page.inIteration
  /\ \E v \in page.versions \ {page.ver} :
       /\ Click
       /\ Update([page EXCEPT !.selected = 0, !.ver = v], net, <<>>)

handleSelectApi ==
  \E id \in DOMAIN Listed(page) \ {page.selected} :
    Click /\ Update([page EXCEPT !.selected = id], net, <<>>)

(* Mutant: APIs of old versions can be dragged too.                          *)
MutDraggable == ~page.inIteration

(* Dragging is for the latest version outside an iteration.                  *)
Draggable == ~page.inIteration /\ page.isLatest
handleDrag ==
  /\ Draggable
  /\ \E id \in DOMAIN page.apis, c \in page.cats \cup {0} :
       /\ Group(page, page.apis[id]) # c
       /\ Send(Ask("move", [id |-> id, cat |-> c, shown |-> page.shown, latest |-> page.isLatest]))

handleAddCategory ==
  /\ ~page.inIteration
  /\ page.isLatest
  /\ Send(Ask("addCat", None))

(* The button is there for every category without children in the tree.      *)
handleDeleteCategory ==
  \E c \in page.cats :
    /\ \A id \in DOMAIN Listed(page) : Listed(page)[id].cat # c
    /\ Send(Ask("delCat", c))

handleStartIteration ==
  /\ ~page.inIteration
  /\ page.isLatest
  /\ Send(Ask("start", None))

(* What the form of a commit accepts: it compares with the version on the    *)
(* page, and lets that one pass.                                             *)
CompleteIterationForm(p) == p.ver .. MaxVersion
handleCompleteIteration ==
  /\ page.inIteration
  /\ \E v \in CompleteIterationForm(page) :
       Send(Ask("commit", [it |-> page.iterationId, ver |-> v]))

exitIteration ==
  /\ page.inIteration
  /\ Click
  /\ Update([page EXCEPT !.inIteration = FALSE, !.iterationId = 0], net, <<>>)

(* What the form of a new API can hold: any method, and the categories the   *)
(* page knows or none.                                                       *)
AddApiForm(p) == [cat : p.cats \cup {0}, body : Bodies]
handleAddApi ==
  /\ page.inIteration
  /\ \E row \in AddApiForm(page) : Send(Ask("add", [it |-> page.iterationId, row |-> row]))

handleCopyApi ==
  EditorUsable(page) /\ Send(Ask("copy", [it |-> page.iterationId, id |-> page.apiDetail.id]))

handleDeleteApi ==
  EditorUsable(page) /\ Send(Ask("delete", [it |-> page.iterationId, id |-> page.apiDetail.id]))

onValuesChange ==
  /\ EditorUsable(page)
  /\ \E b \in Bodies \ {page.form.body} :
       Click /\ Update([page EXCEPT !.form.body = b, !.isDraft = TRUE], net, <<>>)

(* Mutant: the save goes to the API selected in the tree.                    *)
MutSaveRequest ==
  Ask("save", [it |-> page.iterationId, id |-> page.selected,
               from |-> page.form, then |-> "saved"])

(* A save carries the id of the detail and the values of the form.           *)
SaveRequest ==
  Ask("save", [it |-> page.iterationId, id |-> page.apiDetail.id,
               from |-> page.form, then |-> "saved"])
handleSubmit ==
  /\ EditorUsable(page)
  /\ page.isDraft
  /\ ~page.saving
  /\ Click
  /\ Update([page EXCEPT !.saving = TRUE], net, <<SaveRequest>>)

------------------------------------------------------------------------------
(* The server.                                                               *)

Ok(value) == [status |-> "ok", value |-> value]
Refused == [status |-> "refused", value |-> None]
Thrown == [status |-> "thrown", value |-> None]
ASSUME NoneIsNoAnswer == None \notin {Ok(None), Refused, Thrown}

VersionsOf(d) == {d.latest} \cup {d.hist[i].ver : i \in DOMAIN d.hist}
IterationOf(d, v) == CHOOSE i \in DOMAIN d.hist :
  d.hist[i].ver = v /\ \A j \in DOMAIN d.hist : d.hist[j].ver = v => i <= j
Mine(d, it) == d.open # 0 /\ d.open = it
Without(rows, id) == [i \in DOMAIN rows \ {id} |-> rows[i]]

(* The row GetApiById finds: the flag decides the table.                     *)
ApiOf(d, id, latest) ==
  IF latest THEN (IF id \in DOMAIN d.api THEN {d.api[id]} ELSE {})
  ELSE (IF id \in DOMAIN d.drafts THEN {d.drafts[id]} ELSE {})
       \cup {d.hist[i].rows[id] : i \in {j \in DOMAIN d.hist : id \in DOMAIN d.hist[j].rows}}

Publish(d, v, rows) ==
  LET apis == Renumbered(rows, d.nextApi)
  IN  [d EXCEPT !.latest = v, !.api = apis, !.nextApi = @ + Cardinality(DOMAIN apis),
                !.hist = Append(@, [ver |-> v, rows |-> rows, apis |-> DOMAIN apis])]

(* The server's rows after each request that writes; a refused one leaves    *)
(* them as they are.                                                         *)
Started(d) ==
  LET new == Renumbered(d.api, d.nextDraft)
  IN  IF d.open # 0 THEN d
      ELSE [d EXCEPT !.open = d.nextIt, !.nextIt = @ + 1, !.drafts = new,
                     !.nextDraft = @ + Cardinality(DOMAIN new)]
Committed(d, a) ==
  IF Mine(d, a.it) /\ a.ver # d.latest
  THEN [Publish(d, a.ver, d.drafts) EXCEPT !.open = 0, !.drafts = NoRows] ELSE d
With(rows, id, row) == [i \in DOMAIN rows \cup {id} |-> IF i = id THEN row ELSE rows[i]]
NewDraft(d, row) == [d EXCEPT !.drafts = With(@, d.nextDraft, row), !.nextDraft = @ + 1]
HasDraft(d, a) == Mine(d, a.it) /\ a.id \in DOMAIN d.drafts
Added(d, a) == IF Mine(d, a.it) /\ a.row.cat \in d.cats \cup {0} THEN NewDraft(d, a.row) ELSE d
Copied(d, a) == IF HasDraft(d, a) THEN NewDraft(d, d.drafts[a.id]) ELSE d
Deleted(d, a) == IF HasDraft(d, a) THEN [d EXCEPT !.drafts = Without(@, a.id)] ELSE d
Saved(d, a) == IF HasDraft(d, a) THEN [d EXCEPT !.drafts[a.id].body = a.from.body] ELSE d
Moved(d, a) ==
  IF a.id \in DOMAIN d.api /\ a.cat \in (d.cats \cup {0}) \ {d.api[a.id].cat}
  THEN [d EXCEPT !.api[a.id].cat = a.cat] ELSE d
CategoryAdded(d) ==
  IF Cats \subseteq d.cats THEN d
  ELSE [d EXCEPT !.cats = @ \cup {CHOOSE c \in Cats \ d.cats : TRUE}]
CategoryDeleted(d, c) ==
  LET freed(rows) == [i \in DOMAIN rows |->
        IF rows[i].cat = c THEN [rows[i] EXCEPT !.cat = 0] ELSE rows[i]]
  IN  IF c \notin d.cats THEN d
      ELSE [d EXCEPT !.cats = @ \ {c}, !.api = freed(@), !.drafts = freed(@),
                     !.hist = [i \in DOMAIN d.hist |-> [d.hist[i] EXCEPT !.rows = freed(d.hist[i].rows)]]]

Writes(d, r) ==
  CASE r.kind = "start"  -> Started(d)
    [] r.kind = "commit" -> Committed(d, r.arg)
    [] r.kind = "add"    -> Added(d, r.arg)
    [] r.kind = "copy"   -> Copied(d, r.arg)
    [] r.kind = "delete" -> Deleted(d, r.arg)
    [] r.kind = "save"   -> Saved(d, r.arg)
    [] r.kind = "move"   -> Moved(d, r.arg)
    [] r.kind = "addCat" -> CategoryAdded(d)
    [] r.kind = "delCat" -> CategoryDeleted(d, r.arg)
    [] OTHER -> d

(* The answers to the requests that read.                                    *)
AnswerVersions(d) ==
  IF d.deleted THEN Refused ELSE Ok([versions |-> VersionsOf(d), ver |-> d.latest])
AnswerDetail(d, v) ==
  IF d.deleted THEN Refused
  ELSE IF v = d.latest THEN Ok([latest |-> TRUE, rows |-> d.api, cats |-> d.cats])
  ELSE Ok([latest |-> FALSE, rows |-> d.hist[IterationOf(d, v)].rows, cats |-> None])
AnswerIteration(d, it) == IF Mine(d, it) THEN Ok(d.drafts) ELSE Refused
AnswerApi(d, a) ==
  LET found == ApiOf(d, a.id, a.latest)
  IN  IF found = {} THEN Refused
      ELSE Ok([kind |-> IF a.latest THEN "api" ELSE "draft", id |-> a.id,
               body |-> (CHOOSE row \in found : TRUE).body])

(* A write that changes nothing is refused, but for resuming an iteration    *)
(* and saving what is there.                                                 *)
Answer(d, r) ==
  LET after == Writes(d, r)
  IN  CASE r.kind = "versions"  -> AnswerVersions(d)
        [] r.kind = "detail"    -> AnswerDetail(d, r.arg)
        [] r.kind = "iteration" -> AnswerIteration(d, r.arg.it)
        [] r.kind = "api"       -> AnswerApi(d, r.arg)
        [] r.kind = "start"     -> Ok(after.open)
        [] r.kind = "save"      -> IF HasDraft(d, r.arg) THEN Ok(None) ELSE Refused
        [] r.kind = "addCat"    -> IF after = d THEN Refused ELSE Ok(after.cats \ d.cats)
        [] OTHER                -> IF after = d THEN Refused ELSE Ok(None)

Serve(i) ==
  /\ net[i].ans = None
  /\ db' = Writes(db, net[i])
  /\ net' = [net EXCEPT ![i].ans = Answer(db, net[i])]
  /\ doubt' = (doubt \/ (~net[i].live /\ db'.drafts # db.drafts))
  /\ UNCHANGED <<page, clicks, failures>>

(* An exception: a timeout or a server error, before or after the effect.    *)
Throw(i) ==
  /\ failures < MaxFailures
  /\ net[i].ans # Thrown
  /\ failures' = failures + 1
  /\ net' = [net EXCEPT ![i].ans = Thrown]
  /\ doubt' = TRUE
  /\ UNCHANGED <<db, page, clicks>>

(* Another user publishes an iteration of as many APIs.                      *)
OthersCommit ==
  /\ db.latest < MaxVersion
  /\ LET drafts == Renumbered(db.api, db.nextDraft)
     IN  db' = [Publish(db, db.latest + 1, drafts) EXCEPT
                  !.nextIt = @ + 1, !.nextDraft = @ + Cardinality(DOMAIN drafts)]
  /\ UNCHANGED <<page, net, clicks, failures, doubt>>

(* The owner deletes the service: it answers to its name no more.            *)
OwnerDeletes ==
  /\ ~db.deleted
  /\ db' = [db EXCEPT !.deleted = TRUE]
  /\ UNCHANGED <<page, net, clicks, failures, doubt>>

------------------------------------------------------------------------------
(* The answers.                                                              *)

Arrived(i, kind) == net[i].kind = kind /\ net[i].ans # None /\ net[i].live
Rest(i) == RemoveAt(net, i)
Apply(i, new, out) == Update(new, Rest(i), out) /\ UNCHANGED <<db, clicks, failures>>

(* Without versions the page navigates home.                                 *)
AllVersionsArrive(i) ==
  /\ Arrived(i, "versions")
  /\ Apply(i, IF net[i].ans.status = "ok"
              THEN [page EXCEPT !.versions = net[i].ans.value.versions,
                                !.ver = net[i].ans.value.ver, !.isLatest = TRUE, !.loading = FALSE]
              ELSE [page EXCEPT !.gone = TRUE, !.loading = FALSE], <<>>)

(* Mutant: the refusal leaves before the spinner is cleared.                 *)
MutDetailApplied(p, r) ==
  IF r.ans.status = "ok"
  THEN [p EXCEPT !.shown = r.arg, !.isLatest = r.ans.value.latest, !.apis = r.ans.value.rows,
                 !.cats = IF r.ans.value.latest THEN r.ans.value.cats ELSE @, !.loading = FALSE]
  ELSE [p EXCEPT !.shown = IF r.ans.status = "refused" THEN 0 ELSE @]

(* The detail: an exception keeps the old one, a refusal empties it.         *)
DetailApplied(p, r) ==
  IF r.ans.status = "ok"
  THEN [p EXCEPT !.shown = r.arg, !.isLatest = r.ans.value.latest, !.apis = r.ans.value.rows,
                 !.cats = IF r.ans.value.latest THEN r.ans.value.cats ELSE @, !.loading = FALSE]
  ELSE [p EXCEPT !.shown = IF r.ans.status = "refused" THEN 0 ELSE @, !.loading = FALSE]
ServiceDetailArrives(i) ==
  Arrived(i, "detail") /\ Apply(i, DetailApplied(page, net[i]), <<>>)

ApiDetailArrives(i) ==
  /\ Arrived(i, "api")
  /\ LET p == [page EXCEPT !.apiDetail = IF net[i].ans.status = "ok" THEN net[i].ans.value ELSE NoApi,
                           !.apiLoading = FALSE]
     IN  Apply(i, IF EditorMounted(p) THEN FillForm(p) ELSE p, <<>>)

(* A save ends with the refresh, whatever that brought: the mark is cleared. *)
SaveEnds(p, then) ==
  IF then = "saved" THEN [p EXCEPT !.isDraft = FALSE, !.saving = FALSE] ELSE p
(* Mutant: a refresh fills an empty list only.                               *)
MutDraftsApplied(p, r) ==
  [p EXCEPT !.apiDrafts = IF r.ans.status = "ok" /\ @ = NoRows THEN r.ans.value ELSE @,
            !.iterationLoading = FALSE]

DraftsApplied(p, r) ==
  [p EXCEPT !.apiDrafts = IF r.ans.status = "ok" THEN r.ans.value ELSE @,
            !.iterationLoading = FALSE]
IterationArrives(i) ==
  /\ Arrived(i, "iteration")
  /\ Apply(i, SaveEnds(DraftsApplied(page, net[i]), net[i].arg.then), <<>>)

StartArrives(i) ==
  /\ Arrived(i, "start")
  /\ Apply(i, IF net[i].ans.status = "ok"
              THEN [page EXCEPT !.inIteration = TRUE, !.iterationId = net[i].ans.value] ELSE page, <<>>)

CommitArrives(i) ==
  /\ Arrived(i, "commit")
  /\ Apply(i, IF net[i].ans.status = "ok" THEN [page EXCEPT !.reload = TRUE] ELSE page, <<>>)

(* A successful change of the drafts is followed by a refresh of the         *)
(* iteration the click was made in.                                          *)
Refresh(r, then) == <<AskIteration(r.arg.it, then)>>
DraftChangeArrives(i) ==
  /\ \E kind \in {"add", "copy", "delete"} : Arrived(i, kind)
  /\ IF net[i].ans.status = "ok"
     THEN Apply(i, [page EXCEPT !.iterationLoading = TRUE], Refresh(net[i], ""))
     ELSE Apply(i, page, <<>>)
SaveArrives(i) ==
  /\ Arrived(i, "save")
  /\ IF net[i].ans.status = "ok"
     THEN Apply(i, [page EXCEPT !.iterationLoading = TRUE], Refresh(net[i], net[i].arg.then))
     ELSE Apply(i, [page EXCEPT !.saving = @ /\ net[i].arg.then # "saved"], <<>>)

(* Categories and moves are applied to the page without a refresh, to        *)
(* whatever list it shows by then.                                           *)
MoveApplied(p, r) ==
  IF r.ans.status = "ok" /\ r.arg.id \in DOMAIN p.apis
  THEN [p EXCEPT !.apis[r.arg.id].cat = r.arg.cat] ELSE p
CategoryChangeArrives(i) ==
  \/ /\ Arrived(i, "move")
     /\ Apply(i, MoveApplied(page, net[i]), <<>>)
  \/ /\ Arrived(i, "addCat")
     /\ Apply(i, IF net[i].ans.status = "ok"
                 THEN [page EXCEPT !.cats = @ \cup net[i].ans.value] ELSE page, <<>>)
  \/ /\ Arrived(i, "delCat")
     /\ Apply(i, IF net[i].ans.status = "ok"
                 THEN [page EXCEPT !.cats = @ \ {net[i].arg}] ELSE page, <<>>)

(* Half a second after a commit the browser reloads the page; requests in    *)
(* flight are still served, and their answers are nobody's.                  *)
Reload ==
  /\ page.reload
  /\ page' = FreshPage
  /\ net' = Append([i \in DOMAIN net |-> [net[i] EXCEPT !.live = FALSE]], Ask("versions", None))
  /\ UNCHANGED <<db, clicks, failures, doubt>>
Drop(i) ==
  /\ ~net[i].live
  /\ net[i].ans # None
  /\ net' = Rest(i)
  /\ UNCHANGED <<db, page, clicks, failures, doubt>>

Deliver(i) ==
  \/ AllVersionsArrive(i)  \/ ServiceDetailArrives(i) \/ ApiDetailArrives(i)
  \/ IterationArrives(i)   \/ StartArrives(i)         \/ CommitArrives(i)
  \/ DraftChangeArrives(i) \/ SaveArrives(i)          \/ CategoryChangeArrives(i)
  \/ Drop(i)
User ==
  \/ SelectVersion     \/ handleSelectApi      \/ handleDrag
  \/ handleAddCategory \/ handleDeleteCategory \/ handleStartIteration
  \/ handleCompleteIteration \/ exitIteration  \/ handleAddApi
  \/ handleCopyApi     \/ handleDeleteApi      \/ onValuesChange \/ handleSubmit

(* Two published versions.  Draft 1 was deleted, draft 2 became API 1 and    *)
(* the second iteration's draft API 2.  The user may have opened an          *)
(* iteration before that one, with the drafts from 3 on.                     *)
Init ==
  /\ \E open \in Opens :
       LET row == [cat |-> 0, body |-> FirstBody]
           mine == IF open = None THEN NoRows ELSE Renumbered(open, 3)
           draft == 3 + Cardinality(DOMAIN mine)
       IN  db = [latest |-> 2, api |-> OneRow(2, row), cats |-> {}, deleted |-> FALSE,
                 hist |-> <<[ver |-> 1, rows |-> OneRow(2, row), apis |-> {1}],
                            [ver |-> 2, rows |-> OneRow(draft, row), apis |-> {2}]>>,
                 open |-> IF open = None THEN 0 ELSE 3, drafts |-> mine,
                 nextApi |-> 3, nextIt |-> 4, nextDraft |-> draft + 1]
  /\ page = FreshPage
  /\ net = <<Ask("versions", None)>>
  /\ clicks = 0
  /\ failures = 0
  /\ doubt = FALSE

Serving == \E i \in DOMAIN net : Serve(i)
Delivering == \E i \in DOMAIN net : Deliver(i)
Throwing == \E i \in DOMAIN net : Throw(i)
Next == User \/ Serving \/ Delivering \/ Throwing \/ OthersCommit \/ OwnerDeletes \/ Reload

Spec == Init /\ [][Next]_vars

------------------------------------------------------------------------------
(* Properties.                                                               *)

Kinds == {"versions", "detail", "api", "iteration", "start", "commit", "add", "copy",
          "delete", "save", "move", "addCat", "delCat"}
Detail == [kind : {"none", "api", "draft"}, id : Nat, body : Bodies]

(* The fields of the page, the rows and the requests have their shape, and   *)
(* a mark or a running save exists only in a mounted editor.                 *)
TypeOK ==
  /\ page.ver \in 0 .. MaxVersion /\ page.shown \in 0 .. MaxVersion
  /\ page.versions \subseteq 1 .. MaxVersion
  /\ IsRows(page.apis, db.nextDraft) /\ IsRows(page.apiDrafts, db.nextDraft)
  /\ page.apiDetail \in Detail /\ page.form \in Detail
  /\ (page.isDraft \/ page.saving) => EditorMounted(page)
  /\ IsRows(db.api, db.nextApi) /\ IsRows(db.drafts, db.nextDraft)
  /\ \A i \in DOMAIN net : net[i].kind \in Kinds /\ net[i].live \in BOOLEAN

(* The version in the menu is the version whose detail, APIs and flag are on *)
(* the page: the spinner that hides the page while a detail loads keeps two  *)
(* selections from racing.  Only a request that threw separates them.        *)
OneVersion == Visible(page) /\ failures = 0 => page.ver = page.shown

(* A drag moves an API that was published under the version on the page,     *)
(* never the one that has the id of a draft of an old version.               *)
MovesPublished ==
  \A i \in DOMAIN net : net[i].kind = "move" =>
    \E j \in DOMAIN db.hist : /\ db.hist[j].ver = net[i].arg.shown
                              /\ net[i].arg.id \in db.hist[j].apis

(* A save carries the id of the API whose values fill the form, also when    *)
(* another one has been selected and its answer is on the way.               *)
SavesItsForm ==
  \A i \in DOMAIN net : net[i].kind = "save" => net[i].arg.id = net[i].arg.from.id

(* When every answer is in, the drafts in the tree are those of the server:  *)
(* every change is followed by a refresh.  A request that threw, two         *)
(* refreshes that overtake each other, or a change that was sent in the half *)
(* second before a reload and served after it, can leave the tree behind.    *)
FreshAtRest ==
  net = <<>> /\ EditorMounted(page) /\ db.open = page.iterationId /\ ~doubt =>
    /\ DOMAIN page.apiDrafts = DOMAIN db.drafts
    /\ \A id \in DOMAIN db.drafts : page.apiDrafts[id].body = db.drafts[id].body

Awaits(kinds) == \E i \in DOMAIN net : net[i].live /\ net[i].kind \in kinds

(* A spinner waits for an answer that is still to come: over the page for    *)
(* the versions or a detail, over the editor for its iteration or API, on    *)
(* the button for a save or the refresh after it.  The page has two reasons  *)
(* to show its spinner.  The hook's own flag is always cleared; a detail     *)
(* that is missing is always on its way, unless the service was deleted or a *)
(* request threw: then the page may be left with its spinner for good.       *)
SpinnersEnd ==
  /\ page.loading => Awaits({"versions", "detail"})
  /\ isLoading(page) /\ ~page.gone =>
       Awaits({"versions", "detail"}) \/ db.deleted \/ failures # 0
  /\ page.iterationLoading => Awaits({"iteration"})
  /\ page.apiLoading => Awaits({"api"})
  /\ page.saving => Awaits({"save", "iteration"})

(* What a save writes into a draft was typed into a form that a draft had    *)
(* filled: in an iteration the page asks for drafts.                         *)
DraftsFromDrafts ==
  [][Len(net') = Len(net) =>
       \A i \in DOMAIN net :
         net[i].kind = "save" /\ net[i].ans = None /\ net'[i].ans = Ok(None)
           => net[i].arg.from.kind = "draft"]_vars
==============================================================================
