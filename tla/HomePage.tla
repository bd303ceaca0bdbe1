------------------------------- MODULE HomePage -------------------------------
(* The home page: the service list of hooks/useService.tsx in LoggedInView   *)
(* and ServiceList, on top of the session.                                   *)
(*                                                                           *)
(* Five tabs each fetch a page of services.  Every fetch is remembered in    *)
(* refetchRef, which a deletion, a restoration or a creation runs again when *)
(* its answer arrives, whatever tab is open by then.  Tabs are not disabled  *)
(* while a list loads, and the answers are applied as they come.             *)
EXTENDS WebSession

CONSTANTS
  Services,    \* service ids, natural numbers
  L0,          \* the accounts of level 0
  Maintained,  \* the services each account maintains
  FirstOwner,  \* the services at the beginning, and their owners
  MaxPage,     \* bound on the page of a list, of one service each
  MaxClicks,   \* bound on the operations on the list
  MaxFlight    \* bound on the requests in flight when the user clicks

ASSUME ServicesNat == Services \subseteq Nat
ASSUME FirstOwned ==
  DOMAIN FirstOwner \subseteq Services /\ \A s \in DOMAIN FirstOwner : FirstOwner[s] \in Accounts
ASSUME PagesStart == MaxPage \in Nat \ {0}
ASSUME L0IsAccounts == L0 \subseteq Accounts

VARIABLES
  rows,     \* the server's services: owner, is_deleted, and when (0: never)
  view,     \* serviceRange, current_page and hisIdRef
  list,     \* serviceList, with is_deleted as it was answered
  busy,     \* the spinner of the table
  refetch,  \* refetchRef: the arguments of the last fetch, or None
  asks,     \* requests of the list in flight
  clicks,
  orphans,  \* changes a page that is gone sent, which the server may yet serve
  overtaken, \* this page's list: a request threw, two fetches were in flight,
             \* or a change of an earlier page was served
  threw      \* an exception reached this page, and no fetch was answered since

listVars == <<view, list, busy, refetch, asks, clicks, orphans, overtaken, threw>>
vars == <<session, rows, listVars>>

Ranges == {"MyServices", "MyMaintainedServices", "MyDeletedServices", "HisServices", "AllServices"}
Open(who) == IF who \in L0 THEN Ranges ELSE Ranges \ {"HisServices", "AllServices"}

Mounted == user # None
FirstView == [range |-> "MyServices", page |-> 1, his |-> None]
Ask(kind, arg, by, as) == [kind |-> kind, arg |-> arg, by |-> by, as |-> as, ans |-> None]
Fetching(s) == Cardinality({i \in DOMAIN s : s[i].kind = "fetch"})
Rest(i) == RemoveAt(asks, i)

------------------------------------------------------------------------------
(* The server's lists, a page at a time: newest first, and the deleted ones  *)
(* by the time of their deletion.                                            *)

InRange(who, v) ==
  {s \in DOMAIN rows :
    CASE v.range = "MyServices" -> rows[s].owner = who /\ ~rows[s].deleted
      [] v.range = "MyMaintainedServices" -> s \in Maintained[who] /\ ~rows[s].deleted
      [] v.range = "MyDeletedServices" -> rows[s].owner = who /\ rows[s].deleted
      [] v.range = "HisServices" -> rows[s].owner = v.his /\ ~rows[s].deleted
      [] v.range = "AllServices" -> TRUE}
Key(v, s) == IF v.range = "MyDeletedServices" THEN rows[s].deletedAt ELSE s
OnPage(who, v) ==
  {s \in InRange(who, v) :
    Cardinality({t \in InRange(who, v) : Key(v, t) >= Key(v, s)}) = v.page}
Answer(who, v) == [s \in OnPage(who, v) |-> rows[s].deleted]
MayEdit(who, s) == s \in DOMAIN rows /\ (rows[s].owner = who \/ who \in L0)

Ok(value) == [status |-> "ok", value |-> value]
Refused == [status |-> "refused", value |-> None]
Thrown == [status |-> "thrown", value |-> None]
ASSUME NoneIsNoAnswer == None \notin {Ok(None), Refused, Thrown}

(* A deletion may be repeated, and counts anew; a restoration may not.       *)
Done(r) ==
  CASE r.kind = "fetch" -> r.arg.range \in Open(r.as)
    [] r.kind = "create" -> r.arg \notin DOMAIN rows
    [] OTHER -> MayEdit(r.as, r.arg) /\ (r.kind = "restore" => rows[r.arg].deleted)

Now == 1 + Max({rows[s].deletedAt : s \in DOMAIN rows})
Changed(r) ==
  IF r.kind = "fetch" \/ ~Done(r) THEN rows
  ELSE [s \in DOMAIN rows \cup {r.arg} |->
          IF s # r.arg THEN rows[s]
          ELSE [owner |-> IF r.kind = "create" THEN r.as ELSE rows[s].owner,
                deleted |-> r.kind = "delete",
                deletedAt |-> IF r.kind = "delete" THEN Now ELSE 0]]

Answered(r) ==
  IF ~Done(r) THEN Refused ELSE IF r.kind = "fetch" THEN Ok(Answer(r.as, r.arg)) ELSE Ok(None)

Serve(i) ==
  /\ asks[i].ans = None
  /\ asks[i].as # None
  /\ rows' = Changed(asks[i])
  /\ asks' = [asks EXCEPT ![i].ans = Answered(asks[i])]
  /\ UNCHANGED <<session, view, list, busy, refetch, clicks, orphans, overtaken, threw>>

(* A change is served when the page that sent it is gone.                    *)
ServeOrphan ==
  \E r \in orphans :
    /\ r.as # None
    /\ rows' = Changed(r)
    /\ orphans' = orphans \ {r}
    /\ overtaken' = (overtaken \/ (Mounted /\ rows' # rows))
    /\ UNCHANGED <<session, view, list, busy, refetch, asks, clicks, threw>>

(* A timeout or a server error, before or after the request was served.      *)
Throw(i) ==
  /\ failures < MaxFailures
  /\ asks[i].ans # Thrown
  /\ failures' = failures + 1
  /\ asks' = [asks EXCEPT ![i].ans = Thrown]
  /\ overtaken' = TRUE
  /\ UNCHANGED <<storage, modal, calls, logins, others, raced>>
  /\ UNCHANGED <<rows, view, list, busy, refetch, clicks, orphans, threw>>

------------------------------------------------------------------------------
(* Fetching.                                                                 *)

(* A fetcher: refetchRef remembers it, the spinner starts, the request goes. *)
Fetch(v, s, by) ==
  /\ refetch' = v
  /\ busy' = TRUE
  /\ asks' = Append(s, Ask("fetch", v, by, localToken))
  /\ overtaken' = (overtaken \/ Fetching(s) > 0)

(* Mutant: the rows of the last user stay in the table.                      *)
MutFresh == view' = FirstView /\ list' = list

(* LoggedInView appears with the user and fetches the first tab; it goes     *)
(* with the user or with the page that is reloaded.  Answers on their way    *)
(* find nobody then, and changes on their way may still reach the server.    *)
Fresh == view' = FirstView /\ list' = <<>>
Unserved(s) == {s[i] : i \in {j \in DOMAIN s : s[j].kind # "fetch" /\ s[j].ans = None}}
Remount ==
  /\ Fresh
  /\ refetch' = IF user' # None THEN FirstView ELSE None
  /\ busy' = (user' # None)
  /\ asks' = IF user' # None THEN <<Ask("fetch", FirstView, "effect", localToken')>> ELSE <<>>
  /\ orphans' = orphans \cup Unserved(asks)
  /\ overtaken' = FALSE
  /\ threw' = FALSE
  /\ UNCHANGED <<rows, clicks>>
Follow == IF Mounted /\ user' # None THEN UNCHANGED <<rows, listVars>> ELSE Remount

(* Mutant: a refused fetch leaves the spinner.                               *)
MutBusyAfter(r) == busy /\ r.ans.status # "ok"

(* The table shows an answer, or nothing when it is refused.  An exception   *)
(* leaves before the spinner is cleared; the handlers of a deletion and a    *)
(* restoration clear it then, the effect and a creation do not.              *)
BusyAfter(r) == busy /\ r.ans = Thrown /\ r.by \notin {"delete", "restore"}
FetchArrives(i) ==
  /\ asks[i].kind = "fetch"
  /\ asks[i].ans # None
  /\ list' = IF asks[i].ans = Thrown THEN list
             ELSE IF asks[i].ans = Refused THEN <<>> ELSE asks[i].ans.value
  /\ busy' = BusyAfter(asks[i])
  /\ asks' = Rest(i)
  /\ threw' = (asks[i].ans = Thrown)
  /\ UNCHANGED <<session, rows, view, refetch, clicks, orphans, overtaken>>

------------------------------------------------------------------------------
(* The user's clicks.                                                        *)

Click ==
  /\ Mounted
  /\ ~modal
  /\ clicks < MaxClicks
  /\ Len(asks) < MaxFlight
  /\ clicks' = clicks + 1
  /\ UNCHANGED <<session, rows, orphans, threw>>

(* A new tab starts at its first page.                                       *)
SelectTab ==
  \E r \in Open(user) \ {view.range, "HisServices"} :
    LET v == [view EXCEPT !.range = r, !.page = 1]
    IN  Click /\ view' = v /\ Fetch(v, asks, "effect") /\ UNCHANGED list

(* The tab of another owner asks who; cancelling opens it for nobody.        *)
SelectHis ==
  /\ "HisServices" \in Open(user) \ {view.range}
  /\ \E owner \in Accounts \cup {None} :
       LET v == [range |-> "HisServices", page |-> 1, his |-> owner]
       IN  Click /\ view' = v /\ Fetch(v, asks, "effect") /\ UNCHANGED list

handlePageChange ==
  \E p \in (1 .. MaxPage) \ {view.page} :
    LET v == [view EXCEPT !.page = p]
    IN  Click /\ view' = v /\ Fetch(v, asks, "effect") /\ UNCHANGED list

(* The button of a row depends on its is_deleted; both start the spinner.    *)
handleDeleteOrRestore ==
  \E s \in DOMAIN list :
    /\ Click
    /\ asks' = Append(asks, Ask(IF list[s] THEN "restore" ELSE "delete", s, "user", localToken))
    /\ busy' = TRUE
    /\ UNCHANGED <<view, list, refetch, overtaken>>

handleCreateService ==
  \E s \in Services \ DOMAIN rows :
    /\ Click
    /\ asks' = Append(asks, Ask("create", s, "user", localToken))
    /\ UNCHANGED <<view, list, busy, refetch, overtaken>>

(* Mutant: the list is fetched as it was when the button was clicked.        *)
MutToRefetch(r) == FirstView

(* What a successful change fetches: the last fetch made.                    *)
ToRefetch(r) == refetch

(* A change succeeds and the list is fetched again, or it fails.             *)
ChangeArrives(i) ==
  /\ asks[i].kind # "fetch"
  /\ asks[i].ans # None
  /\ IF asks[i].ans.status = "ok" THEN Fetch(ToRefetch(asks[i]), Rest(i), asks[i].kind)
     ELSE /\ asks' = Rest(i)
          /\ busy' = IF asks[i].kind = "create" \/ (asks[i].kind = "restore" /\ asks[i].ans = Thrown)
                     THEN busy ELSE FALSE
          /\ UNCHANGED <<refetch, overtaken>>
  /\ threw' = (threw \/ asks[i].ans = Thrown)
  /\ UNCHANGED <<session, rows, view, list, clicks, orphans>>

(* A request of the list without a valid token ends the session too.         *)
ListUnauthorized == asks # <<>> /\ Unauthorized /\ Remount

Init ==
  /\ SessionInit
  /\ rows = [s \in DOMAIN FirstOwner |-> [owner |-> FirstOwner[s], deleted |-> FALSE, deletedAt |-> 0]]
  /\ view = FirstView
  /\ list = <<>>
  /\ busy = FALSE
  /\ refetch = None
  /\ asks = <<>>
  /\ clicks = 0
  /\ orphans = {}
  /\ overtaken = FALSE
  /\ threw = FALSE

Next ==
  \/ SessionNext /\ Follow
  \/ PressReload /\ Remount
  \/ ListUnauthorized
  \/ SelectTab \/ SelectHis \/ handlePageChange \/ handleDeleteOrRestore \/ handleCreateService
  \/ \E i \in DOMAIN asks : Serve(i) \/ Throw(i) \/ FetchArrives(i) \/ ChangeArrives(i)
  \/ ServeOrphan

Spec == Init /\ [][Next]_vars

------------------------------------------------------------------------------
(* Properties.                                                               *)

(* Without a user there is no list, and no request of one.                   *)
TypeOK ==
  /\ SessionTypeOK
  /\ view.range \in Ranges /\ view.page \in 1 .. MaxPage
  /\ DOMAIN list \subseteq Services
  /\ ~Mounted => list = <<>> /\ asks = <<>> /\ ~busy

(* When all answers are in, the table shows what the server has for the tab, *)
(* the page and the account on the screen: a change made on one tab and      *)
(* answered on another refreshes the other.  What is left to show an old     *)
(* list is an exception, two fetches that overtake each other, a change that *)
(* outlived its page, and a session that changes under the page, by another  *)
(* tab or a sign-in that meets a profile.                                    *)
ListCurrent ==
  Mounted /\ asks = <<>> /\ ~overtaken /\ ~raced => list = Answer(user, view)

(* Nothing but an exception leaves the spinner of the table turning for      *)
(* nobody: while no exception reached the page since the last fetch that was *)
(* answered, a spinner waits for a request, however fetches of several tabs  *)
(* and changes overlap and whoever clears it in between.                     *)
BusyAwaits == busy /\ asks = <<>> => threw
==============================================================================
