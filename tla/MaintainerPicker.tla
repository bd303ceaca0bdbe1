--------------------------- MODULE MaintainerPicker ---------------------------
(* The maintainer menu in the header of the service page: a debounced search *)
(* for users, a check of every user found, and a click that adds or removes. *)
(*                                                                           *)
(* The endpoint toggles: it adds who is not a maintainer and removes who is, *)
(* whatever the page showed.  The page keeps its own list, maintainersHere,  *)
(* which it changes by the answers without ever loading it again, so the     *)
(* order of the answers decides what the next click means.                   *)
EXTENDS Naturals, Sequences, FiniteSets, SequencesExt

CONSTANTS
  Users,       \* the users a search can find
  Owner,       \* the owner of the service, one of them
  Queries,     \* what is typed, as the sequence of users it finds
  Short,       \* an input of fewer than two characters
  MaxInputs,   \* bound on searches typed and options clicked
  MaxFailures, \* bound on requests that throw or are refused
  MaxOthers    \* bound on toggles by other administrators

ASSUME OwnerIsUser == Owner \in Users
ASSUME QueriesFindUsers == Queries \subseteq Seq(Users)

VARIABLES
  maintainers,     \* the server's maintainers of the service
  maintainersHere, \* how often each user is in the page's list
  options,         \* maintainerOptions, the users last found
  typed,           \* the input the debounce still holds back, or <<>>
  switchLoading,   \* a toggle of this mount is on its way
  net,             \* requests in flight
  inputs, failures, others,
  stale            \* why the page may be wrong: see below

vars == <<maintainers, maintainersHere, options, typed, switchLoading, net,
          inputs, failures, others, stale>>
server == <<maintainers, others>>
view == <<maintainersHere, options, typed, switchLoading>>

Shown == {u \in Users : maintainersHere[u] > 0}
Listed(who) == [u \in Users |-> IF u \in who THEN 1 ELSE 0]

(* A request; `mount` is false once the header that sent it is gone.         *)
Ask(kind, arg) == [kind |-> kind, arg |-> arg, ans |-> "", mount |-> TRUE]
Unanswered(i) == net[i].ans = ""
Answered(i, kind) == net[i].kind = kind /\ ~Unanswered(i) /\ net[i].mount
Rest(i) == RemoveAt(net, i)

Init ==
  /\ maintainers \in SUBSET (Users \ {Owner})
  /\ maintainersHere = Listed(maintainers)
  /\ options = {}
  /\ typed = <<>>
  /\ switchLoading = FALSE
  /\ net = <<>>
  /\ inputs = 0
  /\ failures = 0
  /\ others = 0
  /\ stale = FALSE

Input ==
  /\ inputs < MaxInputs
  /\ inputs' = inputs + 1
  /\ UNCHANGED <<server, failures, stale>>

(* Typing restarts the debounce: only the last input is searched for.        *)
Type(q) ==
  /\ Input
  /\ typed' = <<q>>
  /\ UNCHANGED <<maintainersHere, options, switchLoading, net>>

(* 300 ms later: a short input clears the options, others are searched.      *)
getMaintainerOptions ==
  /\ typed # <<>>
  /\ typed' = <<>>
  /\ IF typed[1] = Short
     THEN options' = {} /\ UNCHANGED net
     ELSE net' = Append(net, Ask("search", typed[1])) /\ UNCHANGED options
  /\ UNCHANGED <<server, maintainersHere, switchLoading, inputs, failures, stale>>

(* The users found are checked one after the other, in the order found.      *)
CheckNext(s, found) == IF found = <<>> THEN s ELSE Append(s, Ask("check", found))

SearchArrives(i) ==
  /\ Answered(i, "search")
  /\ IF net[i].ans = "ok"
     THEN options' = Range(net[i].arg) /\ net' = CheckNext(Rest(i), net[i].arg)
     ELSE net' = Rest(i) /\ UNCHANGED options
  /\ UNCHANGED <<server, maintainersHere, typed, switchLoading, inputs, failures, stale>>

(* A maintainer found is appended to the list, there already or not.         *)
CheckArrives(i) ==
  /\ Answered(i, "check")
  /\ maintainersHere' = IF net[i].ans = "yes"
                        THEN [maintainersHere EXCEPT ![Head(net[i].arg)] = @ + 1]
                        ELSE maintainersHere
  /\ net' = CheckNext(Rest(i), Tail(net[i].arg))
  /\ UNCHANGED <<server, options, typed, switchLoading, inputs, failures, stale>>

(* Mutant: a second click goes out while the first is on its way.            *)
MutIdle == TRUE

(* The menu ignores clicks while a toggle is on its way.                     *)
Idle == ~switchLoading

(* A click on an option: a user not in the list is added if the last search  *)
(* found them, one in the list is removed.  Both send the same request.      *)
Toggle(u) ==
  /\ Idle
  /\ u \in options \cup Shown
  /\ Input
  /\ switchLoading' = TRUE
  /\ net' = Append(net, Ask("toggle", [user |-> u, add |-> u \notin Shown]))
  /\ UNCHANGED <<maintainersHere, options, typed>>

(* Mutant: the loading mark is cleared by success only.                      *)
MutSwitched(ans) == IF ans = "failed" THEN switchLoading ELSE FALSE

Switched(ans) == FALSE

(* Mutant: the answer is ignored, and the list is flipped.                   *)
MutListAfter(u, ans) == [maintainersHere EXCEPT ![u] = IF @ = 0 THEN 1 ELSE 0]

(* A failed toggle answers false, as does a removal.                         *)
ListAfter(u, ans) == [maintainersHere EXCEPT ![u] = IF ans = "yes" THEN @ + 1 ELSE 0]

ToggleArrives(i) ==
  /\ Answered(i, "toggle")
  /\ maintainersHere' = ListAfter(net[i].arg.user, net[i].ans)
  /\ switchLoading' = Switched(net[i].ans)
  /\ net' = Rest(i)
  /\ UNCHANGED <<server, options, typed, inputs, failures, stale>>

(* Another version is selected and this one again: the header is mounted     *)
(* anew with the server's list, and older answers find nobody.  A toggle not *)
(* yet served will make the new list wrong.                                  *)
Remount ==
  /\ Input
  /\ maintainersHere' = Listed(maintainers)
  /\ options' = {}
  /\ typed' = <<>>
  /\ switchLoading' = FALSE
  /\ net' = [i \in DOMAIN net |-> [net[i] EXCEPT !.mount = FALSE]]

------------------------------------------------------------------------------
(* The server.                                                               *)

AddOrRemove(who, u) == IF u \in who THEN who \ {u} ELSE who \cup {u}

(* Mutant: anyone can be made a maintainer.                                  *)
MutRefuses(u) == FALSE

(* The owner cannot be made a maintainer.                                    *)
Refuses(u) == u = Owner
YesNo(b) == IF b THEN "yes" ELSE "no"

(* A check of u that was answered yes before u is removed.                   *)
Overtaken(u) ==
  \E i \in DOMAIN net : net[i].kind = "check" /\ net[i].ans = "yes" /\ Head(net[i].arg) = u

After(r) ==
  IF r.kind # "toggle" \/ Refuses(r.arg.user) THEN maintainers
  ELSE AddOrRemove(maintainers, r.arg.user)

Answer(r) ==
  CASE r.kind = "search" -> "ok"
    [] r.kind = "check"  -> YesNo(Head(r.arg) \in maintainers)
    [] r.kind = "toggle" -> IF Refuses(r.arg.user) THEN "failed"
                            ELSE YesNo(r.arg.user \in After(r))

Serve(i) ==
  /\ Unanswered(i)
  /\ maintainers' = After(net[i])
  /\ net' = [net EXCEPT ![i].ans = Answer(net[i])]
  /\ stale' = (stale \/ /\ net[i].kind = "toggle"
                        /\ ~net[i].mount \/ Overtaken(net[i].arg.user))
  /\ UNCHANGED <<view, inputs, failures, others>>

(* A request throws or is refused, before or after it was served.            *)
Fail(i) ==
  /\ failures < MaxFailures
  /\ net[i].ans # "failed"
  /\ failures' = failures + 1
  /\ net' = [net EXCEPT ![i].ans = "failed"]
  /\ stale' = (stale \/ net[i].kind = "toggle")
  /\ UNCHANGED <<server, view, inputs>>

OthersToggle ==
  /\ others < MaxOthers
  /\ others' = others + 1
  /\ \E u \in Users \ {Owner} : maintainers' = AddOrRemove(maintainers, u)
  /\ stale' = TRUE
  /\ UNCHANGED <<view, net, inputs, failures>>

Drop(i) ==
  /\ ~net[i].mount
  /\ ~Unanswered(i)
  /\ net' = Rest(i)
  /\ UNCHANGED <<server, view, inputs, failures, stale>>

Network == \E i \in DOMAIN net :
  Serve(i) \/ SearchArrives(i) \/ CheckArrives(i) \/ ToggleArrives(i) \/ Drop(i)
Next ==
  \/ \E q \in Queries \cup {Short} : Type(q)
  \/ getMaintainerOptions
  \/ \E u \in Users : Toggle(u)
  \/ Remount
  \/ Network
  \/ \E i \in DOMAIN net : Fail(i)
  \/ OthersToggle

(* Requests are answered and their answers delivered.                        *)
Spec == Init /\ [][Next]_vars /\ WF_vars(Network)

------------------------------------------------------------------------------
(* Properties.                                                               *)

(* Every variable has its shape.                                             *)
TypeOK ==
  /\ maintainers \subseteq Users \ {Owner}
  /\ maintainersHere \in [Users -> Nat]
  /\ options \subseteq Users
  /\ switchLoading \in BOOLEAN
  /\ \A i \in DOMAIN net : net[i].kind \in {"search", "check", "toggle"}

(* When all answers are in, the page lists exactly the maintainers, unless   *)
(* someone else changed them, a toggle failed or was sent before the header  *)
(* was mounted, or a check had been answered before a removal: those are the *)
(* only ways the list goes wrong, whatever searches and clicks overlap.      *)
ListRight == net = <<>> /\ ~stale => Shown = maintainers

(* While the list is right a click means what the page says: who is shown is *)
(* removed and who is not is added, although the endpoint only toggles.      *)
ClicksMeant ==
  [][maintainers' # maintainers /\ ~stale' =>
       \E i \in DOMAIN net :
         /\ net[i].kind = "toggle"
         /\ Unanswered(i)
         /\ maintainers' = IF net[i].arg.add THEN maintainers \cup {net[i].arg.user}
                           ELSE maintainers \ {net[i].arg.user}]_vars

(* The menu accepts clicks again, whether the toggle succeeds or fails.      *)
SwitchEnds == switchLoading ~> ~switchLoading
==============================================================================
