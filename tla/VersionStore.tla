---------------------------- MODULE VersionStore ----------------------------
(***************************************************************************)
(* What the backend promises about versions, without drafts, users or      *)
(* categories: a service always has one current content; a release gives   *)
(* it a new one, in a single step, and files the same content in the       *)
(* history; what is filed never changes.  Only content without APIs can be *)
(* dropped from the history.                                               *)
(***************************************************************************)
CONSTANTS Services, Ids, InitVersion

VARIABLES
  current,   \* by service: [version, description, surface]
  history    \* by id of the release: [service, content]

storeVars == <<current, history>>

StoreInit ==
  /\ current = [s \in {} |-> {}]
  /\ history = [i \in {} |-> {}]

\* The first content of a service is its description and no APIs.
Register(s) ==
  /\ s \notin DOMAIN current
  /\ s \in DOMAIN current'
  /\ current' = [x \in DOMAIN current \cup {s} |->
       IF x = s
       THEN [version |-> InitVersion,
             description |-> current'[s].description, surface |-> {}]
       ELSE current[x]]
  /\ UNCHANGED history

\* Any content under a version other than the current one may be released.
Release(s, i) ==
  /\ s \in DOMAIN current
  /\ i \notin DOMAIN history
  /\ current'[s].version # current[s].version
  /\ current' = [current EXCEPT ![s] = current'[s]]
  /\ history' = [x \in DOMAIN history \cup {i} |->
       IF x = i THEN [service |-> s, content |-> current'[s]]
       ELSE history[x]]

Forget(i) ==
  /\ i \in DOMAIN history
  /\ history[i].content.surface = {}
  /\ history' = [x \in DOMAIN history \ {i} |-> history[x]]
  /\ UNCHANGED current

StoreNext ==
  \/ \E s \in Services : Register(s) \/ \E i \in Ids : Release(s, i)
  \/ \E i \in Ids : Forget(i)

StoreSpec == StoreInit /\ [][StoreNext]_storeVars
=============================================================================
