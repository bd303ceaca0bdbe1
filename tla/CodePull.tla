------------------------------ MODULE CodePull ------------------------------
(***************************************************************************)
(* The cam command line: ~/.camrc with the token and the user, the file    *)
(* cam.config.json with the services of a project, and the directory of    *)
(* generated code, which every pull empties and fills again from the       *)
(* backend while others commit new versions.  Each await of the code ends  *)
(* a step; a request meets the backend as it is when it is answered.       *)
(* A killed process leaves the files as they are.                          *)
(***************************************************************************)
EXTENDS Naturals, Sequences, FiniteSets, SequencesExt

CONSTANTS
  Accounts,
  Services,       \* service_uuids
  Names,          \* directory names given to services
  ApiNames,
  Latest,         \* the version "latest"
  NULL,
  FirstConfigs,   \* what cam.config.json of the checked-out project may hold
  LastDraft,      \* the last ApiDraft id given out before
  Asked,          \* versions a user asks for: Latest or a number
  MaxVersion,     \* bound: how far each service is committed
  MaxCommands     \* bound

(* One entry of "services": its key, and its value split at the "@".       *)
Entry == [name: Names, service: Services, version: Asked]

Distinct(entries) ==
  \A i, j \in DOMAIN entries :
    entries[i].name = entries[j].name \/ entries[i].service = entries[j].service
      => i = j

ASSUME PullAssumption ==
  /\ {MaxCommands, LastDraft} \subseteq Nat
  /\ MaxVersion \in [Services -> Nat \ {0}]
  /\ NULL \notin Accounts
  /\ IsFiniteSet(Services) /\ IsFiniteSet(ApiNames)
  /\ FirstConfigs \ {NULL} \subseteq Seq(Entry)
  /\ \A c \in FirstConfigs \ {NULL} : Distinct(c)

VARIABLES
  camrc,      \* token and user
  clearing,   \* the token was taken out of .camrc, the user comes next
  config,     \* NULL before cam init, else the entries of "services" in order
  outDir,     \* NULL, or the subdirectories: the APIs in namespaces.ts, or NULL
  command,    \* the running command
  reported,   \* the last command said that all services were generated
  expired,    \* accounts whose token the backend refuses
  access,     \* services the user may still read
  apis,       \* backend: the Api rows of each service's published version
  drafts,     \* backend: the ApiDraft rows of each committed version
  lastApi,    \* backend: the last id of each table
  lastDraft,
  commands

rc == <<camrc, clearing>>
backend == <<apis, drafts, lastApi, lastDraft>>
vars == <<rc, config, outDir, command, reported, expired, access, backend,
          commands>>

EmptyRc == [token |-> NULL, user |-> NULL]
Idle == [pc |-> "idle"]

-----------------------------------------------------------------------------
(* The backend.  Both id columns count from 1, so an Api and an ApiDraft   *)
(* may have the same id.  A commit replaces all Api rows of its service by *)
(* copies, with new ids, of the drafts of the iteration.                   *)
Row(id, s, v, n) == [id |-> id, service |-> s, version |-> v, name |-> n]

Numbered(S) ==
  CHOOSE f \in [S -> 1 .. Cardinality(S)] : \A x, y \in S : f[x] = f[y] => x = y

Version(s) == (CHOOSE r \in apis : r.service = s).version

Commit(s) ==
  LET v == Version(s) + 1
      nth == Numbered(ApiNames)
  IN /\ v <= MaxVersion[s]
     /\ apis' = {r \in apis : r.service # s}
                  \cup {Row(lastApi + nth[n], s, v, n) : n \in ApiNames}
     /\ drafts' = drafts \cup {Row(lastDraft + nth[n], s, v, n) : n \in ApiNames}
     /\ lastApi' = lastApi + Cardinality(ApiNames)
     /\ lastDraft' = lastDraft + Cardinality(ApiNames)
     /\ UNCHANGED <<rc, config, outDir, command, reported, expired, access,
                    commands>>

Valid == camrc.token # NULL /\ camrc.token \notin expired

Expire ==
  /\ Valid
  /\ expired' = expired \cup {camrc.token}
  /\ UNCHANGED <<rc, config, outDir, command, reported, access, backend,
                 commands>>

(* Another maintainer takes this user off the service.                     *)
Revoke(s) ==
  /\ s \in access
  /\ access' = access \ {s}
  /\ UNCHANGED <<rc, config, outDir, command, reported, expired, backend,
                 commands>>

(* Answers with a status: GetServiceByUuidAndVersion and GetApiById.       *)
IsLatest(s, v) == v = Latest \/ v = Version(s)

Listing(s, v) ==
  IF IsLatest(s, v) THEN {r \in apis : r.service = s}
  ELSE {r \in drafts : r.service = s /\ r.version = v}

Found(s, v) == s \in access /\ Listing(s, v) # {}

(* Mutant: the flag is not sent, so the backend takes its default.         *)
MutTableOf(isLatest) == apis

TableOf(isLatest) == IF isLatest THEN apis ELSE drafts

Detail(id, isLatest) ==
  {r \in TableOf(isLatest) : r.id = id /\ r.service \in access}

-----------------------------------------------------------------------------
(* The request layer.  setToken("") and setUser({}) write .camrc one after *)
(* the other, and the process may be killed in between.                    *)
Clear ==
  /\ camrc' = [camrc EXCEPT !.token = NULL]
  /\ clearing' = TRUE

(* A request fails: the network, the timeout of 15 s, or 401.  The first   *)
(* 401 clears .camrc; a later one finds no token and resolves to           *)
(* undefined, on which get() fails.  All end in the caller's catch.        *)
Fails ==
  \/ UNCHANGED rc
  \/ camrc.token \in expired /\ Clear

Answered == Valid /\ UNCHANGED rc

-----------------------------------------------------------------------------
(* Commands.  A command that needs a token asks for a login first.         *)
Begin(next) ==
  /\ command.pc = "idle"
  /\ commands < MaxCommands
  /\ commands' = commands + 1
  /\ command' = IF next.pc = "login" \/ camrc.token # NULL THEN next
                ELSE [pc |-> "login", next |-> next]
  /\ reported' = FALSE
  /\ UNCHANGED <<rc, config, outDir, expired, access, backend>>

LoginCommand == Begin([pc |-> "login", next |-> Idle])
InitCommand == Begin([pc |-> "init"])
AddCommand(n, s, v) == Begin([pc |-> "add", name |-> n, service |-> s, version |-> v])
RemoveCommand(n) == Begin([pc |-> "remove", name |-> n])
UpdateCommand == Begin([pc |-> "pull"])

Step(next) ==
  /\ command' = next
  /\ UNCHANGED <<expired, access, backend, commands>>

(* The user answers the prompt; the token is stored before GetMyInfo.      *)
LoginSubmit(a) ==
  /\ command.pc = "login"
  /\ camrc' = [camrc EXCEPT !.token = a]
  /\ expired' = expired \ {a}
  /\ command' = [command EXCEPT !.pc = "me"]
  /\ UNCHANGED <<clearing, config, outDir, reported, access, backend, commands>>

(* A refused login returns: the command goes on if a token is there.       *)
LoginRefused ==
  /\ command.pc = "login"
  /\ Step(IF camrc.token # NULL THEN command.next ELSE Idle)
  /\ UNCHANGED <<rc, config, outDir, reported>>

MyInfoArrives ==
  /\ command.pc = "me"
  /\ Valid
  /\ camrc' = [camrc EXCEPT !.user = camrc.token]
  /\ Step(command.next)
  /\ UNCHANGED <<clearing, config, outDir, reported>>

(* Another status than 200: the login returns without storing the user,    *)
(* and the command goes on with the token.                                 *)
MyInfoRefused ==
  /\ command.pc = "me"
  /\ Answered
  /\ Step(command.next)
  /\ UNCHANGED <<config, outDir, reported>>

(* Thrown: process.exit(1), before the command that asked for the login.   *)
MyInfoFails ==
  /\ command.pc = "me"
  /\ Fails
  /\ Step(Idle)
  /\ UNCHANGED <<config, outDir, reported>>

Logout ==
  /\ command.pc = "idle"
  /\ commands < MaxCommands
  /\ camrc.token # NULL
  /\ Clear
  /\ commands' = commands + 1
  /\ reported' = FALSE
  /\ UNCHANGED <<config, outDir, command, expired, access, backend>>

setUser ==
  /\ clearing
  /\ camrc' = [camrc EXCEPT !.user = NULL]
  /\ clearing' = FALSE
  /\ UNCHANGED <<config, outDir, command, reported, expired, access, backend,
                 commands>>

init ==
  /\ command.pc = "init"
  /\ config' = IF config = NULL THEN <<>> ELSE config
  /\ Step(Idle)
  /\ UNCHANGED <<rc, outDir, reported>>

HasName(n) == \E i \in DOMAIN config : config[i].name = n

(* Mutant: the service and the version are compared with the stored value. *)
MutHasService(s) ==
  \E i \in DOMAIN config : /\ config[i].service = s
                           /\ config[i].version = command.version

HasService(s) == \E i \in DOMAIN config : config[i].service = s

(* storeServiceInfo exits without a request when there is no config or the *)
(* name or the service is already there, and when the answer is not 200.   *)
Excluded ==
  config # NULL => HasName(command.name) \/ HasService(command.service)

AddRefused ==
  /\ command.pc = "add"
  /\ \/ Excluded /\ UNCHANGED rc
     \/ ~Excluded /\ Answered /\ ~Found(command.service, command.version)
     \/ ~Excluded /\ Fails
  /\ Step(Idle)
  /\ UNCHANGED <<config, outDir, reported>>

storeServiceInfo ==
  /\ command.pc = "add"
  /\ ~Excluded
  /\ Answered
  /\ Found(command.service, command.version)
  /\ config' = Append(config, [name |-> command.name, service |-> command.service,
                               version |-> command.version])
  /\ Step([pc |-> "pull"])
  /\ UNCHANGED <<outDir, reported>>

removeService ==
  /\ command.pc = "remove"
  /\ IF config # NULL /\ HasName(command.name)
     THEN /\ \E i \in DOMAIN config : /\ config[i].name = command.name
                                      /\ config' = RemoveAt(config, i)
          /\ Step([pc |-> "pull"])
     ELSE /\ UNCHANGED config
          /\ Step(Idle)
  /\ UNCHANGED <<rc, outDir, reported>>

-----------------------------------------------------------------------------
(* pullAllApisInAllServices                                                *)
PullExits ==
  /\ command.pc = "pull"
  /\ config = NULL \/ config = <<>>
  /\ Step(Idle)
  /\ UNCHANGED <<rc, config, outDir, reported>>

Empty == [n \in {} |-> NULL]

(* Mutant: the directory is only created when it is missing.               *)
MutEmptied(dir) == IF dir = NULL THEN Empty ELSE dir

Emptied(dir) == Empty

PullBegins ==
  /\ command.pc = "pull"
  /\ config # NULL /\ config # <<>>
  /\ outDir' = Emptied(outDir)
  /\ Step([pc |-> "service", left |-> config])
  /\ UNCHANGED <<rc, config, reported>>

WithDir(n, content) ==
  [m \in DOMAIN outDir \cup {n} |-> IF m = n THEN content ELSE outDir[m]]

Current == Head(command.left)

(* Mutant: the loop does not advance.                                      *)
MutNextService == [pc |-> "service", left |-> command.left]

NextService == [pc |-> "service", left |-> Tail(command.left)]

(* The service's directory is made first; then the list is asked for.      *)
ListArrives ==
  /\ command.pc = "service" /\ command.left # <<>>
  /\ Answered
  /\ outDir' = WithDir(Current.name, NULL)
  /\ LET s == Current.service
         v == Current.version
     IN Step(IF Found(s, v)
             THEN [pc |-> "detail", left |-> command.left,
                   isLatest |-> IsLatest(s, v),
                   todo |-> {r.id : r \in Listing(s, v)}, got |-> {}]
             ELSE NextService)
  /\ UNCHANGED <<config, reported>>

ListFails ==
  /\ command.pc = "service" /\ command.left # <<>>
  /\ Fails
  /\ outDir' = WithDir(Current.name, NULL)
  /\ Step(NextService)
  /\ UNCHANGED <<config, reported>>

(* The APIs are asked for one after the other; the order does not matter.  *)
(* One that is not found any more is skipped.                              *)
DetailArrives ==
  /\ command.pc = "detail"
  /\ Answered
  /\ \E id \in command.todo :
       Step([command EXCEPT !.todo = @ \ {id},
                            !.got = @ \cup Detail(id, command.isLatest)])
  /\ UNCHANGED <<config, outDir, reported>>

(* Thrown: this service gets no files at all.                              *)
DetailFails ==
  /\ command.pc = "detail"
  /\ command.todo # {}
  /\ Fails
  /\ Step(NextService)
  /\ UNCHANGED <<config, outDir, reported>>

WriteService ==
  /\ command.pc = "detail"
  /\ command.todo = {}
  /\ outDir' = WithDir(Current.name, command.got)
  /\ Step(NextService)
  /\ UNCHANGED <<rc, config, reported>>

(* request-demo.ts for the first service, and the message.                 *)
PullEnds ==
  /\ command.pc = "service"
  /\ command.left = <<>>
  /\ reported' = TRUE
  /\ Step(Idle)
  /\ UNCHANGED <<rc, config, outDir>>

(* The process is killed.                                                  *)
Interrupt ==
  /\ command.pc # "idle" \/ clearing
  /\ clearing' = FALSE
  /\ Step(Idle)
  /\ UNCHANGED <<camrc, config, outDir, reported>>

-----------------------------------------------------------------------------
(* The user is logged in or not; the project may have a configuration, and *)
(* its generated code is not checked in.  Version 1 was never an iteration.*)
Init ==
  /\ \E a \in Accounts : camrc \in {EmptyRc, [token |-> a, user |-> a]}
  /\ clearing = FALSE
  /\ config \in FirstConfigs
  /\ outDir = NULL
  /\ command = Idle
  /\ reported = FALSE
  /\ expired = {}
  /\ access = Services
  /\ apis = {Row(Numbered(Services \X ApiNames)[x], x[1], 1, x[2]) :
                x \in Services \X ApiNames}
  /\ drafts = {}
  /\ lastApi = Cardinality(Services \X ApiNames)
  /\ lastDraft = LastDraft
  /\ commands = 0

(* Nothing of a process comes between its two writes but its end.          *)
User ==
  \/ Interrupt
  \/ /\ ~clearing
     /\ \/ LoginCommand \/ InitCommand \/ UpdateCommand \/ Logout
        \/ \E n \in Names, s \in Services, v \in Asked : AddCommand(n, s, v)
        \/ \E n \in Names : RemoveCommand(n)
        \/ \E a \in Accounts : LoginSubmit(a)
        \/ LoginRefused

Process ==
  \/ setUser
  \/ /\ ~clearing
     /\ \/ MyInfoArrives \/ MyInfoRefused \/ MyInfoFails \/ init
        \/ AddRefused \/ storeServiceInfo \/ removeService
        \/ PullExits \/ PullBegins \/ ListArrives \/ ListFails
        \/ DetailArrives \/ DetailFails \/ WriteService \/ PullEnds

Others == Expire \/ \E s \in Services : Commit(s) \/ Revoke(s)

Next == User \/ Process \/ Others

(* Every await ends: requests time out after 15 s.  The prompt may stay.   *)
Spec == Init /\ [][Next]_vars /\ WF_vars(Process)

-----------------------------------------------------------------------------
(* The files have their shape: no name and no service is twice in          *)
(* cam.config.json, and .camrc is being cleared only when its token is     *)
(* gone.  A killed process may leave a user without a token there, which   *)
(* every command takes for nobody.                                         *)
TypeOK ==
  /\ camrc \in [token: Accounts \cup {NULL}, user: Accounts \cup {NULL}]
  /\ clearing \in BOOLEAN /\ (clearing => camrc.token = NULL)
  /\ config # NULL => config \in Seq(Entry) /\ Distinct(config)
  /\ outDir # NULL => DOMAIN outDir \subseteq Names
  /\ reported \in BOOLEAN
  /\ expired \subseteq Accounts /\ access \subseteq Services
  /\ commands \in 0 .. MaxCommands

(* The code in one directory is of one service and one version, even when  *)
(* versions are committed between the requests of a pull; and after a pull *)
(* that says it is done, it is of the service and version the              *)
(* configuration names.                                                    *)
FromOneVersion ==
  outDir # NULL => \A n \in DOMAIN outDir : outDir[n] # NULL =>
    /\ \A q, r \in outDir[n] : q.version = r.version /\ q.service = r.service
    /\ reported => \A i \in DOMAIN config : config[i].name = n =>
         \A r \in outDir[n] : /\ r.service = config[i].service
                               /\ config[i].version \in {Latest, r.version}

(* After a pull that says it is done, exactly the configured services have *)
(* a directory: none is missing and no removed service is left.            *)
MatchesConfig ==
  reported => DOMAIN outDir = {config[i].name : i \in DOMAIN config}

(* A command that is past its login prompt ends, whatever answers it gets  *)
(* and whatever is committed, revoked or expires meanwhile.                *)
AtUser == command.pc \in {"idle", "login"}
CommandsEnd == ~AtUser ~> AtUser
=============================================================================
