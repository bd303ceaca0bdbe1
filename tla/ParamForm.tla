----------------------------- MODULE ParamForm -----------------------------
(***************************************************************************)
(* The API editor of the web client (ApiEdit with its parameter tables and *)
(* status-code tabs) over the parameter rows of the drafts: the user edits *)
(* nested tables, submits them, opens another API, copies one, commits the *)
(* iteration and starts the next.  Which requests may overlap on the page  *)
(* is ServicePage's subject; here a request other than the save is one     *)
(* step, and the content of the tables is what matters.                    *)
(***************************************************************************)
EXTENDS GeneratedCode

CONSTANTS
  Apis,        \* drafts that can exist
  FirstDrafts, \* the drafts of the iteration when the editor is first opened,
               \* as the forms they were saved from
  Locations,   \* request tables, of query, path, body, header and cookie
  ApiName,     \* the name of each API
  Names,       \* names that can be typed
  PathTexts,   \* a path is known by the names it holds in braces
  Codes,       \* status codes that can be typed: as what number Number()
               \* and parseInt() read them, and how the number is spelled
  Numeral,     \* the numeral of each number that parseInt() reads
  MaxIds, MaxEdits, \* bounds on the ids of the items and on edits
  MaxSteps          \* bound on edits, copies and commits together

Empty == <<>>                     \* the name of a new row
Space == " "
NoApi == "none"

(* "200" is Plain(200).  "0200" is another spelling of the same number;    *)
(* "2e2" is 200 to Number() and 2 to parseInt().                           *)
Plain(n) == [spelling |-> 0, num |-> n, int |-> n]
NoTab == [spelling |-> 0, num |-> 0, int |-> 1]
Nums == {c.int : c \in Codes}

(* What is sent as a number comes back as its numeral.                     *)
ASSUME FormAssumption ==
  /\ NoApi \notin Apis
  /\ "path" \in Locations
  /\ Codes \subseteq [spelling : Nat, num : Nat, int : Nat]
  /\ NoTab \notin Codes
  /\ Plain(200) \in Codes /\ \A c \in Codes : Plain(c.int) \in Codes
  /\ {MaxIds, MaxEdits, MaxSteps, Depth} \subseteq Nat

(* Names are made of words, the numerals and the suffixes among them.      *)
ASSUME NamesAssumption ==
  /\ Locations \cup {"Item", "Request", "Response"} \subseteq Words
  /\ Upper \in [Words -> Words]
  /\ ApiName \in [Apis -> Seq(Words)]
  /\ Names \subseteq Seq(Words)
  /\ Numeral \in [Nums -> Words]

VARIABLES
  drafts,     \* ApiDraft rows: path, request rows, response rows; and as
              \* history what the form held when they were last saved
  published,  \* Api rows, of the same shape
  editor,     \* the state of the mounted ApiEdit
  saving,     \* the save request in flight, or none
  edits,
  copies      \* copies of an API and commits so far

vars == <<drafts, published, editor, saving, edits, copies>>

None == [api |-> NoApi]
NoItems == [p \in {} |-> p]
Closed ==
  [api |-> NoApi, path |-> {}, req |-> [l \in Locations |-> NoItems],
   resp |-> <<>>, tab |-> NoTab, isDraft |-> FALSE, rejectSubmit |-> FALSE,
   touched |-> FALSE]

-----------------------------------------------------------------------------
(* ParamTable: one handler call, in this table or in one opened from it.   *)
isLegalValue(name) == name # Empty /\ \A i \in DOMAIN name : name[i] # Space

(* validateData: type and required always have a value in these tables.    *)
(* The outer table validates after the one inside of it, and has its own   *)
(* rows only.                                                              *)
HasError(table) ==
  \E p \in DOMAIN table : Len(p) = 1 /\ ~isLegalValue(table[p].name)

NewRow ==
  [name |-> Empty, type |-> "string", act |-> NoType, required |-> TRUE]

(* An item has a row on the screen when the items it is inside of have     *)
(* tables; a table is open on the form or on a row.                        *)
OnScreen(table) ==
  {p \in DOMAIN table :
     \A i \in 1 .. Len(p) - 1 : TakesChildren(table[Upto(p, i)])}

OpenTables(table) ==
  {<<>>} \cup {p \in OnScreen(table) : TakesChildren(table[p])}

(* generateId: an id that no item of the form has.                         *)
FreeIds(tables) == (1 .. MaxIds) \ {Own(n) : n \in Nodes(tables)}
generateId(tables) == CHOOSE id \in FreeIds(tables) : TRUE

handleAdd(table, id) ==
  {[p \in DOMAIN table \cup {Append(q, id)} |->
      IF p = Append(q, id) THEN NewRow ELSE table[p]] :
     q \in {o \in OpenTables(table) : Len(o) < Depth}}

(* A row is removed with what is inside of it.                             *)
handleRemove(table) ==
  {[p \in {o \in DOMAIN table : Len(o) < Len(q) \/ Upto(o, Len(q)) # q} |->
      table[p]] : q \in OnScreen(table)}

(* What the inputs of a row can put into its fields.  A row keeps its      *)
(* children when its type changes; they have no table until it is back.    *)
FieldChanges(p) ==
  {[p EXCEPT !.name = n] : n \in (Names \cup {Empty}) \ {p.name}}
    \cup {[p EXCEPT !.type = t] : t \in Types \ {p.type}}
    \cup (IF p.type = "array" THEN {[p EXCEPT !.act = t] : t \in Types \ {p.act}}
          ELSE {})
    \cup {[p EXCEPT !.required = ~@]}

handleFieldChange(table) ==
  UNION {{[table EXCEPT ![q] = p] : p \in FieldChanges(table[q])} :
           q \in OnScreen(table)}

TableEdits(tables, k) ==
  (IF FreeIds(tables) = {} THEN {} ELSE handleAdd(tables[k], generateId(tables)))
    \cup handleRemove(tables[k]) \cup handleFieldChange(tables[k])

-----------------------------------------------------------------------------
(* ResponseParamsEdit.  A tab is rendered for a key whose number is again  *)
(* a key: "0200" shows only beside "200".                                  *)
StatusCodes(resp) == {c \in DOMAIN resp : Plain(c.num) \in DOMAIN resp}

FirstCode(codes) ==
  CHOOSE c \in codes : \A d \in codes :
    c.num < d.num \/ (c.num = d.num /\ c.spelling <= d.spelling)

(* Mutant: the tab stays where it was.                                     *)
MutTabAfter(resp, tab) == tab

(* The effect on statusCodes: a tab that is gone gives way to the first.   *)
TabAfter(resp, tab) ==
  IF StatusCodes(resp) = {} \/ tab \in StatusCodes(resp) THEN tab
  ELSE FirstCode(StatusCodes(resp))

(* Mutant: a code that is not 200.                                         *)
MutWithDefault(resp, touched) ==
  IF DOMAIN resp = {} /\ ~touched THEN [c \in {Plain(20)} |-> NoItems] ELSE resp

(* The same effect on an API without responses: code 200, unless the user  *)
(* has added or deleted a tab before.                                      *)
WithDefault(resp, touched) ==
  IF DOMAIN resp = {} /\ ~touched THEN [c \in {Plain(200)} |-> NoItems] ELSE resp

(* Whether the form calls onValuesChange when the code, not the user, sets *)
(* a field is the form library's choice.                                   *)
MaybeDraft(old) == {old, TRUE}

-----------------------------------------------------------------------------
(* Form -> request: response parameters are sent with the number parseInt  *)
(* reads from their code, tables of one number together.                   *)
ReqKeys == [l \in Locations |-> l]
RespKeys(resp) == [c \in DOMAIN resp |-> c.int]

ReqParams(form) == ProcessItems(form.req, ReqKeys)
RespParams(form) == ProcessItems(form.resp, RespKeys(form.resp))

(* What the form holds, kept as history with the rows it becomes: also the *)
(* tables of codes that have no tab, each under the number it is sent with.*)
Holds(form) ==
  [req |-> Held(form.req, ReqKeys),
   resp |-> Held(form.resp, RespKeys(form.resp))]

(* The forms that exist: places are not longer than Depth and inside of    *)
(* others, and no two items have the same id.                              *)
TablesOK(tables) ==
  /\ IsFiniteSet(Nodes(tables))
  /\ \A n \in Nodes(tables) :
       /\ n[2] \in Seq(Nat) /\ Len(n[2]) \in 1 .. Depth
       /\ Over(n) \subseteq Nodes(tables)
  /\ \A n, m \in Nodes(tables) : Own(n) = Own(m) => n = m

ASSUME FirstDraftsAssumption ==
  /\ DOMAIN FirstDrafts \subseteq Apis
  /\ \A a \in DOMAIN FirstDrafts :
       /\ DOMAIN FirstDrafts[a].req = Locations
       /\ DOMAIN FirstDrafts[a].resp \subseteq Codes
       /\ TablesOK(FirstDrafts[a].req) /\ TablesOK(FirstDrafts[a].resp)

-----------------------------------------------------------------------------
Init ==
  /\ drafts = [a \in DOMAIN FirstDrafts |->
       [path |-> FirstDrafts[a].path,
        req |-> Processed(ReqParams(FirstDrafts[a])),
        resp |-> Processed(RespParams(FirstDrafts[a])),
        holds |-> Holds(FirstDrafts[a])]]
  /\ published = <<>>
  /\ editor = Closed
  /\ saving = None
  /\ edits = 0 /\ copies = 0

(* organizeReqParams and organizeRespParams for the detail of an API.      *)
ReqTables(rows) == [l \in Locations |-> Organized(rows, l)]
Roots(rows) == {r \in rows : r.parent = NoParent}
RespTables(rows) ==
  [n \in {r.data.key : r \in Roots(rows)} |-> Organized(rows, n)]

(* A detail arrives: the form is refilled and isDraft cleared.             *)
(* rejectSubmit and the tabs' refs live on with the mounted editor.        *)
Open(a) ==
  LET tables == RespTables(drafts[a].resp)
      loaded == [c \in {Plain(n) : n \in DOMAIN tables} |-> tables[c.int]]
      resp == WithDefault(loaded, editor.touched)
  IN /\ editor.api # a
     /\ \E d \in (IF resp = loaded THEN {FALSE} ELSE BOOLEAN) :
          editor' = [editor EXCEPT
            !.api = a, !.path = drafts[a].path,
            !.req = ReqTables(drafts[a].req),
            !.resp = resp, !.tab = TabAfter(resp, @), !.isDraft = d]
     /\ UNCHANGED <<drafts, published, saving, edits, copies>>

(* Bounds.                                                                 *)
MoreSteps == edits + copies < MaxSteps
Editable == editor.api # NoApi /\ edits < MaxEdits /\ MoreSteps
Edit(new) ==
  /\ Editable
  /\ editor' = new
  /\ edits' = edits + 1
  /\ UNCHANGED <<drafts, published, saving, copies>>

EditPath(p) ==
  /\ p # editor.path
  /\ Edit([editor EXCEPT !.path = p, !.isDraft = TRUE])

EditRequestTable(l) ==
  /\ Editable
  /\ \E table \in TableEdits(editor.req, l) :
       Edit([editor EXCEPT !.req[l] = table, !.isDraft = TRUE,
                           !.rejectSubmit = HasError(table)])

(* Only the table of the active tab is displayed.                          *)
EditResponseTable ==
  /\ Editable
  /\ editor.tab \in StatusCodes(editor.resp)
  /\ \E table \in TableEdits(editor.resp, editor.tab) :
       Edit([editor EXCEPT !.resp[editor.tab] = table, !.isDraft = TRUE,
                           !.rejectSubmit = HasError(table)])

SelectTab(c) ==
  /\ c \in StatusCodes(editor.resp) \ {editor.tab}
  /\ editor' = [editor EXCEPT !.tab = c]
  /\ UNCHANGED <<drafts, published, saving, edits, copies>>

handleDeleteTab(c) ==
  /\ c \in StatusCodes(editor.resp)
  /\ LET resp == [d \in DOMAIN editor.resp \ {c} |-> editor.resp[d]]
         left == StatusCodes(editor.resp) \ {c}
         tab == IF editor.tab # c THEN editor.tab
                ELSE IF left = {} THEN NoTab ELSE FirstCode(left)
     IN \E d \in MaybeDraft(editor.isDraft) :
          Edit([editor EXCEPT !.resp = resp, !.touched = TRUE, !.isDraft = d,
                              !.tab = TabAfter(resp, tab)])

AddCode(c) ==
  LET resp == [d \in DOMAIN editor.resp \cup {c} |->
                 IF d = c THEN NoItems ELSE editor.resp[d]]
  IN /\ c \notin StatusCodes(editor.resp)
     /\ \E d \in MaybeDraft(editor.isDraft) :
          Edit([editor EXCEPT !.resp = resp, !.touched = TRUE, !.isDraft = d,
                              !.tab = TabAfter(resp, c)])

(* No code, no number, or a code that has a tab: only the ref is set.      *)
AddCodeRefused ==
  /\ ~editor.touched
  /\ Edit([editor EXCEPT !.touched = TRUE])

-----------------------------------------------------------------------------
RootParams(params) == {params[n] : n \in {m \in DOMAIN params : IsRoot(m)}}

NoneEmpty(params) == \A p \in RootParams(params) : p.name # Empty

PathParamsFit(params, path) ==
  \A p \in RootParams(params) :
    p.key = "path" => p.required /\ p.name \in path

handleSubmit ==
  /\ editor.isDraft /\ ~editor.rejectSubmit  \* else the button is disabled
  /\ saving = None                           \* else it holds its spinner
  /\ NoneEmpty(ReqParams(editor))
  /\ PathParamsFit(ReqParams(editor), editor.path)
  /\ NoneEmpty(RespParams(editor))
  /\ saving' = [api |-> editor.api, path |-> editor.path,
                req |-> ReqParams(editor), resp |-> RespParams(editor),
                holds |-> Holds(editor)]
  /\ UNCHANGED <<drafts, published, editor, edits, copies>>

(* The backend replaces all parameter rows of the draft in one transaction.*)
(* The answer clears isDraft of the mounted editor, whichever API it shows.*)
SaveSucceeds ==
  /\ saving # None
  /\ drafts' = [drafts EXCEPT ![saving.api] =
       [path |-> saving.path, req |-> Processed(saving.req),
        resp |-> Processed(saving.resp), holds |-> saving.holds]]
  /\ editor' = [editor EXCEPT !.isDraft = FALSE]
  /\ saving' = None
  /\ UNCHANGED <<published, edits, copies>>

SaveFails ==
  /\ saving # None
  /\ saving' = None
  /\ UNCHANGED <<drafts, published, editor, edits, copies>>

(* The copy gets a stamped path, which holds the same braces.              *)
CopyApi(a, b) ==
  /\ a \in DOMAIN drafts
  /\ b \in Apis \ DOMAIN drafts
  /\ MoreSteps
  /\ copies' = copies + 1
  /\ \E o \in ReadOrders :
       drafts' = [x \in DOMAIN drafts \cup {b} |->
         IF x # b THEN drafts[x]
         ELSE [path |-> drafts[a].path, req |-> Copied(drafts[a].req, o),
               resp |-> Copied(drafts[a].resp, o), holds |-> drafts[a].holds]]
  /\ UNCHANGED <<published, editor, saving, edits>>

(* All drafts become Api rows in place of the old ones; the editor is      *)
(* unmounted and a save still under way will be refused.                   *)
Duplicate(docs, order) ==
  [a \in DOMAIN docs |->
     [path |-> docs[a].path, req |-> Remapped(docs[a].req, order),
      resp |-> Remapped(docs[a].resp, order), holds |-> docs[a].holds]]

CommitIteration ==
  /\ DOMAIN drafts # {}
  /\ MoreSteps
  /\ \E o \in ReadOrders : published' = Duplicate(drafts, o)
  /\ drafts' = <<>>
  /\ editor' = Closed /\ saving' = None
  /\ copies' = copies + 1
  /\ UNCHANGED <<edits>>

StartIteration ==
  /\ DOMAIN drafts = {}
  /\ \E o \in ReadOrders : drafts' = Duplicate(published, o)
  /\ UNCHANGED <<published, editor, saving, edits, copies>>

Next ==
  \/ \E a \in DOMAIN drafts : Open(a)
  \/ \E p \in PathTexts : EditPath(p)
  \/ \E l \in Locations : EditRequestTable(l)
  \/ EditResponseTable
  \/ \E c \in Codes : SelectTab(c) \/ handleDeleteTab(c) \/ AddCode(c)
  \/ AddCodeRefused
  \/ handleSubmit \/ SaveSucceeds \/ SaveFails
  \/ \E a, b \in Apis : CopyApi(a, b)
  \/ CommitIteration \/ StartIteration

Spec == Init /\ [][Next]_vars

-----------------------------------------------------------------------------
Docs(docs) == IF DOMAIN docs = {} THEN {} ELSE {docs[a] : a \in DOMAIN docs}

RowsOK(rows) ==
  /\ \A r \in rows : r.parent = NoParent \/ \E p \in rows : p.id = r.parent
  /\ \A r, q \in rows : r.id = q.id => r = q

(* Rows point to rows of their own table, with ids of their own, and the   *)
(* editor shows and saves drafts of the open iteration.                    *)
TypeOK ==
  /\ \A d \in Docs(drafts) \cup Docs(published) : RowsOK(d.req) /\ RowsOK(d.resp)
  /\ editor.api \in DOMAIN drafts \cup {NoApi}
  /\ saving.api \in DOMAIN drafts \cup {NoApi}
  /\ DOMAIN editor.req = Locations
  /\ DOMAIN editor.resp \subseteq Codes
  /\ edits \in 0 .. MaxEdits /\ copies \in 0 .. MaxSteps

(* rows hold the parameters that the form held and no others, each once,   *)
(* with its fields and below the row of the parameter it was inside of.    *)
RowsHold(rows, held) ==
  /\ {r.from : r \in rows} = DOMAIN held
  /\ \A r, q \in rows : r.from = q.from => r = q
  /\ \A r \in rows :
       /\ r.data = held[r.from]
       /\ IF IsRoot(r.from) THEN r.parent = NoParent
          ELSE \E q \in rows : q.id = r.parent /\ q.from = Above(r.from)

(* However an API's parameters were last saved, and through any copies,    *)
(* commits and new iterations since, its rows hold exactly the trees its   *)
(* form then held, each in its location or under the number its status     *)
(* code was sent as: none lost, none moved to another parent, and no       *)
(* children kept of a parameter that takes none.                           *)
KeptAsSaved ==
  \A d \in Docs(drafts) \cup Docs(published) :
    RowsHold(d.req, d.holds.req) /\ RowsHold(d.resp, d.holds.resp)

(* The names of the interfaces of an API's tables.                         *)
ReqRoots(a) == [l \in Locations |-> RequestInterfaceName(ApiName[a], l)]
RespRoots(a) == [n \in Nums |-> ResponseInterfaceName(ApiName[a], Numeral[n])]

(* The code of one side of an API: what it defines is what the form called *)
(* for, and what the service class imports is defined.                     *)
SideHolds(roots, tables, held) ==
  LET code == namespaces(roots, tables)
  IN /\ code = HeldCode(held, roots)
     /\ Imports(roots, tables) \subseteq {i.name : i \in code}

CodeHolds(a, d) ==
  LET req == ReqTables(d.req)
  IN /\ SideHolds(ReqRoots(a), req, d.holds.req)
     /\ SideHolds(RespRoots(a), RespTables(d.resp), d.holds.resp)
     /\ \A l \in Locations :
          SentFields(req)[l] =
            IF l = "cookie" THEN {}
            ELSE {d.holds.req[n].name : n \in {m \in DOMAIN d.holds.req :
                                                IsRoot(m) /\ m[1] = l}}

(* The code that is generated for a published API defines, for each table  *)
(* and each parameter with others inside of it that its form held when it  *)
(* was saved, an interface with exactly their fields, optional where they  *)
(* were not required and typed by the interfaces of what is inside of      *)
(* them, and no other, whatever copies and versions the rows went through. *)
(* What the service class imports is defined, and its function sends every *)
(* parameter in its part of the request, but for cookies, which it never   *)
(* sends.  Two definitions may have one name: nothing here says otherwise. *)
CodeAsSaved ==
  \A a \in DOMAIN published : CodeHolds(a, published[a])

(* As long as there is a tab, one is active: a response table can be       *)
(* reached after any tabs were added and deleted and any API opened.       *)
TabActive ==
  editor.api # NoApi /\ StatusCodes(editor.resp) # {}
    => editor.tab \in StatusCodes(editor.resp)
=============================================================================
