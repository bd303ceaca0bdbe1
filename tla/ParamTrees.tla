----------------------------- MODULE ParamTrees -----------------------------
(***************************************************************************)
(* The parameters of an API in their three forms: the nested tables of the *)
(* editor, the nested list of a save request, and the flat rows of the     *)
(* database, where a child names its parent by id.  The operators are the  *)
(* conversions between them.                                               *)
(*                                                                         *)
(* What the code nests, the model addresses: an item of a table has a      *)
(* place, the ids of the items it is inside of, outermost first, and its   *)
(* own.  A table is a function from places to items; a node is a place of  *)
(* one of several tables.  Rows are loaded without ORDER BY and the code   *)
(* finds items by id, so tables have no order.                             *)
(*                                                                         *)
(* A parameter keeps what the conversions look at: name, type,             *)
(* array_child_type (act) and required.  Descriptions, defaults and        *)
(* examples are carried along unread.  "key" is the location of a request  *)
(* parameter or the status code of a response parameter.                   *)
(***************************************************************************)
EXTENDS Naturals, Sequences, FiniteSets

CONSTANT Depth  \* bound on the tables inside of one another

Types == {"string", "object", "array"}  \* the others behave as "string"
NoType == "null"
NoParent == 0

(* ParamTable and the backend agree on which parameters may have children. *)
TakesChildren(p) ==
  p.type = "object" \/ (p.type = "array" /\ p.act = "object")

Upto(place, i) == [j \in 1 .. i |-> place[j]]

Nodes(tables) == UNION {{k} \X DOMAIN tables[k] : k \in DOMAIN tables}
IsRoot(n) == Len(n[2]) = 1
Own(n) == n[2][Len(n[2])]
Above(n) == <<n[1], Upto(n[2], Len(n[2]) - 1)>>
Over(n) == {<<n[1], Upto(n[2], i)>> : i \in 1 .. Len(n[2]) - 1}

Described(item, key) ==
  [name |-> item.name, type |-> item.type, act |-> item.act,
   required |-> item.required, key |-> key]

-----------------------------------------------------------------------------
(* Editor tables -> save request: processReqItems and processRespItems     *)
(* copy every item with its children, whatever its type now is.  keys[k]   *)
(* is the location or status code that the items of table k are sent with. *)
ProcessItems(tables, keys) ==
  [n \in Nodes(tables) |-> Described(tables[n[1]][n[2]], keys[n[1]])]

(* Mutant: the elements of an array get no rows.                           *)
MutDescends(p) == p.type = "object"

(* Below which parameters the backend looks for children.                  *)
Descends(p) == TakesChildren(p)

(* The parameters that the recursion reaches from the roots.               *)
Reached(params) ==
  {n \in DOMAIN params : \A o \in Over(n) : Descends(params[o])}

(* New rows are numbered one after the other, in the order in which the    *)
(* code comes to them.  It is the order of the list or the database's: the *)
(* model takes two, parents first and children first.                      *)
ReadOrders == {"ascending", "descending"}

Serial(ids, id, order) ==
  Cardinality({i \in ids : IF order = "ascending" THEN i <= id ELSE i >= id})

(* Save request -> rows: each row is flushed before its children, so that  *)
(* they can name its id.  data is the parameter; from is history, the node *)
(* of the form that was saved, and like the description nobody reads it.   *)
Processed(params) ==
  LET ids == {Own(n) : n \in Reached(params)}
      id(n) == Serial(ids, Own(n), "ascending")
  IN {[id |-> id(n), parent |-> IF IsRoot(n) THEN NoParent ELSE id(Above(n)),
       data |-> params[n], from |-> n] : n \in Reached(params)}

-----------------------------------------------------------------------------
(* Rows -> editor tables: a child is appended to the parent it names, a    *)
(* root to the table of its key.  A chain leads from a root to a row; a    *)
(* row whose parent is missing is in none, and in no table.                *)
RowWith(rows, id) == CHOOSE r \in rows : r.id = id

Chains(rows) ==
  {c \in UNION {[1 .. k -> {r.id : r \in rows}] : k \in 1 .. Depth} :
     /\ RowWith(rows, c[1]).parent = NoParent
     /\ \A i \in 2 .. Len(c) : RowWith(rows, c[i]).parent = c[i - 1]}

EndOf(rows, c) == RowWith(rows, c[Len(c)])

Organized(rows, key) ==
  [c \in {d \in Chains(rows) : RowWith(rows, d[1]).data.key = key} |->
     LET p == EndOf(rows, c).data
     IN [name |-> p.name, type |-> p.type, act |-> p.act,
         required |-> p.required]]

-----------------------------------------------------------------------------
(* Rows -> rows.  Starting and committing an iteration copy the rows in    *)
(* two passes: first every row without its parent, noting its new id, then *)
(* the parents by that mapping.                                            *)
Remapped(rows, order) ==
  LET ids == {r.id : r \in rows}
      id_mapping == [id \in ids |-> Serial(ids, id, order)]
  IN {[id |-> id_mapping[r.id],
       parent |-> IF r.parent = NoParent THEN NoParent
                  ELSE id_mapping[r.parent],
       data |-> r.data, from |-> r.from] : r \in rows}

(* Copying an API walks down from the roots, a copy naming its parent's.   *)
CopyParams(rows) == {EndOf(rows, c) : c \in Chains(rows)}

Copied(rows, order) == Remapped(CopyParams(rows), order)

-----------------------------------------------------------------------------
(* Reference: what the tables hold.  The children of a parameter that      *)
(* takes none have no table and are not part of it.                        *)
Held(tables, keys) ==
  [n \in {m \in Nodes(tables) :
            \A o \in Over(m) : TakesChildren(tables[o[1]][o[2]])} |->
     Described(tables[n[1]][n[2]], keys[n[1]])]
=============================================================================
