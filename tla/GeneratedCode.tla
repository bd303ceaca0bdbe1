--------------------------- MODULE GeneratedCode ---------------------------
(***************************************************************************)
(* The code generator of cam-fe-code-generator: the parameter tables of an *)
(* API become TypeScript interfaces and one function of a service class.   *)
(*                                                                         *)
(* A name is the sequence of its words, so that names are appended to one  *)
(* another as the code does it: the interface of "a" in "b" and the one of *)
(* "bA" get one name, as do an array "x" and an object "xItem".  An        *)
(* interface is its name with its fields, as it is written to              *)
(* namespaces.ts.                                                          *)
(***************************************************************************)
EXTENDS ParamTrees, SequencesExt

CONSTANTS
  Words,   \* what names are made of
  Upper    \* each word with its first letter in upper case

capitalizeFirstLetter(name) ==
  [i \in 1 .. Len(name) |-> IF i = 1 THEN Upper[name[i]] ELSE name[i]]

(* tsTypeMap: a type expression is a built-in type or an interface, alone  *)
(* or as the element type of an array.                                     *)
Builtin(type) == <<IF type = "string" THEN "string" ELSE "any">>

tsTypeMap(type, act) ==
  IF type # "array" THEN [of |-> Builtin(type), list |-> FALSE]
  ELSE [of |-> Builtin(IF act = NoType THEN "any" ELSE act), list |-> TRUE]

ChildrenOf(table, place) ==
  {q \in DOMAIN table : Len(q) = Len(place) + 1 /\ Upto(q, Len(place)) = place}

HasInterface(table, place) ==
  TakesChildren(table[place]) /\ ChildrenOf(table, place) # {}

(* Mutant: the item suffix is forgotten.                                   *)
MutPiece(p) == capitalizeFirstLetter(p.name)

(* What a parameter appends to the name of the interface it is in.         *)
Piece(p) ==
  IF p.type = "object" THEN capitalizeFirstLetter(p.name)
  ELSE capitalizeFirstLetter(p.name) \o <<"Item">>

InterfaceName(root, table, place) ==
  root \o FlattenSeq([i \in 1 .. Len(place) |-> Piece(table[Upto(place, i)])])

FieldOf(root, table, place) ==
  [name |-> table[place].name, optional |-> ~table[place].required,
   type |-> IF HasInterface(table, place)
            THEN [of |-> InterfaceName(root, table, place),
                  list |-> table[place].type = "array"]
            ELSE tsTypeMap(table[place].type, table[place].act)]

(* One interface for the table and one for each parameter that the         *)
(* recursion enters.                                                       *)
Entered(table) ==
  {p \in DOMAIN table : \A i \in 1 .. Len(p) : HasInterface(table, Upto(p, i))}

generateInterface(root, table) ==
  {[name |-> InterfaceName(root, table, p),
    fields |-> {FieldOf(root, table, q) : q \in ChildrenOf(table, p)}] :
     p \in {<<>>} \cup Entered(table)}

(* Both take the name of the API, which its other methods may have too.    *)
RequestInterfaceName(name, location) ==
  capitalizeFirstLetter(name) \o capitalizeFirstLetter(<<location>>) \o <<"Request">>
ResponseInterfaceName(name, numeral) ==
  capitalizeFirstLetter(name) \o <<numeral, "Response">>

(* generateTSCode over the tables of a detail: only tables with parameters *)
(* get an interface.  roots[k] is the name for table k.                    *)
NonEmpty(tables) == {k \in DOMAIN tables : DOMAIN tables[k] # {}}

namespaces(roots, tables) ==
  UNION {generateInterface(roots[k], tables[k]) : k \in NonEmpty(tables)}

(* serviceClassCode: what index.ts imports from namespaces.ts, and the     *)
(* fields a function hands to each part of the request it sends.  Cookies  *)
(* are imported and collected, and nothing is done with them.              *)
Imports(roots, tables) == {roots[k] : k \in NonEmpty(tables)}

SentFields(req) ==
  [l \in DOMAIN req |->
     IF l = "cookie" THEN {} ELSE {req[l][p].name : p \in ChildrenOf(req[l], <<>>)}]

-----------------------------------------------------------------------------
(* Reference, from what a form held: parameters side by side are the       *)
(* fields of one interface, named by the parameters they are inside of; a  *)
(* parameter with others inside of it has their interface as its type.     *)
Inside(held, n) == {m \in DOMAIN held : ~IsRoot(m) /\ Above(m) = n}

Beside(held, n) ==
  {m \in DOMAIN held :
     /\ held[m].key = held[n].key
     /\ IF IsRoot(n) THEN IsRoot(m) ELSE ~IsRoot(m) /\ Above(m) = Above(n)}

Named(held, n, k, root) ==
  root \o FlattenSeq(
    [i \in 1 .. k |->
       LET p == held[<<n[1], Upto(n[2], i)>>]
       IN IF p.type = "array" THEN capitalizeFirstLetter(p.name) \o <<"Item">>
          ELSE capitalizeFirstLetter(p.name)])

HeldField(held, n, root) ==
  [name |-> held[n].name, optional |-> ~held[n].required,
   type |-> IF Inside(held, n) # {}
            THEN [of |-> Named(held, n, Len(n[2]), root), list |-> held[n].type = "array"]
            ELSE tsTypeMap(held[n].type, held[n].act)]

HeldCode(held, roots) ==
  {LET root == roots[held[n].key]
   IN [name |-> Named(held, n, Len(n[2]) - 1, root),
       fields |-> {HeldField(held, m, root) : m \in Beside(held, n)}] :
     n \in DOMAIN held}
=============================================================================
