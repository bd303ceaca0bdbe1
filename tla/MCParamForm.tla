----------------------------- MODULE MCParamForm -----------------------------
(* The editor on an API with a path parameter, an array of objects in its   *)
(* body beside an object whose interface gets the same name, a cookie and a *)
(* response 200, and on its copy.                                           *)
EXTENDS ParamForm

MCItem(name, type, act) == [name |-> name, type |-> type, act |-> act, required |-> TRUE]
MCLeaf == MCItem(<<"x">>, "string", NoType)

MCBody ==
  [p \in {<<2>>, <<2, 3>>, <<5>>, <<5, 6>>} |->
     CASE p = <<2>> -> MCItem(<<"x">>, "array", "object")
       [] p = <<5>> -> MCItem(<<"x", "Item">>, "object", NoType)
       [] p = <<5, 6>> -> [MCLeaf EXCEPT !.required = FALSE]
       [] OTHER -> MCLeaf]

MCFirstDrafts ==
  [a1 |-> [path |-> {<<"x">>},
           req |-> [path |-> [p \in {<<1>>} |-> MCLeaf],
                    cookie |-> [p \in {<<4>>} |-> MCLeaf],
                    body |-> MCBody],
           resp |-> [c \in {Plain(200)} |-> [p \in {<<1>>} |-> MCLeaf]]]]

(* 200, "0200", "2e2" and 2.                                                *)
MCCodes ==
  {Plain(200), Plain(2), [spelling |-> 1, num |-> 200, int |-> 200],
   [spelling |-> 2, num |-> 200, int |-> 2]}
MCNumeral == [n \in {2, 200} |-> IF n = 2 THEN "2" ELSE "200"]
MCPathTexts == {{}, {<<"x">>}}

MCUpper == [w \in Words |-> CASE w = "x" -> "X" [] w = "path" -> "Path" [] w = "body" -> "Body"
                              [] w = "cookie" -> "Cookie" [] w = "get" -> "Get" [] OTHER -> w]
MCApiName == [a \in Apis |-> <<"get", "X">>]
MCNames == {<<"x">>, <<"x", " ", "X">>}
=============================================================================
