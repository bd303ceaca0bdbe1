----------------------------- MODULE MCCodePull -----------------------------
(* Two services; the project is new, or follows one of them.         *)
EXTENDS CodePull

CONSTANTS s1, s2, n1

MCFirstConfigs ==
  {NULL, <<[name |-> n1, service |-> s1, version |-> Latest]>>,
   <<[name |-> n1, service |-> s1, version |-> 2]>>}
MCAsked == {2, Latest}
MCMaxVersion == [s \in Services |-> IF s = s1 THEN 3 ELSE 1]
=============================================================================
