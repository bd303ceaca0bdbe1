--------------------------- MODULE MCServicePage ---------------------------
(* The service page on small instances: at the beginning the user has no     *)
(* open iteration, one with an edited draft, or one whose drafts are gone.   *)
EXTENDS ServicePage

MCOpens == {None, 1 :> [cat |-> 0, body |-> 2], NoRows}
MCEdited == {1 :> [cat |-> 0, body |-> 2]}
=============================================================================
