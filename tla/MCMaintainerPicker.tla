------------------------- MODULE MCMaintainerPicker -------------------------
(* The maintainer menu with searches that find one user, or two of them.     *)
EXTENDS MaintainerPicker
CONSTANTS alice, boss

MCQueries == {<<alice>>, <<alice, boss>>}
=============================================================================
