------------------------------ MODULE MCHomePage ------------------------------
(* The home page with an account of level 0 and one that maintains service 1.*)
EXTENDS HomePage
CONSTANTS admin, dev

MCMaintained == (admin :> {}) @@ (dev :> {1})
MCFirstOwner == <<dev, admin>>
MCServices == 1 .. 3
==============================================================================
