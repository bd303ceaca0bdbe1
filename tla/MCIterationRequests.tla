------------------------ MODULE MCIterationRequests ------------------------
(* Small instances of IterationRequests *)
EXTENDS IterationRequests, TLC

CONSTANTS u1, u2

MCNoneOpen == <<>>
MCOtherOpen == <<u2>>
MCBothOpen == <<u1, u2>>

MCTwoThree == {2, 3}

\* Requests are interchangeable: no definition tells two of them apart.
MCRequestSymmetry == Permutations(Requests)

=============================================================================
