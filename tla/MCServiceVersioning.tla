------------------------ MODULE MCServiceVersioning ------------------------
(* Small instances of ServiceVersioning.  A text is a sequence of tokens:  *)
(* "a" and "b" are typed, "t1" is a second of the clock.                   *)
EXTENDS ServiceVersioning, TLC

MCTokens == {"a", "b", "t1"}
MCNone == {}
MCOneName == {<<"a">>}
MCTwoNames == {<<"a">>, <<"b">>}
MCOneStamp == {"t1"}
MCOneToTwo == 1 .. 2
MCOneToFour == 1 .. 4

\* No definition tells two users apart when none is L0.
MCUserSymmetry == Permutations(Users)
=============================================================================
