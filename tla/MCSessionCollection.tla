------------------------ MODULE MCSessionCollection ------------------------
(***************************************************************************)
(* Model checking of SessionCollection.                                    *)
(***************************************************************************)
EXTENDS SessionCollection, TLC

\* The calls and the files are interchangeable.
Symmetry == Permutations(Slots) \union Permutations(Files)
=============================================================================
