------------------------------ MODULE MCStore ------------------------------
(***************************************************************************)
(* Store with interchangeable permissions and indexers.                    *)
(***************************************************************************)
EXTENDS Store, TLC

Symmetry == Permutations(Pda \ Unreadable) \cup Permutations(Writer)
=============================================================================
