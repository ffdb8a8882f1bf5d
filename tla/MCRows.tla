------------------------------- MODULE MCRows -------------------------------
(***************************************************************************)
(* Upload handlers are interchangeable.                                    *)
(***************************************************************************)
EXTENDS CommandRows, TLC

Symmetry == Permutations(Handlers)
=============================================================================
