------------------------------ MODULE MCPages ------------------------------
(* Pages on a small instance: names are interchangeable.                   *)
EXTENDS Pages, TLC
AnyNames == Permutations(Names)
=============================================================================
