---------------------------- MODULE MCTableCache ----------------------------
(* Model checking of TableCache: two of three keys meet in a bucket until the *)
(* table has four; users and addresses are interchangeable.                   *)
EXTENDS TableCache, TLC

CONSTANTS k1, k2, k3

MCHash == k1 :> 0 @@ k2 :> 2 @@ k3 :> 1
Symmetry == Permutations(User) \cup Permutations(Handle)
=============================================================================
