------------------------------ MODULE MCBtree -------------------------------
(***************************************************************************)
(* Btree for TLC.  One seed gives a tree of two levels whose root is full, *)
(* the other one of three levels that was filled from the right.           *)
(***************************************************************************)
EXTENDS Btree

MCSeeds == {<<1, 2, 3, 4>>, <<6, 5, 4, 2, 1>>}
=============================================================================
