---------------------------- MODULE MCSnapshots -----------------------------
(***************************************************************************)
(* Bounds of module Snapshots for model checking: snapshots until the ids  *)
(* run out without a crash, or one with two commits and a crash.           *)
(***************************************************************************)
EXTENDS Snapshots

MCBounds == {[snapshots |-> 3, commits |-> 0, crashes |-> 0],
             [snapshots |-> 1, commits |-> 2, crashes |-> 1]}
=============================================================================
