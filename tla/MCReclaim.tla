----------------------------- MODULE MCReclaim ------------------------------
(***************************************************************************)
(* Keys, values and bounds of module Reclaim for model checking.           *)
(***************************************************************************)
EXTENDS Reclaim

MCKeys == Inos \X (0 .. MaxOffset)
MCValues == 0 .. MaxBlock
MCBounds == {[snapshots |-> 1, commits |-> 0, crashes |-> 0]}
=============================================================================
