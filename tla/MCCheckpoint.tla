---------------------------- MODULE MCCheckpoint ----------------------------
(***************************************************************************)
(* Modes of module Checkpoint for model checking: all operations without a *)
(* crash, or all but truncation with one.                                  *)
(***************************************************************************)
EXTENDS Checkpoint

MCModes == {[ops |-> Op, crashes |-> 0],
            [ops |-> Op \ {"truncate"}, crashes |-> 1]}
=============================================================================
