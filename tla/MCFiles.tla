------------------------------ MODULE MCFiles --------------------------------
(* Instances of Files: names of which one continues another as a snap_id   *)
(* would, and behaviours about names, about content and about both.        *)
EXTENDS Files

MCNames == {<<1>>, <<1, 2>>, <<1, 8, 7>>}

MCSnapIds == ROOT_SNAP - 2 .. ROOT_SNAP

MCSeedDir == <<1, 2>>
MCSeedFile == <<1>>

MCBudgets ==
  {[names |-> 3, content |-> 0, snapshots |-> 0],
   [names |-> 2, content |-> 0, snapshots |-> 1],
   [names |-> 0, content |-> 3, snapshots |-> 1],
   [names |-> 1, content |-> 1, snapshots |-> 1]}
=============================================================================
