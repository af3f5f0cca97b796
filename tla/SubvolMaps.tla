----------------------------- MODULE SubvolMaps -----------------------------
(***************************************************************************)
(* What the snapshot layer of rfs promises: every subvolume is a map of    *)
(* its own.  Taking a snapshot copies a map, and from then on a write to   *)
(* one subvolume is seen in no other.  A crash brings back all maps as the *)
(* last commit left them.                                                  *)
(*                                                                         *)
(* Module Snapshots implements this with one shared tree of versioned keys.*)
(***************************************************************************)
EXTENDS Functions

CONSTANTS Keys, Values, None, SubvolId, ROOT_SUBVOL

VARIABLES
  vols,      \* subvolume id -> map from keys to values
  current,   \* the subvolume the operations work on
  saved,     \* vols and current of the last commit
  call       \* the kind of the last call

vars == <<vols, current, saved, call>>

Init ==
  /\ vols = [s \in {ROOT_SUBVOL} |-> [k \in Keys |-> None]]
  /\ current = ROOT_SUBVOL
  /\ saved = [vols |-> vols, current |-> current]
  /\ call = "other"

Put(k, v) ==
  /\ vols' = [vols EXCEPT ![current][k] = v]
  /\ call' = "put"
  /\ UNCHANGED <<current, saved>>

Delete(k) ==
  /\ vols[current][k] # None
  /\ vols' = [vols EXCEPT ![current][k] = None]
  /\ call' = "delete"
  /\ UNCHANGED <<current, saved>>

Snapshot(src, new) ==
  /\ new \notin DOMAIN vols
  /\ vols' = [s \in DOMAIN vols \cup {new} |-> IF s = new THEN vols[src] ELSE vols[s]]
  /\ call' = "other"
  /\ UNCHANGED <<current, saved>>

Switch(s) ==
  /\ current' = s
  /\ call' = "other"
  /\ UNCHANGED <<vols, saved>>

Drop(s) ==
  /\ s # current
  /\ vols' = Restrict(vols, DOMAIN vols \ {s})
  /\ call' = "other"
  /\ UNCHANGED <<current, saved>>

Commit ==
  /\ saved' = [vols |-> vols, current |-> current]
  /\ call' = "other"
  /\ UNCHANGED <<vols, current>>

Crash ==
  /\ vols' = saved.vols
  /\ current' = saved.current
  /\ call' = "other"
  /\ UNCHANGED saved

Next ==
  \/ \E k \in Keys : Delete(k) \/ \E v \in Values : Put(k, v)
  \/ \E src \in DOMAIN vols, new \in SubvolId : Snapshot(src, new)
  \/ \E s \in DOMAIN vols : Switch(s) \/ Drop(s)
  \/ Commit
  \/ Crash

Spec == Init /\ [][Next]_vars
=============================================================================
