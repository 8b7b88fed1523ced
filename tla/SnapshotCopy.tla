---------------------------- MODULE SnapshotCopy ----------------------------
(***************************************************************************)
(* What a sync promises, with no protocol in it: the replica file becomes, *)
(* in one step, a copy of the origin as it stood when the run announced    *)
(* it, or it is left alone.  Other programs may write the origin all the   *)
(* time and the replica whenever the run has no transaction open on it.    *)
(***************************************************************************)
EXTENDS Pages

VARIABLES origin,   \* the origin's file
          file,     \* the replica's file, as committed
          snap,     \* the origin as announced, <<>> before and after an abort
          phase     \* where the run stands

vars == <<origin, file, snap, phase>>

Init ==
    /\ origin \in OriginFiles /\ file \in ReplicaFiles
    /\ snap = <<>>
    /\ phase = "idle"

OriginWrite == origin' \in OriginFiles /\ UNCHANGED <<file, snap, phase>>

ReplicaWrite ==
    /\ phase # "copying"
    /\ file' \in ReplicaFiles
    /\ UNCHANGED <<origin, snap, phase>>

Announce ==
    /\ phase = "idle"
    /\ snap' = origin
    /\ phase' = "announced"
    /\ UNCHANGED <<origin, file>>

Open ==
    /\ phase = "announced"
    /\ phase' = "copying"
    /\ UNCHANGED <<origin, file, snap>>

\* The replica's new content.  A replica in WAL mode stays in it, and one
\* that was already identical is not written.
CopyOf(new, old) ==
    /\ IsDatabase(new)
    /\ Mirrors(new, snap)
    /\ InWal(old) => InWal(new)
    /\ old = snap => new = old

\* An origin of no pages has nothing to copy (see Commit in HashExchange).
Commit ==
    /\ phase = "copying"
    /\ snap # <<>> => CopyOf(file', file)
    /\ phase' = "committed"
    /\ UNCHANGED <<origin, snap>>

Abort ==
    /\ phase \in {"idle", "announced", "copying"}
    /\ phase' = "aborted"
    /\ snap' = <<>>
    /\ UNCHANGED <<origin, file>>

\* The next run, of the same files.
Again ==
    /\ phase \in {"committed", "aborted"}
    /\ phase' = "idle"
    /\ snap' = <<>>
    /\ UNCHANGED <<origin, file>>

Next ==
    \/ OriginWrite \/ ReplicaWrite
    \/ Announce \/ Open \/ Commit \/ Abort \/ Again

Spec == Init /\ [][Next]_vars
=============================================================================
