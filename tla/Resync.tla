------------------------------- MODULE Resync -------------------------------
(***************************************************************************)
(* One run after another over the same two files, as a caller that keeps a *)
(* replica up to date makes them: whether the last one succeeded, failed   *)
(* half way or was cancelled, the next is a new pair of calls over a new   *)
(* stream.  Nothing is kept but the files.  The origin moves on from one   *)
(* version, told by its change counter, to the next.                       *)
(***************************************************************************)
EXTENDS SyncProps

\* A caller makes both calls again, over a new stream.
NewStream ==
    /\ out' = [s \in Sides |-> <<>>] /\ chan' = [s \in Sides |-> <<>>]
    /\ pc' = [s \in Sides |-> "start"] /\ ret' = [s \in Sides |-> "none"]
    /\ closed' = [s \in Sides |-> FALSE] /\ linkUp' = TRUE /\ cancelled' = {}

\* The locals of originSide, whose badHash table went with its connection.
NewOriginLocals ==
    /\ iHash' = 1 /\ nHash' = 1 /\ mxHash' = 0
    /\ badHash' = {} /\ hashed' = FALSE

\* Mutant: the transaction of the last run is found open.
TransactionLeftOpen ==
    /\ nRPage' = 0 /\ sendHash' = {} /\ jMode' = 0 /\ pIns' = FALSE
    /\ UNCHANGED work

\* The locals of replicaSide, whose transaction was rolled back.
NewReplicaLocals ==
    /\ nRPage' = 0 /\ sendHash' = {} /\ jMode' = 0 /\ pIns' = FALSE
    /\ work' = <<>>

\* Nothing but the two files is carried over.
NextRun ==
    /\ Ended
    /\ NewStream /\ NewOriginLocals /\ NewReplicaLocals
    /\ \E opts \in OptionPairs : rs' = NewStructs(opts)
    /\ UNCHANGED <<faults, origin, snap, file, fileSize>>

\* A program commits the origin's next version.
NextVersion ==
    /\ OriginWrite
    /\ origin'[1].chg > origin[1].chg
    /\ UNCHANGED replicaVars

Resyncs ==
    \/ OriginRuns \/ ReplicaRuns
    \/ \E s \in Sides :
        StreamRuns(s) \/ Kill(s) \/ Cancel(s) \/ Cancelled(s) \/ Unregistered(s)
    \/ LinkFault
    \/ NextVersion
    \/ ReplicaWrite /\ UNCHANGED originVars
    \/ NextRun

\* The caller keeps calling.
ResyncSpec == Init /\ [][Resyncs]_vars /\ Fairness /\ WF_vars(NextRun)

-----------------------------------------------------------------------------
\* Once the origin has its last version and nothing goes wrong any more, the
\* replica becomes a copy of it and stays one, whatever the failed, killed and
\* cancelled runs before have left (README.md, "periodic delta sync of live
\* SQLite databases"; replica.go, the one transaction of a run).
Converges == <>[]Mirrors(file, origin)

\* "For a replica that is up to date, the whole picture is just the first four
\* lines plus the final one" (sqlitersync/README.md): one round, whatever number
\* of runs has stamped page 1 of the replica, and no page but that one is sent
\* (replica.go, the first batch, which keeps page 1 out of the groups).
UpToDateIsCheap ==
    TransactionOpen /\ Mirrors(file, snap) =>
        /\ rs["replica"].hashRounds <= 1 /\ rs["origin"].pageUpdates <= 1
        /\ ~Has(InFlight("origin"), {"ORIGIN_DETAIL"})
=============================================================================
