-------------------------------- MODULE Sync --------------------------------
(***************************************************************************)
(* One sync run: the two roles, the stream between them, their callers,    *)
(* the programs that write the two files, and what may go wrong.           *)
(***************************************************************************)
EXTENDS Origin, Replica, Integers

CONSTANT OptionPairs   \* the options of the two callers, <<origin, replica>>

Options == [protocol : Int, allowNonWal : BOOLEAN, commCheck : BOOLEAN]

ASSUME OptionAssumption == OptionPairs \subseteq Options \X Options

vars == <<wire, rs, faults, originVars, replicaVars>>

\* The structs of two new calls.
NewStructs(opts) == [origin |-> NewRsync(opts[1]), replica |-> NewRsync(opts[2])]

Init ==
    /\ WireInit /\ OriginInit /\ ReplicaInit
    /\ \E opts \in OptionPairs : rs = NewStructs(opts)
    /\ faults = 0

OriginRuns == OriginStep /\ UNCHANGED replicaVars
ReplicaRuns == ReplicaStep /\ UNCHANGED originVars
StreamRuns(s) == StreamStep(s) /\ UNCHANGED <<rs, faults, originVars, replicaVars>>

LinkFault == LinkBreaks /\ Fault /\ UNCHANGED <<rs, originVars, replicaVars>>
Kill(s) == Crashes(s) /\ Fault /\ UNCHANGED <<rs, originVars, replicaVars>>

Cancel(s) == Cancels(s) /\ Fault /\ UNCHANGED <<rs, originVars, replicaVars>>
Cancelled(s) ==
    /\ CancelledRead(s) \/ CancelledWrite(s)
    /\ UNCHANGED <<rs, faults, originVars, replicaVars>>

Unregistered(s) == RegisterFails(s) /\ UNCHANGED <<originVars, replicaVars>>

Ended == \A s \in Sides : pc[s] = "done" /\ closed[s]

Next ==
    \/ OriginRuns \/ ReplicaRuns
    \/ \E s \in Sides :
        StreamRuns(s) \/ Kill(s) \/ Cancel(s) \/ Cancelled(s) \/ Unregistered(s)
    \/ LinkFault
    \/ OriginWrite /\ UNCHANGED replicaVars
    \/ ReplicaWrite /\ UNCHANGED originVars
    \/ Ended /\ UNCHANGED vars

Spec == Init /\ [][Next]_vars

\* Each role is a goroutine or process that keeps running, the stream
\* delivers what it has room for, and the callers close it on return.
Fairness ==
    /\ WF_vars(OriginRuns) /\ WF_vars(ReplicaRuns)
    /\ \A s \in Sides : WF_vars(StreamRuns(s))

FairSpec == Spec /\ Fairness
=============================================================================
