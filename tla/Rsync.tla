------------------------------- MODULE Rsync -------------------------------
(***************************************************************************)
(* What the two roles share: the rsync struct of a run, the way a handler  *)
(* fails, and the faults a run may meet.                                   *)
(***************************************************************************)
EXTENDS Wire, Pages, HashRanges, SequencesExt

CONSTANTS OriginPageSize,   \* page size of the origin's file
          Modulus,          \* of a uint32 (2^32)
          MaxFaults         \* bound on the faults of a behaviour

\* SQLite's files have at most 2^32 - 2 pages.
ASSUME RsyncAssumption ==
    /\ OriginPageSize \in Nat \ {0} /\ MaxFaults \in Nat
    /\ Modulus \in Nat \ (0 .. 2)
    /\ \A db \in OriginFiles \union ReplicaFiles : Len(db) <= Modulus - 2

\* Addition of two uint32.
Plus(m, n) == (m + n) % Modulus

ProtocolVersion == 2

VARIABLES rs,       \* per side: the rsync struct
          faults    \* faults so far

\* newRsync: the options of the caller, the protocol clamped.
NewRsync(opts) ==
    [protocol  |-> IF opts.protocol <= 0 \/ opts.protocol > ProtocolVersion
                   THEN ProtocolVersion ELSE opts.protocol,
     walOnly   |-> ~opts.allowNonWal,
     commCheck |-> opts.commCheck,
     pageCount |-> 0, pageSize |-> 0,
     hashMessages |-> 0, hashRounds |-> 0, pageUpdates |-> 0]

\* An SQL statement, or opening a file, fails; or a fault of the environment.
Fault == faults < MaxFaults /\ faults' = faults + 1

\* hash.Register fails: the role returns before it has written anything.
RegisterFails(s) ==
    /\ pc[s] = "start"
    /\ Fault
    /\ Return(s, "unregistered")
    /\ UNCHANGED <<chan, rs>>

\* Mutants: the peer is not told; the run goes on after the report.
FailSilently(s, msgs, type) == Push(s, msgs, "error")
FailAndGoOn(s, msgs, type) == Push(s, Append(msgs, [type |-> type]), "none")

\* Some of a handler's messages are written, then WriteError ends the run.
FailAfter(s, msgs, type) == Push(s, Append(msgs, [type |-> type]), "error")

\* The members of S up to n, in ascending order.
Ascending(S, n) ==
    LET upTo[p \in 0 .. n] ==
            IF p = 0 THEN <<>>
            ELSE IF p \in S THEN Append(upTo[p - 1], p) ELSE upTo[p - 1]
    IN  upTo[n]

Drop(s, type) ==
    /\ Receives(s, type)
    /\ chan' = Consumed(s)
    /\ ReadOn
    /\ UNCHANGED <<rs, faults>>

\* A message that ends the run of its reader with result r.
EndsRun(s, type, r) ==
    /\ Receives(s, type)
    /\ chan' = Consumed(s)
    /\ Return(s, r)
    /\ UNCHANGED <<rs, faults>>
=============================================================================
