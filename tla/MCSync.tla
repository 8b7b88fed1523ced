------------------------------- MODULE MCSync -------------------------------
(***************************************************************************)
(* Sync on files of a few pages.  See MCHashExchange for the files.        *)
(***************************************************************************)
EXTENDS SyncInvariant

File(n, D, w, c) ==
    [p \in 1 .. n |->
        IF p = LockBytePage THEN ZeroImage
        ELSE [body |-> IF p \in D THEN p + 100 ELSE p,
              size |-> IF p = 1 THEN n ELSE 0,
              wal  |-> p = 1 /\ w,
              chg  |-> IF p = 1 THEN c ELSE 0]]

Option(p, nonWal, check) ==
    [protocol |-> p, allowNonWal |-> nonWal, commCheck |-> check]

Default == Option(0, FALSE, FALSE)
Check == Option(2, FALSE, TRUE)
Syncs == {Option(p, w, FALSE) : p \in {0, 1, 3}, w \in BOOLEAN}

OneCounter == {0}
OneSize == {512}
TwoSizes == {512, 1024}

\* The run without faults: both journal modes, files of no pages, one page
\* size or another, and replicas that need every level of the exchange.
SyncOrigins == {<<>>, File(5, {}, FALSE, 0), File(7, {}, TRUE, 0)}
SyncReplicas ==
    {<<>>, File(5, {3}, FALSE, 0), File(7, {}, TRUE, 0), File(7, {1, 4, 7}, TRUE, 0),
     File(1, {}, TRUE, 0), File(2, {}, TRUE, 0), File(5, {3}, TRUE, 0),
     File(8, {3}, TRUE, 0), File(8, {1, 2, 5, 8}, TRUE, 1)}

\* A check of the replica writes before it reads: over a rendezvous it needs a
\* peer that reads first, which an origin is not.
SyncOptions == (Syncs \X Syncs) \union {<<Check, Default>>}

\* The runs with faults: an origin in either journal mode, so that other programs
\* have something to commit, during the read transaction of the first and once
\* that of the second is over; replicas to fill, to correct and to cut off.
FaultOrigins == {File(7, {}, TRUE, 0), File(5, {2}, FALSE, 0)}
FaultReplicas == {<<>>, File(7, {2, 7}, TRUE, 0), File(8, {3}, FALSE, 0)}
AnyMode == Option(0, TRUE, FALSE)
FaultOptions == {<<AnyMode, AnyMode>>, <<Check, Default>>, <<Default, Check>>}

DefaultOptions == {<<Default, Default>>}
BothCheck == {<<Check, Check>>}

\* The findings.
OneOrigin == {File(7, {}, TRUE, 0)}
FewReplicas == {<<>>, File(7, {2, 7}, TRUE, 0), File(8, {3}, TRUE, 0)}
EmptyOrigin == {<<>>}
MixedReplicas == {<<>>, File(5, {3}, TRUE, 0), File(5, {3}, FALSE, 0)}
CreatedReplicas == {<<>>, File(5, {3}, FALSE, 0)}
NonWalOptions == {<<Option(2, TRUE, FALSE), Option(2, TRUE, FALSE)>>}
=============================================================================
