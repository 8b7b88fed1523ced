----------------------------- MODULE SyncProps -----------------------------
(***************************************************************************)
(* What a run must never do, must always reach, and which simpler          *)
(* specification it implements.                                            *)
(***************************************************************************)
EXTENDS Sync

\* What side s has written and its peer may still read.
InFlight(s) == IF linkUp THEN chan[s] \o out[s] ELSE chan[s]

Has(msgs, types) == \E k \in DOMAIN msgs : msgs[k].type \in types

Rounds == rs["replica"].hashRounds

\* The replica has committed.
HasCommitted == work = <<>> /\ Rounds > 0

TypeOK ==
    /\ \A s \in Sides :
        /\ pc[s] \in {"start", "read", "write", "sql", "done"}
        /\ ret[s] \in {"none", "nil", "error", "cancelled", "killed", "unregistered"}
        /\ pc[s] = "done" => ret[s] # "none"
        /\ rs[s].protocol \in 1 .. ProtocolVersion
        /\ Capacity > 0 => Len(chan[s]) <= Capacity
    /\ iHash \in 0 .. Modulus - 1 /\ mxHash \in 0 .. Modulus - 1
    /\ badHash \subseteq (Nat \ {0}) \X (Nat \ {0})
    /\ sendHash \subseteq (Nat \ {0}) \X (Nat \ {0})
    /\ jMode \in 0 .. 2

-----------------------------------------------------------------------------
(* The running counter.                                                    *)

\* Where the counters stand after message m, having stood at range r.
Advanced(r, m) ==
    CASE m.type = "REPLICA_CONFIG" -> <<m.fpg, m.npg>>
      [] m.type = "REPLICA_HASH" -> <<Plus(r[1], r[2]), r[2]>>
      [] OTHER -> r

\* Where they stand after each of msgs, from range r on.
Positions(msgs, r) ==
    LET at[k \in 0 .. Len(msgs)] ==
            IF k = 0 THEN r ELSE Advanced(at[k - 1], msgs[k])
    IN  at

HashesIn(msgs) == {k \in DOMAIN msgs : msgs[k].type = "REPLICA_HASH"}

\* The ranges and hashes the origin will make of msgs with its counters.
Decoded(msgs) ==
    LET at == Positions(msgs, <<iHash, nHash>>)
    IN  {[range |-> at[k - 1], hash |-> msgs[k].hash] : k \in HashesIn(msgs)}

\* A hash carries no page number: as long as the origin listens, the range its
\* counters will give a hash in the stream is the one the replica hashed
\* (sqlitersync/README.md, "How a hash says which pages it covers").
HashesNameTheirRange ==
    TransactionOpen /\ ret["origin"] = "none" =>
        \A d \in Decoded(InFlight("replica")) :
            d.hash = HashOf(work, d.range[1], d.range[2])

\* The origin has a badHash table to query when REPLICA_READY comes: there is
\* always a hash before it, as the write transaction gives a replica of no
\* pages its first one (origin.go, REPLICA_READY; replica.go, BEGIN IMMEDIATE).
ReadyAfterHash == Receives("origin", "REPLICA_READY") => hashed

\* The two sides run the older of the two protocols, and in version 1 no
\* message of version 2 appears (sqlitersync/README.md, "Protocol version").
OlderProtocolWins ==
    TransactionOpen /\ pc["origin"] # "done" =>
        /\ rs["origin"].protocol = rs["replica"].protocol
        /\ rs["replica"].protocol = 1 =>
             /\ ~Has(InFlight("replica"), {"REPLICA_CONFIG"})
             /\ ~Has(InFlight("origin"), {"ORIGIN_DETAIL", "ORIGIN_READY"})

-----------------------------------------------------------------------------
(* Results.                                                                *)

\* A file of another page size is never written (replica.go, the page size
\* check), whoever created it and when.
PageSizeKept ==
    [][TransactionOpen /\ file' # file => fileSize' = OriginPageSize
         /\ (file # <<>> => fileSize' = fileSize)]_vars

\* With walOnly, only a replica in WAL mode, or of no pages, is written
\* (sync.go, AllowNonWal).
WalOnlyEnforced ==
    [][TransactionOpen /\ file' # file /\ rs["replica"].walOnly
         => file = <<>> \/ InWal(file)]_vars

BothReturned(r) == \A s \in Sides : pc[s] = "done" /\ ret[s] = r

\* On a successful run the two sides report the same rounds and page
\* updates, and the replica at least as many hashes (sync.go, Stats).
StatsAgree ==
    BothReturned("nil") /\ HasCommitted =>
        /\ rs["origin"].hashRounds = rs["replica"].hashRounds
        /\ rs["origin"].pageUpdates = rs["replica"].pageUpdates
        /\ rs["origin"].hashMessages <= rs["replica"].hashMessages
        /\ rs["replica"].pageCount = rs["origin"].pageCount

\* No failure stays on one side: over a link that holds, with both sides
\* alive, registered and not cancelled, both runs succeed or both fail.
NoOneSidedFailure ==
    (\A s \in Sides : pc[s] = "done" /\ ret[s] \notin {"killed", "cancelled", "unregistered"}
                        /\ ~rs[s].commCheck)
        /\ linkUp
    => (ret["origin"] = "nil") = (ret["replica"] = "nil")

\* A run that succeeded on both sides has committed.
SuccessIsCommit ==
    linkUp /\ BothReturned("nil") /\ (\A s \in Sides : ~rs[s].commCheck)
        => HasCommitted

-----------------------------------------------------------------------------
(* Progress.                                                               *)

\* Every run ends, on both sides.
Terminates == <>(\A s \in Sides : pc[s] = "done")

-----------------------------------------------------------------------------
(* What the documentation says and the code does not keep.                 *)

\* "When a check or a query fails, originSide does two things at once: it
\* sends an ORIGIN_ERROR message to the replica, so the other side knows the
\* sync failed, and it returns the failure as a Go error" (sqlitersync/
\* README.md, "Errors"; the replica does the same with REPLICA_ERROR).
FailureReturns ==
    \A s \in Sides : (ret[s] = "error") ~> (pc[s] = "done")

\* A communication check is a run that ends, on "a connection (a pipe, an
\* SSH channel)" (sync.go, CommCheck).
CommCheckEnds ==
    \A s \in Sides : rs[s].commCheck ~> pc[s] = "done"

\* A role "returns when the replica matches the origin" (doc.go): without an
\* error, the replica has committed.
NilMeansSynced ==
    pc["replica"] = "done" /\ ret["replica"] = "nil" /\ ~rs["replica"].commCheck
        => HasCommitted \/ rs["origin"].commCheck

\* "When the sync is over, the replica has exactly this many pages"
\* (sqlitersync/README.md, "ORIGIN_BEGIN").
AnnouncedPageCount ==
    [][Rounds > 0 /\ work # <<>> /\ work' = <<>>
         => Len(file') = rs["replica"].pageCount]_vars

-----------------------------------------------------------------------------
(* The hash exchange this implements.                                      *)

\* ORIGIN_TXN will reach the replica if it keeps reading.
TxnComing == Has(InFlight("origin"), {"ORIGIN_TXN"})

\* No commit can come of the run any more.
Doomed ==
    \/ ret["replica"] # "none"
    \/ ~TxnComing /\ (ret["origin"] # "none" \/ ~linkUp)

Stage ==
    IF HasCommitted THEN "committed"
    ELSE IF Doomed THEN "aborted"
    ELSE IF TxnComing THEN "sending"
    ELSE IF TransactionOpen THEN "hashing"
    ELSE IF rs["origin"].pageSize # 0 THEN "announced"
    ELSE "idle"

\* Ranges on their way to a comparison: hashed and sent, waiting in
\* sendHash, or asked for.
Pending ==
    {d.range : d \in Decoded(InFlight("replica"))}
    \union sendHash
    \union UNION {Subdivide(m.fpg, m.npg) :
                    m \in {x \in ToSet(InFlight("origin")) : x.type = "ORIGIN_DETAIL"}}

Coming == {m.pgno : m \in {x \in ToSet(InFlight("origin")) : x.type = "ORIGIN_PAGE"}}

If(stages, value, none) == IF Stage \in stages THEN value ELSE none

Exchange == INSTANCE HashExchange WITH
    phase  <- Stage,
    snap   <- If({"announced", "hashing", "sending", "committed"}, snap, <<>>),
    work   <- If({"hashing", "sending"}, work, <<>>),
    todo   <- If({"hashing"}, Pending, {}),
    bad    <- If({"hashing"}, badHash, {}),
    mxHash <- If({"hashing", "sending"}, mxHash, 0),
    toSend <- If({"sending"}, Coming, {}),
    pIns   <- If({"sending"}, pIns, FALSE)

\* Whatever the interleaving and the faults, the run is a hash exchange.
ImplementsExchange == Exchange!Spec
=============================================================================
