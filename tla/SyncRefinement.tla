---------------------------- MODULE SyncRefinement ----------------------------
(***************************************************************************)
(* A run is a hash exchange: every step of the two roles, of the stream    *)
(* between them and of whatever goes wrong is a step of HashExchange, under *)
(* the mapping of module SyncProps, or leaves the mapped state alone.  What *)
(* follows for the replica's file, and what a run over a replica that is   *)
(* up to date costs.                                                       *)
(***************************************************************************)
EXTENDS SyncProof

(***************************************************************************)
(* The steps of the exchange, in terms of the stage of the run.            *)
(***************************************************************************)

Exchanges == [Exchange!Next]_(Exchange!vars)

LEMMA StagesAre ==
    /\ Stage = "committed" <=> HasCommitted
    /\ Stage = "aborted" <=> ~HasCommitted /\ Doomed
    /\ Stage = "sending" <=> ~HasCommitted /\ ~Doomed /\ TxnComing
    /\ Stage = "hashing" <=> ~HasCommitted /\ ~Doomed /\ ~TxnComing /\ TransactionOpen
    /\ Stage = "announced" <=> /\ ~HasCommitted /\ ~Doomed /\ ~TxnComing /\ ~TransactionOpen
                               /\ rs["origin"].pageSize # 0
    /\ Stage = "idle" <=> /\ ~HasCommitted /\ ~Doomed /\ ~TxnComing /\ ~TransactionOpen
                          /\ rs["origin"].pageSize = 0
    /\ Stage \in {"committed", "aborted", "sending", "hashing", "announced", "idle"}
    BY DEF Stage

LEMMA SameStage ==
    ASSUME HasCommitted' = HasCommitted, Doomed' = Doomed, TxnComing' = TxnComing,
           TransactionOpen' = TransactionOpen,
           rs'["origin"].pageSize = rs["origin"].pageSize
    PROVE  Stage' = Stage
    BY DEF Stage

LEMMA NothingHappens ==
    ASSUME Stage' = Stage, UNCHANGED <<origin, file>>,
           Stage \in {"announced", "hashing", "sending", "committed"} => snap' = snap,
           Stage \in {"hashing", "sending"} => work' = work /\ mxHash' = mxHash,
           Stage = "hashing" => Pending' = Pending /\ badHash' = badHash,
           Stage = "sending" => Coming' = Coming /\ pIns' = pIns
    PROVE  Exchanges
    BY DEF Exchanges, Exchange!vars, If

LEMMA Aborting ==
    ASSUME Stage' = "aborted", Stage \in {"idle", "announced", "hashing", "sending", "aborted"},
           UNCHANGED <<origin, file>>
    PROVE  Exchanges
    BY DEF Exchanges, Exchange!Next, Exchange!Abort, Exchange!NoRun, Exchange!vars, If

LEMMA WritingOrigin ==
    ASSUME Stage' = Stage, origin' \in OriginFiles,
           Stage \in {"idle", "sending", "committed", "aborted"} \/ InWal(snap),
           UNCHANGED <<file, snap, work, mxHash, badHash, pIns>>,
           Pending' = Pending, Coming' = Coming
    PROVE  Exchanges
<1>1. Stage \in {"committed", "aborted", "sending", "hashing", "announced", "idle"}
    BY StagesAre
<1>2. Exchange!OriginWrite
    BY <1>1 DEF Exchange!OriginWrite, Exchange!run, Exchange!InWal, InWal, If
<1> QED
    BY <1>2 DEF Exchanges, Exchange!Next

LEMMA WritingReplica ==
    ASSUME Stage' = Stage, file' \in ReplicaFiles, Stage \notin {"hashing", "sending"},
           UNCHANGED <<origin, snap>>
    PROVE  Exchanges
    BY DEF Exchanges, Exchange!Next, Exchange!ReplicaWrite, Exchange!run, If

LEMMA Announcing ==
    ASSUME Stage = "idle", Stage' = "announced", snap' = origin, UNCHANGED <<origin, file>>
    PROVE  Exchanges
    BY DEF Exchanges, Exchange!Next, Exchange!Announce, Exchange!run, If

LEMMA Opening ==
    ASSUME Stage = "announced", Stage' = "hashing", UNCHANGED <<origin, file, snap>>,
           work' = Opened(file), NEW v \in 1 .. 2, Pending' = FirstRanges(v, Len(work')),
           badHash' = {}, mxHash' = 0
    PROVE  Exchanges
<1>1. Exchange!Opened(file) = Opened(file)
    BY DEF Exchange!Opened, Opened, Exchange!EmptyImage, EmptyImage
<1>2. Exchange!FirstRanges(v, Len(work')) = FirstRanges(v, Len(work'))
    BY DEF Exchange!FirstRanges, FirstRanges, Exchange!ReplaceInto, ReplaceInto,
           Exchange!Subdivide, Subdivide, Exchange!NChunk, NChunk
<1>3. Exchange!Open
    BY <1>1, <1>2 DEF Exchange!Open, If
<1> QED
    BY <1>3 DEF Exchanges, Exchange!Next

LEMMA Comparing ==
    ASSUME Stage = "hashing", Stage' = "hashing", UNCHANGED <<origin, file, snap, work>>,
           NEW r \in Pending, Pending' = Pending \ {r},
           LET own == HashOf(snap, r[1], r[2])
           IN  badHash' = IF ~IsNull(own) /\ own = HashOf(work, r[1], r[2]) THEN badHash
                          ELSE badHash \union {r},
           mxHash' = Larger(mxHash, r[1] + r[2])
    PROVE  Exchanges
<1>1. Exchange!Match(r[1], r[2])
        = LET own == HashOf(snap, r[1], r[2])
          IN  ~IsNull(own) /\ own = HashOf(work, r[1], r[2])
    BY DEF Exchange!Match, Exchange!HashOf, HashOf, Exchange!Existing, Existing,
           Exchange!Smaller, Smaller, Exchange!IsNull, IsNull, If
<1>2. Exchange!HashedThrough(mxHash, r) = Larger(mxHash, r[1] + r[2])
    BY DEF Exchange!HashedThrough, Exchange!Larger, Larger
<1>3. Exchange!Compare(r)
    BY <1>1, <1>2 DEF Exchange!Compare, If
<1> QED
    BY <1>3 DEF Exchanges, Exchange!Next, If

LEMMA Detailing ==
    ASSUME Stage = "hashing", Stage' = "hashing",
           UNCHANGED <<origin, file, snap, work, mxHash>>,
           Pending = {}, BadGroups # {},
           Pending' = UNION {Subdivide(r[1], r[2]) : r \in BadGroups},
           badHash' = badHash \ BadGroups
    PROVE  Exchanges
<1>1. \A f, n : Exchange!Subdivide(f, n) = Subdivide(f, n)
    BY DEF Exchange!Subdivide, Subdivide, Exchange!NChunk, NChunk
<1>2. Exchange!Groups = BadGroups
    BY DEF Exchange!Groups, BadGroups, If
<1>3. Exchange!Detail
    BY <1>1, <1>2 DEF Exchange!Detail, If
<1> QED
    BY <1>3 DEF Exchanges, Exchange!Next

LEMMA Streaming ==
    ASSUME Stage = "hashing", Stage' = "sending",
           UNCHANGED <<origin, file, snap, work, mxHash>>,
           Pending = {}, BadGroups = {}, pIns = FALSE, pIns' = pIns,
           Coming' = {p \in 1 .. Len(snap) \ {LockBytePage} : <<p, 1>> \in badHash \/ p >= mxHash}
    PROVE  Exchanges
<1>1. Exchange!Groups = BadGroups
    BY DEF Exchange!Groups, BadGroups, If
<1>2. Exchange!Stream
    BY <1>1 DEF Exchange!Stream, Exchange!ToStream, If
<1> QED
    BY <1>2 DEF Exchanges, Exchange!Next

LEMMA WritingPage ==
    ASSUME Stage = "sending", Stage' = "sending", UNCHANGED <<origin, file, snap, mxHash>>,
           NEW p \in Coming, \A q \in Coming : p <= q, Coming' = Coming \ {p},
           work' = InsertPage(work, p, ForReplica(p, snap[p], InWal(file))), pIns'
    PROVE  Exchanges
<1>1. \A i : Exchange!InsertPage(work, p, i) = InsertPage(work, p, i)
    BY DEF Exchange!InsertPage, InsertPage, Exchange!Larger, Larger,
           Exchange!ZeroImage, ZeroImage
<1>2. \A b : Exchange!ForReplica(p, snap[p], b) = ForReplica(p, snap[p], b)
    BY DEF Exchange!ForReplica, ForReplica
<1>3. Exchange!InWal(file) = InWal(file)
    BY DEF Exchange!InWal, InWal
<1>4. Exchange!WritePage(p)
    BY <1>1, <1>2, <1>3 DEF Exchange!WritePage, Exchange!Content, If
<1> QED
    BY <1>4 DEF Exchanges, Exchange!Next, If

LEMMA CommittingFile ==
    ASSUME Stage = "sending", Stage' = "committed", UNCHANGED <<origin, snap>>, Coming = {},
           NEW c \in Counters, file' = Committed(file, work, pIns, Len(snap), c)
    PROVE  Exchanges
<1>1. Exchange!Committed(file, work, pIns, Len(snap), c)
        = Committed(file, work, pIns, Len(snap), c)
    BY DEF Exchange!Committed, Committed, Exchange!Stamp, Stamp, Exchange!Truncate, Truncate,
           Exchange!Smaller, Smaller
<1>2. Exchange!Commit
    BY <1>1 DEF Exchange!Commit, Exchange!NoRun, If
<1> QED
    BY <1>2 DEF Exchanges, Exchange!Next

LEMMA RunningAgain ==
    ASSUME Stage \in {"committed", "aborted"}, Stage' = "idle", UNCHANGED <<origin, file>>
    PROVE  Exchanges
    BY DEF Exchanges, Exchange!Next, Exchange!Again, Exchange!NoRun, If

(***************************************************************************)
(* Steps that change nothing of the exchange, or end it.                   *)
(***************************************************************************)

LEMMA GivenUp ==
    ASSUME Doomed', HasCommitted' = HasCommitted, UNCHANGED <<origin, file, snap>>
    PROVE  Exchanges /\ ExchangeInductive'
<1>1. CASE HasCommitted
    <2>1. Stage = "committed" /\ Stage' = "committed"
        BY <1>1 DEF Stage
    <2> QED
        BY <2>1, NothingHappens DEF ExchangeInductive
<1>2. CASE ~HasCommitted
    <2>1. Stage' = "aborted" /\ Stage # "committed"
        BY <1>2 DEF Stage
    <2> QED
        BY <2>1, StagesAre, Aborting DEF ExchangeInductive
<1> QED
    BY <1>1, <1>2

\* What is cut off behind ORIGIN_TXN is no page.
LEMMA ComingCut ==
    ASSUME FromOrigin \in Seq(Message), InOrder(FromOrigin), NEW n \in 0 .. Len(FromOrigin),
           FromOrigin' = SubSeq(FromOrigin, 1, n), TxnComing'
    PROVE  TxnComing /\ Coming' = Coming
<1>1. /\ DOMAIN FromOrigin' = 1 .. n /\ \A k \in 1 .. n : FromOrigin'[k] = FromOrigin[k]
      /\ DOMAIN FromOrigin = 1 .. Len(FromOrigin) /\ 1 .. n \subseteq DOMAIN FromOrigin
    BY PrefixWithin
<1>2. PICK j \in 1 .. n : FromOrigin[j].type = "ORIGIN_TXN"
    BY <1>1 DEF TxnComing, Has, FromOrigin
<1>3. TxnComing
    BY <1>1, <1>2 DEF TxnComing, Has, FromOrigin
<1>4. \A k \in DOMAIN FromOrigin : FromOrigin[k].type = "ORIGIN_PAGE" => k \in 1 .. n
    BY <1>1, <1>2 DEF InOrder, Precedes
<1>5. {x \in ToSet(FromOrigin) : x.type = "ORIGIN_PAGE"}
        = {x \in ToSet(FromOrigin') : x.type = "ORIGIN_PAGE"}
    BY <1>1, <1>4 DEF ToSet
<1> QED
    BY <1>3, <1>5 DEF Coming, FromOrigin

\* The stream cuts what is in flight, or a side is gone.
LEMMA CutsStay ==
    ASSUME SyncInductive, ExchangeInductive, Cut, RolesInStep',
           UNCHANGED <<rs, originVars, replicaVars>>, linkUp' => linkUp,
           \A s \in Sides : ret'[s] = "none" => ret[s] = "none",
           pc'["replica"] = "sql" => pc["replica"] = "sql",
           linkUp' /\ (\A s \in Sides : ret'[s] = "none") => \A s \in Sides : InFlight(s)' = InFlight(s)
    PROVE  Exchanges /\ ExchangeInductive'
<1>1. /\ UNCHANGED <<origin, file, snap, work, mxHash, badHash, pIns, iHash, nHash, sendHash, jMode, rs>>
      /\ Rounds' = Rounds /\ HasCommitted' = HasCommitted
    BY DEF originVars, replicaVars, exchange, txn, Rounds, HasCommitted
<1>2. CASE Doomed'
    BY <1>1, <1>2, GivenUp
<1>3. CASE ~Doomed'
    <2>1. ret'["replica"] = "none" /\ ret["replica"] = "none"
        BY <1>3 DEF Doomed, Sides
    <2>2. TransactionOpen' = TransactionOpen
        BY <1>1, <2>1 DEF TransactionOpen, RolesInStep, SyncInductive, Sides
    <2>3. CASE TxnComing'
        <3>1. PICK n \in 0 .. Len(FromOrigin) : FromOrigin' = SubSeq(FromOrigin, 1, n)
            BY DEF Cut, FromOrigin, Sides
        <3>2. FromOrigin \in Seq(Message) /\ InOrder(FromOrigin)
            BY Conversing DEF SyncInductive, Typed
        <3>3. TxnComing /\ Coming' = Coming
            BY <2>3, <3>1, <3>2, ComingCut
        <3>4. ~Doomed /\ Doomed' = Doomed
            BY <1>3, <2>1, <3>3 DEF Doomed
        <3>5. Stage' = Stage
            BY <1>1, <2>2, <2>3, <3>3, <3>4, SameStage
        <3>6. Stage \notin {"hashing", "announced", "idle", "aborted"}
            BY <3>3, <3>4, StagesAre
        <3>7. Exchanges
            BY <1>1, <3>3, <3>5, <3>6, NothingHappens
        <3>8. PagesOnce'
            BY <2>3, <3>1, <3>2, <3>4, PrefixWithin DEF ExchangeInductive, PagesOnce
        <3> QED
            BY <1>1, <2>2, <3>4, <3>5, <3>6, <3>7, <3>8
            DEF ExchangeInductive, RangesOnce, Kept
    <2>4. CASE ~TxnComing'
        <3>1. ret'["origin"] = "none" /\ linkUp'
            BY <1>3, <2>4 DEF Doomed
        <3>2. FromOrigin' = FromOrigin /\ FromReplica' = FromReplica
            BY <2>1, <3>1 DEF FromOrigin, FromReplica, Sides
        <3>3. TxnComing' = TxnComing /\ Coming' = Coming /\ Pending' = Pending
            BY <1>1, <3>2 DEF TxnComing, Coming, Pending, Decoded, FromOrigin, FromReplica
        <3>4. ~Doomed /\ Doomed' = Doomed
            BY <1>3, <2>1, <2>4, <3>1, <3>3 DEF Doomed, Sides
        <3>5. Stage' = Stage
            BY <1>1, <2>2, <3>3, <3>4, SameStage
        <3>6. Exchanges
            BY <1>1, <3>3, <3>5, NothingHappens
        <3>7. RangesOnce' /\ PagesOnce' /\ Kept'
            BY <1>1, <2>2, <3>2, <3>3, <3>4, <3>5
            DEF ExchangeInductive, RangesOnce, PagesOnce, Kept
        <3> QED
            BY <3>4, <3>6, <3>7 DEF ExchangeInductive
    <2> QED
        BY <2>3, <2>4
<1> QED
    BY <1>2, <1>3

(***************************************************************************)
(* The stream, the callers and the faults.                                 *)
(***************************************************************************)

LEMMA StreamExchanges ==
    ASSUME SyncInductive, ExchangeInductive, NEW s \in Sides, StreamRuns(s), RolesInStep'
    PROVE  Exchanges /\ ExchangeInductive'
<1>1. /\ WireTyped /\ RolesInStep
      /\ UNCHANGED <<rs, originVars, replicaVars>>
    BY DEF SyncInductive, Typed, StreamRuns
<1>2. CASE Transfer(s)
    <2>1. Cut /\ \A x \in Sides : InFlight(x)' = InFlight(x)
        BY <1>1, <1>2, Transferring, NothingCut
    <2> QED
        BY <1>1, <1>2, <2>1, CutsStay DEF Transfer
<1>3. CASE Flushed(s)
    <2>1. \A x \in Sides : InFlight(x)' = InFlight(x)
        BY <1>3 DEF Flushed, InFlight
    <2>2. pc'["replica"] = "sql" => pc["replica"] = "sql"
        BY <1>1, <1>3 DEF Flushed, WireTyped, Sides
    <2> QED
        BY <1>1, <1>3, <2>1, <2>2, NothingCut, CutsStay DEF Flushed
<1>4. CASE WriteFails(s)
    <2>1. /\ \A x \in Sides : ret'[x] = "none" => ret[x] = "none"
          /\ ret'[s] # "none" /\ linkUp' = linkUp
          /\ pc'["replica"] = "sql" => pc["replica"] = "sql"
        BY <1>1, <1>4 DEF WriteFails, WireTyped, Sides
    <2>2. Cut
        BY <1>1, <1>4, BufferLost DEF WriteFails
    <2> QED
        BY <1>1, <2>1, <2>2, CutsStay
<1>5. CASE StreamEnds(s)
    <2>1. PICK r \in {"nil", "error"} : Return(s, r)
        BY <1>5 DEF StreamEnds
    <2>2. chan' = chan /\ out' = out /\ linkUp' = linkUp
        BY <1>5, <2>1 DEF StreamEnds, Return
    <2>3. \A x \in Sides : InFlight(x)' = InFlight(x)
        BY <2>2 DEF InFlight
    <2>4. /\ \A x \in Sides : ret'[x] = "none" => ret[x] = "none"
          /\ ret'[s] # "none"
          /\ pc'["replica"] = "sql" => pc["replica"] = "sql"
        BY <1>1, <2>1 DEF Return, WireTyped, Sides
    <2> QED
        BY <1>1, <2>2, <2>3, <2>4, NothingCut, CutsStay
<1>6. CASE CallerCloses(s)
    <2>1. \A x \in Sides : InFlight(x)' = InFlight(x)
        BY <1>6 DEF CallerCloses, InFlight
    <2> QED
        BY <1>1, <1>6, <2>1, NothingCut, CutsStay DEF CallerCloses
<1> QED
    BY <1>2, <1>3, <1>4, <1>5, <1>6 DEF StreamRuns, StreamStep

LEMMA KillExchanges ==
    ASSUME SyncInductive, ExchangeInductive, NEW s \in Sides, Kill(s), RolesInStep'
    PROVE  Exchanges /\ ExchangeInductive'
<1>1. WireTyped /\ UNCHANGED <<rs, originVars, replicaVars>>
    BY DEF SyncInductive, Typed, Kill
<1>2. /\ \A x \in Sides : ret'[x] = "none" => ret[x] = "none"
      /\ ret'[s] # "none" /\ linkUp' = linkUp
      /\ pc'["replica"] = "sql" => pc["replica"] = "sql"
    BY <1>1 DEF Kill, Crashes, WireTyped, Sides
<1>3. Cut
    BY <1>1, BufferLost DEF Kill, Crashes
<1> QED
    BY <1>1, <1>2, <1>3, CutsStay

LEMMA CancelExchanges ==
    ASSUME SyncInductive, ExchangeInductive, NEW s \in Sides, Cancel(s) \/ Unregistered(s),
           RolesInStep'
    PROVE  Exchanges /\ ExchangeInductive'
<1>1. WireTyped /\ UNCHANGED <<rs, originVars, replicaVars>>
    BY DEF SyncInductive, Typed, Cancel, Unregistered, RegisterFails
<1>2. /\ chan' = chan /\ out' = out /\ linkUp' = linkUp
      /\ \A x \in Sides : ret'[x] = "none" => ret[x] = "none"
      /\ pc'["replica"] = "sql" => pc["replica"] = "sql"
    BY <1>1 DEF Cancel, Cancels, Unregistered, RegisterFails, Return, WireTyped, Sides
<1>3. \A x \in Sides : InFlight(x)' = InFlight(x)
    BY <1>2 DEF InFlight
<1> QED
    BY <1>1, <1>2, <1>3, NothingCut, CutsStay

LEMMA CancelledExchanges ==
    ASSUME SyncInductive, ExchangeInductive, NEW s \in Sides, Cancelled(s), RolesInStep'
    PROVE  Exchanges /\ ExchangeInductive'
<1>1. WireTyped /\ UNCHANGED <<rs, originVars, replicaVars>>
    BY DEF SyncInductive, Typed, Cancelled
<1>2. /\ \A x \in Sides : ret'[x] = "none" => ret[x] = "none"
      /\ ret'[s] # "none" /\ linkUp' = linkUp /\ chan' = chan
      /\ pc'["replica"] = "sql" => pc["replica"] = "sql"
    BY <1>1 DEF Cancelled, CancelledRead, CancelledWrite, Return, WireTyped, Sides
<1>3. Cut
    <2>1. CASE out' = out
        BY <1>1, <1>2, <2>1, NothingCut DEF InFlight
    <2>2. CASE out' = [out EXCEPT ![s] = <<>>]
        BY <1>1, <1>2, <2>2, BufferLost
    <2> QED
        BY <2>1, <2>2 DEF Cancelled, CancelledRead, CancelledWrite, Return
<1> QED
    BY <1>1, <1>2, <1>3, CutsStay

LEMMA LinkFaultExchanges ==
    ASSUME SyncInductive, ExchangeInductive, LinkFault, RolesInStep'
    PROVE  Exchanges /\ ExchangeInductive'
<1>1. WireTyped /\ UNCHANGED <<rs, originVars, replicaVars>>
    BY DEF SyncInductive, Typed, LinkFault
<1>2. ret' = ret /\ pc' = pc /\ ~linkUp'
    BY DEF LinkFault, LinkBreaks
<1>3. Cut
    BY <1>1, LinkLost DEF LinkFault
<1> QED
    BY <1>1, <1>2, <1>3, CutsStay

(***************************************************************************)
(* A side gives the run up.                                                *)
(***************************************************************************)

\* The replica has returned, or is to return once its buffer is flushed.
LEMMA ReplicaGone ==
    ASSUME ret'["replica"] # "none", UNCHANGED <<origin, file, snap, work>>,
           rs'["replica"].hashRounds = rs["replica"].hashRounds
    PROVE  Exchanges /\ ExchangeInductive'
<1>1. Doomed' /\ HasCommitted' = HasCommitted
    BY DEF Doomed, HasCommitted, Rounds
<1> QED
    BY <1>1, GivenUp

\* The origin has, and has not said ORIGIN_TXN.
LEMMA OriginGone ==
    ASSUME ret'["origin"] # "none", ~Has(FromOrigin', {"ORIGIN_TXN"}),
           UNCHANGED <<origin, file, snap, work>>,
           rs'["replica"].hashRounds = rs["replica"].hashRounds
    PROVE  Exchanges /\ ExchangeInductive'
<1>1. Doomed' /\ HasCommitted' = HasCommitted
    BY DEF Doomed, HasCommitted, Rounds, TxnComing, FromOrigin
<1> QED
    BY <1>1, GivenUp

\* Who only checks the stream, or reports its failure, has given up.
LEMMA ReplicaSaidSo ==
    ASSUME SyncInductive, Has(FromReplica, {"REPLICA_MSG", "REPLICA_END", "REPLICA_ERROR"})
    PROVE  ret["replica"] # "none"
<1>1. /\ WireTyped /\ RolesInStep /\ Turns
    BY DEF SyncInductive, Typed
<1>2. CASE Has(FromReplica, {"REPLICA_ERROR"})
    BY <1>1, <1>2 DEF Turns
<1>3. CASE ~Has(FromReplica, {"REPLICA_ERROR"})
    <2>1. rs["replica"].commCheck /\ FromReplica # <<>>
        BY <1>1, <1>3 DEF Turns, Has
    <2>2. pc["replica"] # "start"
        BY <1>1, <2>1 DEF RolesInStep, FromReplica, InFlight, Sides
    <2> QED
        BY <1>1, <2>1, <2>2 DEF RolesInStep, WireTyped, Sides
<1> QED
    BY <1>2, <1>3

LEMMA ReplicaFailsExchanges ==
    ASSUME SyncInductive, SyncInductive', ExchangeInductive, UNCHANGED originVars,
           \/ ReplicaCommCheck \/ OnOriginEnd \/ OnOriginError \/ OpenTransactionFails
           \/ OnOriginReadyFails \/ OnOriginPageFails \/ OnOriginTxnFails
    PROVE  Exchanges /\ ExchangeInductive'
<1>1. WireTyped /\ rs \in [Sides -> Structs]
    BY DEF SyncInductive, Typed
<1>2. UNCHANGED <<origin, file, snap, work>>
    BY DEF originVars, ReplicaCommCheck, OnOriginEnd, OnOriginError, OpenTransactionFails,
           OnOriginReadyFails, OnOriginPageFails, OnOriginTxnFails, replicaVars, txn
<1>3. ASSUME NEW c, rs' = Counted(c, 0)
      PROVE  rs'["replica"].hashRounds = rs["replica"].hashRounds
    <2>1. rs["replica"].hashRounds \in Nat /\ rs["replica"].hashRounds + 0 = rs["replica"].hashRounds
        BY <1>1 DEF Structs, Sides
    <2> DEFINE r == rs["replica"]
               n == [r EXCEPT !.hashMessages = @ + c, !.hashRounds = @ + 0]
    <2>2. rs' = [rs EXCEPT !["replica"] = n]
        BY <1>1, <1>3 DEF Counted, Sides
    <2>3. n.hashRounds = r.hashRounds
        BY <1>1, <2>1 DEF Structs, Sides
    <2> HIDE DEF n
    <2> QED
        BY <1>1, <2>2, <2>3 DEF Sides
<1>4. rs'["replica"].hashRounds = rs["replica"].hashRounds
    <2>1. CASE ReplicaCommCheck \/ OnOriginEnd \/ OnOriginError \/ OnOriginTxnFails
        BY <2>1 DEF ReplicaCommCheck, OnOriginEnd, OnOriginError, OnOriginTxnFails, EndsRun
    <2>2. CASE OnOriginPageFails
        <3> DEFINE r == rs["replica"]
                   n == [r EXCEPT !.pageUpdates = @ + 1]
        <3>1. rs' = [rs EXCEPT !["replica"] = n]
            BY <1>1, <2>2 DEF OnOriginPageFails, Sides
        <3>2. n.hashRounds = r.hashRounds
            BY <1>1 DEF Structs, Sides
        <3> HIDE DEF n
        <3> QED
            BY <1>1, <3>1, <3>2 DEF Sides
    <2>3. CASE OpenTransactionFails \/ OnOriginReadyFails
        BY <1>3, <2>3 DEF OpenTransactionFails, OnOriginReadyFails, HashingFails
    <2> QED
        BY <2>1, <2>2, <2>3
<1>5. ret'["replica"] # "none"
    BY <1>1 DEF ReplicaCommCheck, OnOriginEnd, OnOriginError, OpenTransactionFails,
           OnOriginReadyFails, OnOriginPageFails, OnOriginTxnFails, HashingFails, EndsRun, Return,
           ReplicaFails, FailAfter, Push, WireTyped, Sides
<1> QED
    BY <1>2, <1>4, <1>5, ReplicaGone

LEMMA OriginReads ==
    ASSUME SyncInductive, SyncInductive', UNCHANGED replicaVars,
           OnReplicaMsg \/ OnReplicaEnd \/ OnReplicaError
    PROVE  Exchanges /\ ExchangeInductive'
<1>1. WireTyped
    BY DEF SyncInductive, Typed
<1>2. PICK type \in {"REPLICA_MSG", "REPLICA_END", "REPLICA_ERROR"} : Receives("origin", type)
    BY DEF OnReplicaMsg, OnReplicaEnd, OnReplicaError, Drop, EndsRun
<1>3. Has(FromReplica, {type})
    BY <1>1, <1>2, Heard DEF FromReplica, Peer, Sides
<1>4. ret["replica"] # "none"
    BY <1>2, <1>3, ReplicaSaidSo DEF Has
<1>5. ret'["replica"] # "none" /\ UNCHANGED <<origin, file, snap, work, rs>>
    BY <1>1, <1>4 DEF OnReplicaMsg, OnReplicaEnd, OnReplicaError, Drop, EndsRun, ReadOn, Return,
       originVars, replicaVars, txn, WireTyped, Sides
<1> QED
    BY <1>5, ReplicaGone

LEMMA ReplicaReads ==
    ASSUME SyncInductive, SyncInductive', UNCHANGED originVars, OnOriginMsg
    PROVE  Exchanges /\ ExchangeInductive'
<1>1. WireTyped /\ RolesInStep /\ Turns /\ Turns' /\ RolesInStep'
    BY DEF SyncInductive, Typed
<1>2. Has(FromOrigin, {"ORIGIN_MSG"}) /\ FromOrigin # <<>>
    BY <1>1, Heard DEF OnOriginMsg, Drop, FromOrigin, Peer, Sides
<1>3. rs["origin"].commCheck
    BY <1>1, <1>2 DEF Turns, Has
<1>4. pc["origin"] # "start"
    BY <1>1, <1>2 DEF RolesInStep, FromOrigin, InFlight, Sides
<1>5. ret["origin"] # "none"
    BY <1>1, <1>3, <1>4 DEF RolesInStep, WireTyped, Sides
<1>6. ret' = ret /\ rs' = rs /\ UNCHANGED <<origin, file, snap, work>>
    BY DEF OnOriginMsg, Drop, ReadOn, originVars, replicaVars, txn
<1>7. ~Has(FromOrigin', {"ORIGIN_TXN"})
    BY <1>1, <1>3, <1>6 DEF Turns, Has
<1> QED
    BY <1>5, <1>6, <1>7, OriginGone

\* A message that ORIGIN_ERROR follows is not ORIGIN_TXN.
LEMMA NoTxnBeforeError ==
    ASSUME NEW msgs \in Seq(Message), InOrder(msgs), Has(msgs, {"ORIGIN_ERROR"})
    PROVE  ~Has(msgs, {"ORIGIN_TXN"})
<1>1. PICK j \in DOMAIN msgs : msgs[j].type = "ORIGIN_ERROR"
    BY DEF Has
<1>2. SUFFICES ASSUME NEW k \in DOMAIN msgs, msgs[k].type = "ORIGIN_TXN" PROVE FALSE
    BY DEF Has
<1>3. j < k \/ k < j
    BY <1>1, <1>2
<1>4. ~Precedes("ORIGIN_ERROR", "ORIGIN_TXN") /\ ~Precedes("ORIGIN_TXN", "ORIGIN_ERROR")
    BY DEF Precedes
<1> QED
    BY <1>1, <1>2, <1>3, <1>4 DEF InOrder

LEMMA OriginFailing ==
    ASSUME SyncInductive, SyncInductive', NEW msgs \in Seq(OriginMessages), OriginFails(msgs),
           NEW type \in {"REPLICA_BEGIN", "REPLICA_HASH", "REPLICA_READY"},
           Receives("origin", type), chan' = Consumed("origin"), SameOptions,
           UNCHANGED <<origin, file, snap, work>>,
           rs'["replica"].hashRounds = rs["replica"].hashRounds
    PROVE  Exchanges /\ ExchangeInductive'
<1>1. /\ WireTyped /\ RolesInStep /\ Conversation /\ Turns
      /\ Conversation' /\ WireTyped'
    BY DEF SyncInductive, Typed
<1> DEFINE all == Append(msgs, OriginErr)
<1>2. OriginErr \in OriginMessages
    BY DEF OriginErr, OriginMessages
<1>3. all \in Seq(OriginMessages) /\ all[Len(msgs) + 1] = OriginErr
      /\ Len(msgs) + 1 \in DOMAIN all
    BY <1>2
<1>4. Has(all, {"ORIGIN_ERROR"})
    BY <1>3 DEF Has, OriginErr
<1>5. Push("origin", all, "error")
    BY DEF OriginFails, FailAfter, OriginErr
<1> HIDE DEF all
<1>6. ret'["origin"] = "error" /\ FromOrigin' = IF linkUp THEN all ELSE <<>>
    BY <1>1, <1>3, <1>5, OriginAnswers
<1>7. InOrder(FromOrigin') /\ FromOrigin' \in Seq(Message)
    <2>1. all \in Seq(Message) /\ <<>> \in Seq(Message)
        BY <1>3 DEF Message
    <2> QED
        BY <1>1, <1>6, <2>1 DEF Conversation
<1>8. ~Has(FromOrigin', {"ORIGIN_TXN"})
    BY <1>4, <1>6, <1>7, NoTxnBeforeError, HasNothing
<1> QED
    BY <1>6, <1>8, OriginGone

LEMMA OriginFailsExchanges ==
    ASSUME SyncInductive, SyncInductive', UNCHANGED replicaVars,
           OriginCommCheck \/ OriginRefuses \/ OnReplicaHashFails \/ OnReplicaReadyFails
    PROVE  Exchanges /\ ExchangeInductive'
<1>1. /\ WireTyped /\ OriginTyped /\ RolesInStep /\ Stages /\ Turns' /\ Exchanging'
      /\ rs \in [Sides -> Structs]
    BY DEF SyncInductive, Typed
<1>2. UNCHANGED <<origin, file, snap, work>>
    BY DEF originVars, OriginCommCheck, OriginRefuses, OnReplicaHashFails, OnReplicaReadyFails,
           replicaVars, txn
<1>3. CASE OriginCommCheck
    <2>1. rs["origin"].commCheck /\ rs' = rs /\ ret'["origin"] # "none"
        BY <1>1, <1>3 DEF OriginCommCheck, Push, WireTyped, Sides
    <2>2. ~Has(FromOrigin', {"ORIGIN_TXN"})
        BY <1>1, <2>1 DEF Turns, Has
    <2> QED
        BY <1>2, <2>1, <2>2, OriginGone
<1>4. CASE OriginRefuses
    <2>1. pc["origin"] = "start" /\ rs' = rs /\ ret'["origin"] # "none"
        BY <1>1, <1>4 DEF OriginRefuses, OriginFails, FailAfter, Push, WireTyped, Sides
    <2>2. Rounds' = 0
        BY <1>1, <2>1 DEF Stages, Rounds
    <2>3. ~Has(FromOrigin', {"ORIGIN_TXN"})
        BY <1>1, <2>2 DEF Exchanging, Has
    <2> QED
        BY <1>2, <2>1, <2>3, OriginGone
<1>5. CASE OnReplicaHashFails
    <2>1. rs'["replica"] = rs["replica"] /\ rs'["origin"].commCheck = rs["origin"].commCheck
        BY <1>1, <1>5, HashCounted DEF OnReplicaHashFails
    <2>2. SameOptions /\ <<>> \in Seq(OriginMessages)
        BY <2>1 DEF SameOptions, Sides
    <2> QED
        BY <1>2, <1>5, <2>1, <2>2, OriginFailing DEF OnReplicaHashFails
<1>6. CASE OnReplicaReadyFails
    <2>1. PICK msgs \in IF ~hashed THEN {<<>>}
                        ELSE IF BadGroups # {} THEN Prefixes(Details)
                        ELSE Prefixes(PageStream) :
            OriginFails(msgs) /\ \E c : CountRound(c)
        BY <1>6 DEF OnReplicaReadyFails
    <2>2. Details \in Seq(OriginMessages) /\ PageStream \in Seq(OriginMessages)
        BY <1>1, DetailsIs, PageStreamIs, SnapIs, RsyncAssumption DEF OriginTyped
    <2>3. msgs \in Seq(OriginMessages)
        <3>1. \A t \in {Details, PageStream} : \A x \in Prefixes(t) : x \in Seq(OriginMessages)
            BY <2>2 DEF Prefixes
        <3>2. <<>> \in Seq(OriginMessages)
            OBVIOUS
        <3>3. msgs = <<>> \/ msgs \in Prefixes(Details) \/ msgs \in Prefixes(PageStream)
            BY <2>1
        <3> QED
            BY <3>1, <3>2, <3>3
    <2>4. PICK c : CountRound(c)
        BY <2>1
    <2> DEFINE o == rs["origin"]
               n == [o EXCEPT !.hashRounds = @ + 1, !.pageUpdates = @ + c]
    <2>5. rs' = [rs EXCEPT !["origin"] = n] /\ n.commCheck = o.commCheck
        BY <1>1, <2>4 DEF CountRound, Structs, Sides
    <2> HIDE DEF n
    <2>6. rs'["replica"] = rs["replica"] /\ rs'["origin"].commCheck = rs["origin"].commCheck
        BY <1>1, <2>5 DEF Sides
    <2>7. SameOptions
        BY <2>6 DEF SameOptions, Sides
    <2> QED
        BY <1>2, <1>6, <2>1, <2>3, <2>6, <2>7, OriginFailing DEF OnReplicaReadyFails
<1> QED
    BY <1>3, <1>4, <1>5, <1>6

(***************************************************************************)
(* The ranges under way.                                                   *)
(***************************************************************************)

LEMMA DecodedRanges ==
    ASSUME NEW msgs
    PROVE  {d.range : d \in Decoded(msgs)} = HashedRanges(msgs, <<iHash, nHash>>)
<1> DEFINE A == Positions(msgs, <<iHash, nHash>>)
           H == HashesIn(msgs)
<1>1. Decoded(msgs) = {[range |-> A[k - 1], hash |-> msgs[k].hash] : k \in H}
    BY DEF Decoded
<1>2. HashedRanges(msgs, <<iHash, nHash>>) = {A[k - 1] : k \in H}
    BY DEF HashedRanges
<1> HIDE DEF A, H
<1>3. \A k \in H : [range |-> A[k - 1], hash |-> msgs[k].hash].range = A[k - 1]
    OBVIOUS
<1>4. ASSUME NEW d \in Decoded(msgs) PROVE \E k \in H : d.range = A[k - 1]
    BY <1>1, <1>3
<1>5. ASSUME NEW k \in H PROVE \E d \in Decoded(msgs) : d.range = A[k - 1]
    BY <1>1, <1>3
<1> QED
    BY <1>2, <1>4, <1>5

\* The first message says what the counters say of the rest, whatever ranges
\* they have named before.
LEMMA TailRanges ==
    ASSUME NEW msgs \in Seq(ReplicaMessages), msgs # <<>>, NEW r \in Nat \X Nat
    PROVE  LET rest == HashedRanges(Tail(msgs), Advanced(r, Head(msgs)))
           IN  HashedRanges(msgs, r)
                = IF Head(msgs).type = "REPLICA_HASH" THEN rest \union {r} ELSE rest
<1> DEFINE t == Tail(msgs)
           P == Positions(msgs, r)
           A == Positions(t, P[1])
           H == HashesIn(msgs)
           G == HashesIn(t)
<1>1. /\ t \in Seq(ReplicaMessages) /\ Len(t) + 1 = Len(msgs) /\ Len(t) \in Nat
      /\ DOMAIN msgs = 1 .. Len(t) + 1 /\ DOMAIN t = 1 .. Len(t)
      /\ Head(msgs) = msgs[1] /\ \A k \in 1 .. Len(t) : t[k] = msgs[k + 1]
    OBVIOUS
<1>2. P[0] = r /\ P[1] = Advanced(r, msgs[1])
    <2>1. P[0] = r /\ \A k \in 1 .. Len(msgs) : P[k] = Advanced(P[k - 1], msgs[k])
        BY PositionsUnfold
    <2>2. 1 \in 1 .. Len(msgs) /\ 1 - 1 = 0
        BY <1>1
    <2> HIDE DEF P
    <2> QED
        BY <2>1, <2>2
<1>3. \A k \in 0 .. Len(t) : A[k] = P[k + 1]
    <2> HIDE DEF t
    <2>1. 1 \in Nat /\ Len(t) + 1 <= Len(msgs)
        BY <1>1
    <2> QED
        BY <1>1, <2>1, PositionsShift
<1>4. /\ G \subseteq 1 .. Len(t) /\ H \subseteq 1 .. Len(t) + 1
      /\ \A k \in 1 .. Len(t) : k \in G <=> k + 1 \in H
      /\ 1 \in H <=> Head(msgs).type = "REPLICA_HASH"
    BY <1>1 DEF HashesIn
<1>5. HashedRanges(t, P[1]) = {A[k - 1] : k \in G} /\ HashedRanges(msgs, r) = {P[k - 1] : k \in H}
    BY DEF HashedRanges
<1> HIDE DEF A, P, G, H, t
<1>6. \A k \in G : k - 1 \in 0 .. Len(t) /\ A[k - 1] = P[k] /\ k \in Nat /\ (k + 1) - 1 = k
    <2> TAKE k \in G
    <2>1. k - 1 \in 0 .. Len(t) /\ (k - 1) + 1 = k /\ k \in Nat /\ (k + 1) - 1 = k
        BY <1>1, <1>4
    <2>2. A[k - 1] = P[(k - 1) + 1]
        BY <1>3, <2>1, Zenon
    <2> QED
        BY <2>1, <2>2
<1>7. {P[k - 1] : k \in H} = {A[k - 1] : k \in G} \union (IF 1 \in H THEN {P[0]} ELSE {})
    <2>1. \A k \in G : k + 1 \in H /\ A[k - 1] = P[(k + 1) - 1]
        BY <1>4, <1>6
    <2>2. ASSUME NEW k \in H, k # 1 PROVE k - 1 \in G /\ P[k - 1] = A[(k - 1) - 1]
        <3>1. k - 1 \in 1 .. Len(t) /\ (k - 1) + 1 = k
            BY <1>1, <1>4, <2>2
        <3>2. k - 1 \in G
            BY <1>4, <3>1
        <3> QED
            BY <1>6, <3>2
    <2>3. 1 - 1 = 0
        OBVIOUS
    <2> QED
        BY <2>1, <2>2, <2>3
<1> QED
    BY <1>1, <1>2, <1>4, <1>5, <1>7 DEF t

\* Where every range is named once, the first message names none of the rest.
LEMMA TailHashedRanges ==
    ASSUME NEW msgs \in Seq(ReplicaMessages), msgs # <<>>, NEW r \in Nat \X Nat,
           HashedOnce(msgs, r)
    PROVE  LET next == Advanced(r, Head(msgs))
               rest == HashedRanges(Tail(msgs), next)
           IN  /\ HashedOnce(Tail(msgs), next)
               /\ IF Head(msgs).type = "REPLICA_HASH"
                  THEN HashedRanges(msgs, r) = rest \union {r} /\ r \notin rest
                  ELSE HashedRanges(msgs, r) = rest
<1> DEFINE t == Tail(msgs)
           P == Positions(msgs, r)
           A == Positions(t, P[1])
           H == HashesIn(msgs)
           G == HashesIn(t)
<1>1. /\ t \in Seq(ReplicaMessages) /\ Len(t) + 1 = Len(msgs) /\ Len(t) \in Nat
      /\ DOMAIN msgs = 1 .. Len(t) + 1 /\ DOMAIN t = 1 .. Len(t)
      /\ Head(msgs) = msgs[1] /\ \A k \in 1 .. Len(t) : t[k] = msgs[k + 1]
    OBVIOUS
<1>2. P[0] = r /\ P[1] = Advanced(r, msgs[1])
    <2>1. P[0] = r /\ \A k \in 1 .. Len(msgs) : P[k] = Advanced(P[k - 1], msgs[k])
        BY PositionsUnfold
    <2>2. 1 \in 1 .. Len(msgs) /\ 1 - 1 = 0
        BY <1>1
    <2> HIDE DEF P
    <2> QED
        BY <2>1, <2>2
<1>3. \A k \in 0 .. Len(t) : A[k] = P[k + 1]
    <2> HIDE DEF t
    <2>1. 1 \in Nat /\ Len(t) + 1 <= Len(msgs)
        BY <1>1
    <2> QED
        BY <1>1, <2>1, PositionsShift
<1>4. /\ G \subseteq 1 .. Len(t) /\ H \subseteq 1 .. Len(t) + 1
      /\ \A k \in 1 .. Len(t) : k \in G <=> k + 1 \in H
      /\ 1 \in H <=> Head(msgs).type = "REPLICA_HASH"
    BY <1>1 DEF HashesIn
<1>5. /\ HashedRanges(t, P[1]) = {A[k - 1] : k \in G}
      /\ HashedRanges(msgs, r) = IF Head(msgs).type = "REPLICA_HASH"
                                 THEN HashedRanges(t, P[1]) \union {r} ELSE HashedRanges(t, P[1])
    BY <1>1, <1>2, TailRanges DEF HashedRanges
<1>6. \A j, k \in H : j # k => P[j - 1] # P[k - 1]
    BY DEF HashedOnce
<1> HIDE DEF A, P, G, H, t
<1>7. \A k \in G : k - 1 \in 0 .. Len(t) /\ A[k - 1] = P[k] /\ k \in Nat /\ (k + 1) - 1 = k
    <2> TAKE k \in G
    <2>1. k - 1 \in 0 .. Len(t) /\ (k - 1) + 1 = k /\ k \in Nat /\ (k + 1) - 1 = k
        BY <1>1, <1>4
    <2>2. A[k - 1] = P[(k - 1) + 1]
        BY <1>3, <2>1, Zenon
    <2> QED
        BY <2>1, <2>2
<1>8. 1 \in H => P[0] \notin {A[k - 1] : k \in G}
    <2> SUFFICES ASSUME 1 \in H, NEW k \in G PROVE A[k - 1] # P[0]
        OBVIOUS
    <2>1. k + 1 \in H /\ k + 1 # 1 /\ (k + 1) - 1 = k /\ 1 - 1 = 0
        BY <1>1, <1>4, <1>7
    <2>2. P[(k + 1) - 1] # P[1 - 1]
        BY <1>6, <2>1, Zenon
    <2> QED
        BY <1>7, <2>1, <2>2
<1>9. \A j, k \in G : j # k => A[j - 1] # A[k - 1]
    <2> SUFFICES ASSUME NEW j \in G, NEW k \in G, j # k PROVE A[j - 1] # A[k - 1]
        OBVIOUS
    <2>1. j + 1 \in H /\ k + 1 \in H /\ j + 1 # k + 1 /\ (j + 1) - 1 = j /\ (k + 1) - 1 = k
        BY <1>4, <1>7
    <2>2. P[(j + 1) - 1] # P[(k + 1) - 1]
        BY <1>6, <2>1, Zenon
    <2> QED
        BY <1>7, <2>1, <2>2
<1>10. HashedOnce(t, P[1])
    BY <1>9, Zenon DEF HashedOnce, A, G
<1> QED
    BY <1>1, <1>2, <1>4, <1>5, <1>8, <1>10 DEF t

LEMMA OwnFirst ==
    ASSUME NEW r, Bounded(r)
    PROVE  r[1] \in PagesIn(r) /\ r[1] \in Nat /\ r[2] \in Nat
    BY DEF Bounded, PageRange, PagesIn

LEMMA SameFirst ==
    ASSUME NEW S, Apart(S), NEW q \in S, NEW r \in S, Bounded(q), Bounded(r), q[1] = r[1]
    PROVE  q = r
    BY OwnFirst DEF Apart

\* Cutting some of the ranges into pieces keeps all of them apart.
LEMMA CutApart ==
    ASSUME NEW S, \A r \in S : Bounded(r), Apart(S), NEW G \in SUBSET S
    PROVE  LET pieces == UNION {Subdivide(r[1], r[2]) : r \in G}
               rest == S \ G
           IN  /\ Apart(pieces \union rest) /\ pieces \intersect rest = {}
               /\ PagesOf(pieces \union rest) \subseteq PagesOf(S)
<1> DEFINE pieces == UNION {Subdivide(r[1], r[2]) : r \in G}
           rest == S \ G
<1>1. ASSUME NEW r \in S
      PROVE  /\ \A q \in Subdivide(r[1], r[2]) :
                    PagesIn(q) \subseteq PagesIn(r) /\ PagesIn(q) # {}
             /\ Apart(Subdivide(r[1], r[2]))
    <2> DEFINE f == r[1]
               n == r[2]
    <2>1. f \in Positive /\ n \in Positive
        BY DEF Bounded, PageRange, Positive
    <2>2. PagesIn(<<f, n>>) = PagesIn(r)
        BY DEF PagesIn
    <2> HIDE DEF f, n
    <2>3. /\ Subdivide(f, n) \subseteq Positive \X Positive
          /\ PagesOf(Subdivide(f, n)) = PagesIn(r)
          /\ Apart(Subdivide(f, n))
        BY <2>1, <2>2, SubdivideTiles DEF Apart
    <2>4. \A q \in Positive \X Positive : q[1] \in PagesIn(q)
        BY DEF Positive, PagesIn
    <2>5. \A q \in Subdivide(f, n) : PagesIn(q) \subseteq PagesIn(r) /\ PagesIn(q) # {}
        BY <2>3, <2>4 DEF PagesOf
    <2> QED
        BY <2>3, <2>5 DEF f, n
<1>2. \A q \in pieces : \E r \in G : q \in Subdivide(r[1], r[2])
    OBVIOUS
<1> HIDE DEF pieces
<1>3. ASSUME NEW q \in pieces \union rest, NEW r \in pieces \union rest, q # r
      PROVE  PagesIn(q) \intersect PagesIn(r) = {}
    <2>1. CASE q \in pieces /\ r \in pieces
        <3>1. PICK a \in G : q \in Subdivide(a[1], a[2])
            BY <1>2, <2>1
        <3>2. PICK b \in G : r \in Subdivide(b[1], b[2])
            BY <1>2, <2>1
        <3>3. CASE a = b
            BY <1>1, <1>3, <3>1, <3>2, <3>3 DEF Apart
        <3>4. CASE a # b
            <4>1. PagesIn(a) \intersect PagesIn(b) = {}
                BY <3>4 DEF Apart
            <4> QED
                BY <1>1, <3>1, <3>2, <4>1
        <3> QED
            BY <3>3, <3>4
    <2>2. ASSUME NEW x \in pieces, NEW y \in rest
          PROVE  PagesIn(x) \intersect PagesIn(y) = {}
        <3>1. PICK a \in G : x \in Subdivide(a[1], a[2])
            BY <1>2
        <3>2. PagesIn(a) \intersect PagesIn(y) = {}
            BY DEF Apart
        <3> QED
            BY <1>1, <3>1, <3>2
    <2>3. CASE q \in rest /\ r \in rest
        BY <1>3, <2>3 DEF Apart
    <2> QED
        BY <2>1, <2>2, <2>3
<1>4. ASSUME NEW q \in pieces, q \in rest
      PROVE  FALSE
    <2>1. PICK a \in G : q \in Subdivide(a[1], a[2])
        BY <1>2
    <2>2. PagesIn(a) \intersect PagesIn(q) = {}
        BY <1>4 DEF Apart
    <2> QED
        BY <1>1, <2>1, <2>2
<1>5. \A q \in pieces \union rest : PagesIn(q) \subseteq PagesOf(S)
    <2>1. \A r \in S : PagesIn(r) \subseteq PagesOf(S)
        BY DEF PagesOf
    <2>2. \A q \in pieces : \E r \in S : PagesIn(q) \subseteq PagesIn(r)
        BY <1>1, <1>2
    <2> QED
        BY <2>1, <2>2
<1>6. PagesOf(pieces \union rest) \subseteq PagesOf(S)
    BY <1>5 DEF PagesOf
<1>7. Apart(pieces \union rest)
    BY <1>3, Zenon DEF Apart
<1> QED
    BY <1>4, <1>6, <1>7 DEF pieces

\* The first batch covers the replica's pages, each once.
LEMMA FirstApart ==
    ASSUME NEW n \in Nat \ {0}, NEW v \in {1, 2}
    PROVE  Apart(FirstRanges(v, n)) /\ PagesOf(FirstRanges(v, n)) = 1 .. n
    BY FirstRangesCover DEF Apart, Positive

\* ORIGIN_DETAIL is said of every group that differs, once.
LEMMA DetailsAre ==
    ASSUME \A r \in badHash : Bounded(r) /\ r[1] + r[2] <= mxHash, Apart(badHash),
           mxHash \in Nat
    PROVE  /\ \A k \in DOMAIN Details : <<Details[k].fpg, Details[k].npg>> \in BadGroups
           /\ \A r \in BadGroups : \E k \in DOMAIN Details :
                r = <<Details[k].fpg, Details[k].npg>>
<1> DEFINE F == {r[1] : r \in BadGroups}
           firsts == Ascending(F, mxHash)
           row(f) == CHOOSE r \in BadGroups : r[1] = f
<1>1. /\ DOMAIN Details = DOMAIN firsts
      /\ \A k \in DOMAIN firsts : Details[k].fpg = firsts[k] /\ Details[k].npg = row(firsts[k])[2]
    BY DEF Details
<1>2. IsAscending(firsts, F, mxHash)
    <2> HIDE DEF F
    <2> QED
        BY AscendingIs
<1>3. ASSUME NEW r \in BadGroups
      PROVE  row(r[1]) = r /\ r = <<r[1], r[2]>> /\ r[1] \in 1 .. mxHash
    <2>1. row(r[1]) \in BadGroups /\ row(r[1])[1] = r[1]
        OBVIOUS
    <2>2. Bounded(r) /\ r[1] + r[2] <= mxHash
        BY DEF BadGroups
    <2> HIDE DEF row
    <2>3. row(r[1]) = r
        BY <2>1, <2>2, SameFirst DEF BadGroups
    <2> QED
        BY <2>2, <2>3, RangeAsPair DEF Bounded, PageRange
<1> HIDE DEF firsts, row
<1>4. ASSUME NEW k \in DOMAIN Details
      PROVE  <<Details[k].fpg, Details[k].npg>> \in BadGroups
    <2>1. PICK r \in BadGroups : firsts[k] = r[1]
        BY <1>1, <1>2 DEF IsAscending
    <2> QED
        BY <1>1, <1>3, <2>1
<1>5. ASSUME NEW r \in BadGroups
      PROVE  \E k \in DOMAIN Details : r = <<Details[k].fpg, Details[k].npg>>
    <2>1. r[1] \in F /\ r[1] \in 1 .. mxHash
        BY <1>3
    <2> HIDE DEF F
    <2>2. PICK k \in DOMAIN firsts : firsts[k] = r[1]
        BY <1>2, <2>1 DEF IsAscending
    <2> QED
        BY <1>1, <1>3, <2>2
<1> QED
    BY <1>4, <1>5

\* Once no group is left, the pages to send are those of badHash and those
\* never hashed, in ascending order.
LEMMA PagesAre ==
    ASSUME \A r \in badHash : Bounded(r), BadGroups = {}, mxHash \in Nat \ {0},
           snap \in Seq(Image)
    PROVE  /\ {PageStream[k].pgno : k \in DOMAIN PageStream}
                = {p \in 1 .. Len(snap) \ {LockBytePage} : <<p, 1>> \in badHash \/ p >= mxHash}
           /\ \A j, k \in DOMAIN PageStream :
                j < k => PageStream[j].pgno < PageStream[k].pgno
<1> DEFINE F == {r[1] : r \in Filled}
           n == Len(snap)
           pages == Ascending(F, n)
<1>1. /\ DOMAIN PageStream = DOMAIN pages
      /\ \A k \in DOMAIN pages : PageStream[k].pgno = pages[k]
    BY DEF PageStream
<1>2. IsAscending(pages, F, n) /\ n \in Nat
    <2> HIDE DEF F
    <2> QED
        BY AscendingIs
<1>3. ASSUME NEW p \in 1 .. n
      PROVE  p \in F <=> p # LockBytePage /\ (<<p, 1>> \in badHash \/ p >= mxHash)
    <2>1. \A r \in badHash : r = <<r[1], 1>>
        <3> TAKE r \in badHash
        <3>1. r[2] = 1
            BY DEF BadGroups, Bounded, PageRange
        <3> QED
            BY <3>1, RangeAsPair
    <2>2. p \in F <=> \E r \in Filled : p = r[1]
        OBVIOUS
    <2> HIDE DEF F, n
    <2> QED
        BY <1>2, <2>1, <2>2 DEF Filled, n
<1> HIDE DEF pages, F, n
<1>4. {pages[k] : k \in DOMAIN pages} = {p \in 1 .. n : p \in F}
    BY <1>2 DEF IsAscending
<1>5. \A j, k \in DOMAIN pages : j < k => pages[j] < pages[k]
    BY <1>2 DEF IsAscending
<1>6. {PageStream[k].pgno : k \in DOMAIN PageStream} = {pages[k] : k \in DOMAIN pages}
    BY <1>1
<1> QED
    BY <1>1, <1>3, <1>4, <1>5, <1>6 DEF n

\* The ranges msgs asks detail of, in pieces; the pages it carries.
Asked(msgs) ==
    UNION {Subdivide(m.fpg, m.npg) : m \in {x \in ToSet(msgs) : x.type = "ORIGIN_DETAIL"}}
Carried(msgs) == {m.pgno : m \in {x \in ToSet(msgs) : x.type = "ORIGIN_PAGE"}}

UnderWay(toOrigin, r, waiting, toReplica) ==
    HashedRanges(toOrigin, r) \union waiting \union Asked(toReplica)

LEMMA PendingIs == Pending = UnderWay(FromReplica, <<iHash, nHash>>, sendHash, FromOrigin)
    BY DecodedRanges DEF Pending, UnderWay, Asked, FromOrigin, FromReplica

LEMMA PendingIsNext ==
    Pending' = UnderWay(FromReplica', <<iHash', nHash'>>, sendHash', FromOrigin')
<1>1. (Pending = UnderWay(FromReplica, <<iHash, nHash>>, sendHash, FromOrigin))'
    BY PendingIs, PTL
<1> QED
    BY <1>1

LEMMA AskedIs ==
    ASSUME NEW msgs
    PROVE  Asked(msgs) = UNION {Subdivide(msgs[k].fpg, msgs[k].npg) :
                                  k \in {j \in DOMAIN msgs : msgs[j].type = "ORIGIN_DETAIL"}}
    BY DEF Asked, ToSet

LEMMA CarriedIs ==
    ASSUME NEW msgs
    PROVE  Carried(msgs) = {msgs[k].pgno :
                              k \in {j \in DOMAIN msgs : msgs[j].type = "ORIGIN_PAGE"}}
    BY DEF Carried, ToSet

LEMMA NothingAsked ==
    ASSUME NEW msgs, ~Has(msgs, {"ORIGIN_DETAIL"})
    PROVE  Asked(msgs) = {}
    BY AskedIs DEF Has

LEMMA NothingCarried ==
    ASSUME NEW msgs, ~Has(msgs, {"ORIGIN_PAGE"})
    PROVE  Carried(msgs) = {}
    BY CarriedIs DEF Has

LEMMA NothingHashedIn ==
    ASSUME NEW msgs, NEW r, ~Has(msgs, {"REPLICA_HASH"})
    PROVE  HashedRanges(msgs, r) = {} /\ HashedOnce(msgs, r)
    BY DEF HashedRanges, HashedOnce, HashesIn, Has

(***************************************************************************)
(* The handlers of the origin.                                             *)
(***************************************************************************)

LEMMA ReplicaStartExchanges ==
    ASSUME SyncInductive, SyncInductive', ExchangeInductive, ReplicaStart, UNCHANGED originVars
    PROVE  Exchanges /\ ExchangeInductive'
<1>1. /\ WireTyped /\ RolesInStep' /\ UNCHANGED <<rs, originVars, replicaVars>>
      /\ ret' = ret /\ linkUp' = linkUp /\ chan' = chan /\ out' = out
      /\ pc'["replica"] # "sql"
    BY DEF SyncInductive, Typed, ReplicaStart, WireTyped, Sides
<1>2. \A x \in Sides : InFlight(x)' = InFlight(x)
    BY <1>1 DEF InFlight
<1> QED
    BY <1>1, <1>2, NothingCut, CutsStay

LEMMA OriginStartExchanges ==
    ASSUME SyncInductive, SyncInductive', ExchangeInductive, OriginStart, UNCHANGED replicaVars
    PROVE  Exchanges /\ ExchangeInductive'
<1>1. /\ WireTyped /\ RolesInStep /\ Stages /\ Exchanging /\ Conversation'
      /\ rs \in [Sides -> Structs]
    BY DEF SyncInductive, Typed
<1> DEFINE hello == OriginBegin(rs["origin"].protocol, origin)
<1>2. /\ pc["origin"] = "start" /\ ~rs["origin"].commCheck
      /\ Push("origin", <<hello>>, "none") /\ chan' = chan
      /\ rs' = [rs EXCEPT !["origin"].pageCount = Len(origin),
                          !["origin"].pageSize = OriginPageSize]
      /\ origin' = origin /\ snap' = origin
      /\ file' = file /\ work' = work /\ jMode' = jMode /\ pIns' = pIns
    BY DEF OriginStart, Send, Snapshot, replicaVars, txn
<1>3. /\ rs'["replica"] = rs["replica"] /\ rs'["origin"].commCheck = rs["origin"].commCheck
      /\ rs'["origin"].pageSize = OriginPageSize /\ OriginPageSize # 0
    BY <1>1, <1>2, RsyncAssumption DEF Structs, Sides
<1>4. /\ <<hello>> \in Seq(OriginMessages)
      /\ DOMAIN <<hello>> = {1} /\ <<hello>>[1].type = "ORIGIN_BEGIN"
    <2>1. origin \in Seq(Image)
        BY PagesAssumption DEF SyncInductive, Typed, OriginTyped, IsDatabase
    <2>2. hello \in OriginMessages /\ hello.type = "ORIGIN_BEGIN"
        BY <1>1, <2>1, RsyncAssumption DEF OriginBegin, OriginMessages, Structs, Sides
    <2> HIDE DEF hello
    <2> QED
        BY <2>2
<1> HIDE DEF hello
<1>5. /\ FromOrigin = <<>> /\ ret["origin"] = "none" /\ Rounds = 0 /\ ~HasCommitted
    BY <1>1, <1>2, OriginBeginning
<1>6. /\ FromOrigin' = (IF linkUp THEN <<hello>> ELSE <<>>)
      /\ pc'["replica"] = pc["replica"]
      /\ ret'["origin"] = "none" /\ ret'["replica"] = ret["replica"] /\ linkUp' = linkUp
    <2>1. SameOptions
        BY <1>3 DEF SameOptions, Sides
    <2> QED
        BY <1>1, <1>2, <1>4, <2>1, OriginOpens
<1>7. \A types : Has(FromOrigin', types) => "ORIGIN_BEGIN" \in types
    BY <1>4, <1>6, HasNothing DEF Has
<1>8. ~TxnComing /\ ~TxnComing' /\ ~Has(FromOrigin', {"ORIGIN_PAGE"})
    BY <1>5, <1>7, HasNothing DEF TxnComing, FromOrigin
<1>9. Doomed' = Doomed
    BY <1>5, <1>6, <1>8 DEF Doomed
<1>10. HasCommitted' = HasCommitted /\ work = <<>>
    BY <1>1, <1>2, <1>3, <1>5 DEF HasCommitted, Rounds, Exchanging
<1>11. CASE Doomed
    <2>1. Stage = "aborted" /\ Stage' = "aborted"
        BY <1>5, <1>9, <1>10, <1>11 DEF Stage
    <2> QED
        BY <1>2, <1>9, <1>11, <2>1, Aborting DEF ExchangeInductive
<1>12. CASE ~Doomed
    <2>1. ~TransactionOpen /\ ~TransactionOpen' /\ rs["origin"].pageSize = 0
        BY <1>1, <1>2, <1>10 DEF TransactionOpen, Stages
    <2>2. Stage = "idle" /\ Stage' = "announced"
        BY <1>3, <1>5, <1>8, <1>9, <1>10, <1>12, <2>1 DEF Stage
    <2>3. Exchanges
        BY <1>2, <2>2, Announcing
    <2>4. RangesOnce' /\ PagesOnce' /\ Kept'
        BY <1>2, <1>6, <1>8, <1>12, <2>1, <2>2
        DEF ExchangeInductive, RangesOnce, PagesOnce, Kept, Has
    <2> QED
        BY <2>3, <2>4 DEF ExchangeInductive
<1> QED
    BY <1>11, <1>12

LEMMA OnReplicaBeginExchanges ==
    ASSUME SyncInductive, SyncInductive', ExchangeInductive, OnReplicaBegin,
           UNCHANGED replicaVars
    PROVE  Exchanges /\ ExchangeInductive'
<1>1. /\ WireTyped /\ OriginTyped /\ RolesInStep /\ Stages /\ Stages' /\ Turns /\ Conversation
      /\ Conversation' /\ Exchanging /\ Exchanging' /\ rs \in [Sides -> Structs]
    BY DEF SyncInductive, Typed
<1> DEFINE v == Head(Incoming("origin")).protocol
           hello == OriginBegin(v, snap)
<1>2. /\ Receives("origin", "REPLICA_BEGIN") /\ chan' = Consumed("origin")
      /\ UNCHANGED <<origin, snap, file, work, jMode, pIns, sendHash, mxHash, badHash>>
      /\ \/ rs' = [rs EXCEPT !["origin"].protocol = v] /\ Push("origin", <<hello>>, "none")
         \/ rs' = rs /\ OriginFails(<<>>)
    BY DEF OnReplicaBegin, Send, originVars, exchange, replicaVars, txn
<1>3. CASE rs' = rs /\ OriginFails(<<>>)
    <2>1. SameOptions /\ <<>> \in Seq(OriginMessages)
        BY <1>3 DEF SameOptions, Sides
    <2> QED
        BY <1>2, <1>3, <2>1, OriginFailing
<1>4. CASE rs' = [rs EXCEPT !["origin"].protocol = v] /\ Push("origin", <<hello>>, "none")
    <2>1. /\ rs'["replica"] = rs["replica"]
          /\ rs'["origin"].commCheck = rs["origin"].commCheck
          /\ rs'["origin"].pageSize = rs["origin"].pageSize
        BY <1>1, <1>4 DEF Structs, Sides
    <2>2. SameOptions
        BY <2>1 DEF SameOptions, Sides
    <2>3. Incoming("origin") # <<>> /\ Incoming("origin") \in Seq(Message)
          /\ Head(Incoming("origin")).type = "REPLICA_BEGIN"
        BY <1>1, <1>2 DEF Receives, Incoming, WireTyped, Sides, Peer
    <2>4. v \in 1 .. ProtocolVersion
        <3> HIDE DEF Incoming
        <3>1. Head(Incoming("origin")) \in Message
            BY <2>3
        <3> QED
            BY <2>3, <3>1 DEF Message, OriginMessages, ReplicaMessages
    <2> HIDE DEF v
    <2>5. hello \in OriginMessages /\ hello.type = "ORIGIN_BEGIN"
        BY <1>1, <2>4, SnapIs, RsyncAssumption DEF OriginBegin, OriginMessages
    <2> HIDE DEF hello
    <2>6. <<hello>> \in Seq(OriginMessages) /\ \A types : Has(<<hello>>, types) => "ORIGIN_BEGIN" \in types
        BY <2>5 DEF Has
    <2>7. /\ pc["origin"] = "read" /\ ret["origin"] = "none"
          /\ FromReplica # <<>> /\ Head(FromReplica).type = "REPLICA_BEGIN"
          /\ FromOrigin = <<>> /\ FromOrigin' = (IF linkUp THEN <<hello>> ELSE <<>>)
          /\ pc'["replica"] = pc["replica"]
          /\ ret'["origin"] = "none" /\ ret'["replica"] = ret["replica"] /\ linkUp' = linkUp
        BY <1>1, <1>2, <1>4, <2>2, <2>6, OriginAnswers
    <2>8. Has(FromReplica, {"REPLICA_BEGIN"})
        BY <1>1, <2>7, Conversing, FirstWord DEF Has
    <2>9. Rounds = 0 /\ rs["origin"].pageSize # 0 /\ pc["replica"] # "sql"
        BY <1>1, <2>7, <2>8 DEF Stages
    <2>10. work = <<>> /\ ~HasCommitted /\ ~HasCommitted' /\ ~TransactionOpen /\ ~TransactionOpen'
        BY <1>1, <1>2, <2>1, <2>9 DEF Exchanging, HasCommitted, Rounds, TransactionOpen
    <2>11. /\ ~TxnComing /\ ~TxnComing' /\ ~Has(FromOrigin', {"ORIGIN_PAGE"})
        BY <2>6, <2>7, HasNothing DEF TxnComing, FromOrigin
    <2>12. Doomed' = Doomed
        BY <2>7, <2>11 DEF Doomed
    <2>13. Stage' = Stage /\ (~Doomed => Stage = "announced")
        BY <2>1, <2>9, <2>10, <2>11, <2>12 DEF Stage
    <2>14. Doomed => Stage = "aborted"
        BY <2>10 DEF Stage
    <2>15. Exchanges
        BY <1>2, <2>13, <2>14, NothingHappens
    <2>16. ~Doomed => RangesOnce' /\ PagesOnce' /\ Kept'
        BY <1>2, <2>7, <2>9, <2>10, <2>11, <2>13 DEF ExchangeInductive, RangesOnce, PagesOnce, Kept, Has
    <2> QED
        BY <2>12, <2>15, <2>16 DEF ExchangeInductive
<1> QED
    BY <1>2, <1>3, <1>4

\* Hashes on their way, or their end: the exchange is at that stage, unless
\* the run is to be given up.
LEMMA HashingIs ==
    ASSUME SyncInductive, ~Doomed, FromOrigin = <<>>,
           Has(FromReplica, {"REPLICA_CONFIG", "REPLICA_HASH", "REPLICA_READY"})
    PROVE  /\ Stage = "hashing" /\ TransactionOpen /\ work # <<>> /\ ~HasCommitted /\ ~TxnComing
           /\ Rounds > 0
<1>1. /\ WireTyped /\ RolesInStep /\ Stages /\ Exchanging /\ Committing
      /\ rs \in [Sides -> Structs]
    BY DEF SyncInductive, Typed
<1>2. ret["replica"] = "none" /\ ~TxnComing
    BY HasNothing DEF Doomed, TxnComing, FromOrigin
<1>3. Rounds \in Nat
    BY <1>1 DEF Rounds, Structs, Sides
<1>4. Rounds > 0
    <2>1. CASE Has(FromReplica, {"REPLICA_CONFIG", "REPLICA_HASH"})
        BY <1>1, <1>2, <1>3, <2>1 DEF Stages, NothingHashed
    <2>2. CASE Has(FromReplica, {"REPLICA_READY"})
        BY <1>1, <2>2 DEF Exchanging
    <2> QED
        BY <2>1, <2>2 DEF Has
<1>5. ~HasCommitted
    BY <1>1 DEF Committing, Has
<1>6. work # <<>>
    BY <1>4, <1>5 DEF HasCommitted
<1>7. TransactionOpen
    BY <1>1, <1>2, <1>6 DEF TransactionOpen, RolesInStep, Sides
<1> QED
    BY <1>2, <1>4, <1>5, <1>6, <1>7 DEF Stage

LEMMA OnReplicaConfigExchanges ==
    ASSUME SyncInductive, SyncInductive', ExchangeInductive, OnReplicaConfig,
           UNCHANGED replicaVars
    PROVE  Exchanges /\ ExchangeInductive'
<1>1. /\ WireTyped /\ OriginTyped /\ RolesInStep /\ Turns /\ Conversation
    BY DEF SyncInductive, Typed
<1>2. /\ Receives("origin", "REPLICA_CONFIG") /\ chan' = Consumed("origin") /\ ReadOn
      /\ UNCHANGED <<rs, origin, snap, mxHash, badHash, file, work, sendHash, jMode, pIns>>
      /\ iHash' = Head(Incoming("origin")).fpg /\ nHash' = Head(Incoming("origin")).npg
    BY DEF OnReplicaConfig, replicaVars, txn
<1>3. SameOptions /\ pc' = pc /\ ret' = ret /\ linkUp' = linkUp
    BY <1>2 DEF SameOptions, ReadOn
<1>4. /\ pc["origin"] = "read"
      /\ FromReplica # <<>> /\ Head(FromReplica) = Head(Incoming("origin"))
      /\ Head(FromReplica).type = "REPLICA_CONFIG" /\ FromReplica' = Tail(FromReplica)
      /\ FromOrigin' = FromOrigin
    BY <1>1, <1>2, <1>3, OriginTakes
<1>5. FromOrigin = <<>> /\ FromOrigin' = <<>>
    BY <1>1, <1>4, OriginSilent
<1>6. FromReplica \in Seq(Message) /\ FromReplica \in Seq(ReplicaMessages)
    BY <1>1, Conversing
<1>7. Has(FromReplica, {"REPLICA_CONFIG", "REPLICA_HASH", "REPLICA_READY"})
    BY <1>4, <1>6, HasTail
<1>8. /\ HasCommitted' = HasCommitted /\ TransactionOpen' = TransactionOpen
      /\ TxnComing' = TxnComing /\ Doomed' = Doomed
    BY <1>2, <1>3, <1>5 DEF HasCommitted, Rounds, TransactionOpen, TxnComing, Doomed, FromOrigin
<1>9. CASE Doomed
    BY <1>2, <1>8, <1>9, GivenUp
<1>10. CASE ~Doomed
    <2>1. Stage = "hashing" /\ Stage' = Stage
        BY <1>2, <1>5, <1>7, <1>8, <1>10, HashingIs, SameStage
    <2>2. RangesOnce /\ PagesOnce /\ Kept
        BY <1>10 DEF ExchangeInductive
    <2>3. sendHash = {} /\ HashedOnce(FromReplica, <<iHash, nHash>>)
        BY <1>7, <2>1, <2>2 DEF RangesOnce
    <2>4. <<iHash, nHash>> \in Nat \X Nat
        BY <1>1, RsyncAssumption DEF OriginTyped
    <2>5. Advanced(<<iHash, nHash>>, Head(FromReplica)) = <<iHash', nHash'>>
        BY <1>2, <1>4 DEF Advanced
    <2>6. /\ HashedOnce(FromReplica', <<iHash', nHash'>>)
          /\ HashedRanges(FromReplica, <<iHash, nHash>>)
                = HashedRanges(FromReplica', <<iHash', nHash'>>)
        BY <1>4, <1>6, <2>3, <2>4, <2>5, TailHashedRanges
    <2>7. Pending' = Pending
        BY <1>2, <1>5, <2>6, PendingIs, PendingIsNext DEF UnderWay
    <2>8. Exchanges
        BY <1>2, <2>1, <2>7, NothingHappens
    <2>9. RangesOnce'
        BY <1>2, <2>1, <2>2, <2>3, <2>6, <2>7 DEF RangesOnce
    <2>10. PagesOnce' /\ Kept'
        BY <1>2, <1>3, <1>5, <1>8, <2>1, <2>2 DEF PagesOnce, Kept, Has
    <2> QED
        BY <2>8, <2>9, <2>10 DEF ExchangeInductive
<1> QED
    BY <1>9, <1>10

LEMMA OnReplicaHashExchanges ==
    ASSUME SyncInductive, SyncInductive', ExchangeInductive, OnReplicaHash,
           UNCHANGED replicaVars
    PROVE  Exchanges /\ ExchangeInductive'
<1>1. /\ WireTyped /\ OriginTyped /\ RolesInStep /\ Turns /\ Conversation /\ CountersNameRanges
      /\ rs \in [Sides -> Structs]
    BY DEF SyncInductive, Typed
<1> DEFINE r == <<iHash, nHash>>
           own == HashOf(snap, iHash, nHash)
           match == ~IsNull(own) /\ own = Head(Incoming("origin")).hash
<1>2. /\ Receives("origin", "REPLICA_HASH") /\ chan' = Consumed("origin") /\ ReadOn
      /\ rs' = [rs EXCEPT !["origin"].hashMessages = @ + 1]
      /\ UNCHANGED <<origin, snap, file, work, sendHash, jMode, pIns>>
      /\ iHash' = Plus(iHash, nHash) /\ nHash' = nHash
      /\ mxHash' = Larger(mxHash, Plus(iHash, nHash))
      /\ badHash' = IF match THEN badHash ELSE badHash \union {r}
    BY DEF OnReplicaHash, replicaVars, txn
<1>3. /\ rs'["replica"] = rs["replica"] /\ rs'["origin"].commCheck = rs["origin"].commCheck
      /\ rs'["origin"].pageSize = rs["origin"].pageSize
    BY <1>1, <1>2, HashCounted
<1>4. SameOptions /\ pc' = pc /\ ret' = ret /\ linkUp' = linkUp
    BY <1>2, <1>3 DEF SameOptions, ReadOn, Sides
<1>5. /\ pc["origin"] = "read" /\ ret["origin"] = "none"
      /\ FromReplica # <<>> /\ Head(FromReplica) = Head(Incoming("origin"))
      /\ Head(FromReplica).type = "REPLICA_HASH" /\ FromReplica' = Tail(FromReplica)
      /\ FromOrigin' = FromOrigin
    BY <1>1, <1>2, <1>4, OriginTakes
<1>6. FromOrigin = <<>> /\ FromOrigin' = <<>>
    BY <1>1, <1>5, OriginSilent
<1>7. FromReplica \in Seq(Message) /\ FromReplica \in Seq(ReplicaMessages)
    BY <1>1, Conversing
<1>8. Has(FromReplica, {"REPLICA_CONFIG", "REPLICA_HASH", "REPLICA_READY"})
    BY <1>5, <1>7, HasTail
<1>9. /\ HasCommitted' = HasCommitted /\ TransactionOpen' = TransactionOpen
      /\ TxnComing' = TxnComing /\ Doomed' = Doomed
    BY <1>2, <1>3, <1>4, <1>6 DEF HasCommitted, Rounds, TransactionOpen, TxnComing, Doomed, FromOrigin
<1>10. CASE Doomed
    BY <1>2, <1>9, <1>10, GivenUp
<1>11. CASE ~Doomed
    <2>1. Stage = "hashing" /\ Stage' = Stage /\ work # <<>>
        BY <1>3, <1>6, <1>8, <1>9, <1>11, HashingIs, SameStage
    <2>2. RangesOnce /\ PagesOnce /\ Kept
        BY <1>11 DEF ExchangeInductive
    <2>3. sendHash = {} /\ HashedOnce(FromReplica, r)
        BY <1>8, <2>1, <2>2 DEF RangesOnce
    <2>4. r \in Nat \X Nat /\ iHash \in Nat /\ nHash \in Nat /\ mxHash \in Nat
        BY <1>1, RsyncAssumption DEF OriginTyped
    <2>5. /\ Bounded(r) /\ Head(FromReplica).hash = HashOf(work, r[1], r[2])
        <3>1. NamesRanges(FromReplica, r, work)
            BY <1>1, <1>5 DEF CountersNameRanges
        <3> HIDE DEF r
        <3> QED
            BY <1>5, <1>7, <2>1, <2>4, <3>1, TailNamesRanges
    <2>6. Plus(iHash, nHash) = r[1] + r[2] /\ r[1] = iHash /\ r[2] = nHash
        BY <2>4, <2>5, PlusIs DEF Bounded
    <2>7. Advanced(r, Head(FromReplica)) = <<iHash', nHash'>>
        BY <1>2, <1>5 DEF Advanced
    <2> DEFINE rest == HashedRanges(FromReplica', <<iHash', nHash'>>)
    <2>8. /\ HashedOnce(FromReplica', <<iHash', nHash'>>)
          /\ HashedRanges(FromReplica, r) = rest \union {r} /\ r \notin rest
        <3> HIDE DEF r
        <3> QED
            BY <1>5, <1>7, <2>3, <2>4, <2>7, TailHashedRanges
    <2>9. Pending = rest \union {r} /\ Pending' = rest /\ r \notin rest
        <3>1. Asked(FromOrigin) = {} /\ Asked(FromOrigin') = {}
            BY <1>6, NothingAsked, HasNothing
        <3>2. /\ Pending = UnderWay(FromReplica, r, sendHash, FromOrigin)
              /\ Pending' = UnderWay(FromReplica', <<iHash', nHash'>>, sendHash', FromOrigin')
            BY PendingIs, PendingIsNext
        <3> HIDE DEF r, rest
        <3> QED
            BY <1>2, <2>3, <2>8, <3>1, <3>2 DEF UnderWay, rest
    <2>10. badHash' = IF ~IsNull(own) /\ own = HashOf(work, r[1], r[2]) THEN badHash
                      ELSE badHash \union {r}
        BY <1>2, <1>5, <2>5
    <2>11. own = HashOf(snap, r[1], r[2]) /\ mxHash' = Larger(mxHash, r[1] + r[2])
        BY <1>2, <2>6
    <2> HIDE DEF r, rest, own
    <2>12. Exchanges
        BY <1>2, <2>1, <2>9, <2>10, <2>11, Comparing
    <2>13. RangesOnce'
        <3>1. /\ Apart(Pending \union badHash) /\ Pending \intersect badHash = {}
              /\ PagesOf(Pending \union badHash) \subseteq 1 .. Len(work)
              /\ \A q \in badHash : q[1] + q[2] <= mxHash
            BY <2>1, <2>2 DEF RangesOnce
        <3>2. badHash' \subseteq badHash \union {r} /\ r \in Pending /\ Pending' \subseteq Pending
            BY <2>9, <2>10
        <3>3. Pending' \union badHash' \subseteq Pending \union badHash
            BY <3>2
        <3>4. Apart(Pending' \union badHash') /\ Pending' \intersect badHash' = {}
            BY <2>9, <3>1, <3>2, <3>3 DEF Apart
        <3>5. PagesOf(Pending' \union badHash') \subseteq 1 .. Len(work)
            BY <3>1, <3>3 DEF PagesOf
        <3>6. \A q \in badHash' : q[1] + q[2] <= mxHash'
            <4>1. \A q \in badHash \union {r} : q[1] + q[2] \in Nat
                BY <1>1, <2>5 DEF OriginTyped, Bounded, PageRange
            <4> QED
                BY <2>4, <2>11, <3>1, <3>2, <4>1 DEF Larger
        <3> QED
            BY <1>2, <2>3, <2>8, <3>4, <3>5, <3>6 DEF RangesOnce
    <2>14. PagesOnce' /\ Kept'
        BY <1>2, <1>4, <1>6, <1>9, <2>1, <2>2 DEF PagesOnce, Kept, Has
    <2> QED
        BY <2>12, <2>13, <2>14 DEF ExchangeInductive
<1> QED
    BY <1>10, <1>11

LEMMA RoundCounted ==
    ASSUME rs \in [Sides -> Structs], NEW c, CountRound(c)
    PROVE  /\ rs'["replica"] = rs["replica"]
           /\ rs'["origin"].commCheck = rs["origin"].commCheck
           /\ rs'["origin"].pageSize = rs["origin"].pageSize
<1> DEFINE o == rs["origin"]
           n == [o EXCEPT !.hashRounds = @ + 1, !.pageUpdates = @ + c]
<1>1. /\ rs' = [rs EXCEPT !["origin"] = n]
      /\ n.commCheck = o.commCheck /\ n.pageSize = o.pageSize
    BY DEF CountRound, Structs, Sides
<1> HIDE DEF n
<1> QED
    BY <1>1 DEF Sides

\* The round is over: nothing is under way any more.
LEMMA RoundOver ==
    ASSUME SyncInductive, ExchangeInductive, ~Doomed, Receives("origin", "REPLICA_READY"),
           FromReplica # <<>>, Head(FromReplica).type = "REPLICA_READY", FromOrigin = <<>>
    PROVE  /\ Tail(FromReplica) = <<>> /\ Pending = {} /\ sendHash = {}
           /\ Stage = "hashing" /\ TransactionOpen /\ ~HasCommitted /\ ~TxnComing
           /\ RangesOnce /\ PagesOnce /\ Kept
<1>1. WireTyped /\ Conversation
    BY DEF SyncInductive, Typed
<1>2. FromReplica \in Seq(Message) /\ InOrder(FromReplica)
    BY <1>1, Conversing
<1>3. \A t : ~Precedes("REPLICA_READY", t)
    BY LastWords
<1>4. /\ Tail(FromReplica) = <<>>
      /\ \A types : Has(FromReplica, types) <=> "REPLICA_READY" \in types
    BY <1>2, <1>3, OnlyWord
<1>5. /\ Stage = "hashing" /\ TransactionOpen /\ ~HasCommitted /\ ~TxnComing
    BY <1>4, HashingIs
<1>6. RangesOnce /\ PagesOnce /\ Kept
    BY DEF ExchangeInductive
<1>7. sendHash = {}
    BY <1>4, <1>5, <1>6 DEF RangesOnce
<1>8. HashedRanges(FromReplica, <<iHash, nHash>>) = {} /\ Asked(FromOrigin) = {}
    BY <1>4, NothingHashedIn, NothingAsked, HasNothing
<1>9. Pending = {}
    BY <1>7, <1>8, PendingIs DEF UnderWay
<1> QED
    BY <1>4, <1>5, <1>6, <1>7, <1>9

LEMMA OnReplicaReadyDetailExchanges ==
    ASSUME SyncInductive, SyncInductive', ExchangeInductive, OnReplicaReadyDetail,
           UNCHANGED replicaVars
    PROVE  Exchanges /\ ExchangeInductive'
<1> DEFINE m == [type |-> "ORIGIN_READY"]
           msgs == Append(Details, m)
<1>1. /\ WireTyped /\ OriginTyped /\ RolesInStep /\ Turns /\ Conversation
      /\ rs \in [Sides -> Structs] /\ mxHash \in Nat
    BY RsyncAssumption DEF SyncInductive, Typed, OriginTyped
<1>2. /\ Receives("origin", "REPLICA_READY") /\ chan' = Consumed("origin")
      /\ BadGroups # {} /\ CountRound(0) /\ badHash' = badHash \ BadGroups
      /\ Push("origin", msgs, "none")
      /\ UNCHANGED <<origin, snap, iHash, nHash, mxHash, file, work, sendHash, jMode, pIns>>
    BY DEF OnReplicaReadyDetail, Send, replicaVars, txn
<1>3. /\ Details \in Seq(OriginMessages)
      /\ \A k \in DOMAIN Details : Details[k].type = "ORIGIN_DETAIL"
    BY <1>1, DetailsIs DEF OriginTyped
<1>4. /\ msgs \in Seq(OriginMessages) /\ DOMAIN msgs = 1 .. Len(Details) + 1
      /\ DOMAIN Details = 1 .. Len(Details) /\ Len(Details) \in Nat
      /\ \A k \in DOMAIN Details : k \in DOMAIN msgs /\ msgs[k] = Details[k]
      /\ \A k \in DOMAIN msgs : k \in DOMAIN Details \/ msgs[k].type = "ORIGIN_READY"
    <2>1. m \in OriginMessages /\ m.type = "ORIGIN_READY"
        BY DEF OriginMessages
    <2> HIDE DEF m
    <2> QED
        BY <1>3, <2>1
<1> HIDE DEF msgs
<1>5. /\ rs'["replica"] = rs["replica"] /\ rs'["origin"].commCheck = rs["origin"].commCheck
      /\ rs'["origin"].pageSize = rs["origin"].pageSize
    BY <1>1, <1>2, RoundCounted
<1>6. SameOptions
    BY <1>5 DEF SameOptions, Sides
<1>7. /\ pc["origin"] = "read" /\ ret["origin"] = "none"
      /\ FromReplica # <<>> /\ Head(FromReplica).type = "REPLICA_READY"
      /\ FromReplica' = Tail(FromReplica)
      /\ FromOrigin = <<>> /\ FromOrigin' = (IF linkUp THEN msgs ELSE <<>>)
      /\ pc'["replica"] = pc["replica"]
      /\ ret'["origin"] = "none" /\ ret'["replica"] = ret["replica"] /\ linkUp' = linkUp
    BY <1>1, <1>2, <1>4, <1>6, OriginAnswers
<1>8. \A types : Has(FromOrigin', types) => "ORIGIN_READY" \in types \/ "ORIGIN_DETAIL" \in types
    BY <1>3, <1>4, <1>7, HasNothing DEF Has
<1>9. ~TxnComing /\ ~TxnComing' /\ ~Has(FromOrigin', {"ORIGIN_PAGE"})
    BY <1>7, <1>8, HasNothing DEF TxnComing, FromOrigin
<1>10. /\ HasCommitted' = HasCommitted /\ TransactionOpen' = TransactionOpen
       /\ TxnComing' = TxnComing /\ Doomed' = Doomed
    <2>1. TxnComing' = TxnComing
        BY <1>9 DEF TxnComing, Has
    <2>2. HasCommitted' = HasCommitted /\ TransactionOpen' = TransactionOpen
        BY <1>2, <1>5, <1>7 DEF HasCommitted, Rounds, TransactionOpen
    <2>3. Doomed' = Doomed
        BY <1>7, <1>9 DEF Doomed
    <2> QED
        BY <2>1, <2>2, <2>3
<1>11. CASE Doomed
    BY <1>2, <1>10, <1>11, GivenUp
<1>12. CASE ~Doomed
    <2>1. /\ FromReplica' = <<>> /\ Pending = {} /\ sendHash = {}
          /\ Stage = "hashing" /\ RangesOnce /\ PagesOnce /\ Kept
        BY <1>2, <1>7, <1>12, RoundOver
    <2>2. Stage' = Stage
        BY <1>5, <1>10, SameStage
    <2>3. linkUp /\ FromOrigin' = msgs
        BY <1>7, <1>9, <1>12 DEF Doomed
    <2>4. /\ \A r \in badHash : Bounded(r) /\ r[1] + r[2] <= mxHash
          /\ Apart(badHash) /\ PagesOf(badHash) \subseteq 1 .. Len(work)
        BY <1>1, <2>1 DEF RangesOnce, OriginTyped, Apart, PagesOf
    <2> DEFINE pieces == UNION {Subdivide(r[1], r[2]) : r \in BadGroups}
    <2>5. Asked(msgs) = pieces
        <3>1. Asked(msgs) = UNION {Subdivide(msgs[k].fpg, msgs[k].npg) :
                                     k \in {j \in DOMAIN msgs : msgs[j].type = "ORIGIN_DETAIL"}}
            BY AskedIs
        <3>2. {j \in DOMAIN msgs : msgs[j].type = "ORIGIN_DETAIL"} = DOMAIN Details
            BY <1>3, <1>4
        <3>3. \A k \in DOMAIN Details : <<Details[k].fpg, Details[k].npg>> \in BadGroups
            BY <1>1, <2>4, DetailsAre
        <3>4. \A r \in BadGroups : \E k \in DOMAIN Details : r = <<Details[k].fpg, Details[k].npg>>
            BY <1>1, <2>4, DetailsAre
        <3>5. \A k \in DOMAIN Details : \E r \in BadGroups :
                Subdivide(msgs[k].fpg, msgs[k].npg) = Subdivide(r[1], r[2])
            <4> TAKE k \in DOMAIN Details
            <4> DEFINE r == <<Details[k].fpg, Details[k].npg>>
            <4>1. msgs[k] = Details[k] /\ r \in BadGroups
                BY <1>4, <3>3
            <4> QED
                BY <4>1
        <3>6. \A r \in BadGroups : \E k \in DOMAIN Details :
                Subdivide(msgs[k].fpg, msgs[k].npg) = Subdivide(r[1], r[2])
            <4> TAKE r \in BadGroups
            <4>1. PICK k \in DOMAIN Details : r = <<Details[k].fpg, Details[k].npg>>
                BY <3>4
            <4>2. msgs[k] = Details[k]
                BY <1>4
            <4> QED
                BY <4>1, <4>2
        <3> QED
            BY <3>1, <3>2, <3>5, <3>6
    <2>6. Pending' = pieces
        <3>1. HashedRanges(FromReplica', <<iHash', nHash'>>) = {}
            BY <2>1, NothingHashedIn, HasNothing
        <3> HIDE DEF pieces
        <3> QED
            BY <1>2, <2>1, <2>3, <2>5, <3>1, PendingIsNext DEF UnderWay
    <2>7. Exchanges
        BY <1>2, <2>1, <2>2, <2>6, Detailing
    <2>8. /\ Apart(pieces \union badHash') /\ pieces \intersect badHash' = {}
          /\ PagesOf(pieces \union badHash') \subseteq PagesOf(badHash)
        <3>1. BadGroups \in SUBSET badHash
            BY DEF BadGroups
        <3> QED
            BY <1>2, <2>4, <3>1, CutApart
    <2> HIDE DEF pieces
    <2>9. RangesOnce'
        <3>1. HashedOnce(FromReplica', <<iHash', nHash'>>)
            BY <2>1, NothingHashedIn, HasNothing
        <3>2. \A r \in badHash' : r[1] + r[2] <= mxHash'
            BY <1>2, <2>4
        <3> QED
            BY <1>2, <2>1, <2>4, <2>6, <2>8, <3>1, <3>2 DEF RangesOnce
    <2>10. PagesOnce' /\ Kept'
        BY <1>2, <1>7, <1>9, <1>10, <2>1, <2>2 DEF PagesOnce, Kept, Has
    <2> QED
        BY <2>7, <2>9, <2>10 DEF ExchangeInductive
<1> QED
    BY <1>11, <1>12

LEMMA OnReplicaReadyPagesExchanges ==
    ASSUME SyncInductive, SyncInductive', ExchangeInductive, OnReplicaReadyPages,
           UNCHANGED replicaVars
    PROVE  Exchanges /\ ExchangeInductive'
<1> DEFINE d == [type |-> "ORIGIN_TXN", pageCount |-> Len(snap)]
           e == [type |-> "ORIGIN_END"]
           msgs == PageStream \o <<d, e>>
           n == Len(PageStream)
<1>1. /\ WireTyped /\ OriginTyped /\ RolesInStep /\ Turns /\ Conversation
      /\ rs \in [Sides -> Structs] /\ mxHash \in Nat \ {0} /\ hashed
    BY RsyncAssumption DEF SyncInductive, Typed, OriginTyped, OnReplicaReadyPages
<1>2. /\ Receives("origin", "REPLICA_READY") /\ chan' = Consumed("origin")
      /\ BadGroups = {} /\ CountRound(Len(PageStream))
      /\ Push("origin", msgs, "none")
      /\ UNCHANGED <<origin, snap, iHash, nHash, mxHash, file, work, sendHash, jMode, pIns>>
    BY DEF OnReplicaReadyPages, Goodbye, Send, replicaVars, txn
<1>3. snap \in Seq(Image) /\ Len(snap) \in Nat
    BY <1>1, SnapIs
<1>4. /\ PageStream \in Seq(OriginMessages)
      /\ \A k \in DOMAIN PageStream : PageStream[k].type = "ORIGIN_PAGE"
    BY <1>3, PageStreamIs
<1>5. /\ d \in OriginMessages /\ e \in OriginMessages
      /\ d.type = "ORIGIN_TXN" /\ e.type = "ORIGIN_END"
    BY <1>3 DEF OriginMessages
<1> HIDE DEF d, e
<1>6. /\ msgs \in Seq(OriginMessages) /\ Len(msgs) = n + 2 /\ n \in Nat
      /\ \A i \in 1 .. n : msgs[i] = PageStream[i]
      /\ msgs[n + 1] = d /\ msgs[n + 2] = e
    BY <1>4, <1>5, ConcatPair
<1>7. DOMAIN PageStream = 1 .. n
    BY <1>4
<1> HIDE DEF msgs, n
<1>8. /\ DOMAIN msgs = 1 .. n + 2
      /\ \A k \in DOMAIN msgs : msgs[k].type = "ORIGIN_PAGE" <=> k \in 1 .. n
      /\ \A k \in DOMAIN PageStream : k \in DOMAIN msgs
    <2>1. DOMAIN msgs = 1 .. n + 2
        BY <1>6
    <2>2. \A k \in 1 .. n + 2 : k \in 1 .. n \/ k = n + 1 \/ k = n + 2
        BY <1>6
    <2>3. n + 1 \notin 1 .. n /\ n + 2 \notin 1 .. n /\ 1 .. n \subseteq 1 .. n + 2
        BY <1>6
    <2>4. \A k \in 1 .. n : msgs[k].type = "ORIGIN_PAGE"
        BY <1>4, <1>6, <1>7
    <2> QED
        BY <1>5, <1>6, <1>7, <2>1, <2>2, <2>3, <2>4
<1>9. /\ rs'["replica"] = rs["replica"] /\ rs'["origin"].commCheck = rs["origin"].commCheck
      /\ rs'["origin"].pageSize = rs["origin"].pageSize
    BY <1>1, <1>2, RoundCounted
<1>10. SameOptions
    BY <1>9 DEF SameOptions, Sides
<1>11. /\ pc["origin"] = "read" /\ ret["origin"] = "none"
       /\ FromReplica # <<>> /\ Head(FromReplica).type = "REPLICA_READY"
       /\ FromReplica' = Tail(FromReplica)
       /\ FromOrigin = <<>> /\ FromOrigin' = (IF linkUp THEN msgs ELSE <<>>)
       /\ pc'["replica"] = pc["replica"]
       /\ ret'["origin"] = "none" /\ ret'["replica"] = ret["replica"] /\ linkUp' = linkUp
    BY <1>1, <1>2, <1>6, <1>10, OriginAnswers
<1>12. ~TxnComing
    BY <1>11, HasNothing DEF TxnComing, FromOrigin
<1>13. HasCommitted' = HasCommitted /\ TransactionOpen' = TransactionOpen
    BY <1>2, <1>9, <1>11 DEF HasCommitted, Rounds, TransactionOpen
<1>14. CASE Doomed
    <2>1. Doomed'
        <3>1. CASE ret["replica"] # "none"
            BY <1>11, <3>1 DEF Doomed
        <3>2. CASE ~linkUp
            BY <1>11, <3>2, HasNothing DEF Doomed, TxnComing, FromOrigin
        <3> QED
            BY <1>11, <1>14, <3>1, <3>2 DEF Doomed
    <2> QED
        BY <1>2, <1>13, <2>1, GivenUp
<1>15. CASE ~Doomed
    <2>1. /\ FromReplica' = <<>> /\ Pending = {} /\ ~HasCommitted
          /\ Stage = "hashing" /\ RangesOnce /\ PagesOnce /\ Kept
        BY <1>2, <1>11, <1>15, RoundOver
    <2>2. linkUp /\ ret["replica"] = "none" /\ FromOrigin' = msgs
        BY <1>11, <1>12, <1>15 DEF Doomed
    <2>3. TxnComing'
        <3>1. n + 1 \in DOMAIN msgs /\ msgs[n + 1].type = "ORIGIN_TXN"
            BY <1>5, <1>6, <1>8
        <3> QED
            BY <2>2, <3>1 DEF TxnComing, Has, FromOrigin
    <2>4. ~Doomed'
        BY <1>11, <2>2, <2>3 DEF Doomed
    <2>5. Stage' = "sending"
        BY <1>13, <2>1, <2>3, <2>4 DEF Stage
    <2>6. /\ {PageStream[k].pgno : k \in DOMAIN PageStream}
                = {p \in 1 .. Len(snap) \ {LockBytePage} : <<p, 1>> \in badHash \/ p >= mxHash}
          /\ \A j, k \in DOMAIN PageStream : j < k => PageStream[j].pgno < PageStream[k].pgno
        BY <1>1, <1>2, <1>3, PagesAre DEF OriginTyped
    <2>7. Coming' = {p \in 1 .. Len(snap) \ {LockBytePage} : <<p, 1>> \in badHash \/ p >= mxHash}
        <3>1. Carried(msgs) = {msgs[k].pgno :
                                 k \in {j \in DOMAIN msgs : msgs[j].type = "ORIGIN_PAGE"}}
            BY CarriedIs
        <3>2. {j \in DOMAIN msgs : msgs[j].type = "ORIGIN_PAGE"} = DOMAIN PageStream
            BY <1>7, <1>8
        <3>3. \A k \in DOMAIN PageStream : msgs[k].pgno = PageStream[k].pgno
            BY <1>6, <1>7
        <3>4. Carried(msgs) = {PageStream[k].pgno : k \in DOMAIN PageStream}
            BY <3>1, <3>2, <3>3
        <3>5. Coming' = Carried(msgs)
            BY <2>2 DEF Coming, Carried, FromOrigin
        <3> QED
            BY <2>6, <3>4, <3>5
    <2>8. pIns = FALSE
        BY <2>1 DEF Kept
    <2>9. Exchanges
        BY <1>2, <2>1, <2>5, <2>7, <2>8, Streaming
    <2>10. PagesOnce'
        <3>1. \A j, k \in DOMAIN msgs :
                msgs[j].type = "ORIGIN_PAGE" /\ msgs[k].type = "ORIGIN_PAGE" /\ j < k
                    => msgs[j].pgno < msgs[k].pgno
            BY <1>6, <1>7, <1>8, <2>6
        <3> QED
            BY <2>2, <2>3, <3>1 DEF PagesOnce
    <2>11. RangesOnce' /\ Kept'
        <3>1. pc'["replica"] # "sql"
            <4>1. pc["replica"] # "sql"
                BY <1>11 DEF SyncInductive, Stages
            <4> QED
                BY <1>11, <4>1
        <3> QED
            BY <1>2, <1>13, <2>1, <2>5, <3>1 DEF RangesOnce, Kept
    <2> QED
        BY <2>9, <2>10, <2>11 DEF ExchangeInductive
<1> QED
    BY <1>14, <1>15

(***************************************************************************)
(* The handlers of the replica.                                            *)
(***************************************************************************)

\* ORIGIN_BEGIN is read: nothing of the exchange has begun.
LEMMA AnnouncementRead ==
    ASSUME SyncInductive, ExchangeInductive, FromOrigin # <<>>, pc["replica"] = "read",
           Head(FromOrigin).type = "ORIGIN_BEGIN", FromOrigin' = Tail(FromOrigin),
           ret'["origin"] = ret["origin"], ret'["replica"] = ret["replica"], linkUp' = linkUp,
           rs'["origin"] = rs["origin"],
           rs'["replica"].hashRounds = rs["replica"].hashRounds,
           UNCHANGED <<origin, file, snap, work>>, pIns' = FALSE
    PROVE  Exchanges /\ ExchangeInductive'
<1>1. /\ FromOrigin' = <<>> /\ \A types : Has(FromOrigin, types) <=> "ORIGIN_BEGIN" \in types
      /\ work = <<>> /\ ~HasCommitted /\ rs["origin"].pageSize # 0
    BY Announced
<1>2. ~TxnComing /\ ~TxnComing' /\ ~Has(FromOrigin', {"ORIGIN_PAGE"})
    BY <1>1, HasNothing DEF TxnComing, FromOrigin
<1>3. ~HasCommitted' /\ ~TransactionOpen /\ ~TransactionOpen'
    BY <1>1 DEF HasCommitted, Rounds, TransactionOpen
<1>4. Doomed' = Doomed
    BY <1>2 DEF Doomed
<1>5. CASE Doomed
    BY <1>1, <1>3, <1>4, <1>5, GivenUp DEF HasCommitted
<1>6. CASE ~Doomed
    <2>1. Stage = "announced" /\ Stage' = "announced"
        BY <1>1, <1>2, <1>3, <1>4, <1>6 DEF Stage
    <2>2. Exchanges
        BY <2>1, NothingHappens
    <2>3. RangesOnce' /\ PagesOnce' /\ Kept'
        BY <1>1, <1>2, <1>3, <2>1 DEF RangesOnce, PagesOnce, Kept
    <2> QED
        BY <2>2, <2>3 DEF ExchangeInductive
<1> QED
    BY <1>5, <1>6

LEMMA OnOriginBeginTooNewExchanges ==
    ASSUME SyncInductive, SyncInductive', ExchangeInductive, OnOriginBeginTooNew,
           UNCHANGED originVars
    PROVE  Exchanges /\ ExchangeInductive'
<1>1. /\ WireTyped /\ RolesInStep /\ Conversation /\ Turns
      /\ rs \in [Sides -> Structs]
    BY DEF SyncInductive, Typed
<1> DEFINE m == [type |-> "REPLICA_BEGIN", protocol |-> rs["replica"].protocol]
<1>2. /\ Receives("replica", "ORIGIN_BEGIN") /\ chan' = Consumed("replica")
      /\ Push("replica", <<m>>, "none") /\ rs' = rs
      /\ UNCHANGED <<origin, file, snap, work>> /\ pIns' = FALSE
    BY DEF OnOriginBeginTooNew, Send, originVars
<1>3. <<m>> \in Seq(ReplicaMessages)
    <2>1. m \in ReplicaMessages
        BY <1>1 DEF ReplicaMessages, Structs, Sides
    <2> HIDE DEF m
    <2> QED
        BY <2>1
<1> HIDE DEF m
<1>4. SameOptions
    BY <1>2 DEF SameOptions
<1>5. /\ pc["replica"] = "read" /\ ret["replica"] = "none"
      /\ FromOrigin # <<>> /\ Head(FromOrigin).type = "ORIGIN_BEGIN"
      /\ FromOrigin' = Tail(FromOrigin)
      /\ ret'["replica"] = "none" /\ ret'["origin"] = ret["origin"] /\ linkUp' = linkUp
    BY <1>1, <1>2, <1>3, <1>4, ReplicaAnswers
<1> QED
    BY <1>2, <1>5, AnnouncementRead

LEMMA OnOriginBeginExchanges ==
    ASSUME SyncInductive, SyncInductive', ExchangeInductive, OnOriginBegin, UNCHANGED originVars
    PROVE  Exchanges /\ ExchangeInductive'
<1>1. WireTyped /\ rs \in [Sides -> Structs]
    BY DEF SyncInductive, Typed
<1> DEFINE m == Head(Incoming("replica"))
           n == [rs["replica"] EXCEPT !.protocol = m.protocol,
                   !.pageCount = m.pageCount, !.pageSize = m.pageSize]
<1>2. /\ Receives("replica", "ORIGIN_BEGIN") /\ chan' = Consumed("replica")
      /\ out' = out /\ ret' = ret /\ linkUp' = linkUp
      /\ UNCHANGED <<origin, file, snap, work>> /\ pIns' = FALSE
      /\ rs' = [rs EXCEPT !["replica"] = n]
    BY <1>1 DEF OnOriginBegin, originVars, Sides
<1>3. n.hashRounds = rs["replica"].hashRounds
    BY <1>1 DEF Structs, Sides
<1> HIDE DEF n, m
<1>4. rs'["origin"] = rs["origin"] /\ rs'["replica"].hashRounds = rs["replica"].hashRounds
    BY <1>1, <1>2, <1>3 DEF Sides
<1>5. /\ pc["replica"] = "read" /\ FromOrigin # <<>> /\ Head(FromOrigin).type = "ORIGIN_BEGIN"
      /\ FromOrigin' = Tail(FromOrigin)
    <2>1. "replica" \in Sides /\ Peer("replica") = "origin"
        BY DEF Sides, Peer
    <2>2. LET f == InFlight(Peer("replica")) IN
           /\ pc["replica"] = "read"
           /\ f # <<>> /\ Head(f).type = "ORIGIN_BEGIN"
           /\ InFlight(Peer("replica"))' = Tail(f)
        BY <1>1, <1>2, <2>1, Reading
    <2> QED
        BY <2>1, <2>2 DEF FromOrigin
<1> QED
    BY <1>2, <1>4, <1>5, AnnouncementRead

\* A round names each of its ranges once.
LEMMA RoundSaid ==
    ASSUME NEW db \in Seq(Image), NEW S, IsFiniteSet(S), \A r \in S : Bounded(r),
           Apart(S), PagesOf(S) \subseteq 1 .. Len(db),
           NEW i \in Nat, NEW n \in Nat, NEW from \in Nat \X Nat,
           from = <<i, n>> \/ i = 0
    PROVE  LET said == Append(HashMessages(db, S, i, n), [type |-> "REPLICA_READY"])
           IN  /\ said \in Seq(ReplicaMessages)
               /\ HashedOnce(said, from) /\ HashedRanges(said, from) = S
<1> DEFINE msgs == HashMessages(db, S, i, n)
           m == [type |-> "REPLICA_READY"]
<1>1. \A r \in S : r[1] <= Len(db)
    <2> TAKE r \in S
    <2>1. r[1] \in PagesIn(r)
        BY OwnFirst
    <2>2. r[1] \in 1 .. Len(db)
        BY <2>1 DEF PagesOf
    <2> QED
        BY <2>2
<1>2. \A q, r \in S : q[1] = r[1] => q = r
    BY SameFirst
<1>3. /\ msgs \in Seq(ReplicaMessages)
      /\ HashedOnce(msgs, from) /\ HashedRanges(msgs, from) = S
    <2>1. /\ msgs \in Seq(ReplicaMessages) /\ HashedOnce(msgs, from)
          /\ /\ \A r \in S : r[1] <= Len(db)
             /\ \A q, r \in S : q[1] = r[1] => q = r
             => HashedRanges(msgs, from) = S
        BY RoundIs, SMTT(60)
    <2> HIDE DEF msgs
    <2> QED
        BY <1>1, <1>2, <2>1
<1>4. m \in ReplicaMessages /\ m.type # "REPLICA_HASH"
    BY DEF ReplicaMessages
<1> HIDE DEF msgs, m
<1>5. Append(msgs, m) \in Seq(ReplicaMessages)
    BY <1>3, <1>4
<1> DEFINE at == Positions(msgs, from)[Len(msgs)]
<1>6. at = Positions(msgs, from)[Len(msgs)]
    OBVIOUS
<1> HIDE DEF at
<1>7. /\ HashedOnce(Append(msgs, m), from)
      /\ HashedRanges(Append(msgs, m), from)
            = HashedRanges(msgs, from) \union (IF m.type = "REPLICA_HASH" THEN {at} ELSE {})
    BY <1>3, <1>4, <1>6, AppendHashedRanges
<1> QED
    BY <1>3, <1>4, <1>5, <1>7 DEF msgs, m

LEMMA OpenTransactionExchanges ==
    ASSUME SyncInductive, SyncInductive', ExchangeInductive, OpenTransaction, UNCHANGED originVars
    PROVE  Exchanges /\ ExchangeInductive'
<1> DEFINE db == Opened(file)
           v == rs["replica"].protocol
           S == FirstRanges(v, Len(db))
           said == Append(HashMessages(db, S, 1, 1), [type |-> "REPLICA_READY"])
           c == Cardinality(S)
           from == <<1, 1>>
<1>1. rs \in [Sides -> Structs]
    BY DEF SyncInductive, Typed
<1>2. /\ db \in Seq(Image) /\ db # <<>> /\ IsFiniteSet(S) /\ \A r \in S : Bounded(r)
    BY FirstRound
<1>3. v \in 1 .. 2
    BY <1>1 DEF Structs, Sides, ProtocolVersion
<1>4. /\ work' = db /\ Push("replica", said, "none") /\ sendHash' = {}
      /\ rs' = Counted(c, 1) /\ jMode' = (IF InWal(file) THEN 2 ELSE 1)
    <2>1. work' = db
        BY DEF OpenTransaction
    <2>2. /\ Push("replica", Append(HashMessages(work',
                 FirstRanges(rs["replica"].protocol, Len(work')), 1, 1),
                 [type |-> "REPLICA_READY"]), "none")
          /\ sendHash' = {}
          /\ rs' = Counted(Cardinality(FirstRanges(rs["replica"].protocol, Len(work'))), 1)
          /\ jMode' = (IF InWal(file) THEN 2 ELSE 1)
        BY DEF OpenTransaction, SendHashMessages, Send, JournalMode
    <2> QED
        BY <2>1, <2>2
<1>5. /\ pc["replica"] = "sql" /\ chan' = chan /\ pIns' = pIns
      /\ UNCHANGED <<origin, file, snap, iHash, nHash, mxHash, badHash>>
    BY DEF OpenTransaction, originVars, exchange
<1> HIDE DEF db, v
<1>6. Apart(S) /\ PagesOf(S) = 1 .. Len(db)
    <2>1. Len(db) \in Nat \ {0} /\ v \in {1, 2}
        BY <1>2, <1>3
    <2> QED
        BY <2>1, FirstApart
<1> HIDE DEF S
<1>7. from \in Nat \X Nat /\ from = <<1, 1>> /\ 1 \in Nat /\ PagesOf(S) \subseteq 1 .. Len(db)
    BY <1>6
<1> HIDE DEF from
<1>8. /\ said \in Seq(ReplicaMessages)
      /\ HashedOnce(said, from) /\ HashedRanges(said, from) = S
    BY <1>2, <1>6, <1>7, RoundSaid
<1> HIDE DEF said
<1>9. SameReplicaTerms /\ rs'["replica"].hashRounds = rs["replica"].hashRounds + 1
    <2>1. c \in Nat /\ 1 \in Nat
        BY <1>2, FS_CardinalityType
    <2> HIDE DEF c
    <2> QED
        BY <1>1, <1>4, <2>1, CountedIs
<1>10. SameOptions /\ rs'["origin"] = rs["origin"]
    BY <1>9 DEF SameReplicaTerms, SameOptions, Sides
<1>11. /\ ret["replica"] = "none"
       /\ FromOrigin = <<>> /\ FromOrigin' = <<>> /\ FromReplica = <<>>
       /\ FromReplica' = (IF linkUp THEN said ELSE <<>>)
       /\ pc'["replica"] = "write"
       /\ ret'["replica"] = "none" /\ ret'["origin"] = ret["origin"] /\ linkUp' = linkUp
       /\ work = <<>> /\ ~HasCommitted /\ NothingHashed /\ Agreed
    BY <1>4, <1>5, <1>8, <1>10, ReplicaOpens
<1>12. ~TxnComing /\ ~TxnComing' /\ ~Has(FromOrigin', {"ORIGIN_PAGE"})
    BY <1>11, HasNothing DEF TxnComing, FromOrigin
<1>13. ~HasCommitted' /\ ~TransactionOpen /\ TransactionOpen'
    BY <1>2, <1>4, <1>11 DEF HasCommitted, TransactionOpen
<1>14. Doomed' = Doomed
    BY <1>11, <1>12 DEF Doomed
<1>15. CASE Doomed
    BY <1>5, <1>11, <1>13, <1>14, <1>15, GivenUp DEF HasCommitted
<1>16. CASE ~Doomed
    <2>1. Stage = "announced" /\ Stage' = "hashing"
        BY <1>11, <1>12, <1>13, <1>14, <1>16 DEF Stage, Agreed
    <2>2. linkUp /\ FromReplica' = said
        BY <1>11, <1>12, <1>16 DEF Doomed
    <2>3. /\ iHash = 1 /\ nHash = 1 /\ mxHash' = 0 /\ badHash' = {}
        BY <1>5, <1>11 DEF NothingHashed
    <2>4. Pending' = S
        <3>1. Asked(FromOrigin') = {}
            BY <1>11, NothingAsked, HasNothing
        <3>2. <<iHash', nHash'>> = from
            BY <1>5, <1>7, <2>3
        <3> QED
            BY <1>4, <1>8, <2>2, <3>1, <3>2, PendingIsNext DEF UnderWay
    <2>5. Exchanges
        <3>1. v \in 1 .. 2 /\ Pending' = FirstRanges(v, Len(work')) /\ work' = Opened(file)
            BY <1>3, <1>4, <2>4 DEF S, db
        <3> QED
            BY <1>5, <2>1, <2>3, <3>1, Opening
    <2>6. RangesOnce'
        <3>1. HashedOnce(FromReplica', <<iHash', nHash'>>)
            BY <1>5, <1>7, <1>8, <2>2, <2>3
        <3> QED
            BY <1>4, <1>6, <2>3, <2>4, <3>1 DEF RangesOnce
    <2>7. Kept /\ pIns = FALSE
        BY <1>5, <1>16 DEF ExchangeInductive, Kept
    <2>8. PagesOnce' /\ Kept'
        BY <1>4, <1>5, <1>11, <1>12, <2>7 DEF PagesOnce, Kept
    <2> QED
        BY <2>5, <2>6, <2>8 DEF ExchangeInductive
<1> QED
    BY <1>15, <1>16

LEMMA OnOriginReadyExchanges ==
    ASSUME SyncInductive, SyncInductive', ExchangeInductive, OnOriginReady, UNCHANGED originVars
    PROVE  Exchanges /\ ExchangeInductive'
<1> DEFINE from == <<iHash, nHash>>
           said == Append(HashMessages(work, sendHash, 0, 0), [type |-> "REPLICA_READY"])
           c == Cardinality(sendHash)
<1>1. /\ WireTyped /\ RolesInStep /\ Conversation /\ Turns
      /\ work \in Seq(Image) /\ IsFiniteSet(sendHash) /\ \A r \in sendHash : Bounded(r)
      /\ from \in Nat \X Nat /\ 0 \in Nat /\ rs \in [Sides -> Structs]
    <2>1. /\ WireTyped /\ RolesInStep /\ Conversation /\ Turns /\ OriginTyped /\ ReplicaTyped
          /\ rs \in [Sides -> Structs]
        BY DEF SyncInductive, Typed
    <2>2. work \in Seq(Image) /\ IsFiniteSet(sendHash) /\ \A r \in sendHash : Bounded(r)
        BY <2>1 DEF ReplicaTyped
    <2>3. iHash \in Nat /\ nHash \in Nat
        BY <2>1, RsyncAssumption DEF OriginTyped
    <2> QED
        BY <2>1, <2>2, <2>3
<1>2. /\ Receives("replica", "ORIGIN_READY") /\ chan' = Consumed("replica")
      /\ Push("replica", said, "none") /\ sendHash' = {} /\ rs' = Counted(c, 1)
      /\ UNCHANGED <<origin, file, snap, work, jMode, pIns, iHash, nHash, mxHash, badHash>>
    BY DEF OnOriginReady, SendHashMessages, Send, originVars, exchange
<1> HIDE DEF from
<1>3. said \in Seq(ReplicaMessages)
    <2> DEFINE msgs == HashMessages(work, sendHash, 0, 0)
    <2>1. msgs \in Seq(ReplicaMessages)
        BY <1>1, RoundIs
    <2> HIDE DEF msgs
    <2>2. [type |-> "REPLICA_READY"] \in ReplicaMessages
        BY DEF ReplicaMessages
    <2>3. Append(msgs, [type |-> "REPLICA_READY"]) \in Seq(ReplicaMessages)
        BY <2>1, <2>2
    <2> QED
        BY <2>3 DEF msgs
<1>4. SameReplicaTerms /\ rs'["replica"].hashRounds = rs["replica"].hashRounds + 1
    <2>1. c \in Nat /\ 1 \in Nat
        BY <1>1, FS_CardinalityType
    <2> HIDE DEF c
    <2> QED
        BY <1>1, <1>2, <2>1, CountedIs
<1>5. SameOptions /\ rs'["origin"] = rs["origin"]
    BY <1>4 DEF SameReplicaTerms, SameOptions, Sides
<1> HIDE DEF said
<1>6. /\ pc["replica"] = "read" /\ ret["replica"] = "none"
      /\ FromOrigin' = <<>> /\ FromReplica = <<>>
      /\ FromReplica' = (IF linkUp THEN said ELSE <<>>)
      /\ pc'["replica"] = "write"
      /\ ret'["replica"] = "none" /\ ret'["origin"] = ret["origin"] /\ linkUp' = linkUp
      /\ work # <<>>
    BY <1>2, <1>3, <1>5, AskedForRound
<1>7. FromOrigin # <<>> /\ Head(FromOrigin).type = "ORIGIN_READY"
    BY <1>1, <1>2, <1>3, <1>5, ReplicaAnswers
<1>8. \A types : Has(FromOrigin, types) <=> "ORIGIN_READY" \in types
    <2>1. FromOrigin \in Seq(Message) /\ InOrder(FromOrigin)
        BY <1>1, Conversing
    <2>2. \A t : ~Precedes("ORIGIN_READY", t)
        BY LastWords
    <2> QED
        BY <1>7, <2>1, <2>2, OnlyWord
<1>9. ~TxnComing /\ ~TxnComing' /\ ~Has(FromOrigin', {"ORIGIN_PAGE"})
    BY <1>6, <1>8, HasNothing DEF TxnComing, FromOrigin
<1>10. ~HasCommitted /\ ~HasCommitted' /\ TransactionOpen /\ TransactionOpen'
    BY <1>2, <1>6 DEF HasCommitted, TransactionOpen
<1>11. Doomed' = Doomed
    BY <1>6, <1>9 DEF Doomed
<1>12. CASE Doomed
    BY <1>2, <1>10, <1>11, <1>12, GivenUp DEF HasCommitted
<1>13. CASE ~Doomed
    <2>1. Stage = "hashing" /\ Stage' = "hashing"
        BY <1>9, <1>10, <1>11, <1>13 DEF Stage
    <2>2. linkUp /\ FromReplica' = said
        BY <1>6, <1>9, <1>13 DEF Doomed
    <2>3. RangesOnce /\ PagesOnce /\ Kept
        BY <1>13 DEF ExchangeInductive
    <2>4. Pending = sendHash
        <3>1. Asked(FromOrigin) = {}
            BY <1>8, NothingAsked
        <3>2. HashedRanges(FromReplica, <<iHash, nHash>>) = {}
            BY <1>6, NothingHashedIn, HasNothing
        <3> QED
            BY <3>1, <3>2, PendingIs DEF UnderWay
    <2>5. Apart(sendHash) /\ PagesOf(sendHash) \subseteq 1 .. Len(work)
        BY <2>1, <2>3, <2>4 DEF RangesOnce, Apart, PagesOf
    <2>6. HashedOnce(said, from) /\ HashedRanges(said, from) = sendHash
        BY <1>1, <2>5, RoundSaid DEF said
    <2>7. <<iHash', nHash'>> = from
        BY <1>2 DEF from
    <2>8. Pending' = sendHash
        <3>1. Asked(FromOrigin') = {}
            BY <1>6, NothingAsked, HasNothing
        <3> QED
            BY <1>2, <2>2, <2>6, <2>7, <3>1, PendingIsNext DEF UnderWay
    <2>9. Exchanges
        BY <1>2, <2>1, <2>4, <2>8, NothingHappens
    <2>10. RangesOnce'
        BY <1>2, <2>1, <2>2, <2>3, <2>4, <2>6, <2>7, <2>8 DEF RangesOnce
    <2>11. PagesOnce' /\ Kept'
        BY <1>2, <1>6, <1>9, <1>10, <2>1, <2>3 DEF PagesOnce, Kept
    <2> QED
        BY <2>9, <2>10, <2>11 DEF ExchangeInductive
<1> QED
    BY <1>12, <1>13

LEMMA TailElements ==
    ASSUME NEW T, NEW msgs \in Seq(T), msgs # <<>>
    PROVE  ToSet(msgs) = {Head(msgs)} \union ToSet(Tail(msgs))
<1>1. /\ Len(msgs) \in Nat \ {0} /\ Head(msgs) = msgs[1]
      /\ Tail(msgs) \in Seq(T) /\ Len(Tail(msgs)) = Len(msgs) - 1
      /\ \A k \in 1 .. Len(msgs) - 1 : Tail(msgs)[k] = msgs[k + 1]
    OBVIOUS
<1>2. DOMAIN msgs = 1 .. Len(msgs) /\ DOMAIN Tail(msgs) = 1 .. Len(msgs) - 1
    BY <1>1
<1>3. ASSUME NEW k \in DOMAIN msgs
      PROVE  msgs[k] \in {Head(msgs)} \union ToSet(Tail(msgs))
    <2>1. CASE k = 1
        BY <1>1, <2>1
    <2>2. CASE k # 1
        <3>1. k - 1 \in DOMAIN Tail(msgs) /\ Tail(msgs)[k - 1] = msgs[(k - 1) + 1]
            BY <1>1, <1>2, <1>3, <2>2
        <3>2. (k - 1) + 1 = k
            BY <1>2, <1>3
        <3> QED
            BY <3>1, <3>2 DEF ToSet
    <2> QED
        BY <2>1, <2>2
<1>4. ASSUME NEW k \in DOMAIN Tail(msgs)
      PROVE  k + 1 \in DOMAIN msgs /\ Tail(msgs)[k] = msgs[k + 1]
    BY <1>1, <1>2, <1>4
<1>5. 1 \in DOMAIN msgs
    BY <1>1, <1>2
<1>6. ToSet(msgs) \subseteq {Head(msgs)} \union ToSet(Tail(msgs))
    BY <1>3 DEF ToSet
<1>7. ToSet(Tail(msgs)) \subseteq ToSet(msgs)
    BY <1>4 DEF ToSet
<1>8. Head(msgs) \in ToSet(msgs)
    BY <1>1, <1>5 DEF ToSet
<1> QED
    BY <1>6, <1>7, <1>8

\* A request that is read leaves what is asked for to the ones behind it.
LEMMA TailAsked ==
    ASSUME NEW T, NEW msgs \in Seq(T), msgs # <<>>
    PROVE  Asked(msgs) = (IF Head(msgs).type = "ORIGIN_DETAIL"
                          THEN Subdivide(Head(msgs).fpg, Head(msgs).npg) ELSE {})
                         \union Asked(Tail(msgs))
<1>1. ToSet(msgs) = {Head(msgs)} \union ToSet(Tail(msgs))
    BY TailElements
<1> QED
    BY <1>1, Zenon DEF Asked

LEMMA TailCarried ==
    ASSUME NEW T, NEW msgs \in Seq(T), msgs # <<>>
    PROVE  Carried(msgs) = (IF Head(msgs).type = "ORIGIN_PAGE" THEN {Head(msgs).pgno} ELSE {})
                           \union Carried(Tail(msgs))
<1>1. ToSet(msgs) = {Head(msgs)} \union ToSet(Tail(msgs))
    BY TailElements
<1> QED
    BY <1>1 DEF Carried

\* Rows that share no page with those of the table take the place of none.
LEMMA NothingReplaced ==
    ASSUME NEW S, NEW rows, \A r \in S \union rows : Bounded(r), Apart(S \union rows)
    PROVE  ReplaceInto(S, rows) = S \union rows
<1> DEFINE both == S \union rows
<1>1. ASSUME NEW r \in S, NEW x \in rows, x[1] = r[1] PROVE r \in rows
    <2>1. r \in both /\ x \in both /\ Apart(both) /\ Bounded(r) /\ Bounded(x)
        OBVIOUS
    <2> HIDE DEF both
    <2>2. x = r
        BY <1>1, <2>1, SameFirst
    <2> QED
        BY <2>2
<1> QED
    BY <1>1 DEF ReplaceInto

LEMMA OnOriginDetailExchanges ==
    ASSUME SyncInductive, SyncInductive', ExchangeInductive, OnOriginDetail, UNCHANGED originVars
    PROVE  Exchanges /\ ExchangeInductive'
<1>1. /\ WireTyped /\ RolesInStep /\ Exchanging /\ Committing /\ Conversation
      /\ \A r \in sendHash : Bounded(r)
    BY DEF SyncInductive, Typed, ReplicaTyped
<1> DEFINE m == Head(Incoming("replica"))
           rows == Subdivide(m.fpg, m.npg)
<1>2. /\ Receives("replica", "ORIGIN_DETAIL") /\ chan' = Consumed("replica") /\ ReadOn
      /\ rs' = rs /\ sendHash' = ReplaceInto(sendHash, rows)
      /\ pc' = pc /\ ret' = ret /\ linkUp' = linkUp
      /\ UNCHANGED <<origin, file, snap, work, jMode, pIns, iHash, nHash, mxHash, badHash>>
    BY DEF OnOriginDetail, originVars, exchange, ReadOn
<1>3. SameOptions
    BY <1>2 DEF SameOptions
<1>4. /\ pc["replica"] = "read" /\ ret["replica"] = "none"
      /\ FromOrigin # <<>> /\ Head(FromOrigin) = m
      /\ m.type = "ORIGIN_DETAIL" /\ FromOrigin' = Tail(FromOrigin)
      /\ FromReplica' = FromReplica
    BY <1>1, <1>2, <1>3, ReplicaTakes
<1> HIDE DEF m
<1>5. /\ FromReplica = <<>> /\ FromOrigin \in Seq(Message) /\ Truthful(m)
      /\ \A types : Has(FromOrigin, types) <=> "ORIGIN_DETAIL" \in types \/ Has(FromOrigin', types)
      /\ \A k \in DOMAIN FromOrigin' : Precedes("ORIGIN_DETAIL", FromOrigin'[k].type)
    BY <1>4, ReplicaHears
<1>6. ~Has(FromOrigin', {"ORIGIN_TXN"}) /\ ~Has(FromOrigin', {"ORIGIN_PAGE"})
    BY <1>5 DEF Has, Precedes
<1>7. ~TxnComing /\ ~TxnComing' /\ Has(FromOrigin, {"ORIGIN_DETAIL"})
    BY <1>5, <1>6 DEF TxnComing, FromOrigin
<1>8. work # <<>>
    <2>1. Has(FromOrigin, {"ORIGIN_DETAIL", "ORIGIN_READY", "ORIGIN_PAGE", "ORIGIN_TXN"})
        BY <1>5
    <2> QED
        BY <1>1, <2>1 DEF Exchanging
<1>9. /\ ~HasCommitted /\ ~HasCommitted' /\ TransactionOpen /\ TransactionOpen'
    BY <1>2, <1>4, <1>8 DEF HasCommitted, TransactionOpen
<1>10. Doomed' = Doomed
    BY <1>2, <1>7 DEF Doomed
<1>11. CASE Doomed
    BY <1>2, <1>9, <1>10, <1>11, GivenUp DEF HasCommitted
<1>12. CASE ~Doomed
    <2>1. Stage = "hashing" /\ Stage' = "hashing"
        BY <1>7, <1>9, <1>10, <1>12 DEF Stage
    <2>2. RangesOnce /\ PagesOnce /\ Kept
        BY <1>12 DEF ExchangeInductive
    <2>3. Asked(FromOrigin) = rows \union Asked(FromOrigin')
        BY <1>4, <1>5, TailAsked
    <2>4. \A q \in rows : Bounded(q)
        <3> DEFINE r == <<m.fpg, m.npg>>
        <3>1. Bounded(r) /\ r[1] = m.fpg /\ r[2] = m.npg
            BY <1>4, <1>5 DEF Truthful
        <3> HIDE DEF r
        <3> QED
            BY <3>1, SubdivideBounded
    <2>5. Pending = UnderWay(FromReplica, <<iHash, nHash>>, sendHash, FromOrigin)
        BY PendingIs
    <2>6. Pending' = UnderWay(FromReplica', <<iHash', nHash'>>, sendHash', FromOrigin')
        BY PendingIsNext
    <2> HIDE DEF rows
    <2>7. sendHash' = sendHash \union rows
        <3>1. sendHash \union rows \subseteq Pending \union badHash
            BY <2>3, <2>5 DEF UnderWay
        <3>2. Apart(sendHash \union rows)
            BY <2>1, <2>2, <3>1 DEF RangesOnce, Apart
        <3>3. \A q \in sendHash \union rows : Bounded(q)
            BY <1>1, <2>4
        <3> QED
            BY <1>2, <3>2, <3>3, NothingReplaced
    <2>8. Pending' = Pending
        BY <1>2, <1>4, <2>3, <2>5, <2>6, <2>7 DEF UnderWay
    <2>9. Exchanges
        BY <1>2, <2>1, <2>8, NothingHappens
    <2>10. ~Has(FromReplica', {"REPLICA_CONFIG", "REPLICA_HASH", "REPLICA_READY"})
        BY <1>4, <1>5, HasNothing
    <2>11. RangesOnce'
        BY <1>2, <1>4, <2>1, <2>2, <2>8, <2>10 DEF RangesOnce
    <2>12. PagesOnce' /\ Kept'
        BY <1>2, <1>6, <2>1, <2>2, <1>9, <1>4 DEF PagesOnce, Kept, Has
    <2> QED
        BY <2>9, <2>11, <2>12 DEF ExchangeInductive
<1> QED
    BY <1>11, <1>12

LEMMA PageCounted ==
    ASSUME rs \in [Sides -> Structs], rs' = [rs EXCEPT !["replica"].pageUpdates = @ + 1]
    PROVE  /\ rs'["origin"] = rs["origin"]
           /\ rs'["replica"].commCheck = rs["replica"].commCheck
           /\ rs'["replica"].hashRounds = rs["replica"].hashRounds
<1>1. rs["replica"] \in Structs
    BY DEF Sides
<1> DEFINE o == [rs["replica"] EXCEPT !.pageUpdates = @ + 1]
<1>2. o.commCheck = rs["replica"].commCheck /\ o.hashRounds = rs["replica"].hashRounds
    BY <1>1 DEF Structs
<1>3. rs' = [rs EXCEPT !["replica"] = o]
    BY DEF Sides
<1> HIDE DEF o
<1> QED
    BY <1>2, <1>3 DEF Sides

\* The pages behind the one that is read have higher numbers.
LEMMA PagesBehind ==
    ASSUME PagesOnce, FromOrigin # <<>>, FromOrigin \in Seq(Message),
           Head(FromOrigin).type = "ORIGIN_PAGE",
           1 \in DOMAIN FromOrigin, FromOrigin[1] = Head(FromOrigin),
           \A k \in DOMAIN FromOrigin' :
              k \in Nat /\ k + 1 \in DOMAIN FromOrigin /\ FromOrigin'[k] = FromOrigin[k + 1],
           \A k \in DOMAIN FromOrigin' : FromOrigin'[k] \in OriginMessages,
           FromOrigin' = Tail(FromOrigin)
    PROVE  /\ \A j, k \in DOMAIN FromOrigin' :
                FromOrigin'[j].type = "ORIGIN_PAGE" /\ FromOrigin'[k].type = "ORIGIN_PAGE" /\ j < k
                    => FromOrigin'[j].pgno < FromOrigin'[k].pgno
           /\ Coming = {Head(FromOrigin).pgno} \union Coming'
           /\ \A q \in Coming' : q \in Nat /\ Head(FromOrigin).pgno < q
<1>1. ASSUME NEW k \in DOMAIN FromOrigin'
      PROVE  k \in Nat /\ k # 0
    <2>1. Tail(FromOrigin) \in Seq(Message)
        OBVIOUS
    <2> QED
        BY <2>1
<1>2. ASSUME NEW j \in DOMAIN FromOrigin', NEW k \in DOMAIN FromOrigin', j < k,
             FromOrigin'[j].type = "ORIGIN_PAGE", FromOrigin'[k].type = "ORIGIN_PAGE"
      PROVE  FromOrigin'[j].pgno < FromOrigin'[k].pgno
    <2>1. j + 1 < k + 1
        BY <1>1, <1>2
    <2> QED
        BY <1>2, <2>1 DEF PagesOnce
<1>3. ASSUME NEW k \in DOMAIN FromOrigin', FromOrigin'[k].type = "ORIGIN_PAGE"
      PROVE  FromOrigin'[k].pgno \in Nat /\ Head(FromOrigin).pgno < FromOrigin'[k].pgno
    <2>1. 1 < k + 1
        BY <1>1
    <2>2. FromOrigin'[k] \in OriginMessages
        BY <1>3
    <2>3. FromOrigin'[k].pgno \in Nat
        BY <1>3, <2>2 DEF OriginMessages
    <2> QED
        BY <1>3, <2>1, <2>3 DEF PagesOnce
<1>4. Coming = Carried(FromOrigin) /\ Coming' = Carried(FromOrigin')
    BY DEF Coming, Carried, FromOrigin
<1>5. Carried(FromOrigin) = {Head(FromOrigin).pgno} \union Carried(FromOrigin')
    BY TailCarried
<1>6. \A q \in Carried(FromOrigin') : q \in Nat /\ Head(FromOrigin).pgno < q
    <2>1. Carried(FromOrigin') = {FromOrigin'[k].pgno :
                                    k \in {j \in DOMAIN FromOrigin' : FromOrigin'[j].type = "ORIGIN_PAGE"}}
        BY CarriedIs
    <2> QED
        BY <1>3, <2>1
<1> QED
    BY <1>2, <1>4, <1>5, <1>6

LEMMA OnOriginPageExchanges ==
    ASSUME SyncInductive, SyncInductive', ExchangeInductive, OnOriginPage, UNCHANGED originVars
    PROVE  Exchanges /\ ExchangeInductive'
<1>1. /\ WireTyped /\ OriginTyped /\ ReplicaTyped /\ RolesInStep /\ Exchanging
      /\ rs \in [Sides -> Structs]
    BY DEF SyncInductive, Typed
<1> DEFINE m == Head(Incoming("replica"))
           image == ForReplica(m.pgno, m.data, jMode = 2)
<1>2. /\ Receives("replica", "ORIGIN_PAGE") /\ chan' = Consumed("replica") /\ ReadOn
      /\ rs' = [rs EXCEPT !["replica"].pageUpdates = @ + 1]
      /\ work' = InsertPage(work, m.pgno, image) /\ pIns' = TRUE
      /\ pc' = pc /\ ret' = ret /\ linkUp' = linkUp
      /\ UNCHANGED <<origin, file, snap, jMode, mxHash>>
    BY DEF OnOriginPage, originVars, exchange, ReadOn
<1>3. /\ rs'["origin"] = rs["origin"]
      /\ rs'["replica"].commCheck = rs["replica"].commCheck
      /\ rs'["replica"].hashRounds = rs["replica"].hashRounds
    BY <1>1, <1>2, PageCounted
<1>4. SameOptions
    BY <1>3 DEF SameOptions, Sides
<1>5. /\ pc["replica"] = "read" /\ ret["replica"] = "none"
      /\ FromOrigin # <<>> /\ Head(FromOrigin) = m
      /\ m.type = "ORIGIN_PAGE" /\ FromOrigin' = Tail(FromOrigin)
    BY <1>1, <1>2, <1>4, ReplicaTakes
<1> HIDE DEF m
<1>6. /\ FromOrigin \in Seq(Message) /\ Truthful(m)
      /\ \A types : Has(FromOrigin, types) <=> "ORIGIN_PAGE" \in types \/ Has(FromOrigin', types)
      /\ \A k \in DOMAIN FromOrigin' :
            /\ k \in Nat /\ k + 1 \in DOMAIN FromOrigin /\ FromOrigin'[k] = FromOrigin[k + 1]
            /\ FromOrigin'[k] \in OriginMessages
      /\ 1 \in DOMAIN FromOrigin /\ FromOrigin[1] = m
    BY <1>5, ReplicaHears
<1>7. work # <<>>
    <2>1. Has(FromOrigin, {"ORIGIN_DETAIL", "ORIGIN_READY", "ORIGIN_PAGE", "ORIGIN_TXN"})
        BY <1>6
    <2> QED
        BY <1>1, <2>1 DEF Exchanging
<1>8. m.pgno \in 1 .. Len(snap) /\ m.data = snap[m.pgno]
    BY <1>5, <1>6 DEF Truthful
<1>9. work' # <<>>
    <2>1. snap \in Seq(Image) /\ Len(snap) \in Nat
        BY <1>1, SnapIs
    <2>2. work \in Seq(Image) /\ m.pgno \in Nat \ {0} /\ m.data \in Image
        BY <1>1, <1>8, <2>1 DEF ReplicaTyped
    <2>3. image \in Image
        <3>1. (jMode = 2) \in BOOLEAN
            OBVIOUS
        <3> QED
            BY <2>2, <3>1, ForReplicaIs
    <2> HIDE DEF image
    <2>4. IsInsertion(InsertPage(work, m.pgno, image), work, m.pgno, image)
        BY <2>2, <2>3, InsertPageIs
    <2>5. Len(work') = Larger(Len(work), m.pgno)
        BY <1>2, <2>4 DEF IsInsertion
    <2>6. Len(work') # 0
        BY <2>2, <2>5 DEF Larger
    <2> QED
        BY <2>6
<1>10. /\ ~HasCommitted /\ ~HasCommitted' /\ TransactionOpen /\ TransactionOpen'
    BY <1>2, <1>5, <1>7, <1>9 DEF HasCommitted, TransactionOpen
<1>11. /\ TxnComing' = TxnComing /\ Has(FromOrigin, {"ORIGIN_PAGE"})
    BY <1>6 DEF TxnComing, FromOrigin, Has
<1>12. Doomed' = Doomed
    BY <1>2, <1>11 DEF Doomed
<1>13. CASE Doomed
    BY <1>2, <1>10, <1>12, <1>13, GivenUp DEF HasCommitted
<1>14. CASE ~Doomed
    <2>1. RangesOnce /\ PagesOnce /\ Kept
        BY <1>14 DEF ExchangeInductive
    <2>2. TxnComing /\ TxnComing' /\ ~Doomed'
        BY <1>11, <1>12, <1>14, <2>1 DEF PagesOnce
    <2>3. Stage = "sending" /\ Stage' = "sending"
        BY <1>10, <1>14, <2>2 DEF Stage
    <2>4. /\ \A j, k \in DOMAIN FromOrigin' :
                FromOrigin'[j].type = "ORIGIN_PAGE" /\ FromOrigin'[k].type = "ORIGIN_PAGE" /\ j < k
                    => FromOrigin'[j].pgno < FromOrigin'[k].pgno
          /\ Coming = {m.pgno} \union Coming'
          /\ \A q \in Coming' : q \in Nat /\ m.pgno < q
        BY <1>5, <1>6, <2>1, PagesBehind
    <2>5. m.pgno \in Nat
        BY <1>1, <1>8, SnapIs
    <2>6. m.pgno \in Coming /\ (\A q \in Coming : m.pgno <= q) /\ Coming' = Coming \ {m.pgno}
        BY <2>4, <2>5
    <2>7. image = ForReplica(m.pgno, snap[m.pgno], InWal(file))
        <3>1. jMode = 2 <=> InWal(file)
            BY <1>10, <2>1 DEF Kept
        <3> QED
            BY <1>8, <3>1 DEF ForReplica
    <2>8. Exchanges
        BY <1>2, <2>3, <2>6, <2>7, WritingPage
    <2>9. RangesOnce' /\ PagesOnce' /\ Kept'
        BY <1>2, <1>5, <1>10, <2>1, <2>2, <2>3, <2>4 DEF RangesOnce, PagesOnce, Kept
    <2> QED
        BY <2>8, <2>9 DEF ExchangeInductive
<1> QED
    BY <1>13, <1>14

LEMMA CommitCounted ==
    ASSUME rs \in [Sides -> Structs], NEW n,
           rs' = IF pIns THEN [rs EXCEPT !["replica"].pageCount = n] ELSE rs
    PROVE  /\ rs'["origin"] = rs["origin"]
           /\ rs'["replica"].commCheck = rs["replica"].commCheck
           /\ rs'["replica"].hashRounds = rs["replica"].hashRounds
<1>1. rs["replica"] \in Structs
    BY DEF Sides
<1> DEFINE o == [rs["replica"] EXCEPT !.pageCount = n]
<1>2. o.commCheck = rs["replica"].commCheck /\ o.hashRounds = rs["replica"].hashRounds
    BY <1>1 DEF Structs
<1>3. rs' = IF pIns THEN [rs EXCEPT !["replica"] = o] ELSE rs
    BY DEF Sides
<1> HIDE DEF o
<1> QED
    BY <1>2, <1>3 DEF Sides

LEMMA OnOriginTxnExchanges ==
    ASSUME SyncInductive, SyncInductive', ExchangeInductive, OnOriginTxn, UNCHANGED originVars
    PROVE  Exchanges /\ ExchangeInductive'
<1>1. /\ WireTyped /\ OriginTyped /\ RolesInStep /\ Exchanging
      /\ rs \in [Sides -> Structs]
    BY DEF SyncInductive, Typed
<1> DEFINE m == Head(Incoming("replica"))
<1>2. /\ Receives("replica", "ORIGIN_TXN") /\ chan' = Consumed("replica") /\ ReadOn
      /\ rs' = IF pIns THEN [rs EXCEPT !["replica"].pageCount = m.pageCount] ELSE rs
      /\ work' = <<>> /\ pc' = pc /\ UNCHANGED <<origin, snap>>
    BY DEF OnOriginTxn, originVars, exchange, ReadOn
<1>3. PICK c \in Counters : file' = Committed(file, work, pIns, m.pageCount, c)
    BY DEF OnOriginTxn
<1>4. /\ SameOptions /\ rs'["replica"].hashRounds = rs["replica"].hashRounds
    BY <1>1, <1>2, CommitCounted DEF SameOptions, Sides
<1>5. /\ pc["replica"] = "read" /\ ret["replica"] = "none"
      /\ FromOrigin # <<>> /\ Head(FromOrigin) = m
      /\ m.type = "ORIGIN_TXN" /\ FromOrigin' = Tail(FromOrigin)
    BY <1>1, <1>2, <1>4, ReplicaTakes
<1> HIDE DEF m
<1>6. /\ Truthful(m)
      /\ \A types : Has(FromOrigin, types) <=> "ORIGIN_TXN" \in types \/ Has(FromOrigin', types)
      /\ \A k \in DOMAIN FromOrigin' : Precedes("ORIGIN_TXN", FromOrigin'[k].type)
    BY <1>5, ReplicaHears
<1>7. ~Has(FromOrigin', {"ORIGIN_PAGE"}) /\ ~Has(FromOrigin, {"ORIGIN_PAGE"})
    <2>1. ~Has(FromOrigin', {"ORIGIN_PAGE"})
        BY <1>6 DEF Has, Precedes
    <2> QED
        BY <1>6, <2>1
<1>8. work # <<>> /\ Rounds > 0
    <2>1. Has(FromOrigin, {"ORIGIN_DETAIL", "ORIGIN_READY", "ORIGIN_PAGE", "ORIGIN_TXN"})
        BY <1>6
    <2> QED
        BY <1>1, <2>1 DEF Exchanging
<1>9. /\ ~HasCommitted /\ HasCommitted' /\ ~TransactionOpen'
    BY <1>2, <1>4, <1>8 DEF HasCommitted, Rounds, TransactionOpen
<1>10. TxnComing /\ ~Doomed
    BY <1>5, <1>6 DEF TxnComing, FromOrigin, Doomed
<1>11. Stage = "sending" /\ Stage' = "committed"
    BY <1>9, <1>10 DEF Stage
<1>12. Coming = {}
    BY <1>7, NothingCarried DEF Coming, Carried, FromOrigin
<1>13. file' = Committed(file, work, pIns, Len(snap), c)
    BY <1>3, <1>5, <1>6 DEF Truthful
<1>14. Exchanges
    BY <1>2, <1>11, <1>12, <1>13, CommittingFile
<1>15. RangesOnce' /\ PagesOnce' /\ Kept'
    BY <1>2, <1>5, <1>7, <1>9, <1>11 DEF RangesOnce, PagesOnce, Kept, Has
<1> QED
    BY <1>14, <1>15 DEF ExchangeInductive

(***************************************************************************)
(* The other programs, and the next run.                                   *)
(***************************************************************************)

\* What the mapping shows of a run is unchanged by those who write the files.
LEMMA SameRun ==
    ASSUME UNCHANGED <<wire, rs, work, iHash, nHash, sendHash, snap, mxHash, badHash, pIns>>
    PROVE  /\ FromOrigin' = FromOrigin /\ FromReplica' = FromReplica
           /\ HasCommitted' = HasCommitted /\ TransactionOpen' = TransactionOpen
           /\ TxnComing' = TxnComing /\ Doomed' = Doomed /\ Stage' = Stage
           /\ Pending' = Pending /\ Coming' = Coming
           /\ RangesOnce' = RangesOnce /\ PagesOnce' = PagesOnce
<1>1. FromOrigin' = FromOrigin /\ FromReplica' = FromReplica /\ InFlight("origin")' = InFlight("origin")
    BY DEF FromOrigin, FromReplica, InFlight, wire
<1>2. /\ HasCommitted' = HasCommitted /\ TransactionOpen' = TransactionOpen
      /\ TxnComing' = TxnComing
    BY <1>1 DEF HasCommitted, Rounds, TransactionOpen, TxnComing, wire
<1>3. Doomed' = Doomed
    BY <1>2 DEF Doomed, wire
<1>4. Stage' = Stage
    BY <1>2, <1>3, SameStage
<1>5. Pending' = Pending
    <2>1. /\ Pending = UnderWay(FromReplica, <<iHash, nHash>>, sendHash, FromOrigin)
          /\ Pending' = UnderWay(FromReplica', <<iHash', nHash'>>, sendHash', FromOrigin')
        BY PendingIs, PendingIsNext
    <2> QED
        BY <1>1, <2>1
<1>6. Coming' = Coming
    BY <1>1 DEF Coming
<1>7. RangesOnce' = RangesOnce
    BY <1>1, <1>4, <1>5 DEF RangesOnce
<1>8. PagesOnce' = PagesOnce
    BY <1>1, <1>2 DEF PagesOnce
<1> QED
    BY <1>1, <1>2, <1>3, <1>4, <1>5, <1>6, <1>7, <1>8

LEMMA OriginWriteExchanges ==
    ASSUME SyncInductive, ExchangeInductive, OriginWrite, UNCHANGED replicaVars
    PROVE  Exchanges /\ ExchangeInductive'
<1>1. /\ UNCHANGED <<wire, rs, work, iHash, nHash, sendHash, snap, mxHash, badHash, pIns>>
      /\ UNCHANGED <<file, jMode, pc>> /\ origin' \in OriginFiles
      /\ InWal(snap) \/ pc["origin"] = "done" \/ rs["origin"].pageSize = 0
    BY DEF OriginWrite, replicaVars, txn, exchange, wire
<1>2. /\ HasCommitted' = HasCommitted /\ TransactionOpen' = TransactionOpen
      /\ Doomed' = Doomed /\ Stage' = Stage /\ Pending' = Pending /\ Coming' = Coming
      /\ RangesOnce' = RangesOnce /\ PagesOnce' = PagesOnce
    BY <1>1, SameRun
<1>3. Stage \in {"idle", "sending", "committed", "aborted"} \/ InWal(snap)
    <2> SUFFICES ASSUME Stage \in {"announced", "hashing"},
                        pc["origin"] = "done" \/ rs["origin"].pageSize = 0
                 PROVE  FALSE
        BY <1>1, StagesAre
    <2>1. ~HasCommitted /\ ~Doomed /\ ~TxnComing /\ (Stage = "hashing" => TransactionOpen)
          /\ (Stage = "announced" => rs["origin"].pageSize # 0)
        BY StagesAre
    <2>2. ret["origin"] = "none"
        BY <2>1 DEF Doomed
    <2>3. pc["origin"] # "done"
        BY <2>2 DEF SyncInductive, RolesInStep, Sides
    <2>4. Stage = "hashing" /\ rs["origin"].pageSize = 0
        BY <2>1, <2>3
    <2>5. Rounds > 0 \/ pc["replica"] = "sql"
        BY <2>1, <2>4 DEF SyncInductive, Exchanging, TransactionOpen
    <2> QED
        BY <2>4, <2>5 DEF SyncInductive, Stages, Agreed
<1>4. Exchanges
    BY <1>1, <1>2, <1>3, WritingOrigin
<1>5. Kept' = Kept
    BY <1>1, <1>2 DEF Kept
<1> QED
    BY <1>2, <1>4, <1>5 DEF ExchangeInductive

LEMMA ReplicaWriteExchanges ==
    ASSUME SyncInductive, ExchangeInductive, ReplicaWrite, UNCHANGED originVars
    PROVE  Exchanges /\ ExchangeInductive'
<1>1. /\ UNCHANGED <<wire, rs, work, iHash, nHash, sendHash, snap, mxHash, badHash, pIns>>
      /\ UNCHANGED <<origin, jMode, pc>> /\ file' \in ReplicaFiles /\ ~TransactionOpen
    BY DEF ReplicaWrite, originVars, exchange, txn, wire
<1>2. /\ HasCommitted' = HasCommitted /\ TransactionOpen' = TransactionOpen
      /\ Doomed' = Doomed /\ Stage' = Stage /\ Pending' = Pending /\ Coming' = Coming
      /\ RangesOnce' = RangesOnce /\ PagesOnce' = PagesOnce
    BY <1>1, SameRun
<1>3. Stage \notin {"hashing", "sending"}
    <2>1. Stage # "hashing"
        BY <1>1, StagesAre
    <2>2. ASSUME Stage = "sending" PROVE FALSE
        <3>1. TxnComing /\ ~Doomed
            BY <2>2, StagesAre
        <3>2. ret["replica"] = "none"
            BY <3>1 DEF Doomed
        <3>3. pc["replica"] # "done"
            BY <3>2 DEF SyncInductive, RolesInStep, Sides
        <3>4. Has(FromOrigin, {"ORIGIN_TXN"})
            BY <3>1 DEF TxnComing, FromOrigin
        <3>5. Has(FromOrigin, {"ORIGIN_DETAIL", "ORIGIN_READY", "ORIGIN_PAGE", "ORIGIN_TXN"})
            BY <3>4 DEF Has
        <3>6. work # <<>>
            BY <3>5 DEF SyncInductive, Exchanging
        <3> QED
            BY <1>1, <3>3, <3>6 DEF TransactionOpen
    <2> QED
        BY <2>1, <2>2
<1>4. Exchanges
    BY <1>1, <1>2, <1>3, WritingReplica
<1>5. Kept' = Kept
    BY <1>1, <1>2 DEF Kept
<1> QED
    BY <1>2, <1>4, <1>5 DEF ExchangeInductive

LEMMA NextRunExchanges ==
    ASSUME SyncInductive, NextRun
    PROVE  Exchanges /\ ExchangeInductive'
<1>1. /\ out' = [s \in Sides |-> <<>>] /\ chan' = [s \in Sides |-> <<>>]
      /\ pc' = [s \in Sides |-> "start"] /\ ret' = [s \in Sides |-> "none"] /\ linkUp' = TRUE
      /\ work' = <<>> /\ pIns' = FALSE /\ UNCHANGED <<origin, file>>
    BY DEF NextRun, NewStream, NewReplicaLocals
<1>2. rs'["origin"].pageSize = 0 /\ rs'["replica"].hashRounds = 0
    BY NewStructsAre DEF NextRun, Sides
<1>3. FromOrigin' = <<>>
    <2>1. out'["origin"] = <<>> /\ chan'["origin"] = <<>>
        BY <1>1 DEF Sides
    <2>2. <<>> \o <<>> = <<>>
        OBVIOUS
    <2> QED
        BY <1>1, <2>1, <2>2 DEF FromOrigin, InFlight
<1>4. Stage \in {"committed", "aborted"}
    <2>1. pc["replica"] = "done"
        BY DEF NextRun, Ended, Sides
    <2>2. ret["replica"] # "none"
        BY <2>1 DEF SyncInductive, RolesInStep, Sides
    <2> QED
        BY <2>2 DEF Doomed, Stage
<1>5. ~TxnComing' /\ ~Has(FromOrigin', {"ORIGIN_PAGE"}) /\ DOMAIN FromOrigin' = {}
    BY <1>3, HasNothing DEF TxnComing, FromOrigin
<1>6. ~HasCommitted' /\ ~TransactionOpen' /\ ~Doomed'
    BY <1>1, <1>2, <1>5 DEF HasCommitted, Rounds, TransactionOpen, Doomed, Sides
<1>7. Stage' = "idle"
    BY <1>2, <1>5, <1>6 DEF Stage
<1>8. Exchanges
    BY <1>1, <1>4, <1>7, RunningAgain
<1>9. RangesOnce' /\ PagesOnce' /\ Kept'
    BY <1>1, <1>5, <1>6, <1>7 DEF RangesOnce, PagesOnce, Kept
<1> QED
    BY <1>8, <1>9 DEF ExchangeInductive

LEMMA StutterExchanges ==
    ASSUME ExchangeInductive, UNCHANGED vars
    PROVE  Exchanges /\ ExchangeInductive'
<1>1. /\ UNCHANGED <<wire, rs, work, iHash, nHash, sendHash, snap, mxHash, badHash, pIns>>
      /\ UNCHANGED <<origin, file, jMode, pc>>
    BY DEF vars, wire, originVars, exchange, replicaVars, txn
<1>2. /\ TransactionOpen' = TransactionOpen
      /\ Doomed' = Doomed /\ Stage' = Stage /\ Pending' = Pending /\ Coming' = Coming
      /\ RangesOnce' = RangesOnce /\ PagesOnce' = PagesOnce
    BY <1>1, SameRun
<1>3. Exchanges
    BY <1>1, <1>2, NothingHappens
<1>4. Kept' = Kept
    BY <1>1, <1>2 DEF Kept
<1> QED
    BY <1>2, <1>3, <1>4 DEF ExchangeInductive

(***************************************************************************)
(* Every step, and the first state.                                        *)
(***************************************************************************)

LEMMA OriginExchanges ==
    ASSUME SyncInductive, SyncInductive', ExchangeInductive, OriginRuns
    PROVE  Exchanges /\ ExchangeInductive'
<1>1. OriginStep /\ UNCHANGED replicaVars
    BY DEF OriginRuns
<1>2. CASE OriginCommCheck \/ OriginRefuses \/ OnReplicaHashFails \/ OnReplicaReadyFails
    BY <1>1, <1>2, OriginFailsExchanges
<1>3. CASE OriginStart
    BY <1>1, <1>3, OriginStartExchanges
<1>4. CASE OnReplicaMsg \/ OnReplicaEnd \/ OnReplicaError
    BY <1>1, <1>4, OriginReads
<1>5. CASE OnReplicaBegin
    BY <1>1, <1>5, OnReplicaBeginExchanges
<1>6. CASE OnReplicaConfig
    BY <1>1, <1>6, OnReplicaConfigExchanges
<1>7. CASE OnReplicaHash
    BY <1>1, <1>7, OnReplicaHashExchanges
<1>8. CASE OnReplicaReadyDetail
    BY <1>1, <1>8, OnReplicaReadyDetailExchanges
<1>9. CASE OnReplicaReadyPages
    BY <1>1, <1>9, OnReplicaReadyPagesExchanges
<1> QED
    BY <1>1, <1>2, <1>3, <1>4, <1>5, <1>6, <1>7, <1>8, <1>9 DEF OriginStep

LEMMA ReplicaExchanges ==
    ASSUME SyncInductive, SyncInductive', ExchangeInductive, ReplicaRuns
    PROVE  Exchanges /\ ExchangeInductive'
<1>1. ReplicaStep /\ UNCHANGED originVars
    BY DEF ReplicaRuns
<1>2. CASE \/ ReplicaCommCheck \/ OnOriginEnd \/ OnOriginError \/ OpenTransactionFails
           \/ OnOriginReadyFails \/ OnOriginPageFails \/ OnOriginTxnFails
    BY <1>1, <1>2, ReplicaFailsExchanges
<1>3. CASE ReplicaStart
    BY <1>1, <1>3, ReplicaStartExchanges
<1>4. CASE OnOriginMsg
    BY <1>1, <1>4, ReplicaReads
<1>5. CASE OnOriginBeginTooNew
    BY <1>1, <1>5, OnOriginBeginTooNewExchanges
<1>6. CASE OnOriginBegin
    BY <1>1, <1>6, OnOriginBeginExchanges
<1>7. CASE OpenTransaction
    BY <1>1, <1>7, OpenTransactionExchanges
<1>8. CASE OnOriginDetail
    BY <1>1, <1>8, OnOriginDetailExchanges
<1>9. CASE OnOriginReady
    BY <1>1, <1>9, OnOriginReadyExchanges
<1>10. CASE OnOriginPage
    BY <1>1, <1>10, OnOriginPageExchanges
<1>11. CASE OnOriginTxn
    BY <1>1, <1>11, OnOriginTxnExchanges
<1> QED
    BY <1>1, <1>2, <1>3, <1>4, <1>5, <1>6, <1>7, <1>8, <1>9, <1>10, <1>11 DEF ReplicaStep

LEMMA EitherExchanges ==
    ASSUME SyncInductive, SyncInductive', ExchangeInductive,
           \/ OriginRuns \/ ReplicaRuns
           \/ \E s \in Sides :
               StreamRuns(s) \/ Kill(s) \/ Cancel(s) \/ Cancelled(s) \/ Unregistered(s)
           \/ LinkFault
           \/ OriginWrite /\ UNCHANGED replicaVars
           \/ ReplicaWrite /\ UNCHANGED originVars
    PROVE  Exchanges /\ ExchangeInductive'
<1>1. RolesInStep'
    BY DEF SyncInductive
<1>2. CASE \E s \in Sides :
            StreamRuns(s) \/ Kill(s) \/ Cancel(s) \/ Cancelled(s) \/ Unregistered(s)
    <2>1. PICK s \in Sides :
            StreamRuns(s) \/ Kill(s) \/ Cancel(s) \/ Cancelled(s) \/ Unregistered(s)
        BY <1>2
    <2>2. CASE StreamRuns(s)
        BY <1>1, <2>2, StreamExchanges
    <2>3. CASE Kill(s)
        BY <1>1, <2>3, KillExchanges
    <2>4. CASE Cancel(s) \/ Unregistered(s)
        BY <1>1, <2>4, CancelExchanges
    <2>5. CASE Cancelled(s)
        BY <1>1, <2>5, CancelledExchanges
    <2> QED
        BY <2>1, <2>2, <2>3, <2>4, <2>5
<1>3. CASE LinkFault
    BY <1>1, <1>3, LinkFaultExchanges
<1>4. CASE OriginWrite /\ UNCHANGED replicaVars
    BY <1>4, OriginWriteExchanges
<1>5. CASE ReplicaWrite /\ UNCHANGED originVars
    BY <1>5, ReplicaWriteExchanges
<1> QED
    BY <1>2, <1>3, <1>4, <1>5, OriginExchanges, ReplicaExchanges

LEMMA NextExchanges ==
    SyncInductive /\ SyncInductive' /\ ExchangeInductive /\ [Next]_vars
        => Exchanges /\ ExchangeInductive'
    BY EitherExchanges, StutterExchanges DEF Next

LEMMA ResyncsExchange ==
    SyncInductive /\ SyncInductive' /\ ExchangeInductive /\ [Resyncs]_vars
        => Exchanges /\ ExchangeInductive'
    BY EitherExchanges, NextRunExchanges, StutterExchanges DEF Resyncs, NextVersion

LEMMA InitExchanges == Init => Exchange!Init /\ ExchangeInductive
<1> SUFFICES ASSUME Init PROVE Exchange!Init /\ ExchangeInductive
    OBVIOUS
<1>1. /\ out = [s \in Sides |-> <<>>] /\ chan = [s \in Sides |-> <<>>]
      /\ pc = [s \in Sides |-> "start"] /\ ret = [s \in Sides |-> "none"] /\ linkUp = TRUE
      /\ work = <<>> /\ pIns = FALSE /\ origin \in OriginFiles /\ file \in ReplicaFiles
    BY DEF Init, WireInit, OriginInit, ReplicaInit
<1>2. rs["origin"].pageSize = 0 /\ rs["replica"].hashRounds = 0
    BY NewStructsAre DEF Init, Sides
<1>3. FromOrigin = <<>>
    <2>1. out["origin"] = <<>> /\ chan["origin"] = <<>>
        BY <1>1 DEF Sides
    <2>2. <<>> \o <<>> = <<>>
        OBVIOUS
    <2> QED
        BY <1>1, <2>1, <2>2 DEF FromOrigin, InFlight
<1>4. ~TxnComing /\ ~Has(FromOrigin, {"ORIGIN_PAGE"}) /\ DOMAIN FromOrigin = {}
    BY <1>3, HasNothing DEF TxnComing, FromOrigin
<1>5. ~HasCommitted /\ ~TransactionOpen /\ ~Doomed
    BY <1>1, <1>2, <1>4 DEF HasCommitted, Rounds, TransactionOpen, Doomed, Sides
<1>6. Stage = "idle"
    BY <1>2, <1>4, <1>5 DEF Stage
<1>7. Exchange!Init
    BY <1>1, <1>6 DEF Exchange!Init, Exchange!NoRun, If
<1>8. RangesOnce /\ PagesOnce /\ Kept
    BY <1>1, <1>4, <1>5, <1>6 DEF RangesOnce, PagesOnce, Kept
<1> QED
    BY <1>7, <1>8 DEF ExchangeInductive

(***************************************************************************)
(* The theorems.                                                           *)
(***************************************************************************)

\* While a commit may still come of a run no range is compared twice and none
\* is forgotten: every range under way is in one place only, in sendHash, in a
\* request, in a hash or in badHash (origin.go and replica.go, the rounds).
THEOREM RunRangesOnce == Spec => []ExchangeInductive
<1>1. Spec => []SyncInductive
    BY RunIsInductive
<1>2. SyncInductive /\ SyncInductive' /\ ExchangeInductive /\ [Next]_vars => ExchangeInductive'
    BY NextExchanges
<1> QED
    BY <1>1, <1>2, InitExchanges, PTL DEF Spec

\* Whatever the interleaving, the older protocol and the faults, a run over the
\* wire is a hash exchange: it compares, asks detail of and sends what
\* HashExchange says, or has given up (origin.go and replica.go, the two
\* message loops).
THEOREM RunImplementsExchange == Spec => ImplementsExchange
<1>1. Spec => []SyncInductive
    BY RunIsInductive
<1>2. SyncInductive /\ SyncInductive' /\ ExchangeInductive /\ [Next]_vars
        => ExchangeInductive' /\ [Exchange!Next]_(Exchange!vars)
    BY NextExchanges DEF Exchanges
<1> QED
    BY <1>1, <1>2, InitExchanges, PTL DEF Spec, ImplementsExchange, Exchange!Spec

\* So is a sequence of runs over the same two files (sqlitersync/README.md,
\* "periodic delta sync").
THEOREM ResyncImplementsExchange == ResyncSpec => ImplementsExchange
<1>1. ResyncSpec => []SyncInductive
    BY ResyncIsInductive
<1>2. SyncInductive /\ SyncInductive' /\ ExchangeInductive /\ [Resyncs]_vars
        => ExchangeInductive' /\ [Exchange!Next]_(Exchange!vars)
    BY ResyncsExchange DEF Exchanges
<1> QED
    BY <1>1, <1>2, InitExchanges, PTL DEF ResyncSpec, ImplementsExchange, Exchange!Spec

-----------------------------------------------------------------------------
(* The run and the one-step copy.  What HashExchangeProof proves of the    *)
(* exchange is brought back to the run: Proven is the exchange the run is, *)
(* with its theorems.                                                      *)

Proven == INSTANCE HashExchangeProof WITH
    phase  <- Stage,
    snap   <- If({"announced", "hashing", "sending", "committed"}, snap, <<>>),
    work   <- If({"hashing", "sending"}, work, <<>>),
    todo   <- If({"hashing"}, Pending, {}),
    bad    <- If({"hashing"}, badHash, {}),
    mxHash <- If({"hashing", "sending"}, mxHash, 0),
    toSend <- If({"sending"}, Coming, {}),
    pIns   <- If({"sending"}, pIns, FALSE)

LEMMA SameExchange ==
    /\ Exchange!Init <=> Proven!Init
    /\ Exchanges <=> [Proven!Next]_(Proven!vars)
<1>1. Exchange!Init <=> Proven!Init
    BY DEF Exchange!Init, Proven!Init, Exchange!NoRun, Proven!NoRun
<1>2. Exchange!OriginWrite <=> Proven!OriginWrite
    BY DEF Exchange!OriginWrite, Proven!OriginWrite, Exchange!run, Proven!run, Exchange!InWal, Proven!InWal
<1>3. Exchange!ReplicaWrite <=> Proven!ReplicaWrite
    BY DEF Exchange!ReplicaWrite, Proven!ReplicaWrite, Exchange!run, Proven!run
<1>4. Exchange!Announce <=> Proven!Announce
    BY DEF Exchange!Announce, Proven!Announce, Exchange!run, Proven!run
<1>5. Exchange!Open <=> Proven!Open
    BY DEF Exchange!Open, Proven!Open, Exchange!Opened, Proven!Opened, Exchange!EmptyImage, Proven!EmptyImage, Exchange!FirstRanges, Proven!FirstRanges, Exchange!ReplaceInto, Proven!ReplaceInto, Exchange!Subdivide, Proven!Subdivide, Exchange!NChunk, Proven!NChunk
<1>6. \A r : Exchange!Compare(r) <=> Proven!Compare(r)
    BY DEF Exchange!Compare, Proven!Compare, Exchange!Match, Proven!Match, Exchange!HashOf, Proven!HashOf, Exchange!Existing, Proven!Existing, Exchange!Smaller, Proven!Smaller, Exchange!IsNull, Proven!IsNull, Exchange!HashedThrough, Proven!HashedThrough, Exchange!Larger, Proven!Larger
<1>7. Exchange!Detail <=> Proven!Detail
    BY DEF Exchange!Detail, Proven!Detail, Exchange!Groups, Proven!Groups, Exchange!Subdivide, Proven!Subdivide, Exchange!NChunk, Proven!NChunk
<1>8. Exchange!Stream <=> Proven!Stream
    BY DEF Exchange!Stream, Proven!Stream, Exchange!Groups, Proven!Groups, Exchange!ToStream, Proven!ToStream
<1>9. \A p : Exchange!WritePage(p) <=> Proven!WritePage(p)
    BY DEF Exchange!WritePage, Proven!WritePage, Exchange!InsertPage, Proven!InsertPage, Exchange!ForReplica, Proven!ForReplica, Exchange!Content, Proven!Content, Exchange!InWal, Proven!InWal, Exchange!Larger, Proven!Larger, Exchange!ZeroImage, Proven!ZeroImage
<1>10. Exchange!Commit <=> Proven!Commit
    BY DEF Exchange!Commit, Proven!Commit, Exchange!NoRun, Proven!NoRun, Exchange!Committed, Proven!Committed, Exchange!Stamp, Proven!Stamp, Exchange!Truncate, Proven!Truncate, Exchange!Smaller, Proven!Smaller
<1>11. Exchange!Abort <=> Proven!Abort
    BY DEF Exchange!Abort, Proven!Abort, Exchange!NoRun, Proven!NoRun
<1>12. Exchange!Again <=> Proven!Again
    BY DEF Exchange!Again, Proven!Again, Exchange!NoRun, Proven!NoRun
<1>13. Exchange!vars = Proven!vars /\ Exchange!vars' = Proven!vars'
    BY DEF Exchange!vars, Proven!vars
<1>14. Exchange!Next <=> Proven!Next
    BY <1>2, <1>3, <1>4, <1>5, <1>6, <1>7, <1>8, <1>9, <1>10, <1>11, <1>12
       DEF Exchange!Next, Proven!Next
<1> QED
    BY <1>1, <1>13, <1>14 DEF Exchanges

LEMMA IsProven == ImplementsExchange => Proven!Spec
    BY SameExchange, PTL DEF ImplementsExchange, Exchange!Spec, Proven!Spec, Exchanges

LEMMA CommitsFromSending ==
    [Proven!Next]_(Proven!vars) /\ ~HasCommitted /\ HasCommitted'
        => /\ Proven!vars' # Proven!vars
           /\ Stage = "sending" /\ Stage' = "committed"
           /\ If({"announced", "hashing", "sending", "committed"}, snap, <<>>) = snap
<1> SUFFICES ASSUME [Proven!Next]_(Proven!vars), ~HasCommitted, HasCommitted'
             PROVE  /\ Proven!vars' # Proven!vars
                    /\ Stage = "sending" /\ Stage' = "committed"
                    /\ If({"announced", "hashing", "sending", "committed"}, snap, <<>>) = snap
    OBVIOUS
<1>1. Stage # "committed" /\ Stage' = "committed"
    BY DEF Stage
<1>2. Proven!vars' # Proven!vars
    BY <1>1 DEF Proven!vars
<1>3. Stage = "sending"
    BY <1>1, <1>2 DEF Proven!Next, Proven!OriginWrite, Proven!ReplicaWrite, Proven!Announce,
       Proven!Open, Proven!Compare, Proven!Detail, Proven!Stream, Proven!WritePage,
       Proven!Commit, Proven!Abort, Proven!Again
<1> QED
    BY <1>1, <1>2, <1>3 DEF If

LEMMA SameDatabase ==
    \A db : Proven!IsDatabase(db) <=> IsDatabase(db)
    BY DEF IsDatabase, Image, ZeroImage, Proven!IsDatabase, Proven!Image, Proven!ZeroImage

LEMMA ProvenMirrors == Proven!Spec => Proven!CommitMirrors
    BY PagesAssumption, RangeAssumption, SameDatabase, Proven!CommitsMirror
       DEF Image, ZeroImage, Proven!Image, Proven!ZeroImage

LEMMA ProvenDatabase == Proven!Spec => []IsDatabase(file)
<1>1. Proven!Spec => []Proven!FileIsDatabase
    BY PagesAssumption, RangeAssumption, SameDatabase, Proven!FileStaysDatabase
       DEF Image, ZeroImage, Proven!Image, Proven!ZeroImage
<1>2. Proven!FileIsDatabase => IsDatabase(file)
    BY SameDatabase DEF Proven!FileIsDatabase
<1> QED
    BY <1>1, <1>2, PTL

LEMMA ProvenCopy == Proven!Spec => Proven!ImplementsCopy
    BY PagesAssumption, RangeAssumption, SameDatabase, Proven!ExchangeImplementsCopy
       DEF Image, ZeroImage, Proven!Image, Proven!ZeroImage

\* The commit of a run leaves the pages of the snapshot the origin announced,
\* whatever was written to the origin since and whatever failed.  (With an
\* origin of no pages there is nothing to copy.)
CommitIsSnapshot ==
    [][~HasCommitted /\ HasCommitted' /\ snap # <<>> => Mirrors(file', snap)]_vars

LEMMA MirrorsSnapshot == Proven!Spec => CommitIsSnapshot
<1> DEFINE announced == If({"announced", "hashing", "sending", "committed"}, snap, <<>>)
           commits == Stage # "committed" /\ Stage' = "committed"
           mirrors == [commits /\ announced # <<>> => Proven!Mirrors(file', announced)]_(Proven!vars)
<1>1. ASSUME [Proven!Next]_(Proven!vars), mirrors
      PROVE  [~HasCommitted /\ HasCommitted' /\ snap # <<>> => Mirrors(file', snap)]_vars
  <2> SUFFICES ASSUME ~HasCommitted, HasCommitted', snap # <<>>
               PROVE  Mirrors(file', snap)
    OBVIOUS
  <2>1. Proven!Mirrors(file', snap) <=> Mirrors(file', snap)
    BY DEF Mirrors, Proven!Mirrors, SamePage, Proven!SamePage
  <2> QED
    BY <1>1, <2>1, CommitsFromSending
<1> QED
    BY <1>1, ProvenMirrors, PTL DEF Proven!CommitMirrors, Proven!Spec, CommitIsSnapshot

\* Runs over the wire keep the promise of SnapshotCopy: seen from outside, the
\* replica's file becomes a copy of the announced origin in one step, or is left
\* alone (sqlitersync/README.md, on the pages of a run: "they all stick or
\* vanish together").
THEOREM RunsImplementCopy == Spec \/ ResyncSpec => Proven!ImplementsCopy
    BY RunImplementsExchange, ResyncImplementsExchange, IsProven, ProvenCopy

\* After any prefix of any run, whatever failed in it, the replica's file is a
\* well-formed database (replica.go, ROLLBACK and COMMIT).
THEOREM RunsKeepDatabase == Spec \/ ResyncSpec => []IsDatabase(file)
    BY RunImplementsExchange, ResyncImplementsExchange, IsProven, ProvenDatabase

\* A commit makes the replica "a consistent snapshot of the origin as it was when
\* the sync started" (README.md; replica.go, the ORIGIN_TXN handler).
THEOREM RunsCommitSnapshot == Spec \/ ResyncSpec => CommitIsSnapshot
    BY RunImplementsExchange, ResyncImplementsExchange, IsProven, MirrorsSnapshot

(***************************************************************************)
(* A run over a replica that is up to date.                                *)
(***************************************************************************)

\* The beginning of msgs names no range that msgs does not.
LEMMA PrefixRanges ==
    ASSUME NEW a \in Seq(ReplicaMessages), NEW b \in Seq(ReplicaMessages),
           NEW r \in Nat \X Nat, Len(a) <= Len(b), \A k \in 1 .. Len(a) : a[k] = b[k]
    PROVE  HashedRanges(a, r) \subseteq HashedRanges(b, r)
<1> DEFINE A == Positions(a, r)
           B == Positions(b, r)
           G == HashesIn(a)
           H == HashesIn(b)
<1>1. PICK z \in Nat : z = 0
    OBVIOUS
<1>2. Len(a) + z <= Len(b) /\ \A k \in 1 .. Len(a) : a[k] = b[k + z]
    BY <1>1
<1>3. \A k \in 0 .. Len(a) : A[k] = B[k]
    <2>1. B[z] = r /\ \A k \in 0 .. Len(a) : k + z = k
        BY <1>1, PositionsUnfold
    <2>2. \A k \in 0 .. Len(a) : Positions(a, B[z])[k] = B[k + z]
        BY <1>2, PositionsShift
    <2> HIDE DEF B
    <2> QED
        BY <2>1, <2>2
<1>4. G \subseteq 1 .. Len(a) /\ G \subseteq H
    BY DEF HashesIn
<1>5. HashedRanges(a, r) = {A[k - 1] : k \in G} /\ HashedRanges(b, r) = {B[k - 1] : k \in H}
    BY DEF HashedRanges
<1> HIDE DEF A, B, G, H
<1>6. \A k \in G : k - 1 \in 0 .. Len(a)
    BY <1>4
<1> QED
    BY <1>3, <1>4, <1>5, <1>6

LEMMA NoRunOpen ==
    ASSUME ~TransactionOpen'
    PROVE  CheapInductive'
    BY DEF CheapInductive, UpToDate

\* Before the first round there is no transaction.
LEMMA NoRoundYet ==
    ASSUME SyncInductive, work' = work,
           \/ pc["origin"] = "start" \/ pc["replica"] \in {"start", "sql"}
           \/ Has(FromOrigin, {"ORIGIN_BEGIN"}) \/ Has(FromReplica, {"REPLICA_BEGIN"})
    PROVE  CheapInductive'
<1>1. Rounds = 0
    BY DEF SyncInductive, Stages
<1>2. work = <<>>
    BY <1>1 DEF SyncInductive, Exchanging
<1> QED
    BY <1>2, NoRunOpen DEF TransactionOpen

\* The transaction goes on.
LEMMA CheapStays ==
    ASSUME CheapInductive, UNCHANGED <<file, snap>>, TransactionOpen' => TransactionOpen,
           rs'["replica"].hashRounds = rs["replica"].hashRounds,
           rs["origin"].pageUpdates <= 1 => rs'["origin"].pageUpdates <= 1,
           ~Has(FromOrigin, {"ORIGIN_DETAIL", "ORIGIN_READY"})
             => ~Has(FromOrigin', {"ORIGIN_DETAIL", "ORIGIN_READY"}),
           ret'["origin"] = "none" => ret["origin"] = "none",
           UpToDate /\ OnlyPageOneDiffers /\ ret'["origin"] = "none" => OnlyPageOneDiffers'
    PROVE  CheapInductive'
<1>1. UpToDate' => UpToDate
    BY DEF UpToDate
<1> QED
    BY <1>1 DEF CheapInductive, Rounds

\* No hash is in flight.
LEMMA NothingComes ==
    ASSUME ~Has(FromReplica', {"REPLICA_CONFIG", "REPLICA_HASH", "REPLICA_READY"}),
           badHash' \subseteq {<<1, 1>>}
    PROVE  OnlyPageOneDiffers'
<1>1. ~Has(FromReplica', {"REPLICA_HASH"}) /\ ~Has(FromReplica', {"REPLICA_READY"})
    BY DEF Has
<1>2. HashedRanges(FromReplica', <<iHash', nHash'>>) = {}
    BY <1>1, NothingHashedIn
<1> QED
    BY <1>1, <1>2 DEF OnlyPageOneDiffers

\* Some of the round in flight is lost.
LEMMA RoundCut ==
    ASSUME SyncInductive, OnlyPageOneDiffers,
           NEW n \in 0 .. Len(FromReplica), FromReplica' = SubSeq(FromReplica, 1, n),
           UNCHANGED <<file, snap, work, iHash, nHash, mxHash, badHash>>
    PROVE  OnlyPageOneDiffers'
<1> DEFINE r == <<iHash, nHash>>
           types == {"REPLICA_CONFIG", "REPLICA_HASH", "REPLICA_READY"}
<1>1. WireTyped /\ OriginTyped /\ Conversation
    BY DEF SyncInductive, Typed
<1>2. /\ FromReplica \in Seq(Message) /\ FromReplica \in Seq(ReplicaMessages)
      /\ InOrder(FromReplica) /\ r \in Nat \X Nat
    BY <1>1, Conversing, RsyncAssumption DEF OriginTyped
<1>3. /\ FromReplica' \in Seq(ReplicaMessages) /\ Len(FromReplica') = n
      /\ \A k \in 1 .. n : FromReplica'[k] = FromReplica[k]
      /\ DOMAIN FromReplica' = 1 .. n /\ 1 .. n \subseteq DOMAIN FromReplica
      /\ n <= Len(FromReplica)
    BY <1>2, PrefixWithin
<1>4. HashedRanges(FromReplica', r) \subseteq HashedRanges(FromReplica, r)
    <2> HIDE DEF r
    <2> QED
        BY <1>2, <1>3, PrefixRanges
<1>5. Has(FromReplica', types) => Has(FromReplica, types)
    BY <1>3 DEF Has
<1>6. ASSUME Has(FromReplica', {"REPLICA_READY"})
      PROVE  Has(FromReplica, {"REPLICA_READY"}) /\ FromReplica' = FromReplica
    <2>1. PICK k \in 1 .. n : FromReplica[k].type = "REPLICA_READY"
        BY <1>3, <1>6 DEF Has
    <2>2. ~\E j \in DOMAIN FromReplica : k < j
        BY <1>2, <1>3, <2>1, LastWords DEF InOrder
    <2>3. n = Len(FromReplica)
        BY <1>2, <2>2
    <2> QED
        BY <1>2, <1>3, <2>1, <2>3, WholePrefix DEF Has
<1>7. r = <<iHash', nHash'>>
    OBVIOUS
<1> HIDE DEF r, types
<1> QED
    BY <1>4, <1>5, <1>6, <1>7 DEF OnlyPageOneDiffers, r, types

LEMMA CutIsCheap ==
    ASSUME SyncInductive, CheapInductive, Cut, UNCHANGED <<rs, originVars, replicaVars>>,
           \A s \in Sides : ret'[s] = "none" => ret[s] = "none",
           pc["replica"] = "done" => pc'["replica"] = "done"
    PROVE  CheapInductive'
<1>1. PICK i \in 0 .. Len(FromOrigin) : FromOrigin' = SubSeq(FromOrigin, 1, i)
    BY DEF Cut, Sides, FromOrigin
<1>2. PICK j \in 0 .. Len(FromReplica) : FromReplica' = SubSeq(FromReplica, 1, j)
    BY DEF Cut, Sides, FromReplica
<1>3. UNCHANGED <<file, snap, work, iHash, nHash, mxHash, badHash, rs>>
    BY DEF originVars, replicaVars, exchange, txn
<1>4. FromOrigin \in Seq(Message)
    BY Conversing DEF SyncInductive, Typed
<1>5. \A types : Has(FromOrigin', types) => Has(FromOrigin, types)
    BY <1>1, <1>4, PrefixWithin DEF Has
<1>6. OnlyPageOneDiffers => OnlyPageOneDiffers'
    BY <1>2, <1>3, RoundCut
<1>7. TransactionOpen' => TransactionOpen
    BY <1>3 DEF TransactionOpen
<1> QED
    BY <1>3, <1>5, <1>6, <1>7, CheapStays DEF Sides

LEMMA StreamIsCheap ==
    ASSUME SyncInductive, CheapInductive, NEW s \in Sides, StreamRuns(s)
    PROVE  CheapInductive'
<1>1. WireTyped /\ UNCHANGED <<rs, originVars, replicaVars>>
    BY DEF SyncInductive, Typed, StreamRuns
<1>2. CASE Transfer(s)
    <2>1. Cut
        BY <1>1, <1>2, Transferring, NothingCut
    <2> QED
        BY <1>1, <1>2, <2>1, CutIsCheap DEF Transfer
<1>3. CASE Flushed(s)
    <2>1. \A x \in Sides : InFlight(x)' = InFlight(x)
        BY <1>3 DEF Flushed, InFlight
    <2>2. pc["replica"] = "done" => pc'["replica"] = "done"
        BY <1>1, <1>3 DEF Flushed, WireTyped, Sides
    <2> QED
        BY <1>1, <1>3, <2>1, <2>2, NothingCut, CutIsCheap DEF Flushed
<1>4. CASE WriteFails(s)
    <2>1. /\ \A x \in Sides : ret'[x] = "none" => ret[x] = "none"
          /\ pc["replica"] = "done" => pc'["replica"] = "done"
        BY <1>1, <1>4 DEF WriteFails, WireTyped, Sides
    <2>2. Cut
        BY <1>1, <1>4, BufferLost DEF WriteFails
    <2> QED
        BY <1>1, <2>1, <2>2, CutIsCheap
<1>5. CASE StreamEnds(s)
    <2>1. PICK r \in {"nil", "error"} : Return(s, r)
        BY <1>5 DEF StreamEnds
    <2>2. \A x \in Sides : InFlight(x)' = InFlight(x)
        BY <1>5, <2>1 DEF InFlight, StreamEnds, Return
    <2>3. /\ \A x \in Sides : ret'[x] = "none" => ret[x] = "none"
          /\ pc["replica"] = "done" => pc'["replica"] = "done"
        BY <1>1, <2>1 DEF Return, WireTyped, Sides
    <2> QED
        BY <1>1, <2>2, <2>3, NothingCut, CutIsCheap
<1>6. CASE CallerCloses(s)
    <2>1. \A x \in Sides : InFlight(x)' = InFlight(x)
        BY <1>6 DEF CallerCloses, InFlight
    <2> QED
        BY <1>1, <1>6, <2>1, NothingCut, CutIsCheap DEF CallerCloses
<1> QED
    BY <1>2, <1>3, <1>4, <1>5, <1>6 DEF StreamRuns, StreamStep

LEMMA FaultIsCheap ==
    ASSUME SyncInductive, CheapInductive, NEW s \in Sides,
           Kill(s) \/ Cancel(s) \/ Cancelled(s) \/ LinkFault
    PROVE  CheapInductive'
<1>1. WireTyped /\ UNCHANGED <<rs, originVars, replicaVars>>
    BY DEF SyncInductive, Typed, Kill, Cancel, Cancelled, LinkFault
<1>2. /\ \A x \in Sides : ret'[x] = "none" => ret[x] = "none"
      /\ pc["replica"] = "done" => pc'["replica"] = "done"
    BY <1>1 DEF Kill, Crashes, Cancel, Cancels, Cancelled, CancelledRead, CancelledWrite, Return,
       LinkFault, LinkBreaks, WireTyped, Sides
<1>3. Cut
    <2>1. CASE Kill(s)
        BY <1>1, <2>1, BufferLost DEF Kill, Crashes
    <2>2. CASE Cancel(s)
        BY <1>1, <2>2, NothingCut DEF Cancel, Cancels, InFlight
    <2>3. CASE Cancelled(s)
        <3>1. chan' = chan /\ linkUp' = linkUp
            BY <2>3 DEF Cancelled, CancelledRead, CancelledWrite, Return
        <3>2. CASE out' = out
            BY <1>1, <3>1, <3>2, NothingCut DEF InFlight
        <3>3. CASE out' = [out EXCEPT ![s] = <<>>]
            BY <1>1, <3>1, <3>3, BufferLost
        <3> QED
            BY <2>3, <3>2, <3>3 DEF Cancelled, CancelledRead, CancelledWrite, Return
    <2>4. CASE LinkFault
        BY <1>1, <2>4, LinkLost DEF LinkFault
    <2> QED
        BY <2>1, <2>2, <2>3, <2>4
<1> QED
    BY <1>1, <1>2, <1>3, CutIsCheap

(***************************************************************************)
(* The replica over an origin it already has the pages of.                 *)
(***************************************************************************)

\* The transaction is not open yet, or not any more.
LEMMA ClosedIsCheap ==
    ASSUME SyncInductive, UNCHANGED originVars,
           \/ ReplicaCommCheck \/ ReplicaStart \/ OnOriginEnd \/ OnOriginError
           \/ OnOriginBeginTooNew \/ OnOriginBegin \/ OpenTransactionFails \/ OnOriginTxn
    PROVE  CheapInductive'
<1>1. WireTyped
    BY DEF SyncInductive, Typed
<1>2. CASE ReplicaCommCheck \/ ReplicaStart \/ OpenTransactionFails
    BY <1>2, NoRoundYet DEF ReplicaCommCheck, ReplicaStart, OpenTransactionFails, replicaVars, txn
<1>3. CASE OnOriginBeginTooNew \/ OnOriginBegin
    <2>1. Receives("replica", "ORIGIN_BEGIN") /\ work' = work
        BY <1>3 DEF OnOriginBeginTooNew, OnOriginBegin
    <2>2. Has(FromOrigin, {"ORIGIN_BEGIN"})
        BY <1>1, <2>1, Heard DEF FromOrigin, Peer, Sides
    <2> QED
        BY <2>1, <2>2, NoRoundYet
<1>4. CASE OnOriginEnd \/ OnOriginError
    <2>1. pc'["replica"] = "done"
        BY <1>1, <1>4 DEF OnOriginEnd, OnOriginError, EndsRun, Return, WireTyped, Sides
    <2> QED
        BY <2>1, NoRunOpen DEF TransactionOpen
<1>5. CASE OnOriginTxn
    BY <1>5, NoRunOpen DEF OnOriginTxn, TransactionOpen
<1> QED
    BY <1>2, <1>3, <1>4, <1>5

\* Nothing asks a replica that is up to date for detail.
LEMMA NoSecondRound ==
    ASSUME SyncInductive, CheapInductive, UNCHANGED originVars,
           OnOriginDetail \/ OnOriginReady \/ OnOriginReadyFails
    PROVE  CheapInductive'
<1>1. WireTyped
    BY DEF SyncInductive, Typed
<1>2. PICK type \in {"ORIGIN_DETAIL", "ORIGIN_READY"} : Receives("replica", type)
    BY DEF OnOriginDetail, OnOriginReady, OnOriginReadyFails
<1>3. Has(FromOrigin, {type}) /\ pc["replica"] = "read"
    BY <1>1, <1>2, Heard DEF FromOrigin, Peer, Sides, Receives
<1>4. ~UpToDate
    BY <1>3 DEF CheapInductive, Has
<1>5. UNCHANGED <<file, snap, work>>
    BY DEF OnOriginDetail, OnOriginReady, OnOriginReadyFails, originVars, replicaVars, txn
<1>6. ~UpToDate'
    BY <1>3, <1>4, <1>5 DEF UpToDate, TransactionOpen
<1> QED
    BY <1>6 DEF CheapInductive

LEMMA OnOriginMsgIsCheap ==
    ASSUME SyncInductive, CheapInductive, OnOriginMsg, UNCHANGED originVars
    PROVE  CheapInductive'
<1>1. WireTyped /\ Conversation /\ Receives("replica", "ORIGIN_MSG")
    BY DEF SyncInductive, Typed, OnOriginMsg, Drop
<1>2. /\ chan' = Consumed("replica") /\ ReadOn
      /\ UNCHANGED <<rs, file, snap, work, iHash, nHash, mxHash, badHash, out, pc, ret, linkUp>>
    BY DEF OnOriginMsg, Drop, ReadOn, originVars, exchange, replicaVars, txn
<1>3. /\ FromOrigin # <<>> /\ FromOrigin' = Tail(FromOrigin) /\ chan'["replica"] = chan["replica"]
    BY <1>1, <1>2, Reading DEF FromOrigin, Peer, Sides
<1>4. FromReplica' = FromReplica
    BY <1>2, <1>3 DEF FromReplica, InFlight
<1>5. \A types : Has(FromOrigin', types) => Has(FromOrigin, types)
    BY <1>1, <1>3, Conversing, HasTail
<1>6. OnlyPageOneDiffers => OnlyPageOneDiffers'
    BY <1>2, <1>4 DEF OnlyPageOneDiffers
<1> QED
    BY <1>2, <1>5, <1>6, CheapStays DEF TransactionOpen

\* While pages are written no hash is in flight.
LEMMA WritingIsCheap ==
    ASSUME SyncInductive, CheapInductive, UNCHANGED originVars,
           OnOriginPage \/ OnOriginPageFails \/ OnOriginTxnFails
    PROVE  CheapInductive'
<1>1. /\ WireTyped /\ RolesInStep /\ Conversation /\ Turns /\ rs \in [Sides -> Structs]
    BY DEF SyncInductive, Typed
<1>2. /\ chan' = Consumed("replica") /\ UNCHANGED <<file, snap, badHash>>
      /\ \E type \in {"ORIGIN_PAGE", "ORIGIN_TXN"} : Receives("replica", type)
      /\ rs' = rs \/ rs' = [rs EXCEPT !["replica"].pageUpdates = @ + 1]
    BY DEF OnOriginPage, OnOriginPageFails, OnOriginTxnFails, originVars, exchange, replicaVars, txn
<1>3. PICK type \in {"ORIGIN_PAGE", "ORIGIN_TXN"} : Receives("replica", type)
    BY <1>2
<1>4. /\ rs'["origin"] = rs["origin"] /\ rs'["replica"].hashRounds = rs["replica"].hashRounds
      /\ SameOptions
    BY <1>1, <1>2, PageCounted DEF SameOptions, Sides
<1>5. pc["replica"] = "read" /\ Has(FromOrigin, {type})
    BY <1>1, <1>3, Heard DEF FromOrigin, Peer, Sides, Receives
<1>6. TransactionOpen
    <2>1. Has(FromOrigin, {"ORIGIN_DETAIL", "ORIGIN_READY", "ORIGIN_PAGE", "ORIGIN_TXN"})
        BY <1>5 DEF Has
    <2> QED
        BY <1>5, <2>1 DEF SyncInductive, Exchanging, TransactionOpen
<1>7. /\ FromOrigin # <<>> /\ FromOrigin' = Tail(FromOrigin) /\ ret'["origin"] = ret["origin"]
      /\ ~Has(FromReplica', {"REPLICA_CONFIG", "REPLICA_HASH", "REPLICA_READY"})
    <2>1. CASE OnOriginPage
        <3>1. ReadOn
            BY <2>1 DEF OnOriginPage
        <3>2. /\ FromOrigin # <<>> /\ Head(FromOrigin).type = type
              /\ FromOrigin' = Tail(FromOrigin) /\ chan'["replica"] = chan["replica"]
            BY <1>1, <1>2, <1>3, <3>1, Reading DEF FromOrigin, Peer, Sides, ReadOn
        <3>3. FromReplica = <<>>
            BY <1>5, <3>2, ReplicaHears
        <3>4. FromReplica' = FromReplica
            BY <3>1, <3>2 DEF FromReplica, InFlight, ReadOn
        <3> QED
            BY <3>1, <3>2, <3>3, <3>4, HasNothing DEF ReadOn
    <2>2. CASE OnOriginPageFails \/ OnOriginTxnFails
        <3> DEFINE e == [type |-> "REPLICA_ERROR"]
                   msgs == Append(<<>>, e)
        <3>1. e \in ReplicaMessages /\ e.type = "REPLICA_ERROR"
            BY DEF ReplicaMessages
        <3>2. Push("replica", msgs, "error")
            BY <2>2 DEF OnOriginPageFails, OnOriginTxnFails, ReplicaFails, FailAfter
        <3> HIDE DEF e
        <3>3. msgs \in Seq(ReplicaMessages) /\ ~Has(msgs, {"REPLICA_CONFIG", "REPLICA_HASH", "REPLICA_READY"})
            BY <3>1 DEF Has
        <3> HIDE DEF msgs
        <3>4. /\ FromOrigin # <<>> /\ FromOrigin' = Tail(FromOrigin)
              /\ FromReplica' = (IF linkUp THEN msgs ELSE <<>>) /\ ret'["origin"] = ret["origin"]
            BY <1>1, <1>2, <1>3, <1>4, <3>2, <3>3, ReplicaAnswers
        <3> QED
            BY <3>3, <3>4, HasNothing
    <2> QED
        BY <2>1, <2>2
<1>8. \A types : Has(FromOrigin', types) => Has(FromOrigin, types)
    BY <1>1, <1>7, Conversing, HasTail
<1>9. OnlyPageOneDiffers => OnlyPageOneDiffers'
    BY <1>2, <1>7, NothingComes DEF OnlyPageOneDiffers
<1> QED
    BY <1>2, <1>4, <1>6, <1>7, <1>8, <1>9, CheapStays

\* The first batch has page 1 in no group.
LEMMA FirstAlone ==
    ASSUME NEW n \in Nat \ {0}, NEW v \in {1, 2}, NEW r \in FirstRanges(v, n), r[1] = 1
    PROVE  r[2] = 1
<1>1. CASE v < 2 \/ n <= FlatMax
    <2>1. r \in {<<p, 1>> : p \in 1 .. n}
        BY <1>1 DEF FirstRanges
    <2> QED
        BY <2>1
<1>2. CASE ~(v < 2 \/ n <= FlatMax)
    <2>1. r = <<1, 1>> \/ r \in Subdivide(2, n - 1)
        BY <1>2 DEF FirstRanges, ReplaceInto
    <2>2. ASSUME NEW q \in Subdivide(2, n - 1) PROVE q[1] >= 2
        <3>1. PICK m \in {2} \union (2 .. ((2 + (n - 1)) - 1)) : q[1] = m
            BY DEF Subdivide
        <3> QED
            BY <3>1
    <2> QED
        BY <2>1, <2>2
<1> QED
    BY <1>1, <1>2

LEMMA OpenTransactionIsCheap ==
    ASSUME SyncInductive, OpenTransaction, UNCHANGED originVars
    PROVE  CheapInductive'
<1> DEFINE db == Opened(file)
           v == rs["replica"].protocol
           S == FirstRanges(v, Len(db))
           said == Append(HashMessages(db, S, 1, 1), [type |-> "REPLICA_READY"])
           c == Cardinality(S)
           from == <<1, 1>>
<1>1. rs \in [Sides -> Structs]
    BY DEF SyncInductive, Typed
<1>2. /\ db \in Seq(Image) /\ db # <<>> /\ IsFiniteSet(S) /\ \A r \in S : Bounded(r)
    BY FirstRound
<1>3. v \in 1 .. 2
    BY <1>1 DEF Structs, Sides, ProtocolVersion
<1>4. work' = db /\ Push("replica", said, "none") /\ rs' = Counted(c, 1)
    <2>1. work' = db
        BY DEF OpenTransaction
    <2>2. /\ Push("replica", Append(HashMessages(work',
                 FirstRanges(rs["replica"].protocol, Len(work')), 1, 1),
                 [type |-> "REPLICA_READY"]), "none")
          /\ rs' = Counted(Cardinality(FirstRanges(rs["replica"].protocol, Len(work'))), 1)
        BY DEF OpenTransaction, SendHashMessages, Send
    <2> QED
        BY <2>1, <2>2
<1>5. /\ pc["replica"] = "sql" /\ chan' = chan
      /\ UNCHANGED <<file, snap, iHash, nHash, badHash>>
    BY DEF OpenTransaction, originVars, exchange
<1>6. /\ Len(db) \in Nat \ {0} /\ v \in {1, 2}
      /\ Len(file) = Len(snap) => Len(snap) <= Len(db) /\ Len(snap) \in Nat
    <2>1. Len(snap) \in Nat
        BY SnapIs DEF SyncInductive, Typed
    <2>2. Len(file) = Len(snap) => Len(snap) <= Len(db)
        BY <1>2, <2>1 DEF Opened
    <2> QED
        BY <1>2, <1>3, <2>1, <2>2
<1> HIDE DEF db, v
<1>7. Apart(S) /\ PagesOf(S) = 1 .. Len(db) /\ \A r \in S : r[1] = 1 => r[2] = 1
    BY <1>6, FirstApart, FirstAlone
<1> HIDE DEF S
<1>8. from \in Nat \X Nat /\ from = <<1, 1>> /\ 1 \in Nat /\ PagesOf(S) \subseteq 1 .. Len(db)
    BY <1>7
<1> HIDE DEF from
<1>9. said \in Seq(ReplicaMessages) /\ HashedRanges(said, from) = S
    BY <1>2, <1>7, <1>8, RoundSaid
<1> HIDE DEF said
<1>10. SameReplicaTerms /\ rs'["replica"].hashRounds = rs["replica"].hashRounds + 1
    <2>1. c \in Nat /\ 1 \in Nat
        BY <1>2, FS_CardinalityType
    <2> HIDE DEF c
    <2> QED
        BY <1>1, <1>4, <2>1, CountedIs
<1>11. SameOptions /\ rs'["origin"] = rs["origin"]
    BY <1>10 DEF SameReplicaTerms, SameOptions, Sides
<1>12. /\ FromOrigin' = <<>> /\ FromReplica' = (IF linkUp THEN said ELSE <<>>)
       /\ Rounds = 0 /\ NothingHashed
    BY <1>4, <1>5, <1>9, <1>11, ReplicaOpens
<1>13. Rounds' = 1 /\ rs'["origin"].pageUpdates = 0
    BY <1>10, <1>11, <1>12 DEF Rounds, NothingHashed, Sides
<1>14. ASSUME Len(file) = Len(snap), FromReplica' = said
       PROVE  OnlyPageOneDiffers'
    <2>1. HashedRanges(FromReplica', <<iHash', nHash'>>) = S /\ badHash' = {}
        BY <1>5, <1>8, <1>9, <1>12, <1>14 DEF NothingHashed
    <2>2. \A r \in S : r[1] \in 1 .. Len(db)
        BY <1>2, <1>7, OwnFirst DEF PagesOf
    <2>3. \E r \in S : r[1] + r[2] > Len(snap)
        <3>1. PICK r \in S : Len(db) \in PagesIn(r)
            BY <1>6, <1>7 DEF PagesOf
        <3>2. r[1] \in Nat /\ r[2] \in Nat
            BY <1>2, OwnFirst
        <3> QED
            BY <1>6, <1>14, <3>1, <3>2 DEF PagesIn
    <2> QED
        BY <1>4, <1>5, <1>7, <2>1, <2>2, <2>3 DEF OnlyPageOneDiffers, db
<1>15. ASSUME UpToDate' PROVE OnlyPageOneDiffers'
    <2>1. Len(file) = Len(snap)
        BY <1>5, <1>15 DEF UpToDate, Mirrors
    <2>2. CASE FromReplica' = <<>>
        <3>1. badHash' = {}
            BY <1>5, <1>12 DEF NothingHashed
        <3> QED
            BY <2>2, <3>1, NothingComes, HasNothing
    <2> QED
        BY <1>12, <1>14, <2>1, <2>2
<1> QED
    BY <1>12, <1>13, <1>15, HasNothing DEF CheapInductive

(***************************************************************************)
(* The origin that hears of nothing but its own pages.                     *)
(***************************************************************************)

\* Of two files alike, a range that page 1 is not in has one hash.
LEMMA SameHash ==
    ASSUME IsDatabase(file), IsDatabase(snap), Mirrors(file, snap),
           NEW r, Bounded(r), r[1] \in 1 .. Len(Opened(file)), r[1] # 1
    PROVE  /\ HashOf(snap, r[1], r[2]) = HashOf(Opened(file), r[1], r[2])
           /\ ~IsNull(HashOf(snap, r[1], r[2]))
<1> DEFINE f == r[1]
           n == r[2]
           e == Existing(snap, f, n)
<1>1. f \in Nat /\ f >= 2 /\ n \in Nat \ {0}
    BY DEF Bounded, PageRange
<1>2. file \in Seq(Image) /\ snap \in Seq(Image) /\ Len(file) = Len(snap)
    BY DEF IsDatabase, Mirrors
<1>3. file # <<>>
    <2>1. Len(<<EmptyImage>>) = 1
        OBVIOUS
    <2> QED
        BY <1>1, <2>1 DEF Opened
<1>4. Opened(file) = file
    BY <1>3 DEF Opened
<1>5. Existing(file, f, n) = e
    BY <1>2 DEF Existing
<1>6. e \in Nat /\ e >= 1 /\ f + e <= Len(snap) + 1
    BY <1>1, <1>2, <1>4 DEF Existing, Smaller
<1> HIDE DEF e
<1>7. ASSUME NEW i \in 1 .. e PROVE file[f + i - 1] = snap[f + i - 1]
    <2>1. (f + i) - 1 \in 2 .. Len(snap)
        BY <1>1, <1>2, <1>6
    <2> DEFINE p == (f + i) - 1
    <2>2. CASE p = LockBytePage
        BY <1>2, <2>1, <2>2 DEF IsDatabase
    <2>3. CASE p # LockBytePage
        BY <1>2, <2>1, <2>3 DEF Mirrors, SamePage
    <2> QED
        BY <2>2, <2>3
<1>8. HashOf(snap, f, n) = HashOf(file, f, n)
    BY <1>5, <1>7 DEF HashOf, e
<1>9. 1 \in DOMAIN HashOf(snap, f, n).pages
    BY <1>6 DEF HashOf, e
<1>10. ~IsNull(HashOf(snap, f, n))
    BY <1>9 DEF IsNull
<1> QED
    BY <1>4, <1>8, <1>10

\* The origin has nothing announced, or is done.
LEMMA OriginOutIsCheap ==
    ASSUME SyncInductive, CheapInductive, UNCHANGED replicaVars,
           \/ OriginCommCheck \/ OriginStart \/ OriginRefuses
           \/ OnReplicaBegin \/ OnReplicaEnd \/ OnReplicaError
    PROVE  CheapInductive'
<1>1. WireTyped /\ work' = work
    BY DEF SyncInductive, Typed, replicaVars, txn
<1>2. CASE OriginCommCheck \/ OriginStart \/ OriginRefuses
    BY <1>1, <1>2, NoRoundYet DEF OriginCommCheck, OriginStart, OriginRefuses
<1>3. CASE OnReplicaBegin
    <2>1. Has(FromReplica, {"REPLICA_BEGIN"})
        BY <1>1, <1>3, Heard DEF OnReplicaBegin, FromReplica, Peer, Sides
    <2> QED
        BY <1>1, <2>1, NoRoundYet
<1>4. CASE OnReplicaEnd \/ OnReplicaError
    <2>1. PICK r \in {"nil", "error"} : Return("origin", r)
        BY <1>4 DEF OnReplicaEnd, OnReplicaError, EndsRun
    <2>2. PICK type : Receives("origin", type) /\ chan' = Consumed("origin")
        BY <1>4 DEF OnReplicaEnd, OnReplicaError, EndsRun
    <2>3. chan'["origin"] = chan["origin"]
        BY <1>1, <2>1, <2>2, Reading DEF Return, Peer, Sides
    <2>4. FromOrigin' = FromOrigin
        BY <2>1, <2>3 DEF FromOrigin, InFlight, Return
    <2>5. ret'["origin"] # "none" /\ pc'["replica"] = pc["replica"]
        BY <1>1, <2>1 DEF Return, WireTyped, Sides
    <2>6. UNCHANGED <<rs, file, snap>>
        BY <1>4 DEF OnReplicaEnd, OnReplicaError, EndsRun, originVars, replicaVars
    <2> QED
        BY <1>1, <2>4, <2>5, <2>6, CheapStays DEF TransactionOpen
<1> QED
    BY <1>2, <1>3, <1>4

LEMMA OnReplicaMsgIsCheap ==
    ASSUME SyncInductive, SyncInductive', CheapInductive, OnReplicaMsg, UNCHANGED replicaVars
    PROVE  CheapInductive'
<1>1. /\ WireTyped /\ RolesInStep /\ Conversation /\ Turns /\ Turns'
    BY DEF SyncInductive, Typed
<1>2. /\ Receives("origin", "REPLICA_MSG") /\ chan' = Consumed("origin") /\ ReadOn
      /\ UNCHANGED <<rs, file, snap, work, badHash, pc, ret>>
    BY DEF OnReplicaMsg, Drop, ReadOn, originVars, exchange, replicaVars, txn
<1>3. SameOptions
    BY <1>2 DEF SameOptions
<1>4. FromReplica # <<>> /\ Head(FromReplica).type = "REPLICA_MSG" /\ FromOrigin' = FromOrigin
    BY <1>1, <1>2, <1>3, OriginTakes
<1>5. rs["replica"].commCheck
    <2>1. FromReplica \in Seq(Message)
        BY <1>1, Conversing
    <2>2. 1 \in DOMAIN FromReplica /\ FromReplica[1].type = "REPLICA_MSG"
        BY <1>4, <2>1
    <2> QED
        BY <1>1, <2>2 DEF Turns
<1>6. ~Has(FromReplica', {"REPLICA_CONFIG", "REPLICA_HASH", "REPLICA_READY"})
    BY <1>1, <1>2, <1>5 DEF Turns, Has
<1>7. OnlyPageOneDiffers => OnlyPageOneDiffers'
    BY <1>2, <1>6, NothingComes DEF OnlyPageOneDiffers
<1> QED
    BY <1>2, <1>4, <1>7, CheapStays DEF TransactionOpen

LEMMA OnReplicaConfigIsCheap ==
    ASSUME SyncInductive, CheapInductive, OnReplicaConfig, UNCHANGED replicaVars
    PROVE  CheapInductive'
<1>1. WireTyped /\ OriginTyped /\ RolesInStep /\ Conversation
    BY DEF SyncInductive, Typed
<1>2. /\ Receives("origin", "REPLICA_CONFIG") /\ chan' = Consumed("origin") /\ ReadOn
      /\ UNCHANGED <<rs, snap, mxHash, badHash, file, work, pc, ret>>
      /\ iHash' = Head(Incoming("origin")).fpg /\ nHash' = Head(Incoming("origin")).npg
    BY DEF OnReplicaConfig, ReadOn, replicaVars, txn
<1>3. SameOptions
    BY <1>2 DEF SameOptions
<1>4. /\ FromReplica # <<>> /\ Head(FromReplica) = Head(Incoming("origin"))
      /\ Head(FromReplica).type = "REPLICA_CONFIG" /\ FromReplica' = Tail(FromReplica)
      /\ FromOrigin' = FromOrigin
    BY <1>1, <1>2, <1>3, OriginTakes
<1>5. /\ FromReplica \in Seq(Message) /\ FromReplica \in Seq(ReplicaMessages)
      /\ <<iHash, nHash>> \in Nat \X Nat
    BY <1>1, Conversing, RsyncAssumption DEF OriginTyped
<1>6. Advanced(<<iHash, nHash>>, Head(FromReplica)) = <<iHash', nHash'>>
    BY <1>2, <1>4 DEF Advanced
<1>7. HashedRanges(FromReplica, <<iHash, nHash>>)
        = HashedRanges(FromReplica', <<iHash', nHash'>>)
    BY <1>4, <1>5, <1>6, TailRanges
<1>8. \A types : Has(FromReplica', types) => Has(FromReplica, types)
    BY <1>4, <1>5, HasTail
<1>9. OnlyPageOneDiffers => OnlyPageOneDiffers'
    BY <1>2, <1>7, <1>8 DEF OnlyPageOneDiffers
<1> QED
    BY <1>2, <1>4, <1>9, CheapStays DEF TransactionOpen

LEMMA OnReplicaHashIsCheap ==
    ASSUME SyncInductive, IsDatabase(file), CheapInductive, OnReplicaHash, UNCHANGED replicaVars
    PROVE  CheapInductive'
<1>1. /\ WireTyped /\ OriginTyped /\ RolesInStep /\ Conversation /\ CountersNameRanges
      /\ rs \in [Sides -> Structs]
    BY DEF SyncInductive, Typed
<1> DEFINE r == <<iHash, nHash>>
           own == HashOf(snap, iHash, nHash)
           match == ~IsNull(own) /\ own = Head(Incoming("origin")).hash
<1>2. /\ Receives("origin", "REPLICA_HASH") /\ chan' = Consumed("origin") /\ ReadOn
      /\ rs' = [rs EXCEPT !["origin"].hashMessages = @ + 1]
      /\ UNCHANGED <<snap, file, work, pc, ret>>
      /\ iHash' = Plus(iHash, nHash) /\ nHash' = nHash
      /\ mxHash' = Larger(mxHash, Plus(iHash, nHash))
      /\ badHash' = IF match THEN badHash ELSE badHash \union {r}
    BY DEF OnReplicaHash, ReadOn, replicaVars, txn
<1>3. /\ rs'["replica"] = rs["replica"] /\ rs'["origin"].commCheck = rs["origin"].commCheck
      /\ rs'["origin"].pageUpdates = rs["origin"].pageUpdates
    BY <1>1, <1>2, HashCounted
<1>4. SameOptions
    BY <1>3 DEF SameOptions, Sides
<1>5. /\ ret["origin"] = "none"
      /\ FromReplica # <<>> /\ Head(FromReplica) = Head(Incoming("origin"))
      /\ Head(FromReplica).type = "REPLICA_HASH" /\ FromReplica' = Tail(FromReplica)
      /\ FromOrigin' = FromOrigin
    BY <1>1, <1>2, <1>4, OriginTakes
<1>6. /\ FromReplica \in Seq(Message) /\ FromReplica \in Seq(ReplicaMessages)
      /\ r \in Nat \X Nat /\ iHash \in Nat /\ nHash \in Nat /\ mxHash \in Nat
    BY <1>1, Conversing, RsyncAssumption DEF OriginTyped
<1>7. \A types : Has(FromReplica, types)
                    <=> Head(FromReplica).type \in types \/ Has(FromReplica', types)
    BY <1>5, <1>6, HasTail
<1> DEFINE rest == HashedRanges(FromReplica', <<iHash', nHash'>>)
<1>8. HashedRanges(FromReplica, r) = rest \union {r}
    <2>1. Advanced(r, Head(FromReplica)) = <<iHash', nHash'>>
        BY <1>2, <1>5 DEF Advanced
    <2> HIDE DEF r
    <2> QED
        BY <1>5, <1>6, <2>1, TailRanges
<1>9. ASSUME UpToDate, OnlyPageOneDiffers
      PROVE  OnlyPageOneDiffers'
    <2>1. work = Opened(file) /\ work # <<>>
        BY <1>5, <1>7, <1>9 DEF OnlyPageOneDiffers, UpToDate, TransactionOpen
    <2>2. Bounded(r) /\ Head(FromReplica).hash = HashOf(work, r[1], r[2])
        <3>1. NamesRanges(FromReplica, r, work)
            BY <1>1, <1>5 DEF CountersNameRanges
        <3> HIDE DEF r
        <3> QED
            BY <1>5, <1>6, <2>1, <3>1, TailNamesRanges
    <2>3. Plus(iHash, nHash) = r[1] + r[2] /\ r[1] = iHash /\ r[2] = nHash
        BY <1>6, <2>2, PlusIs DEF Bounded
    <2>4. /\ \A q \in rest \union {r} : q[1] \in 1 .. Len(work) /\ (q[1] = 1 => q[2] = 1)
          /\ badHash \subseteq {<<1, 1>>}
        BY <1>8, <1>9 DEF OnlyPageOneDiffers
    <2>5. r[1] # 1 => match
        <3> SUFFICES ASSUME r[1] # 1 PROVE match
            OBVIOUS
        <3>1. IsDatabase(snap)
            <4>1. Len(<<>>) = 0 /\ LockBytePage \in Nat \ {0, 1}
                BY PagesAssumption
            <4>2. snap \in OriginFiles \/ snap = <<>>
                BY <1>1 DEF OriginTyped
            <4>3. IsDatabase(<<>>)
                BY <4>1 DEF IsDatabase
            <4> QED
                BY <4>2, <4>3, PagesAssumption
        <3>2. r[1] \in 1 .. Len(Opened(file))
            BY <2>1, <2>4
        <3> HIDE DEF r
        <3>3. /\ HashOf(snap, r[1], r[2]) = HashOf(Opened(file), r[1], r[2])
              /\ ~IsNull(HashOf(snap, r[1], r[2]))
            BY <1>9, <2>2, <3>1, <3>2, SameHash DEF UpToDate
        <3> QED
            BY <1>5, <2>1, <2>2, <2>3, <3>3
    <2>6. badHash' \subseteq {<<1, 1>>}
        <3>1. r[1] = 1 => r = <<1, 1>>
            BY <2>3, <2>4
        <3> HIDE DEF match
        <3> QED
            BY <1>2, <2>4, <2>5, <3>1
    <2>7. Has(FromReplica', {"REPLICA_CONFIG", "REPLICA_HASH", "REPLICA_READY"}) => work' = Opened(file')
        BY <1>2, <2>1
    <2>8. Has(FromReplica', {"REPLICA_READY"})
            => mxHash' > Len(snap') \/ \E q \in rest : q[1] + q[2] > Len(snap')
        <3> SUFFICES ASSUME Has(FromReplica', {"REPLICA_READY"}), mxHash' <= Len(snap)
                     PROVE  \E q \in rest : q[1] + q[2] > Len(snap)
            <4>1. mxHash' \in Nat /\ Len(snap) \in Nat
                BY <1>1, <1>2, <1>6, SnapIs, PlusIs DEF Larger
            <4> QED
                BY <1>2, <4>1
        <3>1. Len(snap) \in Nat /\ r[1] + r[2] \in Nat
            BY <1>1, <2>3, <1>6, SnapIs
        <3>2. mxHash <= Len(snap) /\ r[1] + r[2] <= Len(snap)
            BY <1>2, <1>6, <2>3, <3>1 DEF Larger
        <3>3. \E q \in rest \union {r} : q[1] + q[2] > Len(snap)
            <4>1. mxHash > Len(snap)
                    \/ \E q \in HashedRanges(FromReplica, r) : q[1] + q[2] > Len(snap)
                BY <1>7, <1>9 DEF OnlyPageOneDiffers
            <4> HIDE DEF rest, r
            <4>2. ~(mxHash > Len(snap))
                BY <1>6, <3>1, <3>2
            <4> QED
                BY <1>8, <4>1, <4>2, Zenon
        <3> HIDE DEF rest, r
        <3> QED
            BY <3>1, <3>2, <3>3
    <2>9. work' = work
        BY <1>2
    <2> HIDE DEF r, match
    <2> QED
        BY <2>4, <2>6, <2>7, <2>8, <2>9 DEF OnlyPageOneDiffers
<1> QED
    BY <1>2, <1>3, <1>5, <1>9, CheapStays DEF TransactionOpen

LEMMA OnReplicaHashFailsIsCheap ==
    ASSUME SyncInductive, CheapInductive, OnReplicaHashFails, UNCHANGED replicaVars
    PROVE  CheapInductive'
<1>1. /\ WireTyped /\ RolesInStep /\ Conversation /\ Turns /\ rs \in [Sides -> Structs]
    BY DEF SyncInductive, Typed
<1> DEFINE e == [type |-> "ORIGIN_ERROR"]
           msgs == Append(<<>>, e)
<1>2. /\ Receives("origin", "REPLICA_HASH") /\ chan' = Consumed("origin")
      /\ Push("origin", msgs, "error") /\ rs' = [rs EXCEPT !["origin"].hashMessages = @ + 1]
      /\ UNCHANGED <<file, snap, work>>
    BY DEF OnReplicaHashFails, OriginFails, FailAfter, originVars, replicaVars, txn
<1>3. /\ rs'["replica"] = rs["replica"] /\ rs'["origin"].commCheck = rs["origin"].commCheck
      /\ rs'["origin"].pageUpdates = rs["origin"].pageUpdates
    BY <1>1, <1>2, HashCounted
<1>4. SameOptions
    BY <1>3 DEF SameOptions, Sides
<1>5. e \in OriginMessages /\ e.type = "ORIGIN_ERROR"
    BY DEF OriginMessages
<1> HIDE DEF e
<1>6. msgs \in Seq(OriginMessages) /\ ~Has(msgs, {"ORIGIN_DETAIL", "ORIGIN_READY"})
    BY <1>5 DEF Has
<1> HIDE DEF msgs
<1>7. /\ FromOrigin' = (IF linkUp THEN msgs ELSE <<>>)
      /\ ret'["origin"] = "error" /\ pc'["replica"] = pc["replica"]
    BY <1>1, <1>2, <1>4, <1>6, OriginAnswers
<1>8. ~Has(FromOrigin', {"ORIGIN_DETAIL", "ORIGIN_READY"})
    BY <1>6, <1>7, HasNothing
<1> QED
    BY <1>2, <1>3, <1>7, <1>8, CheapStays DEF TransactionOpen

LEMMA PagesCounted ==
    ASSUME rs \in [Sides -> Structs], NEW c \in Nat, CountRound(c)
    PROVE  rs'["origin"].pageUpdates = rs["origin"].pageUpdates + c
<1> DEFINE o == rs["origin"]
           n == [o EXCEPT !.hashRounds = @ + 1, !.pageUpdates = @ + c]
<1>1. rs' = [rs EXCEPT !["origin"] = n] /\ n.pageUpdates = o.pageUpdates + c
    BY DEF CountRound, Structs, Sides
<1> HIDE DEF n
<1> QED
    BY <1>1 DEF Sides

\* If every page was hashed, and none but page 1 differs, there is at most that
\* page to send.
LEMMA FewPages ==
    ASSUME OriginTyped, badHash \subseteq {<<1, 1>>}, mxHash > Len(snap)
    PROVE  BadGroups = {} /\ Filled \subseteq {<<1, 1>>} /\ Len(PageStream) \in 0 .. 1
<1>1. snap \in Seq(Image) /\ Len(snap) \in Nat /\ mxHash \in Nat \ {0} /\ ~(mxHash <= Len(snap))
    BY SnapIs, RsyncAssumption DEF OriginTyped
<1>2. BadGroups = {}
    BY DEF BadGroups
<1>3. Filled \subseteq {<<1, 1>>}
    BY <1>1 DEF Filled
<1>4. PageStream \in Seq(OriginMessages)
    BY <1>1, PageStreamIs
<1>5. /\ {PageStream[k].pgno : k \in DOMAIN PageStream}
            = {p \in 1 .. Len(snap) \ {LockBytePage} : <<p, 1>> \in badHash \/ p >= mxHash}
      /\ \A j, k \in DOMAIN PageStream : j < k => PageStream[j].pgno < PageStream[k].pgno
    BY <1>1, <1>2, PagesAre DEF OriginTyped
<1>6. \A k \in DOMAIN PageStream : PageStream[k].pgno = 1
    <2>1. ASSUME NEW p \in 1 .. Len(snap), <<p, 1>> \in badHash \/ p >= mxHash PROVE p = 1
        <3>1. <<p, 1>> = <<1, 1>>
            BY <1>1, <2>1
        <3> QED
            BY <3>1
    <2>2. TAKE k \in DOMAIN PageStream
    <2>3. PageStream[k].pgno \in {PageStream[j].pgno : j \in DOMAIN PageStream}
        OBVIOUS
    <2>4. PageStream[k].pgno
            \in {p \in 1 .. Len(snap) \ {LockBytePage} : <<p, 1>> \in badHash \/ p >= mxHash}
        BY <1>5, <2>3
    <2>5. /\ PageStream[k].pgno \in 1 .. Len(snap)
          /\ <<PageStream[k].pgno, 1>> \in badHash \/ PageStream[k].pgno >= mxHash
        BY <2>4
    <2> QED
        BY <2>1, <2>5
<1>7. ASSUME Len(PageStream) >= 2 PROVE FALSE
    <2>1. 1 \in DOMAIN PageStream /\ 2 \in DOMAIN PageStream
        BY <1>4, <1>7
    <2>2. PageStream[1].pgno < PageStream[2].pgno
        BY <1>5, <2>1
    <2> QED
        BY <1>6, <2>1, <2>2
<1>8. Len(PageStream) \in Nat
    BY <1>4
<1> QED
    BY <1>2, <1>3, <1>7, <1>8

\* The round is over: every page was hashed.
LEMMA RoundHeard ==
    ASSUME SyncInductive, Receives("origin", "REPLICA_READY"), FromReplica # <<>>,
           Head(FromReplica).type = "REPLICA_READY", OnlyPageOneDiffers
    PROVE  /\ Tail(FromReplica) = <<>> /\ rs["origin"].pageUpdates = 0
           /\ BadGroups = {} /\ Filled \subseteq {<<1, 1>>} /\ Len(PageStream) \in 0 .. 1
<1>1. /\ WireTyped /\ OriginTyped /\ Conversation /\ Tallies
    BY DEF SyncInductive, Typed
<1>2. FromReplica \in Seq(Message) /\ InOrder(FromReplica)
    BY <1>1, Conversing
<1>3. /\ Tail(FromReplica) = <<>>
      /\ \A types : Has(FromReplica, types) <=> "REPLICA_READY" \in types
    BY <1>2, LastWords, OnlyWord
<1>4. HashedRanges(FromReplica, <<iHash, nHash>>) = {}
    BY <1>3, NothingHashedIn
<1>5. badHash \subseteq {<<1, 1>>} /\ mxHash > Len(snap)
    BY <1>3, <1>4 DEF OnlyPageOneDiffers
<1>6. rs["origin"].pageUpdates = 0
    BY <1>1, <1>3 DEF Tallies, Sides
<1> QED
    BY <1>1, <1>3, <1>5, <1>6, FewPages

\* No group is left to ask detail of.
LEMMA OnReplicaReadyDetailIsCheap ==
    ASSUME SyncInductive, CheapInductive, OnReplicaReadyDetail, UNCHANGED replicaVars
    PROVE  CheapInductive'
<1>1. /\ WireTyped /\ RolesInStep /\ Receives("origin", "REPLICA_READY") /\ BadGroups # {}
      /\ UNCHANGED <<file, snap, work>>
    BY DEF SyncInductive, Typed, OnReplicaReadyDetail, replicaVars, txn
<1>2. FromReplica # <<>> /\ Head(FromReplica).type = "REPLICA_READY"
    BY <1>1, Heard DEF FromReplica, Peer, Sides
<1>3. ret["origin"] = "none"
    BY <1>1 DEF Receives, RolesInStep, Sides
<1>4. ~UpToDate
    BY <1>1, <1>2, <1>3, RoundHeard DEF CheapInductive
<1>5. pc'["replica"] = pc["replica"]
    BY <1>1 DEF OnReplicaReadyDetail, Send, Push, WireTyped, Sides
<1> QED
    BY <1>1, <1>4, <1>5 DEF CheapInductive, UpToDate, TransactionOpen

LEMMA OnReplicaReadyPagesIsCheap ==
    ASSUME SyncInductive, CheapInductive, OnReplicaReadyPages, UNCHANGED replicaVars
    PROVE  CheapInductive'
<1> DEFINE d == [type |-> "ORIGIN_TXN", pageCount |-> Len(snap)]
           e == [type |-> "ORIGIN_END"]
           msgs == PageStream \o <<d, e>>
           n == Len(PageStream)
<1>1. /\ WireTyped /\ OriginTyped /\ RolesInStep /\ Turns /\ Conversation
      /\ rs \in [Sides -> Structs]
    BY DEF SyncInductive, Typed
<1>2. /\ Receives("origin", "REPLICA_READY") /\ chan' = Consumed("origin")
      /\ CountRound(n) /\ Push("origin", msgs, "none") /\ badHash' = Filled
      /\ UNCHANGED <<snap, file, work>>
    BY DEF OnReplicaReadyPages, Goodbye, Send, replicaVars, txn
<1>3. snap \in Seq(Image) /\ Len(snap) \in Nat
    BY <1>1, SnapIs
<1>4. /\ PageStream \in Seq(OriginMessages)
      /\ \A k \in DOMAIN PageStream : PageStream[k].type = "ORIGIN_PAGE"
    BY <1>3, PageStreamIs
<1>5. /\ d \in OriginMessages /\ e \in OriginMessages
      /\ d.type = "ORIGIN_TXN" /\ e.type = "ORIGIN_END"
    BY <1>3 DEF OriginMessages
<1> HIDE DEF d, e
<1>6. /\ msgs \in Seq(OriginMessages) /\ Len(msgs) = n + 2 /\ n \in Nat
      /\ \A i \in 1 .. n : msgs[i] = PageStream[i]
      /\ msgs[n + 1] = d /\ msgs[n + 2] = e
    BY <1>4, <1>5, ConcatPair
<1>7. DOMAIN PageStream = 1 .. n
    BY <1>4
<1> HIDE DEF msgs, n
<1>8. ~Has(msgs, {"ORIGIN_DETAIL", "ORIGIN_READY"})
    <2>1. DOMAIN msgs = 1 .. n + 2
        BY <1>6
    <2>2. \A k \in 1 .. n + 2 : k \in 1 .. n \/ k = n + 1 \/ k = n + 2
        BY <1>6
    <2> QED
        BY <1>4, <1>5, <1>6, <1>7, <2>1, <2>2 DEF Has
<1>9. /\ rs'["replica"] = rs["replica"] /\ rs'["origin"].commCheck = rs["origin"].commCheck
      /\ rs'["origin"].pageUpdates = rs["origin"].pageUpdates + n
    BY <1>1, <1>2, <1>6, RoundCounted, PagesCounted
<1>10. SameOptions
    BY <1>9 DEF SameOptions, Sides
<1>11. /\ ret["origin"] = "none"
       /\ FromReplica # <<>> /\ Head(FromReplica).type = "REPLICA_READY"
       /\ FromReplica' = Tail(FromReplica)
       /\ FromOrigin' = (IF linkUp THEN msgs ELSE <<>>) /\ pc'["replica"] = pc["replica"]
    BY <1>1, <1>2, <1>6, <1>10, OriginAnswers
<1>12. ~Has(FromOrigin', {"ORIGIN_DETAIL", "ORIGIN_READY"})
    BY <1>8, <1>11, HasNothing
<1>13. UpToDate' => UpToDate
    BY <1>2, <1>11 DEF UpToDate, TransactionOpen
<1>14. ASSUME UpToDate PROVE rs'["origin"].pageUpdates <= 1 /\ OnlyPageOneDiffers'
    <2>1. /\ FromReplica' = <<>> /\ Filled \subseteq {<<1, 1>>} /\ n \in 0 .. 1
          /\ rs["origin"].pageUpdates = 0
        BY <1>2, <1>11, <1>14, RoundHeard DEF CheapInductive, n
    <2>2. OnlyPageOneDiffers'
        BY <1>2, <2>1, NothingComes, HasNothing
    <2> QED
        BY <1>9, <2>1, <2>2
<1> QED
    BY <1>9, <1>12, <1>13, <1>14 DEF CheapInductive, Rounds

LEMMA OnReplicaReadyFailsIsCheap ==
    ASSUME SyncInductive, CheapInductive, OnReplicaReadyFails, UNCHANGED replicaVars
    PROVE  CheapInductive'
<1>1. /\ WireTyped /\ OriginTyped /\ RolesInStep /\ Turns /\ Conversation
      /\ rs \in [Sides -> Structs] /\ Receives("origin", "REPLICA_READY")
      /\ chan' = Consumed("origin") /\ UNCHANGED <<snap, file, work>>
    BY DEF SyncInductive, Typed, OnReplicaReadyFails, originVars, replicaVars, txn
<1>2. ret["origin"] = "none" /\ pc'["replica"] = pc["replica"] /\ ret'["origin"] = "error"
    BY <1>1 DEF OnReplicaReadyFails, OriginFails, FailAfter, Push, Receives, RolesInStep, WireTyped, Sides
<1>3. FromReplica # <<>> /\ Head(FromReplica).type = "REPLICA_READY"
    BY <1>1, Heard DEF FromReplica, Peer, Sides
<1>4. UpToDate' => UpToDate
    BY <1>1, <1>2 DEF UpToDate, TransactionOpen
<1>5. ASSUME UpToDate
      PROVE  /\ Rounds' = 1 /\ rs'["origin"].pageUpdates <= 1
             /\ ~Has(FromOrigin', {"ORIGIN_DETAIL", "ORIGIN_READY"})
    <2>1. /\ BadGroups = {} /\ Len(PageStream) \in 0 .. 1 /\ rs["origin"].pageUpdates = 0
        BY <1>1, <1>2, <1>3, <1>5, RoundHeard DEF CheapInductive
    <2>2. PICK msgs \in {<<>>} \union Prefixes(PageStream) :
            OriginFails(msgs) /\ CountRound(Len(msgs))
        BY <2>1 DEF OnReplicaReadyFails
    <2>3. /\ PageStream \in Seq(OriginMessages)
          /\ \A k \in DOMAIN PageStream : PageStream[k].type = "ORIGIN_PAGE"
        BY <1>1, SnapIs, PageStreamIs
    <2>4. /\ msgs \in Seq(OriginMessages) /\ Len(msgs) \in 0 .. 1
          /\ \A k \in DOMAIN msgs : msgs[k].type = "ORIGIN_PAGE"
        <3>1. CASE msgs = <<>>
            BY <3>1
        <3>2. CASE msgs \in Prefixes(PageStream)
            BY <2>1, <2>3, <3>2 DEF Prefixes
        <3> QED
            BY <3>1, <3>2
    <2> DEFINE e == [type |-> "ORIGIN_ERROR"]
               all == Append(msgs, e)
    <2>5. e \in OriginMessages /\ e.type = "ORIGIN_ERROR"
        BY DEF OriginMessages
    <2>6. Push("origin", all, "error")
        BY <2>2 DEF OriginFails, FailAfter
    <2> HIDE DEF e
    <2>7. all \in Seq(OriginMessages) /\ ~Has(all, {"ORIGIN_DETAIL", "ORIGIN_READY"})
        BY <2>4, <2>5 DEF Has
    <2> HIDE DEF all
    <2>8. /\ rs'["replica"] = rs["replica"] /\ rs'["origin"].commCheck = rs["origin"].commCheck
          /\ rs'["origin"].pageUpdates = rs["origin"].pageUpdates + Len(msgs)
        BY <1>1, <2>2, <2>4, RoundCounted, PagesCounted
    <2>9. SameOptions
        BY <2>8 DEF SameOptions, Sides
    <2>10. FromOrigin' = IF linkUp THEN all ELSE <<>>
        BY <1>1, <2>6, <2>7, <2>9, OriginAnswers
    <2> QED
        BY <1>5, <2>1, <2>4, <2>7, <2>8, <2>10, HasNothing DEF CheapInductive, Rounds
<1> QED
    BY <1>2, <1>4, <1>5 DEF CheapInductive

(***************************************************************************)
(* Every step of such a run.                                               *)
(***************************************************************************)

LEMMA OriginIsCheap ==
    ASSUME SyncInductive, SyncInductive', IsDatabase(file), CheapInductive, OriginRuns
    PROVE  CheapInductive'
<1>1. OriginStep /\ UNCHANGED replicaVars
    BY DEF OriginRuns
<1>2. CASE \/ OriginCommCheck \/ OriginStart \/ OriginRefuses
           \/ OnReplicaBegin \/ OnReplicaEnd \/ OnReplicaError
    BY <1>1, <1>2, OriginOutIsCheap
<1>3. CASE OnReplicaMsg
    BY <1>1, <1>3, OnReplicaMsgIsCheap
<1>4. CASE OnReplicaConfig
    BY <1>1, <1>4, OnReplicaConfigIsCheap
<1>5. CASE OnReplicaHash
    BY <1>1, <1>5, OnReplicaHashIsCheap
<1>6. CASE OnReplicaHashFails
    BY <1>1, <1>6, OnReplicaHashFailsIsCheap
<1>7. CASE OnReplicaReadyDetail
    BY <1>1, <1>7, OnReplicaReadyDetailIsCheap
<1>8. CASE OnReplicaReadyPages
    BY <1>1, <1>8, OnReplicaReadyPagesIsCheap
<1>9. CASE OnReplicaReadyFails
    BY <1>1, <1>9, OnReplicaReadyFailsIsCheap
<1> QED
    BY <1>1, <1>2, <1>3, <1>4, <1>5, <1>6, <1>7, <1>8, <1>9 DEF OriginStep

LEMMA ReplicaIsCheap ==
    ASSUME SyncInductive, CheapInductive, ReplicaRuns
    PROVE  CheapInductive'
<1>1. ReplicaStep /\ UNCHANGED originVars
    BY DEF ReplicaRuns
<1> QED
    BY <1>1, ClosedIsCheap, NoSecondRound, OnOriginMsgIsCheap, WritingIsCheap,
       OpenTransactionIsCheap DEF ReplicaStep

\* Those who write the files do not write the one the transaction is open on.
LEMMA WriterIsCheap ==
    ASSUME SyncInductive, CheapInductive, UNCHANGED <<wire, rs, snap, exchange, txn>>,
           file' = file \/ ~TransactionOpen
    PROVE  CheapInductive'
<1>1. /\ UNCHANGED <<work, iHash, nHash, mxHash, badHash, pc, ret>>
      /\ FromOrigin' = FromOrigin /\ FromReplica' = FromReplica
    BY DEF wire, exchange, txn, FromOrigin, FromReplica, InFlight
<1>2. TransactionOpen' = TransactionOpen
    BY <1>1 DEF TransactionOpen
<1>3. CASE ~TransactionOpen
    BY <1>2, <1>3, NoRunOpen
<1>4. CASE file' = file
    <2>1. OnlyPageOneDiffers => OnlyPageOneDiffers'
        BY <1>1, <1>4 DEF OnlyPageOneDiffers
    <2> QED
        BY <1>1, <1>2, <1>4, <2>1, CheapStays
<1> QED
    BY <1>3, <1>4

LEMMA EitherIsCheap ==
    ASSUME SyncInductive, SyncInductive', IsDatabase(file), CheapInductive,
           \/ OriginRuns \/ ReplicaRuns
           \/ \E s \in Sides :
               StreamRuns(s) \/ Kill(s) \/ Cancel(s) \/ Cancelled(s) \/ Unregistered(s)
           \/ LinkFault
           \/ OriginWrite /\ UNCHANGED replicaVars
           \/ ReplicaWrite /\ UNCHANGED originVars
    PROVE  CheapInductive'
<1>1. CASE \E s \in Sides :
            StreamRuns(s) \/ Kill(s) \/ Cancel(s) \/ Cancelled(s) \/ Unregistered(s)
    <2>1. PICK s \in Sides :
            StreamRuns(s) \/ Kill(s) \/ Cancel(s) \/ Cancelled(s) \/ Unregistered(s)
        BY <1>1
    <2>2. CASE Unregistered(s)
        <3>1. pc[s] = "start" /\ work' = work
            BY <2>2 DEF Unregistered, RegisterFails, replicaVars, txn
        <3> QED
            BY <3>1, NoRoundYet DEF Sides
    <2> QED
        BY <2>1, <2>2, StreamIsCheap, FaultIsCheap
<1>2. CASE LinkFault
    <2>1. "origin" \in Sides
        BY DEF Sides
    <2> QED
        BY <1>2, <2>1, FaultIsCheap
<1>3. CASE OriginWrite /\ UNCHANGED replicaVars
    BY <1>3, WriterIsCheap DEF OriginWrite, replicaVars
<1>4. CASE ReplicaWrite /\ UNCHANGED originVars
    BY <1>4, WriterIsCheap DEF ReplicaWrite, originVars
<1> QED
    BY <1>1, <1>2, <1>3, <1>4, OriginIsCheap, ReplicaIsCheap

LEMMA StutterIsCheap ==
    ASSUME SyncInductive, CheapInductive, UNCHANGED vars
    PROVE  CheapInductive'
    BY WriterIsCheap DEF vars, originVars, replicaVars

LEMMA NextIsCheap ==
    SyncInductive /\ SyncInductive' /\ IsDatabase(file) /\ CheapInductive /\ [Next]_vars
        => CheapInductive'
    BY EitherIsCheap, StutterIsCheap DEF Next

LEMMA ResyncsIsCheap ==
    SyncInductive /\ SyncInductive' /\ IsDatabase(file) /\ CheapInductive /\ [Resyncs]_vars
        => CheapInductive'
<1>1. NextRun => ~TransactionOpen'
    BY DEF NextRun, NewReplicaLocals, TransactionOpen
<1> QED
    BY <1>1, NoRunOpen, EitherIsCheap, StutterIsCheap DEF Resyncs, NextVersion

LEMMA CheapIsCheap == CheapInductive => UpToDateIsCheap
<1>1. ~Has(FromOrigin, {"ORIGIN_DETAIL", "ORIGIN_READY"})
        => ~Has(InFlight("origin"), {"ORIGIN_DETAIL"})
    BY DEF Has, FromOrigin
<1> QED
    BY <1>1 DEF CheapInductive, UpToDate, UpToDateIsCheap, Rounds

LEMMA InitIsCheap == Init => CheapInductive
    BY DEF Init, ReplicaInit, CheapInductive, UpToDate, TransactionOpen

\* Bringing a replica up to date that is so already costs one round, whatever
\* the size of the file: no group is asked detail of, and no page but page 1 is
\* sent, which the commit of an earlier run has stamped (replica.go, the first
\* batch; origin.go, REPLICA_READY).
THEOREM RunIsCheap == Spec => []UpToDateIsCheap
<1>1. Spec => []SyncInductive
    BY RunIsInductive
<1>2. Spec => []IsDatabase(file)
    BY RunsKeepDatabase
<1> QED
    BY <1>1, <1>2, NextIsCheap, InitIsCheap, CheapIsCheap, PTL DEF Spec

\* So it does in each of a sequence of runs over the same two files
\* (sqlitersync/README.md, "For a replica that is up to date, the whole picture
\* is just the first four lines plus the final one").
THEOREM ResyncIsCheap == ResyncSpec => []UpToDateIsCheap
<1>1. ResyncSpec => []SyncInductive
    BY ResyncIsInductive
<1>2. ResyncSpec => []IsDatabase(file)
    BY RunsKeepDatabase
<1> QED
    BY <1>1, <1>2, ResyncsIsCheap, InitIsCheap, CheapIsCheap, PTL DEF ResyncSpec
=============================================================================
