---------------------------- MODULE SyncInvariant ----------------------------
(***************************************************************************)
(* What makes the properties of a run inductive: who may be saying what to *)
(* whom, at which point of the conversation, and what the state of either  *)
(* side owes to what the other one has still to read.                      *)
(***************************************************************************)
EXTENDS SyncProps

FromOrigin == InFlight("origin")
FromReplica == InFlight("replica")

PageRange == (Nat \ {0}) \X (Nat \ {0})

\* A range whose end a page counter can hold.
Bounded(r) == r \in PageRange /\ r[1] + r[2] < Modulus

Hashes == [group : BOOLEAN, pages : Seq(Image)]

OriginMessages ==
    [type : {"ORIGIN_BEGIN"}, protocol : 1 .. ProtocolVersion,
     pageSize : Nat, pageCount : Nat]
    \union [type : {"ORIGIN_DETAIL"}, fpg : Nat, npg : Nat]
    \union [type : {"ORIGIN_PAGE"}, pgno : Nat \ {0}, data : Image]
    \union [type : {"ORIGIN_TXN"}, pageCount : Nat]
    \union [type : {"ORIGIN_READY", "ORIGIN_END", "ORIGIN_MSG", "ORIGIN_ERROR"}]

ReplicaMessages ==
    [type : {"REPLICA_BEGIN"}, protocol : 1 .. ProtocolVersion]
    \union [type : {"REPLICA_CONFIG"}, fpg : 0 .. Modulus - 1, npg : Nat]
    \union [type : {"REPLICA_HASH"}, hash : Hashes]
    \union [type : {"REPLICA_READY", "REPLICA_END", "REPLICA_MSG", "REPLICA_ERROR"}]

Message == OriginMessages \union ReplicaMessages

Structs ==
    [protocol : 1 .. ProtocolVersion, walOnly : BOOLEAN, commCheck : BOOLEAN,
     pageCount : Nat, pageSize : Nat,
     hashMessages : Nat, hashRounds : Nat, pageUpdates : Nat]

-----------------------------------------------------------------------------
(* Types, and what pc, ret and out say of one another.                     *)

WireTyped ==
    /\ out \in [Sides -> Seq(Message)] /\ chan \in [Sides -> Seq(Message)]
    /\ pc \in [Sides -> {"start", "read", "write", "sql", "done"}]
    /\ ret \in [Sides -> {"none", "nil", "error", "cancelled", "killed", "unregistered"}]
    /\ closed \in [Sides -> BOOLEAN] /\ linkUp \in BOOLEAN
    /\ \A s \in Sides : Capacity > 0 => Len(chan[s]) <= Capacity

OriginTyped ==
    /\ origin \in OriginFiles /\ snap \in OriginFiles \union {<<>>}
    /\ iHash \in 0 .. Modulus - 1 /\ nHash \in Nat /\ mxHash \in 0 .. Modulus - 1
    /\ \A r \in badHash : Bounded(r)
    /\ hashed \in BOOLEAN /\ (hashed => mxHash > 0)

ReplicaTyped ==
    /\ file \in Seq(Image) /\ Len(file) <= Modulus - 2
    /\ work \in Seq(Image) /\ Len(work) <= Modulus - 2
    /\ nRPage \in Nat
    /\ IsFiniteSet(sendHash) /\ \A r \in sendHash : Bounded(r)
    /\ jMode \in 0 .. 2 /\ pIns \in BOOLEAN

Typed ==
    /\ WireTyped /\ OriginTyped /\ ReplicaTyped
    /\ rs \in [Sides -> Structs] /\ faults \in Nat

RolesInStep ==
    /\ \A s \in Sides :
        /\ pc[s] \in {"start", "read", "sql"} => out[s] = <<>> /\ ret[s] = "none"
        /\ pc[s] = "start" => chan[s] = <<>>
        /\ pc[s] = "write" => ret[s] \in {"none", "nil", "error"}
        /\ pc[s] = "done" => out[s] = <<>> /\ ret[s] # "none"
        /\ closed[s] => pc[s] = "done"
        /\ rs[s].commCheck =>
            pc[s] \notin {"read", "sql"} /\ (pc[s] = "write" => ret[s] # "none")
    /\ pc["origin"] # "sql"

-----------------------------------------------------------------------------
(* What is in flight.                                                      *)

\* A message of type p may have one of type q behind it, next or later.
Precedes(p, q) ==
    CASE p = "ORIGIN_DETAIL" -> q \in {"ORIGIN_DETAIL", "ORIGIN_READY", "ORIGIN_ERROR"}
      [] p = "ORIGIN_PAGE" ->
            q \in {"ORIGIN_PAGE", "ORIGIN_TXN", "ORIGIN_END", "ORIGIN_ERROR"}
      [] p \in {"ORIGIN_TXN", "ORIGIN_MSG"} -> q = "ORIGIN_END"
      [] p \in {"REPLICA_CONFIG", "REPLICA_HASH"} ->
            q \in {"REPLICA_CONFIG", "REPLICA_HASH", "REPLICA_READY", "REPLICA_ERROR"}
      [] p = "REPLICA_MSG" -> q = "REPLICA_END"
      [] OTHER -> FALSE

InOrder(msgs) ==
    \A j, k \in DOMAIN msgs : j < k => Precedes(msgs[j].type, msgs[k].type)

\* What a message says is so.
Truthful(m) ==
    /\ m.type = "ORIGIN_BEGIN" =>
        /\ m.protocol = rs["origin"].protocol
        /\ m.pageSize = OriginPageSize /\ m.pageCount = Len(snap)
    /\ m.type = "ORIGIN_DETAIL" => Bounded(<<m.fpg, m.npg>>)
    /\ m.type = "ORIGIN_PAGE" => m.pgno \in 1 .. Len(snap) /\ m.data = snap[m.pgno]
    /\ m.type = "ORIGIN_TXN" => m.pageCount = Len(snap)

Conversation ==
    /\ InOrder(FromOrigin) /\ InOrder(FromReplica)
    /\ \A k \in DOMAIN FromOrigin :
        FromOrigin[k] \in OriginMessages /\ Truthful(FromOrigin[k])
    /\ \A k \in DOMAIN FromReplica : FromReplica[k] \in ReplicaMessages

\* A side that reports its failure, or only checks the stream, has said its
\* last word; otherwise they speak in turns.
Turns ==
    /\ Has(FromOrigin, {"ORIGIN_ERROR"}) => ret["origin"] \notin {"none", "nil"}
    /\ Has(FromReplica, {"REPLICA_ERROR"}) => ret["replica"] \notin {"none", "nil"}
    /\ \A k \in DOMAIN FromOrigin :
        IF rs["origin"].commCheck THEN FromOrigin[k].type \in {"ORIGIN_MSG", "ORIGIN_END"}
        ELSE FromOrigin[k].type # "ORIGIN_MSG"
    /\ \A k \in DOMAIN FromReplica :
        FromReplica[k].type \in {"REPLICA_MSG", "REPLICA_END"}
            <=> rs["replica"].commCheck
    /\ FromOrigin # <<>> /\ FromReplica # <<>> /\ ~rs["replica"].commCheck =>
        \/ FromOrigin = <<[type |-> "ORIGIN_ERROR"]>>
        \/ FromReplica = <<[type |-> "REPLICA_ERROR"]>>

-----------------------------------------------------------------------------
(* The stages of the run, told by the replica's rounds.                    *)

\* No hash has been sent: whatever the roles count is as at the start.
NothingHashed ==
    /\ work = <<>> /\ sendHash = {}
    /\ ~hashed /\ badHash = {} /\ iHash = 1 /\ nHash = 1 /\ mxHash = 0
    /\ \A s \in Sides : rs[s].hashMessages = 0 /\ rs[s].pageUpdates = 0
    /\ rs["origin"].hashRounds = 0
    /\ ~Has(FromReplica, {"REPLICA_CONFIG", "REPLICA_HASH"})

\* The two agree on the protocol, and the replica knows what is announced.
Agreed ==
    /\ rs["origin"].protocol = rs["replica"].protocol
    /\ rs["replica"].pageSize = OriginPageSize
    /\ rs["replica"].pageCount = Len(snap)
    /\ rs["origin"].pageSize # 0

Stages ==
    /\ pc["origin"] = "start" => rs["origin"].pageSize = 0
    /\ rs["origin"].pageSize # 0 => rs["origin"].pageCount = Len(snap)
    /\ \/ pc["origin"] = "start" \/ pc["replica"] \in {"start", "sql"}
       \/ Has(FromOrigin, {"ORIGIN_BEGIN"}) \/ Has(FromReplica, {"REPLICA_BEGIN"})
       => Rounds = 0
    /\ Rounds = 0 /\ ret["replica"] = "none" => NothingHashed
    /\ Has(FromOrigin, {"ORIGIN_BEGIN"}) \/ Has(FromReplica, {"REPLICA_BEGIN"})
        => rs["origin"].pageSize # 0
    /\ pc["origin"] = "start" /\ ~rs["replica"].commCheck
        => FromReplica = <<>> /\ pc["replica"] # "sql"
    /\ pc["replica"] = "sql" => FromOrigin = <<>> /\ FromReplica = <<>>
    /\ Rounds > 0 \/ pc["replica"] = "sql" => Agreed

\* Version 1 of the protocol: single pages, one after the other.
OneByOne ==
    Rounds > 0 /\ rs["replica"].protocol = 1 =>
        /\ ~Has(FromReplica, {"REPLICA_CONFIG"})
        /\ ~Has(FromOrigin, {"ORIGIN_DETAIL", "ORIGIN_READY"})
        /\ sendHash = {} /\ nHash = 1
        /\ \A r \in badHash : r[2] = 1

\* What follows the first round is said while the transaction is open, and a
\* table of hashes exists by the time it is asked for.
Exchanging ==
    /\ work # <<>> => Rounds > 0
    /\ Has(FromOrigin, {"ORIGIN_DETAIL", "ORIGIN_READY", "ORIGIN_PAGE", "ORIGIN_TXN"})
        => Rounds > 0 /\ work # <<>>
    /\ Has(FromReplica, {"REPLICA_READY"})
        => /\ Rounds > 0 /\ work # <<>>
           /\ ret["origin"] = "none" => hashed \/ Has(FromReplica, {"REPLICA_HASH"})
    /\ Has(FromOrigin, {"ORIGIN_DETAIL", "ORIGIN_READY"}) => hashed
    /\ TransactionOpen /\ file # <<>> => fileSize = OriginPageSize

\* The commit is the last thing the two talk about.
Committing ==
    /\ HasCommitted => FromReplica = <<>>
    /\ ret["replica"] = "none" /\ ~rs["origin"].commCheck /\ Has(FromOrigin, {"ORIGIN_END"})
        => Has(FromOrigin, {"ORIGIN_TXN"}) \/ HasCommitted

-----------------------------------------------------------------------------
(* The running counter.                                                    *)

\* From range r on, the counters give each hash of msgs the range it was made
\* of, in db if it is open.
NamesRanges(msgs, r, db) ==
    LET at == Positions(msgs, r)
    IN  \A k \in HashesIn(msgs) :
            /\ Bounded(at[k - 1])
            /\ db # <<>> => msgs[k].hash = HashOf(db, at[k - 1][1], at[k - 1][2])

CountersNameRanges ==
    ret["origin"] = "none" => NamesRanges(FromReplica, <<iHash, nHash>>, work)

-----------------------------------------------------------------------------
(* Results and statistics.                                                 *)

\* Nothing but the two programs has decided on a result so far.
Regular ==
    /\ linkUp
    /\ \A s \in Sides :
        ~rs[s].commCheck /\ ret[s] \notin {"killed", "cancelled", "unregistered"}

\* A failure is on its way until the other side has failed too, and nobody
\* has succeeded before the commit, or while the other is still at work.
FailuresTold ==
    Regular =>
        /\ ret["origin"] = "error" =>
            \/ ret["replica"] = "error"
            \/ ret["replica"] = "none" /\ Has(FromOrigin, {"ORIGIN_ERROR"})
        /\ ret["replica"] = "error" =>
            \/ ret["origin"] = "error"
            \/ ret["origin"] = "none" /\ Has(FromReplica, {"REPLICA_ERROR"})
        /\ ret["origin"] = "nil" => pc["replica"] = "done"
        /\ ret["replica"] = "nil" => HasCommitted /\ FromOrigin = <<>>

\* The statistics of the two differ by what is in flight.
Tallies ==
    /\ Has(FromReplica, {"REPLICA_READY"}) => Rounds = rs["origin"].hashRounds + 1
    /\ HasCommitted
       \/ Has(FromOrigin, {"ORIGIN_DETAIL", "ORIGIN_READY", "ORIGIN_PAGE", "ORIGIN_TXN"})
       => Rounds = rs["origin"].hashRounds
    /\ Has(FromReplica, {"REPLICA_READY"}) \/ Has(FromOrigin, {"ORIGIN_DETAIL", "ORIGIN_READY"})
        => \A s \in Sides : rs[s].pageUpdates = 0
    /\ \A k \in DOMAIN FromOrigin : FromOrigin[k].type = "ORIGIN_TXN" =>
        rs["origin"].pageUpdates = rs["replica"].pageUpdates + (k - 1)
    /\ HasCommitted => rs["origin"].pageUpdates = rs["replica"].pageUpdates
    /\ ret["replica"] \in {"none", "nil"} =>
        rs["origin"].hashMessages + Cardinality(HashesIn(FromReplica))
            <= rs["replica"].hashMessages

\* Unless another program wrote the replica's file, walOnly was checked on the
\* file the transaction is open on.
WalChecked ==
    faults = 0 =>
        /\ pc["replica"] = "sql" => nRPage = Len(file)
        /\ work # <<>> /\ rs["replica"].walOnly => file = <<>> \/ InWal(file)

\* The inductive invariant: the messages in flight, in both directions, fit
\* what each side counts, has open and has decided on (origin.go and
\* replica.go, the two message loops).
SyncInductive ==
    /\ Typed /\ RolesInStep
    /\ Conversation /\ Turns
    /\ Stages /\ OneByOne /\ Exchanging /\ Committing
    /\ CountersNameRanges
    /\ FailuresTold /\ Tallies /\ WalChecked

-----------------------------------------------------------------------------
(* What makes a run a hash exchange (module HashExchange).                 *)

Apart(S) == \A r, s \in S : r # s => PagesIn(r) \intersect PagesIn(s) = {}

\* The counters give no two hashes of msgs one range, from range r on.
HashedOnce(msgs, r) ==
    LET at == Positions(msgs, r)
    IN  \A j, k \in HashesIn(msgs) : j # k => at[j - 1] # at[k - 1]

\* While hashes are exchanged every range under way is so once: in sendHash, in
\* a request, in a hash or in badHash.  They share no page.
RangesOnce ==
    Stage = "hashing" =>
        /\ Apart(Pending \union badHash) /\ Pending \intersect badHash = {}
        /\ PagesOf(Pending \union badHash) \subseteq 1 .. Len(work)
        /\ \A r \in badHash : r[1] + r[2] <= mxHash
        /\ HashedOnce(FromReplica, <<iHash, nHash>>)
        /\ Has(FromReplica, {"REPLICA_CONFIG", "REPLICA_HASH", "REPLICA_READY"})
            => sendHash = {}

\* The pages are sent in ascending order, and ORIGIN_TXN after them.
PagesOnce ==
    /\ \A j, k \in DOMAIN FromOrigin :
        FromOrigin[j].type = "ORIGIN_PAGE" /\ FromOrigin[k].type = "ORIGIN_PAGE" /\ j < k
            => FromOrigin[j].pgno < FromOrigin[k].pgno
    /\ Has(FromOrigin, {"ORIGIN_PAGE"}) => TxnComing

\* No page is written before the first one comes, and the replica knows the
\* journal mode of its file.
Kept ==
    /\ pc["replica"] = "sql" \/ Stage = "hashing" => pIns = FALSE
    /\ TransactionOpen => (jMode = 2 <=> InWal(file))

\* As long as a commit may come of the run.
ExchangeInductive == ~Doomed => RangesOnce /\ PagesOnce /\ Kept

-----------------------------------------------------------------------------
(* What makes a run over a replica that is up to date cheap.               *)

\* The ranges the counters give the hashes of msgs, from range r on.
HashedRanges(msgs, r) ==
    LET at == Positions(msgs, r) IN {at[k - 1] : k \in HashesIn(msgs)}

UpToDate == TransactionOpen /\ Mirrors(file, snap)

\* Only page 1, whose header the last commit has stamped, can differ, and it is
\* in no group.  The round in flight reaches the end of the file.
OnlyPageOneDiffers ==
    LET coming == HashedRanges(FromReplica, <<iHash, nHash>>)
    IN  /\ badHash \subseteq {<<1, 1>>}
        /\ \A r \in coming : r[1] \in 1 .. Len(work) /\ (r[1] = 1 => r[2] = 1)
        /\ Has(FromReplica, {"REPLICA_CONFIG", "REPLICA_HASH", "REPLICA_READY"})
            => work = Opened(file)
        /\ Has(FromReplica, {"REPLICA_READY"})
            => mxHash > Len(snap) \/ \E r \in coming : r[1] + r[2] > Len(snap)

\* A run over a replica that is up to date has one round, and nothing but page 1
\* to send.
CheapInductive ==
    UpToDate =>
        /\ Rounds = 1 /\ rs["origin"].pageUpdates <= 1
        /\ ~Has(FromOrigin, {"ORIGIN_DETAIL", "ORIGIN_READY"})
        /\ ret["origin"] = "none" => OnlyPageOneDiffers
=============================================================================
