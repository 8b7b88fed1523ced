------------------------------ MODULE Replica ------------------------------
(***************************************************************************)
(* replicaSide: open one write transaction on the replica's file, send the *)
(* hashes of its pages, cut the ranges the origin asks detail of, write    *)
(* the pages it sends, commit.                                             *)
(*                                                                         *)
(* work is the file as that transaction sees it, <<>> without one; a role  *)
(* that returns closes its connection, which rolls an open one back.       *)
(***************************************************************************)
EXTENDS Rsync

CONSTANT ReplicaPageSizes   \* page sizes the replica's file may have

VARIABLES file,      \* the replica's file, as committed
          fileSize,  \* its page size
          nRPage,    \* its page count, as read before BEGIN IMMEDIATE
          work,      \* its pages in the open transaction
          sendHash,  \* the sendHash table: ranges to hash next
          jMode,     \* 1 rollback, 2 WAL before the sync, 0 not known
          pIns       \* a page has been written (pIns is not nil)

txn == <<work, sendHash, jMode, pIns>>
replicaVars == <<file, fileSize, nRPage, txn>>

ReplicaInit ==
    /\ file \in ReplicaFiles
    /\ fileSize \in ReplicaPageSizes
    /\ nRPage = 0
    /\ work = <<>> /\ sendHash = {} /\ jMode = 0 /\ pIns = FALSE

ReplicaFails(msgs) == FailAfter("replica", msgs, "REPLICA_ERROR")

\* Mutant: after a group the replica takes the counter to be one page wide.
ExpectedNarrow(r) == <<Plus(r[1], r[2]), 1>>

\* The range the origin expects after range r.
Expected(r) == <<Plus(r[1], r[2]), r[2]>>

\* The messages of one round: CONFIG where the range is not the one the
\* origin expects, HASH unless none of the pages exists.  The expectation
\* moves on in either case.
HashMessages(db, S, iHash, nHash) ==
    LET firsts == Ascending({r[1] : r \in S}, Len(db))
        row(k) == CHOOSE r \in S : r[1] = firsts[k]
        next(k) == IF k = 0 THEN <<iHash, nHash>>
                   ELSE Expected(row(k))
        config(k) == IF row(k) = next(k - 1) THEN <<>>
                     ELSE <<[type |-> "REPLICA_CONFIG",
                             fpg |-> row(k)[1], npg |-> row(k)[2]]>>
        h(k) == HashOf(db, row(k)[1], row(k)[2])
        hash(k) == IF IsNull(h(k)) THEN <<>>
                   ELSE <<[type |-> "REPLICA_HASH", hash |-> h(k)]>>
    IN  FlattenSeq([k \in DOMAIN firsts |-> config(k) \o hash(k)])

\* sendHashMessages: the round is sent and the table emptied.
SendHashMessages(db, S, iHash, nHash) ==
    /\ Send("replica", Append(HashMessages(db, S, iHash, nHash),
                              [type |-> "REPLICA_READY"]))
    /\ sendHash' = {}

\* Mutant: hashes are counted per round and not one by one.
CountedPerRound(n, round) ==
    [rs EXCEPT !["replica"].hashMessages = @ + round,
               !["replica"].hashRounds = @ + round]

\* The struct after n entries were hashed and a round was sent or not.
Counted(n, round) ==
    [rs EXCEPT !["replica"].hashMessages = @ + n,
               !["replica"].hashRounds = @ + round]

\* The query over sendHash, or the DELETE after it, fails: some rows are
\* already written.
HashingFails(db, S, iHash, nHash) ==
    \E n \in 0 .. Cardinality(S) :
        LET firsts == Ascending({r[1] : r \in S}, Len(db))
            sent == {r \in S : \E k \in 1 .. n : r[1] = firsts[k]}
        IN  /\ ReplicaFails(HashMessages(db, sent, iHash, nHash))
            /\ rs' = Counted(n, 0)

ReplicaCommCheck ==
    /\ pc["replica"] = "start"
    /\ rs["replica"].commCheck
    /\ Push("replica", <<[type |-> "REPLICA_MSG"], [type |-> "REPLICA_END"]>>, "nil")
    /\ UNCHANGED <<chan, rs, faults, replicaVars>>

ReplicaStart ==
    /\ pc["replica"] = "start"
    /\ ~rs["replica"].commCheck
    /\ pc' = [pc EXCEPT !["replica"] = "read"]
    /\ UNCHANGED <<out, chan, ret, closed, linkUp, cancelled, rs, faults, replicaVars>>

OnOriginMsg == Drop("replica", "ORIGIN_MSG") /\ UNCHANGED replicaVars

OnOriginEnd == EndsRun("replica", "ORIGIN_END", "nil") /\ UNCHANGED replicaVars

OnOriginError ==
    EndsRun("replica", "ORIGIN_ERROR", "error") /\ UNCHANGED replicaVars

\* The origin speaks a newer protocol: propose the replica's own.
OnOriginBeginTooNew ==
    /\ Receives("replica", "ORIGIN_BEGIN")
    /\ Head(Incoming("replica")).protocol > rs["replica"].protocol
    /\ chan' = Consumed("replica")
    /\ Send("replica", <<[type |-> "REPLICA_BEGIN",
                          protocol |-> rs["replica"].protocol]>>)
    /\ pIns' = FALSE
    /\ UNCHANGED <<rs, faults, file, fileSize, nRPage, work, sendHash, jMode>>

\* First half of the handler: attach the file and read its page count, in
\* no transaction yet.
OnOriginBegin ==
    /\ Receives("replica", "ORIGIN_BEGIN")
    /\ LET m == Head(Incoming("replica"))
       IN  /\ m.protocol <= rs["replica"].protocol
           /\ rs' = [rs EXCEPT !["replica"].protocol = m.protocol,
                               !["replica"].pageCount = m.pageCount,
                               !["replica"].pageSize = m.pageSize]
    /\ chan' = Consumed("replica")
    /\ nRPage' = Len(file)
    /\ pIns' = FALSE
    /\ pc' = [pc EXCEPT !["replica"] = "sql"]
    /\ UNCHANGED <<out, ret, closed, linkUp, cancelled, faults, file, fileSize,
                   work, sendHash, jMode>>

\* A file of no pages takes the origin's page size.
PageSizeInUse == IF file = <<>> THEN rs["replica"].pageSize ELSE fileSize

\* Mutants: the page size, or the journal mode, is not checked.
AcceptsAnySize == rs["replica"].walOnly => InWal(file) \/ nRPage = 0
AcceptsAnyMode == PageSizeInUse = rs["replica"].pageSize

\* The walOnly guard, on the page count of the first half, and the page size.
ReplicaAccepts ==
    /\ rs["replica"].walOnly => InWal(file) \/ nRPage = 0
    /\ PageSizeInUse = rs["replica"].pageSize

\* Mutant: a WAL replica is taken for one in rollback mode.
AlwaysRollback(db) == 1

\* PRAGMA journal_mode, before the sync.
JournalMode(db) == IF InWal(db) THEN 2 ELSE 1

\* Second half: BEGIN IMMEDIATE, which gives an empty file its first page,
\* then the first round of hashes.
OpenTransaction ==
    /\ pc["replica"] = "sql"
    /\ ReplicaAccepts
    /\ work' = Opened(file)
    /\ jMode' = JournalMode(file)
    /\ LET ranges == FirstRanges(rs["replica"].protocol, Len(work'))
       IN  /\ SendHashMessages(work', ranges, 1, 1)
           /\ rs' = Counted(Cardinality(ranges), 1)
    /\ UNCHANGED <<chan, faults, file, fileSize, nRPage, pIns>>

\* Either check fails, or a statement does, or the lock cannot be had.
OpenTransactionFails ==
    /\ pc["replica"] = "sql"
    /\ IF ReplicaAccepts
       THEN /\ Fault
            /\ HashingFails(Opened(file),
                   FirstRanges(rs["replica"].protocol, Len(Opened(file))), 1, 1)
       ELSE UNCHANGED <<rs, faults>> /\ ReplicaFails(<<>>)
    /\ UNCHANGED <<chan, replicaVars>>

OnOriginDetail ==
    /\ Receives("replica", "ORIGIN_DETAIL")
    /\ chan' = Consumed("replica")
    /\ LET m == Head(Incoming("replica"))
       IN  sendHash' = ReplaceInto(sendHash, Subdivide(m.fpg, m.npg))
    /\ ReadOn
    /\ UNCHANGED <<rs, faults, file, fileSize, nRPage, work, jMode, pIns>>

OnOriginReady ==
    /\ Receives("replica", "ORIGIN_READY")
    /\ chan' = Consumed("replica")
    /\ SendHashMessages(work, sendHash, 0, 0)
    /\ rs' = Counted(Cardinality(sendHash), 1)
    /\ UNCHANGED <<faults, file, fileSize, nRPage, work, jMode, pIns>>

OnOriginReadyFails ==
    /\ Receives("replica", "ORIGIN_READY")
    /\ chan' = Consumed("replica")
    /\ Fault
    /\ HashingFails(work, sendHash, 0, 0)
    /\ UNCHANGED replicaVars

\* The page is written into the transaction.  A WAL replica stays in WAL
\* mode: bytes 18 and 19 of page 1 are put back.
OnOriginPage ==
    /\ Receives("replica", "ORIGIN_PAGE")
    /\ chan' = Consumed("replica")
    /\ LET m == Head(Incoming("replica"))
       IN  work' = InsertPage(work, m.pgno, ForReplica(m.pgno, m.data, jMode = 2))
    /\ rs' = [rs EXCEPT !["replica"].pageUpdates = @ + 1]
    /\ pIns' = TRUE
    /\ ReadOn
    /\ UNCHANGED <<faults, file, fileSize, nRPage, sendHash, jMode>>

OnOriginPageFails ==
    /\ Receives("replica", "ORIGIN_PAGE")
    /\ chan' = Consumed("replica")
    /\ rs' = [rs EXCEPT !["replica"].pageUpdates = @ + 1]
    /\ Fault
    /\ ReplicaFails(<<>>)
    /\ UNCHANGED replicaVars

OnOriginTxn ==
    /\ Receives("replica", "ORIGIN_TXN")
    /\ chan' = Consumed("replica")
    /\ LET n == Head(Incoming("replica")).pageCount
       IN  /\ \E c \in Counters : file' = Committed(file, work, pIns, n, c)
           /\ rs' = IF pIns THEN [rs EXCEPT !["replica"].pageCount = n] ELSE rs
    /\ fileSize' = PageSizeInUse
    /\ work' = <<>>
    /\ ReadOn
    /\ UNCHANGED <<faults, nRPage, sendHash, jMode, pIns>>

\* The truncation or the COMMIT fails.
OnOriginTxnFails ==
    /\ Receives("replica", "ORIGIN_TXN")
    /\ chan' = Consumed("replica")
    /\ Fault
    /\ ReplicaFails(<<>>)
    /\ UNCHANGED <<rs, replicaVars>>

ReplicaStep ==
    \/ ReplicaCommCheck \/ ReplicaStart
    \/ OnOriginMsg \/ OnOriginEnd \/ OnOriginError
    \/ OnOriginBeginTooNew \/ OnOriginBegin
    \/ OpenTransaction \/ OpenTransactionFails
    \/ OnOriginDetail \/ OnOriginReady \/ OnOriginReadyFails
    \/ OnOriginPage \/ OnOriginPageFails
    \/ OnOriginTxn \/ OnOriginTxnFails

TransactionOpen == work # <<>> /\ pc["replica"] # "done"

\* Another program commits to the replica's file, which the transaction of
\* the run keeps it from while it is open; bounded with the faults.
ReplicaWrite ==
    /\ ~TransactionOpen
    /\ Fault
    /\ file' \in ReplicaFiles \ {file, <<>>}
    /\ fileSize' \in ReplicaPageSizes
    /\ UNCHANGED <<wire, rs, nRPage, txn>>
=============================================================================
