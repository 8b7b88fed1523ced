---------------------------- MODULE HashExchange ----------------------------
(***************************************************************************)
(* The algorithm of the two roles with the wire taken away: which ranges   *)
(* of the replica still have to be compared, which of them differed, which *)
(* pages have to be copied, and the replica's open transaction.            *)
(*                                                                         *)
(* A range is compared as soon as its hash meets the origin's page, in any *)
(* order; the messages that carry hashes and requests are in module Sync,  *)
(* which implements this specification.                                    *)
(***************************************************************************)
EXTENDS Pages, HashRanges

VARIABLES origin,   \* the origin's file
          file,     \* the replica's file, as committed
          snap,     \* the origin's read snapshot
          work,     \* the replica's file as its own transaction sees it
          phase,    \* where the run stands
          todo,     \* ranges whose hash has not been compared yet
          bad,      \* badHash: ranges that differed
          mxHash,   \* one past the highest page the replica has hashed
          toSend,   \* pages decided on and not yet written by the replica
          pIns      \* the replica has written a page

vars == <<origin, file, snap, work, phase, todo, bad, mxHash, toSend, pIns>>
run == <<work, todo, bad, mxHash, toSend, pIns>>

\* No transaction open, no hash exchanged.
NoRun(w, t, b, m, s, i) ==
    w = <<>> /\ t = {} /\ b = {} /\ m = 0 /\ s = {} /\ i = FALSE

\* The origin finds the range's hash among its own pages; NULL is no match.
Match(f, n) ==
    LET h == HashOf(snap, f, n) IN ~IsNull(h) /\ h = HashOf(work, f, n)

\* Mutant: the pages of the range itself are not counted.
HashedThroughFirst(m, r) == Larger(m, r[1])

\* One past the highest page hashed, once range r is.
HashedThrough(m, r) == Larger(m, r[1] + r[2])

\* Mutants: the fill starts one page late, or one page early.
ToStreamLate ==
    {p \in 1 .. Len(snap) \ {LockBytePage} : <<p, 1>> \in bad \/ p > mxHash}

ToStreamEarly ==
    {p \in 1 .. Len(snap) \ {LockBytePage} : <<p, 1>> \in bad \/ p + 1 >= mxHash}

\* The pages to send: those that differ and those never hashed.
ToStream ==
    {p \in 1 .. Len(snap) \ {LockBytePage} : <<p, 1>> \in bad \/ p >= mxHash}

\* Mutant: the page is read outside the snapshot.
ContentNow(p) == IF p \in DOMAIN origin THEN origin[p] ELSE snap[p]

\* The content sent for page p.
Content(p) == snap[p]

Groups == {r \in bad : r[2] > 1}

Init ==
    /\ origin \in OriginFiles /\ file \in ReplicaFiles
    /\ snap = <<>>
    /\ phase = "idle"
    /\ NoRun(work, todo, bad, mxHash, toSend, pIns)

\* Another program commits to the origin.  Outside WAL mode SQLite lets it
\* wait as long as the run's read transaction is open: until the pages are
\* under way, for an origin that is gone then has still sent them.
OriginWrite ==
    /\ phase \in {"idle", "sending", "committed", "aborted"} \/ InWal(snap)
    /\ origin' \in OriginFiles
    /\ UNCHANGED <<file, snap, phase, run>>

\* Another program commits to the replica: an open transaction locks it out.
ReplicaWrite ==
    /\ phase \notin {"hashing", "sending"}
    /\ file' \in ReplicaFiles
    /\ UNCHANGED <<origin, snap, phase, run>>

\* The origin's BEGIN and its first read.
Announce ==
    /\ phase = "idle"
    /\ snap' = origin
    /\ phase' = "announced"
    /\ UNCHANGED <<origin, file, run>>

\* The replica's BEGIN IMMEDIATE and its first batch of ranges.
Open ==
    /\ phase = "announced"
    /\ work' = Opened(file)
    /\ \E protocol \in 1 .. 2 : todo' = FirstRanges(protocol, Len(work'))
    /\ phase' = "hashing"
    /\ UNCHANGED <<origin, file, snap, bad, mxHash, toSend, pIns>>

\* One REPLICA_HASH meets the origin's pages.
Compare(r) ==
    /\ phase = "hashing"
    /\ todo' = todo \ {r}
    /\ bad' = IF Match(r[1], r[2]) THEN bad ELSE bad \union {r}
    /\ mxHash' = HashedThrough(mxHash, r)
    /\ UNCHANGED <<origin, file, snap, work, phase, toSend, pIns>>

\* A round ended with groups that differ: the replica cuts each of them.
Detail ==
    /\ phase = "hashing"
    /\ todo = {}
    /\ Groups # {}
    /\ todo' = UNION {Subdivide(r[1], r[2]) : r \in Groups}
    /\ bad' = bad \ Groups
    /\ UNCHANGED <<origin, file, snap, work, phase, mxHash, toSend, pIns>>

\* A round ended with single pages only: they are sent, and the pages the
\* replica never hashed, but for the lock-byte page.
Stream ==
    /\ phase = "hashing"
    /\ todo = {}
    /\ Groups = {}
    /\ toSend' = ToStream
    /\ bad' = {}
    /\ phase' = "sending"
    /\ UNCHANGED <<origin, file, snap, work, todo, mxHash, pIns>>

\* ORIGIN_PAGE: the page goes into the transaction.
WritePage(p) ==
    /\ phase = "sending"
    /\ \A q \in toSend : p <= q
    /\ toSend' = toSend \ {p}
    /\ work' = InsertPage(work, p, ForReplica(p, Content(p), InWal(file)))
    /\ pIns' = TRUE
    /\ UNCHANGED <<origin, file, snap, phase, todo, bad, mxHash>>

\* ORIGIN_TXN.
Commit ==
    /\ phase = "sending"
    /\ toSend = {}
    /\ \E c \in Counters : file' = Committed(file, work, pIns, Len(snap), c)
    /\ phase' = "committed"
    /\ NoRun(work', todo', bad', mxHash', toSend', pIns')
    /\ UNCHANGED <<origin, snap>>

\* Any failure: the transaction is rolled back, the snapshot given up.
Abort ==
    /\ phase \in {"idle", "announced", "hashing", "sending"}
    /\ phase' = "aborted"
    /\ snap' = <<>>
    /\ NoRun(work', todo', bad', mxHash', toSend', pIns')
    /\ UNCHANGED <<origin, file>>

\* The next run, of the same files: it starts from nothing.
Again ==
    /\ phase \in {"committed", "aborted"}
    /\ phase' = "idle"
    /\ snap' = <<>>
    /\ NoRun(work', todo', bad', mxHash', toSend', pIns')
    /\ UNCHANGED <<origin, file>>

Next ==
    \/ OriginWrite \/ ReplicaWrite
    \/ Announce \/ Open
    \/ \E r \in todo : Compare(r)
    \/ Detail \/ Stream
    \/ \E p \in toSend : WritePage(p)
    \/ Commit \/ Abort \/ Again

Spec == Init /\ [][Next]_vars
=============================================================================
