------------------------- MODULE HashExchangeProps -------------------------
(***************************************************************************)
(* The properties of the hash exchange, and what makes them inductive.     *)
(***************************************************************************)
EXTENDS HashExchange

PageRange == (Nat \ {0}) \X (Nat \ {0})

\* Every variable keeps to its type.
TypeOK ==
    /\ origin \in OriginFiles
    /\ file \in Seq(Image)
    /\ snap \in OriginFiles \union {<<>>}
    /\ work \in Seq(Image)
    /\ phase \in {"idle", "announced", "hashing", "sending", "committed", "aborted"}
    /\ todo \subseteq PageRange /\ bad \subseteq PageRange
    /\ mxHash \in Nat
    /\ toSend \subseteq Nat \ {0}
    /\ pIns \in BOOLEAN

\* Page p of the transaction is already the origin's.
Same(p) ==
    /\ p \in 1 .. Len(snap) /\ p \in 1 .. Len(work)
    /\ SamePage(p, work[p], snap[p])

Equal(p) ==
    p \in 1 .. Len(snap) /\ p \in 1 .. Len(work) /\ work[p] = snap[p]

\* No page is lost on the way: while hashes are exchanged every page of the
\* replica is the origin's or in a range still to be compared or known to
\* differ (the dance of sendHash, ORIGIN_DETAIL, badHash in origin.go and
\* replica.go never drops a page of a range it cuts).
NoPageForgotten ==
    phase = "hashing" =>
        \A p \in 1 .. Len(work) : Equal(p) \/ p \in PagesOf(todo \union bad)

\* No two ranges under way share a page, and none in badHash reaches mxHash:
\* the two INSERTs into badHash, whose key is the first page, never meet a row
\* that is there already (origin.go, REPLICA_HASH and the fill), and no page
\* is hashed twice.
RangesApart ==
    phase = "hashing" =>
        /\ todo \intersect bad = {}
        /\ \A r, s \in todo \union bad :
              r # s => PagesIn(r) \intersect PagesIn(s) = {}
        /\ \A r \in bad : r[1] + r[2] <= mxHash

\* Once pages are sent, whatever is not the origin's yet is on its way.
RestIsOnItsWay ==
    phase = "sending" =>
        \A p \in 1 .. Len(snap) \ {LockBytePage} : Same(p) \/ p \in toSend

\* Only pages that were wrong or missing are sent (README of sqlitersync,
\* ORIGIN_PAGE): a page that matched is not.
OnlyDifferencesSent ==
    phase = "sending" => \A p \in toSend : ~Equal(p)

\* The replica file is always a well-formed database: no hole, no truncated
\* tail, header and length agree, also after a commit that grew or shrank it.
FileIsDatabase == IsDatabase(file)

-----------------------------------------------------------------------------
(* What makes these inductive.                                             *)

Busy == phase \in {"hashing", "sending"}

\* The snapshot of a run is a content the origin once had.
SnapshotOfOrigin == phase \in {"announced", "hashing", "sending"} => snap \in OriginFiles

\* Until the first page is written the transaction shows the replica as it
\* was; opening it may have given the file its first page.
WorkIsFile == Busy /\ ~pIns => work = Opened(file)

\* A run starts with no hash compared and no page decided on.
NothingBefore ==
    /\ phase \in {"idle", "announced"} => bad = {} /\ mxHash = 0
    /\ phase \in {"idle", "announced", "hashing"} => toSend = {} /\ pIns = FALSE

\* The transaction keeps a WAL file in WAL mode and the lock-byte page zero.
WorkKeeps ==
    Busy => /\ InWal(file) => InWal(work)
            /\ LockBytePage <= Len(work) => work[LockBytePage] = ZeroImage

\* No range reaches past the replica's end; a range in badHash differs; a
\* page is below mxHash once it is in no range that waits; mxHash is at most
\* one past the end.
RangesInside ==
    phase = "hashing" =>
        /\ PagesOf(todo \union bad) \subseteq 1 .. Len(work)
        /\ \A r \in bad : ~Match(r[1], r[2])
        /\ \A p \in 1 .. Len(work) : p < mxHash \/ p \in PagesOf(todo)
        /\ mxHash <= Len(work) + 1

\* Pages to send are pages of the origin; none is when there is nothing to copy.
SendingInside ==
    phase = "sending" =>
        /\ toSend \subseteq (1 .. Len(snap)) \ {LockBytePage}
        /\ pIns => snap # <<>> /\ file # snap

\* No reachable state is outside of all this at once: the pages still to be
\* compared, known to differ, sent and written always account for the file.
Inductive ==
    /\ TypeOK
    /\ FileIsDatabase
    /\ SnapshotOfOrigin /\ NothingBefore /\ WorkIsFile /\ WorkKeeps
    /\ NoPageForgotten /\ RangesInside /\ RangesApart
    /\ RestIsOnItsWay /\ OnlyDifferencesSent /\ SendingInside

-----------------------------------------------------------------------------
(* What a commit may do, and the specification this implements.            *)

\* A commit leaves the origin's pages as of the announcement, whatever was
\* written to the origin since; the replica's file changes in no other step
\* of the run.
CommitMirrors ==
    [][phase # "committed" /\ phase' = "committed" /\ snap # <<>>
         => Mirrors(file', snap)]_vars

\* A replica in WAL mode is in WAL mode after the sync (replica.go, the
\* ORIGIN_PAGE handler), although page 1 is overwritten.
WalReplicaStaysWal ==
    [][phase = "sending" /\ phase' = "committed" /\ InWal(file)
         => InWal(file')]_vars

\* A run over two identical files, with a page in them, writes nothing.
IdenticalUntouched ==
    [][phase = "sending" /\ phase' = "committed" /\ file = snap /\ snap # <<>>
         => file' = file]_vars

\* The transaction implements the one-step copy.
Promise == INSTANCE SnapshotCopy WITH
    phase <- IF phase \in {"hashing", "sending"} THEN "copying" ELSE phase

ImplementsCopy == Promise!Spec
=============================================================================
