------------------------------- MODULE Pages -------------------------------
(***************************************************************************)
(* A database file as both roles see it through SQLite's sqlite_dbpage     *)
(* table: a sequence of page images, page p being element p.               *)
(*                                                                         *)
(* An image keeps what the protocol and SQLite tell apart.  Page 1 carries *)
(* three header fields: the file-format version bytes 18-19 (wal), the     *)
(* database size in pages at offset 28 (size) and the change counter       *)
(* (chg); every other page has them at FALSE, 0 and 0.  All the other      *)
(* bytes are one number, body, 0 for zero bytes.                           *)
(*                                                                         *)
(* A hash is the list of images it covers and whether agghash made it, so  *)
(* two hashes are equal exactly when hash collisions aside they would be.  *)
(***************************************************************************)
EXTENDS Naturals, Sequences

CONSTANTS LockBytePage,   \* the page holding SQLite's lock byte at 0x40000000
          OriginFiles,    \* contents the origin's file may be given
          ReplicaFiles,   \* contents other programs may give the replica's
          Counters        \* values a commit may leave in the change counter

Image == [body : Nat, size : Nat, wal : BOOLEAN, chg : Nat]

ZeroImage == [body |-> 0, size |-> 0, wal |-> FALSE, chg |-> 0]

\* Page 1 as BEGIN IMMEDIATE materialises it in a file of no pages.
EmptyImage == [body |-> 0, size |-> 1, wal |-> FALSE, chg |-> 0]

Larger(m, n) == IF m > n THEN m ELSE n
Smaller(m, n) == IF m < n THEN m ELSE n

\* A well-formed file: its header tells its size, it does not end with the
\* lock-byte page, and that page reads as zeros.
IsDatabase(db) ==
    /\ db \in Seq(Image)
    /\ db # <<>> => db[1].size = Len(db)
    /\ Len(db) # LockBytePage
    /\ LockBytePage <= Len(db) => db[LockBytePage] = ZeroImage

ASSUME PagesAssumption ==
    /\ LockBytePage \in Nat \ {0, 1}
    /\ \A db \in OriginFiles \union ReplicaFiles : IsDatabase(db)
    /\ Counters \subseteq Nat /\ Counters # {}

\* Mutant: the transaction writes nothing before the first page comes.
OpenedLazily(db) == db

\* A file once BEGIN IMMEDIATE has opened a write transaction on it.
Opened(db) == IF db = <<>> THEN <<EmptyImage>> ELSE db

InWal(db) == db # <<>> /\ db[1].wal

\* How many of the n pages from f on exist in db.
Existing(db, f, n) ==
    IF f > Len(db) THEN 0 ELSE Smaller(n, Len(db) + 1 - f)

\* hash(data) of page f, or agghash over the pages f .. f+n-1 that exist.
HashOf(db, f, n) ==
    [group |-> n > 1, pages |-> [i \in 1 .. Existing(db, f, n) |-> db[f + i - 1]]]

IsNull(h) == h.pages = <<>>   \* SQL NULL: none of the pages exists

\* INSERT INTO sqlite_dbpage of one page; past the end it leaves zero pages.
InsertPage(db, p, image) ==
    [i \in 1 .. Larger(Len(db), p) |->
        IF i = p THEN image ELSE IF i <= Len(db) THEN db[i] ELSE ZeroImage]

\* Mutant: one page too many is kept.
TruncateOneLess(db, n) == [i \in 1 .. Smaller(n + 1, Len(db)) |-> db[i]]

\* The commit that follows a NULL inserted at page n + 1.
Truncate(db, n) == [i \in 1 .. Smaller(n, Len(db)) |-> db[i]]

\* Mutant: the page goes in as it came.
ForReplicaRaw(p, image, walBefore) == image

\* ORIGIN_PAGE: page 1 does not switch a WAL replica out of WAL mode.
ForReplica(p, image, walBefore) ==
    IF p = 1 /\ walBefore /\ ~image.wal THEN [image EXCEPT !.wal = TRUE] ELSE image

\* A commit that wrote anything rewrites the change counter.
Stamp(db, c) == [i \in 1 .. Len(db) |->
                    IF i = 1 THEN [db[1] EXCEPT !.chg = c] ELSE db[i]]

\* Mutant: the page count of ORIGIN_TXN is not applied.
CommittedUncut(old, work, pIns, n, c) ==
    IF pIns \/ old = <<>> THEN Stamp(work, c) ELSE work

\* What COMMIT makes of the file old whose transaction shows work.  With no
\* page written nothing is truncated; the commit then only writes what
\* opening the transaction has materialised.
Committed(old, work, pIns, n, c) ==
    IF pIns THEN Stamp(Truncate(work, n), c)
    ELSE IF old = <<>> THEN Stamp(work, c) ELSE work

\* What a replica page must share with the origin's: all of it, but for
\* the journal mode and the change counter of page 1.
SamePage(p, a, b) ==
    IF p = 1 THEN a.body = b.body /\ a.size = b.size ELSE a = b

\* db is a faithful copy of src: same size, same pages.
Mirrors(db, src) ==
    /\ Len(db) = Len(src)
    /\ \A p \in 1 .. Len(src) \ {LockBytePage} : SamePage(p, db[p], src[p])
=============================================================================
