-------------------------- MODULE HashExchangeProof --------------------------
(***************************************************************************)
(* The hash exchange is correct for files of any length and content, and   *)
(* for any group sizes: its invariants hold, and its commit makes the      *)
(* replica the announced copy of the origin.                               *)
(***************************************************************************)
EXTENDS HashExchangeProps, DataProof

LEMMA FilesAreDatabases ==
    /\ \A db \in OriginFiles \union ReplicaFiles : db \in Seq(Image) /\ IsDatabase(db)
    /\ LockBytePage \in Nat \ {0, 1}
    /\ Counters \subseteq Nat
    BY PagesAssumption DEF IsDatabase

LEMMA NoFile == <<>> \in Seq(Image)
    OBVIOUS

LEMMA InPagesOf ==
    ASSUME NEW S, NEW p
    PROVE  p \in PagesOf(S) <=> \E r \in S : p \in PagesIn(r)
    BY DEF PagesOf

-----------------------------------------------------------------------------
(* Each action keeps the inductive invariant.                              *)

LEMMA InitInductive == Init => Inductive
<1> SUFFICES ASSUME Init PROVE Inductive
    OBVIOUS
<1>1. /\ phase = "idle" /\ todo = {} /\ bad = {} /\ work = <<>>
      /\ mxHash = 0 /\ toSend = {} /\ pIns = FALSE /\ snap = <<>>
      /\ origin \in OriginFiles /\ file \in ReplicaFiles
    BY DEF Init, NoRun
<1>2. TypeOK /\ FileIsDatabase
    BY <1>1, FilesAreDatabases, NoFile DEF TypeOK, FileIsDatabase
<1>3. QED
    BY <1>1, <1>2 DEF Inductive, SnapshotOfOrigin, NothingBefore, WorkIsFile,
        WorkKeeps, NoPageForgotten, RangesInside, RangesApart, RestIsOnItsWay,
        OnlyDifferencesSent, SendingInside, Busy

\* Steps outside a transaction: nothing is claimed of the run's state.
LEMMA NotBusyInductive ==
    ASSUME Inductive, TypeOK', FileIsDatabase', SnapshotOfOrigin',
           NothingBefore', ~Busy'
    PROVE  Inductive'
    BY DEF Inductive, Busy, WorkIsFile, WorkKeeps, NoPageForgotten,
        RangesInside, RangesApart, RestIsOnItsWay, OnlyDifferencesSent, SendingInside

LEMMA OriginWriteInductive == Inductive /\ OriginWrite => Inductive'
<1> SUFFICES ASSUME Inductive, OriginWrite PROVE Inductive'
    OBVIOUS
<1>1. /\ origin' \in OriginFiles
      /\ UNCHANGED <<file, snap, phase, work, todo, bad, mxHash, toSend, pIns>>
    BY DEF OriginWrite, run
<1>2. TypeOK'
    BY <1>1 DEF Inductive, TypeOK
<1>3. QED
    BY <1>1, <1>2 DEF Inductive, FileIsDatabase, SnapshotOfOrigin, NothingBefore,
        WorkIsFile, WorkKeeps, NoPageForgotten, RangesInside, RangesApart,
        RestIsOnItsWay, Match, OnlyDifferencesSent, SendingInside, Busy, Equal, Same

LEMMA ReplicaWriteInductive == Inductive /\ ReplicaWrite => Inductive'
<1> SUFFICES ASSUME Inductive, ReplicaWrite PROVE Inductive'
    OBVIOUS
<1>1. /\ file' \in ReplicaFiles
      /\ UNCHANGED <<origin, snap, phase, work, todo, bad, mxHash, toSend, pIns>>
      /\ phase \notin {"hashing", "sending"}
    BY DEF ReplicaWrite, run
<1>2. TypeOK' /\ FileIsDatabase'
    BY <1>1, FilesAreDatabases DEF Inductive, TypeOK, FileIsDatabase
<1>3. SnapshotOfOrigin' /\ NothingBefore' /\ ~Busy'
    BY <1>1 DEF Inductive, SnapshotOfOrigin, NothingBefore, Busy
<1>4. QED
    BY <1>2, <1>3, NotBusyInductive

LEMMA AnnounceInductive == Inductive /\ Announce => Inductive'
<1> SUFFICES ASSUME Inductive, Announce PROVE Inductive'
    OBVIOUS
<1>1. /\ phase = "idle" /\ snap' = origin /\ phase' = "announced"
      /\ UNCHANGED <<origin, file, work, todo, bad, mxHash, toSend, pIns>>
    BY DEF Announce, run
<1>2. TypeOK' /\ FileIsDatabase' /\ SnapshotOfOrigin' /\ NothingBefore' /\ ~Busy'
    BY <1>1 DEF Inductive, TypeOK, FileIsDatabase, SnapshotOfOrigin, NothingBefore, Busy
<1>3. QED
    BY <1>2, NotBusyInductive

LEMMA AbortInductive == Inductive /\ Abort => Inductive'
<1> SUFFICES ASSUME Inductive, Abort PROVE Inductive'
    OBVIOUS
<1>1. /\ phase' = "aborted" /\ snap' = <<>>
      /\ work' = <<>> /\ todo' = {} /\ bad' = {} /\ mxHash' = 0
      /\ toSend' = {} /\ pIns' = FALSE
      /\ UNCHANGED <<origin, file>>
    BY DEF Abort, NoRun
<1>2. TypeOK' /\ FileIsDatabase' /\ SnapshotOfOrigin' /\ NothingBefore' /\ ~Busy'
    BY <1>1, NoFile DEF Inductive, TypeOK, FileIsDatabase, SnapshotOfOrigin,
        NothingBefore, Busy
<1>3. QED
    BY <1>2, NotBusyInductive

LEMMA AgainInductive == Inductive /\ Again => Inductive'
<1> SUFFICES ASSUME Inductive, Again PROVE Inductive'
    OBVIOUS
<1>1. /\ phase' = "idle" /\ snap' = <<>>
      /\ work' = <<>> /\ todo' = {} /\ bad' = {} /\ mxHash' = 0
      /\ toSend' = {} /\ pIns' = FALSE
      /\ UNCHANGED <<origin, file>>
    BY DEF Again, NoRun
<1>2. TypeOK' /\ FileIsDatabase' /\ SnapshotOfOrigin' /\ NothingBefore' /\ ~Busy'
    BY <1>1, NoFile DEF Inductive, TypeOK, FileIsDatabase, SnapshotOfOrigin,
        NothingBefore, Busy
<1>3. QED
    BY <1>2, NotBusyInductive

LEMMA OpenInductive == Inductive /\ Open => Inductive'
<1> SUFFICES ASSUME Inductive, Open PROVE Inductive'
    OBVIOUS
<1> DEFINE n == Len(Opened(file))
<1>1. /\ phase = "announced" /\ phase' = "hashing" /\ work' = Opened(file)
      /\ UNCHANGED <<origin, file, snap, bad, mxHash, toSend, pIns>>
      /\ bad = {} /\ mxHash = 0 /\ toSend = {} /\ pIns = FALSE
    BY DEF Open, Inductive, NothingBefore
<1>2. PICK v \in {1, 2} : todo' = FirstRanges(v, n)
    BY <1>1 DEF Open
<1>3. /\ file \in Seq(Image) /\ IsDatabase(file) /\ snap \in OriginFiles
      /\ TypeOK
    BY <1>1 DEF Inductive, TypeOK, FileIsDatabase, SnapshotOfOrigin
<1>4. /\ work' \in Seq(Image) /\ n \in Positive /\ IsDatabase(work')
      /\ InWal(file) => InWal(work')
    BY <1>1, <1>3, OpenedIs DEF Positive
<1>5. /\ todo' \subseteq PageRange
      /\ PagesOf(todo') = 1 .. Len(work')
      /\ \A r, s \in todo' : r # s => PagesIn(r) \intersect PagesIn(s) = {}
    BY <1>1, <1>2, <1>4, FirstRangesCover DEF PageRange, Positive
<1>6. TypeOK'
    BY <1>1, <1>3, <1>4, <1>5 DEF TypeOK
<1>7. FileIsDatabase' /\ SnapshotOfOrigin' /\ WorkIsFile' /\ WorkKeeps'
    BY <1>1, <1>3, <1>4 DEF FileIsDatabase, SnapshotOfOrigin, WorkIsFile,
        WorkKeeps, Busy, IsDatabase
<1>8. NoPageForgotten' /\ RangesInside' /\ RangesApart'
  <2>1. todo' \union bad' = todo' /\ bad' = {}
      BY <1>1
  <2>2. NoPageForgotten' /\ RangesInside'
      BY <1>1, <1>4, <1>5, <2>1 DEF NoPageForgotten, RangesInside, Positive
  <2>3. RangesApart'
      BY <1>5, <2>1 DEF RangesApart
  <2>4. QED
      BY <2>2, <2>3
<1>9. NothingBefore' /\ RestIsOnItsWay' /\ OnlyDifferencesSent' /\ SendingInside'
    BY <1>1 DEF NothingBefore, RestIsOnItsWay, OnlyDifferencesSent, SendingInside
<1>10. QED
    BY <1>6, <1>7, <1>8, <1>9 DEF Inductive

\* A range whose hash matched holds only equal pages.
LEMMA MatchedPagesEqual ==
    ASSUME snap \in Seq(Image), work \in Seq(Image), NEW r \in PageRange,
           Match(r[1], r[2]),
           NEW p \in PagesIn(r), p \in 1 .. Len(work)
    PROVE  Equal(p)
<1>1. /\ r[1] \in Nat \ {0} /\ r[2] \in Nat \ {0}
      /\ p \in r[1] .. ((r[1] + r[2]) - 1)
    BY DEF PageRange, PagesIn
<1>2. HashOf(snap, r[1], r[2]) = HashOf(work, r[1], r[2])
    BY DEF Match
<1>3. p \in 1 .. Len(snap) /\ snap[p] = work[p]
    BY <1>1, <1>2, EqualHashes
<1>4. QED
    BY <1>3 DEF Equal

LEMMA CompareInductive ==
    ASSUME Inductive, NEW r \in todo, Compare(r)
    PROVE  Inductive'
<1>1. /\ phase = "hashing" /\ todo' = todo \ {r}
      /\ bad' = IF Match(r[1], r[2]) THEN bad ELSE bad \union {r}
      /\ mxHash' = HashedThrough(mxHash, r)
      /\ UNCHANGED <<origin, file, snap, work, phase, toSend, pIns>>
    BY DEF Compare
<1>2. /\ TypeOK /\ snap \in OriginFiles /\ snap \in Seq(Image)
      /\ work \in Seq(Image) /\ r \in PageRange
    BY <1>1, FilesAreDatabases DEF Inductive, TypeOK, SnapshotOfOrigin
<1>3. /\ r[1] \in Nat \ {0} /\ r[2] \in Nat \ {0}
      /\ PagesIn(r) = r[1] .. ((r[1] + r[2]) - 1)
      /\ PagesIn(r) \subseteq 1 .. Len(work)
      /\ r[1] + r[2] <= Len(work) + 1
  <2>1. r[1] \in Nat \ {0} /\ r[2] \in Nat \ {0}
      BY <1>2 DEF PageRange
  <2>2. PagesIn(r) \subseteq 1 .. Len(work)
      BY <1>1, InPagesOf DEF Inductive, RangesInside
  <2>3. (r[1] + r[2]) - 1 \in PagesIn(r)
      BY <2>1 DEF PagesIn
  <2>4. QED
      BY <2>1, <2>2, <2>3 DEF PagesIn
<1>4. TypeOK'
  <2>1. mxHash' \in Nat
      BY <1>1, <1>2, <1>3 DEF TypeOK, HashedThrough, Larger
  <2>2. bad' \subseteq PageRange
      BY <1>1, <1>2 DEF TypeOK
  <2>3. QED
      BY <1>1, <1>2, <2>1, <2>2 DEF TypeOK
<1>5. /\ FileIsDatabase' /\ SnapshotOfOrigin' /\ WorkIsFile' /\ WorkKeeps'
      /\ NothingBefore' /\ RestIsOnItsWay' /\ OnlyDifferencesSent' /\ SendingInside'
    BY <1>1 DEF Inductive, FileIsDatabase, SnapshotOfOrigin, WorkIsFile, WorkKeeps,
        NothingBefore, RestIsOnItsWay, OnlyDifferencesSent, SendingInside, Busy
<1>6. ASSUME NEW p \in 1 .. Len(work)
      PROVE  Equal(p) \/ p \in PagesOf(todo' \union bad')
  <2>1. Equal(p) \/ \E s \in todo \union bad : p \in PagesIn(s)
      BY <1>1, InPagesOf DEF Inductive, NoPageForgotten
  <2>2. CASE Match(r[1], r[2]) /\ p \in PagesIn(r)
      BY <1>2, <2>2, MatchedPagesEqual
  <2>3. CASE ~(Match(r[1], r[2]) /\ p \in PagesIn(r))
    <3>1. \A s \in todo \union bad : p \in PagesIn(s) => s \in todo' \union bad'
        BY <1>1, <2>3
    <3>2. QED
        BY <2>1, <3>1, InPagesOf
  <2>4. QED
      BY <2>2, <2>3
<1>7. NoPageForgotten'
    BY <1>1, <1>6 DEF NoPageForgotten, Equal
<1>8. RangesInside'
  <2>1. PagesOf(todo' \union bad') \subseteq 1 .. Len(work)
    <3>1. todo' \union bad' \subseteq todo \union bad
        BY <1>1
    <3>2. PagesOf(todo \union bad) \subseteq 1 .. Len(work)
        BY <1>1 DEF Inductive, RangesInside
    <3>3. QED
        BY <3>1, <3>2 DEF PagesOf
  <2>2. \A s \in bad' : ~Match(s[1], s[2])
      BY <1>1 DEF Inductive, RangesInside
  <2>3. ASSUME NEW p \in 1 .. Len(work)
        PROVE  p < mxHash' \/ p \in PagesOf(todo')
    <3>1. p < mxHash \/ \E s \in todo : p \in PagesIn(s)
        BY <1>1, InPagesOf DEF Inductive, RangesInside
    <3>2. mxHash <= mxHash' /\ r[1] + r[2] <= mxHash'
        BY <1>1, <1>2, <1>3 DEF TypeOK, HashedThrough, Larger
    <3>3. CASE p < mxHash
        BY <1>2, <1>4, <3>2, <3>3 DEF TypeOK
    <3>4. CASE p \in PagesIn(r)
        BY <1>3, <1>4, <3>2, <3>4 DEF TypeOK
    <3>5. CASE \E s \in todo : p \in PagesIn(s) /\ s # r
        BY <1>1, <3>5, InPagesOf
    <3>6. QED
        BY <3>1, <3>3, <3>4, <3>5
  <2>4. mxHash' <= Len(work) + 1
      BY <1>1, <1>3 DEF Inductive, RangesInside, HashedThrough, Larger
  <2>5. (\A s \in bad : ~Match(s[1], s[2]))' <=> \A s \in bad' : ~Match(s[1], s[2])
      BY <1>1 DEF Match
  <2>6. QED
      BY <1>1, <2>1, <2>2, <2>3, <2>4, <2>5 DEF RangesInside
<1>9. RangesApart'
  <2>1. /\ todo' \intersect bad' = {}
        /\ todo' \union bad' \subseteq todo \union bad
      BY <1>1 DEF Inductive, RangesApart
  <2>2. \A s, t \in todo' \union bad' :
          s # t => PagesIn(s) \intersect PagesIn(t) = {}
      BY <1>1, <2>1 DEF Inductive, RangesApart
  <2>3. ASSUME NEW s \in bad' PROVE s[1] + s[2] <= mxHash'
    <3>1. /\ mxHash \in Nat /\ mxHash' \in Nat
          /\ mxHash <= mxHash' /\ r[1] + r[2] <= mxHash'
        BY <1>1, <1>2, <1>3, <1>4 DEF TypeOK, HashedThrough, Larger
    <3>2. CASE s = r
        BY <3>1, <3>2
    <3>3. CASE s # r
      <4>1. s \in bad /\ s[1] + s[2] <= mxHash
          BY <1>1, <3>3 DEF Inductive, RangesApart
      <4>2. s[1] \in Nat /\ s[2] \in Nat
          BY <1>2, <4>1 DEF TypeOK, PageRange
      <4>3. QED
          BY <3>1, <4>1, <4>2
    <3>4. QED
        BY <3>2, <3>3
  <2>4. QED
      BY <2>1, <2>2, <2>3 DEF RangesApart
<1>10. QED
    BY <1>4, <1>5, <1>7, <1>8, <1>9 DEF Inductive

LEMMA DetailInductive == Inductive /\ Detail => Inductive'
<1> SUFFICES ASSUME Inductive, Detail PROVE Inductive'
    OBVIOUS
<1>1. /\ phase = "hashing" /\ todo = {}
      /\ todo' = UNION {Subdivide(r[1], r[2]) : r \in Groups}
      /\ bad' = bad \ Groups
      /\ UNCHANGED <<origin, file, snap, work, phase, mxHash, toSend, pIns>>
    BY DEF Detail
<1>2. TypeOK
    BY DEF Inductive
<1>3. ASSUME NEW r \in Groups
      PROVE  /\ Subdivide(r[1], r[2]) \subseteq PageRange
             /\ PagesOf(Subdivide(r[1], r[2])) = PagesIn(r)
             /\ \A s, t \in Subdivide(r[1], r[2]) :
                  s # t => PagesIn(s) \intersect PagesIn(t) = {}
  <2>1. r \in PageRange /\ r[1] \in Positive /\ r[2] \in Positive
      BY <1>2 DEF TypeOK, Groups, PageRange, Positive
  <2>2. PagesIn(<<r[1], r[2]>>) = PagesIn(r)
      BY DEF PagesIn
  <2>3. QED
      BY <2>1, <2>2, SubdivideTiles DEF PageRange, Positive
<1>4. TypeOK'
  <2>1. todo' \subseteq PageRange
      BY <1>1, <1>3
  <2>2. bad' \subseteq PageRange
      BY <1>1, <1>2 DEF TypeOK
  <2>3. QED
      BY <1>1, <1>2, <2>1, <2>2 DEF TypeOK
<1>5. /\ FileIsDatabase' /\ SnapshotOfOrigin' /\ WorkIsFile' /\ WorkKeeps'
      /\ NothingBefore' /\ RestIsOnItsWay' /\ OnlyDifferencesSent' /\ SendingInside'
    BY <1>1 DEF Inductive, FileIsDatabase, SnapshotOfOrigin, WorkIsFile, WorkKeeps,
        NothingBefore, RestIsOnItsWay, OnlyDifferencesSent, SendingInside, Busy
<1>6. PagesOf(todo') = PagesOf(Groups)
  <2>1. ASSUME NEW p
        PROVE  p \in PagesOf(todo') <=> p \in PagesOf(Groups)
    <3>1. p \in PagesOf(todo') <=>
            \E r \in Groups : \E s \in Subdivide(r[1], r[2]) : p \in PagesIn(s)
        BY <1>1, InPagesOf
    <3>2. \A r \in Groups : (\E s \in Subdivide(r[1], r[2]) : p \in PagesIn(s))
                              <=> p \in PagesIn(r)
        BY <1>3, InPagesOf
    <3>3. QED
        BY <3>1, <3>2, InPagesOf
  <2>2. QED
      BY <2>1
<1>7. PagesOf(todo' \union bad') = PagesOf(todo \union bad)
  <2>1. bad = Groups \union bad'
      BY <1>1 DEF Groups
  <2>2. \A p : p \in PagesOf(todo' \union bad') <=> p \in PagesOf(bad)
      BY <1>6, <2>1, InPagesOf
  <2>3. PagesOf(todo' \union bad') = PagesOf(bad)
      BY <2>2
  <2>4. todo \union bad = bad
      BY <1>1
  <2>5. QED
      BY <2>3, <2>4
<1>8. NoPageForgotten'
    BY <1>1, <1>7 DEF Inductive, NoPageForgotten, Equal
<1>9. RangesInside'
  <2>1. PagesOf(todo) = {}
      BY <1>1 DEF PagesOf
  <2>2. /\ PagesOf(todo \union bad) \subseteq 1 .. Len(work)
        /\ \A r \in bad : ~Match(r[1], r[2])
        /\ \A p \in 1 .. Len(work) : p < mxHash
        /\ mxHash <= Len(work) + 1
      BY <1>1, <2>1 DEF Inductive, RangesInside
  <2>3. (\A r \in bad : ~Match(r[1], r[2]))'
      BY <1>1, <2>2 DEF Match
  <2>4. QED
      BY <1>1, <1>7, <2>2, <2>3 DEF RangesInside
<1>10. RangesApart'
  <2>1. /\ Groups \subseteq bad
        /\ \A g, h \in bad : g # h => PagesIn(g) \intersect PagesIn(h) = {}
        /\ \A g \in bad : g[1] + g[2] <= mxHash
      BY <1>1 DEF Inductive, RangesApart, Groups
  <2>2. ASSUME NEW s \in todo'
        PROVE  \E g \in Groups : s \in Subdivide(g[1], g[2]) /\ PagesIn(s) \subseteq PagesIn(g)
    <3>1. PICK g \in Groups : s \in Subdivide(g[1], g[2])
        BY <1>1
    <3>2. PagesIn(s) \subseteq PagesIn(g)
        BY <1>3, <3>1, InPagesOf
    <3>3. QED
        BY <3>1, <3>2
  <2>3. todo' \intersect bad' = {}
    <3> SUFFICES ASSUME NEW s \in todo', s \in bad' PROVE FALSE
        OBVIOUS
    <3>1. PICK g \in Groups : PagesIn(s) \subseteq PagesIn(g)
        BY <2>2
    <3>2. s \in bad /\ g \in bad /\ s # g
        BY <1>1, <2>1
    <3>3. s[1] \in PagesIn(s)
        BY <1>2, <3>2 DEF TypeOK, PageRange, PagesIn
    <3>4. QED
        BY <2>1, <3>1, <3>2, <3>3
  <2>4. ASSUME NEW s \in todo', NEW t \in bad'
        PROVE  PagesIn(s) \intersect PagesIn(t) = {}
      BY <1>1, <2>1, <2>2
  <2>5. ASSUME NEW s \in todo', NEW t \in todo', s # t
        PROVE  PagesIn(s) \intersect PagesIn(t) = {}
    <3>1. PICK g \in Groups : s \in Subdivide(g[1], g[2]) /\ PagesIn(s) \subseteq PagesIn(g)
        BY <2>2
    <3>2. PICK h \in Groups : t \in Subdivide(h[1], h[2]) /\ PagesIn(t) \subseteq PagesIn(h)
        BY <2>2
    <3>3. CASE g = h
        BY <1>3, <2>5, <3>1, <3>2, <3>3
    <3>4. CASE g # h
        BY <2>1, <3>1, <3>2, <3>4
    <3>5. QED
        BY <3>3, <3>4
  <2>6. \A s, t \in todo' \union bad' :
          s # t => PagesIn(s) \intersect PagesIn(t) = {}
      BY <1>1, <2>1, <2>4, <2>5
  <2>7. \A s \in bad' : s[1] + s[2] <= mxHash'
      BY <1>1, <2>1
  <2>8. QED
      BY <2>3, <2>6, <2>7 DEF RangesApart
<1>11. QED
    BY <1>4, <1>5, <1>8, <1>9, <1>10 DEF Inductive

LEMMA StreamInductive == Inductive /\ Stream => Inductive'
<1> SUFFICES ASSUME Inductive, Stream PROVE Inductive'
    OBVIOUS
<1>1. /\ phase = "hashing" /\ phase' = "sending" /\ todo = {} /\ Groups = {}
      /\ toSend' = ToStream /\ bad' = {}
      /\ UNCHANGED <<origin, file, snap, work, todo, mxHash, pIns>>
      /\ pIns = FALSE
    BY DEF Stream, Inductive, NothingBefore
<1>2. /\ TypeOK /\ snap \in Seq(Image) /\ work \in Seq(Image) /\ mxHash \in Nat
    BY <1>1, FilesAreDatabases DEF Inductive, TypeOK, SnapshotOfOrigin
<1>3. toSend' \subseteq (1 .. Len(snap)) \ {LockBytePage}
    BY <1>1 DEF ToStream
<1>4. TypeOK'
    BY <1>1, <1>2, <1>3 DEF TypeOK
<1>5. /\ FileIsDatabase' /\ SnapshotOfOrigin' /\ WorkIsFile' /\ WorkKeeps'
      /\ NothingBefore' /\ NoPageForgotten' /\ RangesInside' /\ RangesApart'
      /\ SendingInside'
    BY <1>1, <1>3 DEF Inductive, FileIsDatabase, SnapshotOfOrigin, WorkIsFile, WorkKeeps,
        NothingBefore, NoPageForgotten, RangesInside, RangesApart, SendingInside, Busy
<1>6. \A r \in bad : r[2] = 1 /\ r = <<r[1], 1>>
    BY <1>1, <1>2 DEF Groups, TypeOK, PageRange
<1>7. /\ \A p \in 1 .. Len(work) : p < mxHash
      /\ mxHash <= Len(work) + 1
  <2>1. PagesOf(todo) = {}
      BY <1>1 DEF PagesOf
  <2>2. QED
      BY <1>1, <2>1 DEF Inductive, RangesInside
<1>8. RestIsOnItsWay'
  <2> SUFFICES ASSUME NEW p \in (1 .. Len(snap)) \ {LockBytePage}, p \notin ToStream
               PROVE  Same(p)
      BY <1>1 DEF RestIsOnItsWay, Same
  <2>1. <<p, 1>> \notin bad /\ p < mxHash
      BY <1>2 DEF ToStream
  <2>2. p \in 1 .. Len(work)
      BY <1>2, <1>7, <2>1
  <2>3. p \notin PagesOf(bad)
    <3>1. ASSUME NEW r \in bad PROVE PagesIn(r) = {r[1]}
      <4>1. r[1] \in Nat /\ r[2] = 1
          BY <1>2, <1>6 DEF TypeOK, PageRange
      <4>2. QED
          BY <4>1 DEF PagesIn
    <3>2. ASSUME NEW r \in bad PROVE r[1] # p
        BY <1>6, <2>1
    <3>3. QED
        BY <3>1, <3>2, InPagesOf
  <2>4. Equal(p)
    <3>1. todo \union bad = bad
        BY <1>1
    <3>2. QED
        BY <1>1, <2>2, <2>3, <3>1 DEF Inductive, NoPageForgotten
  <2>5. QED
      BY <2>4 DEF Equal, Same, SamePage
<1>9. OnlyDifferencesSent'
  <2> SUFFICES ASSUME NEW p \in ToStream, Equal(p)
               PROVE  FALSE
      BY <1>1 DEF OnlyDifferencesSent, Equal
  <2>1. p \in 1 .. Len(snap) /\ p \in 1 .. Len(work) /\ work[p] = snap[p]
      BY DEF Equal
  <2>2. <<p, 1>> \in bad
      BY <1>2, <1>7, <2>1 DEF ToStream
  <2>3. ~Match(p, 1)
      BY <1>1, <2>2 DEF Inductive, RangesInside
  <2>4. QED
      BY <1>2, <2>1, <2>3, EqualPage DEF Match
<1>10. QED
    BY <1>4, <1>5, <1>8, <1>9 DEF Inductive

LEMMA WritePageInductive ==
    ASSUME Inductive, NEW p \in toSend, WritePage(p)
    PROVE  Inductive'
<1>1. /\ phase = "sending" /\ toSend' = toSend \ {p} /\ pIns' = TRUE
      /\ work' = InsertPage(work, p, ForReplica(p, snap[p], InWal(file)))
      /\ \A q \in toSend : p <= q
      /\ UNCHANGED <<origin, file, snap, phase, todo, bad, mxHash>>
    BY DEF WritePage, Content
<1>2. /\ TypeOK /\ snap \in OriginFiles /\ snap \in Seq(Image)
      /\ work \in Seq(Image)
      /\ toSend \subseteq (1 .. Len(snap)) \ {LockBytePage}
      /\ LockBytePage \in Nat \ {0, 1}
    BY <1>1, FilesAreDatabases DEF Inductive, TypeOK, SnapshotOfOrigin, SendingInside
<1>3. /\ p \in 1 .. Len(snap) /\ p # LockBytePage /\ p \in Nat \ {0}
      /\ snap[p] \in Image
    BY <1>2
<1>4. InWal(file) \in BOOLEAN
  <2>1. file \in Seq(Image)
      BY <1>2 DEF TypeOK
  <2>2. file # <<>> => file[1] \in Image
      BY <2>1
  <2>3. QED
      BY <2>2 DEF InWal, Image
<1>5. PICK image \in Image :
        /\ image = ForReplica(p, snap[p], InWal(file))
        /\ SamePage(p, image, snap[p])
        /\ p = 1 /\ InWal(file) => image.wal
    BY <1>3, <1>4, ForReplicaIs
<1>6. /\ work' \in Seq(Image)
      /\ Len(work') = Larger(Len(work), p)
      /\ work'[p] = image
      /\ \A q \in 1 .. Len(work) : q # p => work'[q] = work[q]
      /\ \A q \in (Len(work) + 1) .. (p - 1) : work'[q] = ZeroImage
  <2>1. work \in Seq(Image) /\ p \in Nat \ {0} /\ image \in Image
      BY <1>2, <1>3
  <2>2. IsInsertion(InsertPage(work, p, image), work, p, image)
      BY ONLY <2>1, InsertPageIs
  <2>3. work' = InsertPage(work, p, image)
      BY <1>1, <1>5
  <2>4. IsInsertion(work', work, p, image)
      BY ONLY <2>2, <2>3
  <2>5. QED
      BY <2>4 DEF IsInsertion
<1>7. Len(work) \in Nat /\ Len(work') \in Nat /\ Len(snap) \in Nat
    BY <1>2, <1>6
<1>8. TypeOK'
    BY <1>1, <1>2, <1>6 DEF TypeOK
<1>9. file # snap
  <2>1. ~Equal(p)
      BY <1>1 DEF Inductive, OnlyDifferencesSent
  <2>2. ~pIns => work = Opened(file)
      BY <1>1 DEF Inductive, WorkIsFile, Busy
  <2>3. file = snap => Opened(file) = snap
      BY <1>3 DEF Opened
  <2>4. pIns => file # snap
      BY <1>1 DEF Inductive, SendingInside
  <2>5. QED
      BY <1>2, <1>3, <2>1, <2>2, <2>3, <2>4 DEF Equal, TypeOK
<1>10. FileIsDatabase' /\ SnapshotOfOrigin' /\ NothingBefore' /\ WorkIsFile'
    BY <1>1 DEF Inductive, FileIsDatabase, SnapshotOfOrigin, NothingBefore, WorkIsFile
<1>11. WorkKeeps'
  <2>1. InWal(file) => InWal(work')
    <3> SUFFICES ASSUME InWal(file) PROVE InWal(work')
        OBVIOUS
    <3>1. InWal(work)
        BY <1>1 DEF Inductive, WorkKeeps, Busy
    <3>2. work # <<>> /\ work[1].wal /\ 1 \in 1 .. Len(work)
        BY <1>2, <3>1 DEF InWal
    <3>3. work'[1].wal
        BY <1>5, <1>6, <3>2
    <3>4. work' # <<>>
        BY <1>3, <1>6, <1>7 DEF Larger
    <3>5. QED
        BY <3>3, <3>4 DEF InWal
  <2>2. LockBytePage <= Len(work') => work'[LockBytePage] = ZeroImage
    <3>1. CASE LockBytePage <= Len(work)
      <4>1. work[LockBytePage] = ZeroImage /\ LockBytePage \in 1 .. Len(work)
          BY <1>1, <1>2, <1>7, <3>1 DEF Inductive, WorkKeeps, Busy
      <4>2. QED
          BY <1>3, <1>6, <4>1
    <3>2. CASE ~(LockBytePage <= Len(work)) /\ LockBytePage <= Len(work')
      <4>1. LockBytePage \in (Len(work) + 1) .. (p - 1)
          BY <1>2, <1>3, <1>6, <1>7, <3>2 DEF Larger
      <4>2. QED
          BY <1>6, <4>1
    <3>3. QED
        BY <3>1, <3>2
  <2>3. QED
      BY <1>1, <2>1, <2>2 DEF WorkKeeps
<1>12. NoPageForgotten' /\ RangesInside' /\ RangesApart'
    BY <1>1 DEF NoPageForgotten, RangesInside, RangesApart
<1>13. ASSUME NEW q \in (1 .. Len(snap)) \ {LockBytePage}, q \notin toSend'
       PROVE  Same(q)'
  <2>1. CASE q = p
    <3>1. p \in 1 .. Len(work')
        BY <1>3, <1>6, <1>7 DEF Larger
    <3>2. QED
        BY <1>1, <1>3, <1>5, <1>6, <2>1, <3>1 DEF Same
  <2>2. CASE q # p
    <3>1. Same(q)
        BY <1>1, <2>2, <1>13 DEF Inductive, RestIsOnItsWay
    <3>2. q \in 1 .. Len(work) /\ q \in 1 .. Len(work') /\ work'[q] = work[q]
        BY <1>3, <1>6, <1>7, <2>2, <3>1 DEF Same, Larger
    <3>3. QED
        BY <1>1, <3>1, <3>2 DEF Same
  <2>3. QED
      BY <2>1, <2>2
<1>14. RestIsOnItsWay'
    BY <1>1, <1>13 DEF RestIsOnItsWay
<1>15. OnlyDifferencesSent'
  <2> SUFFICES ASSUME NEW q \in toSend', Equal(q)'
               PROVE  FALSE
      BY DEF OnlyDifferencesSent
  <2>1. q \in toSend /\ q > p /\ q \in Nat
      BY <1>1, <1>2, <1>3
  <2>2. q \in 1 .. Len(work') /\ work'[q] = snap[q] /\ q \in 1 .. Len(snap)
      BY <1>1 DEF Equal
  <2>3. q \in 1 .. Len(work) /\ work'[q] = work[q]
      BY <1>3, <1>6, <1>7, <2>1, <2>2 DEF Larger
  <2>4. Equal(q)
      BY <2>2, <2>3 DEF Equal
  <2>5. QED
      BY <1>1, <2>1, <2>4 DEF Inductive, OnlyDifferencesSent
<1>16. SendingInside'
  <2>1. snap # <<>>
      BY <1>3
  <2>2. QED
      BY <1>1, <1>2, <1>9, <2>1 DEF SendingInside
<1>17. QED
    BY <1>8, <1>10, <1>11, <1>12, <1>14, <1>15, <1>16 DEF Inductive

-----------------------------------------------------------------------------
(* The commit.                                                             *)

\* With every page on its place, the transaction's file is as long as the
\* snapshot, or longer and cut by the commit.
LEMMA NothingLeft ==
    ASSUME Inductive, Commit
    PROVE  /\ snap \in OriginFiles /\ snap \in Seq(Image) /\ IsDatabase(snap)
           /\ work \in Seq(Image) /\ file \in Seq(Image) /\ IsDatabase(file)
           /\ \A p \in (1 .. Len(snap)) \ {LockBytePage} :
                p \in 1 .. Len(work) /\ SamePage(p, work[p], snap[p])
           /\ InWal(file) => InWal(work)
           /\ LockBytePage <= Len(work) => work[LockBytePage] = ZeroImage
           /\ ~pIns => work = Opened(file)
           /\ pIns => snap # <<>> /\ file # snap
           /\ pIns \in BOOLEAN
<1>1. phase = "sending" /\ toSend = {}
    BY DEF Commit
<1>2. QED
    BY <1>1, FilesAreDatabases DEF Inductive, TypeOK, FileIsDatabase, SnapshotOfOrigin,
        WorkIsFile, WorkKeeps, RestIsOnItsWay, SendingInside, Busy, Same

\* A transaction that wrote pages leaves a file with the snapshot's pages
\* and none more.
LEMMA CommitOfPages ==
    ASSUME Inductive, Commit, pIns, NEW c \in Nat,
           file' = Committed(file, work, pIns, Len(snap), c)
    PROVE  /\ IsDatabase(file') /\ Mirrors(file', snap)
           /\ InWal(file) => InWal(file')
<1> DEFINE n == Len(snap)
<1>1. /\ snap \in Seq(Image) /\ IsDatabase(snap) /\ snap # <<>>
      /\ work \in Seq(Image)
      /\ \A p \in (1 .. n) \ {LockBytePage} :
            p \in 1 .. Len(work) /\ SamePage(p, work[p], snap[p])
      /\ InWal(file) => InWal(work)
      /\ LockBytePage <= Len(work) => work[LockBytePage] = ZeroImage
    BY NothingLeft
<1>2. n \in Nat \ {0} /\ n # LockBytePage /\ LockBytePage \in Nat \ {0, 1}
    BY <1>1, FilesAreDatabases DEF IsDatabase
<1>3. n <= Len(work) /\ Len(work) \in Nat
    BY <1>1, <1>2
<1>4. PICK cut \in Seq(Image) :
        cut = Truncate(work, n) /\ Len(cut) = n /\ \A q \in 1 .. n : cut[q] = work[q]
    BY <1>1, <1>2, <1>3, TruncateIs DEF Smaller
<1>5. file' = Stamp(cut, c)
    BY <1>4 DEF Committed
<1>6. cut # <<>> /\ 1 \in 1 .. n
    BY <1>2, <1>4
<1>7. /\ file' \in Seq(Image) /\ Len(file') = n
      /\ file'[1].body = work[1].body
      /\ file'[1].size = work[1].size
      /\ file'[1].wal = work[1].wal
      /\ \A q \in 1 .. n : q # 1 => file'[q] = work[q]
  <2>1. /\ file' \in Seq(Image) /\ Len(file') = n
        /\ file'[1].body = cut[1].body
        /\ file'[1].size = cut[1].size
        /\ file'[1].wal = cut[1].wal
        /\ \A q \in 1 .. n : q # 1 => file'[q] = cut[q]
      BY ONLY <1>4, <1>5, <1>6, StampIs, c \in Nat, cut \in Seq(Image)
  <2>2. QED
      BY <1>4, <1>6, <2>1
<1>8. Mirrors(file', snap)
  <2> SUFFICES ASSUME NEW p \in (1 .. n) \ {LockBytePage}
               PROVE  SamePage(p, file'[p], snap[p])
      BY <1>7 DEF Mirrors
  <2>1. SamePage(p, work[p], snap[p])
      BY <1>1
  <2>2. QED
      BY <1>7, <2>1 DEF SamePage
<1>9. file'[1].size = n
    BY <1>1, <1>2, <1>6, <1>7 DEF SamePage, IsDatabase
<1>10. LockBytePage <= n => file'[LockBytePage] = ZeroImage
  <2>1. LockBytePage <= n =>
            /\ LockBytePage \in 1 .. n /\ LockBytePage # 1
            /\ LockBytePage <= Len(work)
      BY <1>2, <1>3
  <2>2. QED
      BY <1>1, <1>7, <2>1
<1>11. IsDatabase(file')
    BY <1>2, <1>7, <1>9, <1>10 DEF IsDatabase
<1>12. InWal(file) => InWal(file')
  <2>1. file' # <<>>
      BY <1>2, <1>7
  <2>2. QED
      BY <1>1, <1>7, <2>1 DEF InWal
<1>13. QED
    BY <1>8, <1>11, <1>12

\* A transaction that wrote none leaves the file alone, but for the first
\* page that opening it gave a file of none; either way it is the snapshot.
LEMMA CommitOfNone ==
    ASSUME Inductive, Commit, ~pIns, NEW c \in Nat,
           file' = Committed(file, work, pIns, Len(snap), c)
    PROVE  /\ IsDatabase(file')
           /\ snap # <<>> => Mirrors(file', snap)
           /\ InWal(file) => InWal(file')
           /\ file # <<>> => file' = file
<1>1. /\ snap \in Seq(Image) /\ IsDatabase(snap)
      /\ file \in Seq(Image) /\ IsDatabase(file)
      /\ work = Opened(file) /\ work \in Seq(Image)
      /\ \A p \in (1 .. Len(snap)) \ {LockBytePage} :
            p \in 1 .. Len(work) /\ SamePage(p, work[p], snap[p])
    BY NothingLeft
<1>2. /\ IsDatabase(work) /\ Len(work) \in Nat \ {0}
      /\ InWal(file) => InWal(work)
    BY <1>1, OpenedIs
<1>3. work # <<>> /\ 1 \in 1 .. Len(work) /\ LockBytePage \in Nat \ {0, 1}
    BY <1>1, <1>2, FilesAreDatabases
<1>4. /\ file' = IF file = <<>> THEN Stamp(work, c) ELSE work
      /\ file # <<>> => work = file
    BY <1>1, OpenedIs DEF Committed
<1>5. /\ file' \in Seq(Image) /\ Len(file') = Len(work)
      /\ file'[1].body = work[1].body
      /\ file'[1].size = work[1].size
      /\ file'[1].wal = work[1].wal
      /\ \A q \in 1 .. Len(work) : q # 1 => file'[q] = work[q]
  <2>1. CASE file = <<>>
      BY <1>1, <1>3, <1>4, <2>1, StampIs
  <2>2. CASE file # <<>>
      BY <1>1, <1>4, <2>2
  <2>3. QED
      BY <2>1, <2>2
<1>6. file' # <<>>
    BY <1>2, <1>5
<1>7. IsDatabase(file')
    BY <1>2, <1>3, <1>5, <1>6 DEF IsDatabase
<1>8. InWal(file) => InWal(file')
    BY <1>2, <1>5, <1>6 DEF InWal
<1>9. snap # <<>> => Mirrors(file', snap)
  <2> SUFFICES ASSUME snap # <<>> PROVE Mirrors(file', snap)
      OBVIOUS
  <2>1. 1 \in 1 .. Len(snap) /\ Len(snap) \in Nat
      BY <1>1
  <2>2. work[1].size = snap[1].size
      BY <1>1, <1>3, <2>1 DEF SamePage
  <2>3. Len(work) = Len(snap)
      BY <1>2, <1>1, <1>3, <2>2 DEF IsDatabase
  <2>4. ASSUME NEW p \in (1 .. Len(snap)) \ {LockBytePage}
        PROVE  SamePage(p, file'[p], snap[p])
    <3>1. SamePage(p, work[p], snap[p])
        BY <1>1
    <3>2. QED
        BY <1>5, <2>3, <3>1 DEF SamePage
  <2>5. QED
      BY <1>5, <2>3, <2>4 DEF Mirrors
<1>10. QED
    BY <1>4, <1>7, <1>8, <1>9

\* What a commit leaves, in either case.
LEMMA CommitCopies ==
    ASSUME Inductive, Commit
    PROVE  /\ snap \in OriginFiles /\ file' \in Seq(Image) /\ IsDatabase(file')
           /\ snap # <<>> => Mirrors(file', snap)
           /\ InWal(file) => InWal(file')
           /\ file = snap /\ snap # <<>> => file' = file
<1>1. PICK c \in Counters : file' = Committed(file, work, pIns, Len(snap), c)
    BY DEF Commit
<1>2. c \in Nat
    BY FilesAreDatabases
<1>3. /\ snap \in OriginFiles /\ pIns \in BOOLEAN
      /\ pIns => snap # <<>> /\ file # snap
    BY NothingLeft
<1>4. CASE pIns
    BY <1>1, <1>2, <1>3, <1>4, CommitOfPages DEF IsDatabase
<1>5. CASE ~pIns
    BY <1>1, <1>2, <1>3, <1>5, CommitOfNone DEF IsDatabase
<1>6. QED
    BY <1>3, <1>4, <1>5

LEMMA CommitInductive == Inductive /\ Commit => Inductive'
<1> SUFFICES ASSUME Inductive, Commit PROVE Inductive'
    OBVIOUS
<1>1. /\ phase' = "committed"
      /\ work' = <<>> /\ todo' = {} /\ bad' = {} /\ mxHash' = 0
      /\ toSend' = {} /\ pIns' = FALSE
      /\ UNCHANGED <<origin, snap>>
    BY DEF Commit, NoRun
<1>2. snap \in OriginFiles /\ file' \in Seq(Image) /\ IsDatabase(file')
    BY CommitCopies
<1>3. TypeOK' /\ FileIsDatabase' /\ SnapshotOfOrigin' /\ NothingBefore' /\ ~Busy'
    BY <1>1, <1>2, NoFile DEF Inductive, TypeOK, FileIsDatabase, SnapshotOfOrigin,
        NothingBefore, Busy
<1>4. QED
    BY <1>3, NotBusyInductive

-----------------------------------------------------------------------------
(* The theorems.                                                           *)

LEMMA NextInductive == Inductive /\ [Next]_vars => Inductive'
<1> SUFFICES ASSUME Inductive, [Next]_vars PROVE Inductive'
    OBVIOUS
<1>1. CASE OriginWrite
    BY <1>1, OriginWriteInductive
<1>2. CASE ReplicaWrite
    BY <1>2, ReplicaWriteInductive
<1>3. CASE Announce
    BY <1>3, AnnounceInductive
<1>4. CASE Open
    BY <1>4, OpenInductive
<1>5. ASSUME NEW r \in todo, Compare(r) PROVE Inductive'
    BY <1>5, CompareInductive
<1>6. CASE Detail
    BY <1>6, DetailInductive
<1>7. CASE Stream
    BY <1>7, StreamInductive
<1>8. ASSUME NEW p \in toSend, WritePage(p) PROVE Inductive'
    BY <1>8, WritePageInductive
<1>9. CASE Commit
    BY <1>9, CommitInductive
<1>10. CASE Abort
    BY <1>10, AbortInductive
<1>11. CASE Again
    BY <1>11, AgainInductive
<1>12. CASE UNCHANGED vars
    BY <1>12 DEF vars, Inductive, TypeOK, FileIsDatabase, SnapshotOfOrigin,
        NothingBefore, WorkIsFile, WorkKeeps, NoPageForgotten, RangesInside,
        RangesApart, RestIsOnItsWay, OnlyDifferencesSent, SendingInside, Busy, Same, Equal, Match
<1>13. QED
    BY <1>1, <1>2, <1>3, <1>4, <1>5, <1>6, <1>7, <1>8, <1>9, <1>10, <1>11, <1>12
       DEF Next

\* Every reachable state satisfies the inductive invariant.
THEOREM InductiveInvariant == Spec => []Inductive
    BY InitInductive, NextInductive, PTL DEF Spec

\* The types of all variables.
THEOREM TypeCorrect == Spec => []TypeOK
<1>1. Inductive => TypeOK
    BY DEF Inductive
<1>2. QED
    BY <1>1, InductiveInvariant, PTL

\* No page of the replica escapes comparison.
THEOREM NoPageIsForgotten == Spec => []NoPageForgotten
<1>1. Inductive => NoPageForgotten
    BY DEF Inductive
<1>2. QED
    BY <1>1, InductiveInvariant, PTL

\* The ranges under way never overlap, and badHash stays below mxHash.
THEOREM RangesStayApart == Spec => []RangesApart
<1>1. Inductive => RangesApart
    BY DEF Inductive
<1>2. QED
    BY <1>1, InductiveInvariant, PTL

\* Once pages are sent, what is not the origin's yet will be.
THEOREM TheRestIsOnItsWay == Spec => []RestIsOnItsWay
<1>1. Inductive => RestIsOnItsWay
    BY DEF Inductive
<1>2. QED
    BY <1>1, InductiveInvariant, PTL

\* A page that matched is not sent.
THEOREM OnlyDifferencesAreSent == Spec => []OnlyDifferencesSent
<1>1. Inductive => OnlyDifferencesSent
    BY DEF Inductive
<1>2. QED
    BY <1>1, InductiveInvariant, PTL

\* The replica's file is a well-formed database at all times.
THEOREM FileStaysDatabase == Spec => []FileIsDatabase
<1>1. Inductive => FileIsDatabase
    BY DEF Inductive
<1>2. QED
    BY <1>1, InductiveInvariant, PTL

\* Only Commit reaches the phase "committed".
LEMMA OnlyCommit ==
    ASSUME [Next]_vars, phase # "committed", phase' = "committed"
    PROVE  Commit
    BY DEF Next, vars, OriginWrite, ReplicaWrite, Announce, Open, Compare, Detail,
        Stream, WritePage, Abort, Again

\* A commit makes the replica a copy of the origin as announced.
THEOREM CommitsMirror == Spec => CommitMirrors
<1>1. Inductive /\ [Next]_vars =>
        [phase # "committed" /\ phase' = "committed" /\ snap # <<>>
            => Mirrors(file', snap)]_vars
    BY OnlyCommit, CommitCopies
<1>2. QED
    BY <1>1, InductiveInvariant, PTL DEF Spec, CommitMirrors

\* A commit leaves a WAL replica in WAL mode.
THEOREM WalIsKept == Spec => WalReplicaStaysWal
<1>1. Inductive /\ [Next]_vars =>
        [phase = "sending" /\ phase' = "committed" /\ InWal(file)
            => InWal(file')]_vars
    BY OnlyCommit, CommitCopies
<1>2. QED
    BY <1>1, InductiveInvariant, PTL DEF Spec, WalReplicaStaysWal

\* A commit over an identical replica changes nothing.
THEOREM IdenticalIsUntouched == Spec => IdenticalUntouched
<1>1. Inductive /\ [Next]_vars =>
        [phase = "sending" /\ phase' = "committed" /\ file = snap /\ snap # <<>>
            => file' = file]_vars
    BY OnlyCommit, CommitCopies
<1>2. QED
    BY <1>1, InductiveInvariant, PTL DEF Spec, IdenticalUntouched

\* The whole exchange implements the one-step copy: every step of it is a step
\* of SnapshotCopy or leaves its variables alone.
THEOREM ExchangeImplementsCopy == Spec => ImplementsCopy
<1>1. Init => Promise!Init
    BY DEF Init, Promise!Init
<1>2. Inductive /\ [Next]_vars => [Promise!Next]_Promise!vars
  <2> SUFFICES ASSUME Inductive, [Next]_vars
               PROVE  [Promise!Next]_Promise!vars
      OBVIOUS
  <2> USE DEF Promise!Next, Promise!vars
  <2>1. CASE OriginWrite
      BY <2>1 DEF OriginWrite, Promise!OriginWrite
  <2>2. CASE ReplicaWrite
      BY <2>2 DEF ReplicaWrite, Promise!ReplicaWrite, Inductive, TypeOK
  <2>3. CASE Announce
      BY <2>3 DEF Announce, Promise!Announce
  <2>4. CASE Open
      BY <2>4 DEF Open, Promise!Open
  <2>5. ASSUME NEW r \in todo, Compare(r) PROVE UNCHANGED Promise!vars
      BY <2>5 DEF Compare
  <2>6. CASE Detail
      BY <2>6 DEF Detail
  <2>7. CASE Stream
      BY <2>7 DEF Stream
  <2>8. ASSUME NEW p \in toSend, WritePage(p) PROVE UNCHANGED Promise!vars
      BY <2>8 DEF WritePage
  <2>9. CASE Commit
    <3>1. /\ IsDatabase(file') => Promise!IsDatabase(file')
          /\ Mirrors(file', snap) => Promise!Mirrors(file', snap)
          /\ InWal(file) = Promise!InWal(file)
          /\ InWal(file') = Promise!InWal(file')
        BY DEF IsDatabase, Promise!IsDatabase, Image, Promise!Image,
            ZeroImage, Promise!ZeroImage, Mirrors, Promise!Mirrors,
            SamePage, Promise!SamePage, InWal, Promise!InWal
    <3>2. snap # <<>> => Promise!CopyOf(file', file)
        BY <2>9, <3>1, CommitCopies DEF Promise!CopyOf
    <3>3. QED
        BY <2>9, <3>2 DEF Commit, Promise!Commit
  <2>10. CASE Abort
      BY <2>10 DEF Abort, Promise!Abort
  <2>11. CASE Again
      BY <2>11 DEF Again, Promise!Again
  <2>12. CASE UNCHANGED vars
      BY <2>12 DEF vars
  <2>13. QED
      BY <2>1, <2>2, <2>3, <2>4, <2>5, <2>6, <2>7, <2>8, <2>9, <2>10, <2>11, <2>12
      DEF Next
<1>3. QED
    BY <1>1, <1>2, InductiveInvariant, PTL DEF Spec, ImplementsCopy, Promise!Spec
=============================================================================
