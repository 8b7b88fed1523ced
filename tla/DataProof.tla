----------------------------- MODULE DataProof -----------------------------
(***************************************************************************)
(* The operators of HashRanges and Pages, for every value of the           *)
(* constants: the pieces of a range tile it and are smaller than it, the   *)
(* first ranges of a replica cover its pages (MCHashRanges checks this for *)
(* the code's sizes), and what the operations on database files return and *)
(* preserve.                                                               *)
(***************************************************************************)
EXTENDS HashRanges, Pages, TLAPS

Positive == Nat \ {0}

-----------------------------------------------------------------------------
(* Arithmetic.                                                             *)

LEMMA DivMod ==
    ASSUME NEW a \in Nat, NEW c \in Positive
    PROVE  /\ a = (c * (a \div c)) + (a % c)
           /\ a \div c \in Nat
           /\ a % c \in 0 .. (c - 1)
    BY DEF Positive

\* The multiple of c below a.
LEMMA MultipleBelow ==
    ASSUME NEW a \in Nat, NEW c \in Positive
    PROVE  a - (a % c) \in Nat /\ (a - (a % c)) % c = 0
<1>1. /\ a - (a % c) = c * (a \div c)
      /\ a \div c \in Nat
    BY DivMod DEF Positive
<1>2. \A k \in Nat : (c * k) % c = 0 /\ c * k \in Nat
    BY DEF Positive
<1>3. QED
    BY <1>1, <1>2

\* Two multiples of c are at least c apart.
LEMMA MultiplesApart ==
    ASSUME NEW a \in Nat, NEW b \in Nat, NEW c \in Positive,
           a % c = 0, b % c = 0, a < b
    PROVE  a + c <= b
<1>1. PICK k \in Nat : a = c * k
  <2>1. a = c * (a \div c) /\ a \div c \in Nat
      BY DivMod DEF Positive
  <2>2. QED
      BY <2>1
<1>2. PICK l \in Nat : b = c * l
  <2>1. b = c * (b \div c) /\ b \div c \in Nat
      BY DivMod DEF Positive
  <2>2. QED
      BY <2>1
<1>3. k < l
    BY <1>1, <1>2 DEF Positive
<1>4. c * l >= c * (k + 1)
    BY <1>3 DEF Positive
<1>5. QED
    BY <1>1, <1>2, <1>4 DEF Positive

-----------------------------------------------------------------------------
(* Subdivision.                                                            *)

\* The chunk of a range fits into it, and is smaller unless it is one page.
LEMMA NChunkFits ==
    ASSUME NEW n \in Positive
    PROVE  /\ NChunk(n) \in Positive
           /\ NChunk(n) <= n
           /\ n > 1 => NChunk(n) < n
    BY RangeAssumption DEF NChunk, Positive

\* The pieces of a range are ranges, they cover it exactly, no two of them
\* overlap, and each is smaller than it unless it is a single page
\* (subdivide.go, subdivideHashRange).
THEOREM SubdivideTiles ==
    ASSUME NEW f \in Positive, NEW n \in Positive
    PROVE  /\ Subdivide(f, n) \subseteq Positive \X Positive
           /\ PagesOf(Subdivide(f, n)) = PagesIn(<<f, n>>)
           /\ \A r, s \in Subdivide(f, n) :
                r # s => PagesIn(r) \intersect PagesIn(s) = {}
           /\ n > 1 => \A r \in Subdivide(f, n) : r[2] < n
<1> DEFINE c == NChunk(n)
           Firsts == {x \in f .. ((f + n) - 1) : (x - f) % c = 0}
           size(m) == IF (f + n) - m < c THEN (f + n) - m ELSE c
           Rows(S) == {<<m, size(m)>> : m \in S}
<1>0. /\ c \in Positive /\ c <= n
      /\ n > 1 => c < n
    BY NChunkFits
<1>1. Subdivide(f, n) = {<<m, size(m)>> : m \in Firsts}
  <2>1. Subdivide(f, n) = Rows({f} \union Firsts)
      BY DEF Subdivide
  <2>2. {f} \union Firsts = Firsts
      BY <1>0 DEF Positive
  <2>3. QED
      BY <2>1, <2>2
<1> HIDE DEF c
<1>2. ASSUME NEW m \in Firsts
      PROVE  /\ m \in Positive /\ size(m) \in Positive
             /\ m >= f /\ m + size(m) <= f + n
             /\ size(m) <= c
    BY <1>0 DEF Positive
<1>3. Subdivide(f, n) \subseteq Positive \X Positive
    BY <1>1, <1>2
<1>4. PagesOf(Subdivide(f, n)) \subseteq PagesIn(<<f, n>>)
    BY <1>1, <1>2 DEF PagesOf, PagesIn, Positive
<1>5. ASSUME NEW p \in PagesIn(<<f, n>>)
      PROVE  p \in PagesOf(Subdivide(f, n))
  <2> DEFINE m == p - ((p - f) % c)
  <2>1. p \in f .. (f + n - 1)
      BY DEF PagesIn
  <2>2. p - f \in Nat
      BY <2>1 DEF Positive
  <2>3. /\ (p - f) % c \in 0 .. (c - 1)
        /\ (p - f) - ((p - f) % c) \in Nat
        /\ ((p - f) - ((p - f) % c)) % c = 0
      BY <2>2, <1>0, DivMod, MultipleBelow
  <2>4. m - f = (p - f) - ((p - f) % c)
      BY <2>1, <2>3, <1>0 DEF Positive
  <2>5. m \in Firsts
      BY <2>1, <2>3, <2>4, <1>0 DEF Positive
  <2>6. p \in m .. (m + size(m) - 1)
      BY <2>1, <2>3, <1>0 DEF Positive
  <2>7. /\ <<m, size(m)>> \in Subdivide(f, n)
        /\ p \in PagesIn(<<m, size(m)>>)
      BY <1>1, <2>5, <2>6 DEF PagesIn
  <2>8. QED
      BY <2>7 DEF PagesOf
<1>6. ASSUME NEW m1 \in Firsts, NEW m2 \in Firsts, m1 < m2
      PROVE  m1 + size(m1) <= m2
  <2>1. /\ m1 - f \in Nat /\ (m1 - f) % c = 0
        /\ m2 - f \in Nat /\ (m2 - f) % c = 0
        /\ m1 - f < m2 - f
      BY <1>6 DEF Positive
  <2>2. (m1 - f) + c <= m2 - f
      BY <2>1, <1>0, MultiplesApart
  <2>3. QED
      BY <2>2, <1>0, <1>2 DEF Positive
<1>7. \A r, s \in Subdivide(f, n) :
        r # s => PagesIn(r) \intersect PagesIn(s) = {}
  <2> SUFFICES ASSUME NEW m1 \in Firsts, NEW m2 \in Firsts, m1 # m2
               PROVE  (m1 .. (m1 + size(m1) - 1))
                        \intersect (m2 .. (m2 + size(m2) - 1)) = {}
      BY <1>1 DEF PagesIn
  <2>1. m1 + size(m1) <= m2 \/ m2 + size(m2) <= m1
      BY <1>6 DEF Positive
  <2>2. QED
      BY <2>1, <1>2 DEF Positive
<1>8. n > 1 => \A r \in Subdivide(f, n) : r[2] < n
    BY <1>0, <1>1, <1>2 DEF Positive
<1>9. QED
    BY <1>3, <1>4, <1>5, <1>7, <1>8

-----------------------------------------------------------------------------
(* The first round.                                                        *)

\* The first ranges are ranges, cover the replica's pages exactly and share
\* none, in either protocol (replica.go, the ORIGIN_BEGIN handler).
THEOREM FirstRangesCover ==
    ASSUME NEW n \in Positive, NEW v \in {1, 2}
    PROVE  /\ FirstRanges(v, n) \subseteq Positive \X Positive
           /\ PagesOf(FirstRanges(v, n)) = 1 .. n
           /\ \A r, s \in FirstRanges(v, n) :
                r # s => PagesIn(r) \intersect PagesIn(s) = {}
<1>1. CASE v < 2 \/ n <= FlatMax
  <2>1. FirstRanges(v, n) = {<<p, 1>> : p \in 1 .. n}
      BY <1>1 DEF FirstRanges, Positive
  <2>2. PagesOf(FirstRanges(v, n)) = 1 .. n
    <3>1. \A p \in 1 .. n : PagesIn(<<p, 1>>) = {p}
        BY DEF PagesIn
    <3>2. \A r \in FirstRanges(v, n) : \E p \in 1 .. n : PagesIn(r) = {p}
        BY <2>1, <3>1
    <3>3. \A p \in 1 .. n : \E r \in FirstRanges(v, n) : PagesIn(r) = {p}
        BY <2>1, <3>1
    <3>4. QED
        BY <3>2, <3>3 DEF PagesOf
  <2>3. \A r, s \in FirstRanges(v, n) :
          r # s => PagesIn(r) \intersect PagesIn(s) = {}
      BY <2>1 DEF PagesIn
  <2>4. FirstRanges(v, n) \subseteq Positive \X Positive
      BY <2>1 DEF Positive
  <2>5. QED
      BY <2>2, <2>3, <2>4
<1>2. CASE ~(v < 2 \/ n <= FlatMax)
  <2>1. n - 1 \in Positive /\ 2 \in Positive
      BY <1>2, RangeAssumption DEF Positive
  <2>2. /\ Subdivide(2, n - 1) \subseteq Positive \X Positive
        /\ PagesOf(Subdivide(2, n - 1)) = 2 .. n
        /\ \A r, s \in Subdivide(2, n - 1) :
             r # s => PagesIn(r) \intersect PagesIn(s) = {}
    <3>1. PagesIn(<<2, n - 1>>) = 2 .. n
        BY DEF PagesIn, Positive
    <3>2. QED
        BY <2>1, <3>1, SubdivideTiles
  <2>3. \A r \in Subdivide(2, n - 1) : r[1] \in PagesIn(r) /\ r[1] # 1
    <3> SUFFICES ASSUME NEW r \in Subdivide(2, n - 1)
                 PROVE  r[1] \in PagesIn(r) /\ r[1] # 1
        OBVIOUS
    <3>1. r[1] \in PagesIn(r)
        BY <2>2 DEF PagesIn, Positive
    <3>2. r[1] \in 2 .. n
        BY <2>2, <3>1 DEF PagesOf
    <3>3. QED
        BY <3>1, <3>2
  <2>4. FirstRanges(v, n) = {<<1, 1>>} \union Subdivide(2, n - 1)
      BY <1>2, <2>2, <2>3 DEF FirstRanges, ReplaceInto
  <2>5. PagesOf(FirstRanges(v, n)) = {1} \union (2 .. n)
    <3>1. PagesIn(<<1, 1>>) = {1}
        BY DEF PagesIn
    <3>2. QED
        BY <2>2, <2>4, <3>1 DEF PagesOf
  <2>6. {1} \union (2 .. n) = 1 .. n /\ 1 \in Positive
      BY DEF Positive
  <2>7. FirstRanges(v, n) \subseteq Positive \X Positive
      BY <2>2, <2>4, <2>6
  <2>8. \A r \in Subdivide(2, n - 1) :
          PagesIn(<<1, 1>>) \intersect PagesIn(r) = {}
    <3>1. \A r \in Subdivide(2, n - 1) : PagesIn(r) \subseteq 2 .. n
        BY <2>2 DEF PagesOf
    <3>2. PagesIn(<<1, 1>>) = {1}
        BY DEF PagesIn
    <3>3. 1 \notin 2 .. n
        BY <2>1 DEF Positive
    <3>4. QED
        BY <3>1, <3>2, <3>3
  <2>9. \A r, s \in FirstRanges(v, n) :
          r # s => PagesIn(r) \intersect PagesIn(s) = {}
      BY <2>2, <2>4, <2>8
  <2>10. QED
      BY <2>5, <2>6, <2>7, <2>9
<1>3. QED
    BY <1>1, <1>2

-----------------------------------------------------------------------------
(* Database files.                                                         *)

LEMMA SeqOfImages ==
    ASSUME NEW n \in Nat, NEW db \in [1 .. n -> Image]
    PROVE  db \in Seq(Image) /\ Len(db) = n
    OBVIOUS

LEMMA ImagesAreImages ==
    ZeroImage \in Image /\ EmptyImage \in Image
    BY DEF ZeroImage, EmptyImage, Image

\* Opening a write transaction keeps a file a database, and gives it a page.
LEMMA OpenedIs ==
    ASSUME NEW db \in Seq(Image)
    PROVE  /\ Opened(db) \in Seq(Image)
           /\ Len(Opened(db)) \in Nat \ {0}
           /\ db # <<>> => Opened(db) = db
           /\ InWal(db) => InWal(Opened(db))
           /\ IsDatabase(db) => IsDatabase(Opened(db))
<1>1. CASE db = <<>>
  <2>1. /\ Opened(db) = <<EmptyImage>>
        /\ <<EmptyImage>> \in Seq(Image) /\ Len(<<EmptyImage>>) = 1
        /\ <<EmptyImage>>[1] = EmptyImage
      BY <1>1, ImagesAreImages DEF Opened
  <2>2. /\ Opened(db) \in Seq(Image) /\ Len(Opened(db)) = 1
        /\ Opened(db)[1] = EmptyImage
      BY <2>1
  <2>3. ~InWal(db)
      BY <1>1 DEF InWal
  <2>4. IsDatabase(Opened(db))
      BY <2>2, PagesAssumption DEF IsDatabase, EmptyImage
  <2>5. QED
      BY <1>1, <2>2, <2>3, <2>4
<1>2. CASE db # <<>>
    BY <1>2 DEF Opened
<1>3. QED
    BY <1>1, <1>2

\* Writing a page changes that page, and puts zero pages between the old end
\* and it.
IsInsertion(new, db, p, image) ==
    /\ new \in Seq(Image)
    /\ Len(new) = Larger(Len(db), p)
    /\ new[p] = image
    /\ \A q \in 1 .. Len(db) : q # p => new[q] = db[q]
    /\ \A q \in (Len(db) + 1) .. (p - 1) : new[q] = ZeroImage

LEMMA InsertPageIs ==
    ASSUME NEW db \in Seq(Image), NEW p \in Nat \ {0}, NEW image \in Image
    PROVE  IsInsertion(InsertPage(db, p, image), db, p, image)
<1> DEFINE n == Larger(Len(db), p)
           new == InsertPage(db, p, image)
<1>1. n \in Nat /\ n >= p /\ n >= Len(db) /\ Len(db) \in Nat
    BY DEF Larger
<1>2. new \in [1 .. n -> Image]
    BY <1>1, ImagesAreImages DEF InsertPage
<1>3. new \in Seq(Image) /\ Len(new) = n
    BY <1>1, <1>2, SeqOfImages
<1>4. \A q \in 1 .. n : new[q] =
        IF q = p THEN image ELSE IF q <= Len(db) THEN db[q] ELSE ZeroImage
    BY DEF InsertPage
<1>5. QED
    BY <1>1, <1>3, <1>4 DEF IsInsertion

LEMMA TruncateIs ==
    ASSUME NEW db \in Seq(Image), NEW n \in Nat
    PROVE  LET new == Truncate(db, n) IN
           /\ new \in Seq(Image)
           /\ Len(new) = Smaller(n, Len(db))
           /\ \A q \in 1 .. Len(new) : new[q] = db[q]
<1> DEFINE m == Smaller(n, Len(db))
           new == Truncate(db, n)
<1>1. m \in Nat /\ m <= Len(db)
    BY DEF Smaller
<1>2. new \in [1 .. m -> Image] /\ \A q \in 1 .. m : new[q] = db[q]
    BY <1>1 DEF Truncate
<1>3. QED
    BY <1>1, <1>2, SeqOfImages

\* A commit's stamp touches the change counter of page 1 and nothing else.
LEMMA StampIs ==
    ASSUME NEW db \in Seq(Image), NEW c \in Nat
    PROVE  LET new == Stamp(db, c) IN
           /\ new \in Seq(Image)
           /\ Len(new) = Len(db)
           /\ db # <<>> => /\ new[1].body = db[1].body
                           /\ new[1].size = db[1].size
                           /\ new[1].wal = db[1].wal
           /\ \A q \in 1 .. Len(db) : q # 1 => new[q] = db[q]
<1> DEFINE new == Stamp(db, c)
           one == [db[1] EXCEPT !.chg = c]
<1>1. \A q \in 1 .. Len(db) : new[q] = IF q = 1 THEN one ELSE db[q]
    BY DEF Stamp
<1>2. \A i \in Image : /\ [i EXCEPT !.chg = c] \in Image
                       /\ [i EXCEPT !.chg = c].body = i.body
                       /\ [i EXCEPT !.chg = c].size = i.size
                       /\ [i EXCEPT !.chg = c].wal = i.wal
    BY DEF Image
<1>3. 1 \in 1 .. Len(db) => db[1] \in Image
    OBVIOUS
<1>4. new \in [1 .. Len(db) -> Image]
  <2>1. \A q \in 1 .. Len(db) : (IF q = 1 THEN one ELSE db[q]) \in Image
      BY <1>2, <1>3
  <2>2. QED
      BY <2>1 DEF Stamp
<1>5. new \in Seq(Image) /\ Len(new) = Len(db)
    BY <1>4, SeqOfImages
<1>6. db # <<>> => 1 \in 1 .. Len(db)
    OBVIOUS
<1>7. QED
    BY <1>1, <1>2, <1>3, <1>5, <1>6

\* The page the replica writes is the origin's but for the journal mode.
LEMMA ForReplicaIs ==
    ASSUME NEW p \in Nat \ {0}, NEW image \in Image, NEW w \in BOOLEAN
    PROVE  /\ ForReplica(p, image, w) \in Image
           /\ SamePage(p, ForReplica(p, image, w), image)
           /\ p = 1 /\ w => ForReplica(p, image, w).wal
           /\ ForReplica(p, image, w).size = image.size
    BY DEF ForReplica, SamePage, Image

\* Equal hashes mean equal pages: what the replica has of the range, the
\* origin has too, and it is the same.
LEMMA EqualHashes ==
    ASSUME NEW a \in Seq(Image), NEW b \in Seq(Image),
           NEW f \in Nat \ {0}, NEW n \in Nat \ {0},
           HashOf(a, f, n) = HashOf(b, f, n),
           NEW p \in f .. ((f + n) - 1), p \in 1 .. Len(b)
    PROVE  p \in 1 .. Len(a) /\ a[p] = b[p]
<1> DEFINE pages(db) == [i \in 1 .. Existing(db, f, n) |-> db[(f + i) - 1]]
           i == (p - f) + 1
<1>1. pages(a) = pages(b)
  <2>1. HashOf(a, f, n).pages = pages(a) /\ HashOf(b, f, n).pages = pages(b)
      BY DEF HashOf
  <2>2. QED
      BY <2>1
<1>2. Existing(a, f, n) \in Nat /\ Existing(b, f, n) \in Nat
    BY DEF Existing, Smaller
<1>3. i \in 1 .. Existing(b, f, n)
    BY DEF Existing, Smaller
<1>4. DOMAIN pages(a) = 1 .. Existing(a, f, n) /\ DOMAIN pages(b) = 1 .. Existing(b, f, n)
    OBVIOUS
<1>5. i \in 1 .. Existing(a, f, n)
    BY <1>1, <1>3, <1>4
<1>6. p <= Len(a)
    BY <1>2, <1>5 DEF Existing, Smaller
<1>7. pages(a)[i] = a[(f + i) - 1] /\ pages(b)[i] = b[(f + i) - 1]
    BY <1>3, <1>5
<1>8. (f + i) - 1 = p
    OBVIOUS
<1> HIDE DEF pages, i
<1>9. a[p] = b[p]
    BY <1>1, <1>7, <1>8
<1>10. QED
    BY <1>6, <1>9

\* Equal pages have equal hashes.
LEMMA EqualPage ==
    ASSUME NEW a \in Seq(Image), NEW b \in Seq(Image),
           NEW p \in 1 .. Len(a), p \in 1 .. Len(b), a[p] = b[p]
    PROVE  HashOf(a, p, 1) = HashOf(b, p, 1) /\ ~IsNull(HashOf(a, p, 1))
<1>1. Existing(a, p, 1) = 1 /\ Existing(b, p, 1) = 1
    BY DEF Existing, Smaller
<1>2. \A i \in 1 .. 1 : (p + i) - 1 = p
    OBVIOUS
<1>3. HashOf(a, p, 1) = HashOf(b, p, 1)
    BY <1>1, <1>2 DEF HashOf
<1>4. HashOf(a, p, 1).pages # <<>>
    BY <1>1 DEF HashOf
<1>5. QED
    BY <1>3, <1>4 DEF IsNull
=============================================================================
