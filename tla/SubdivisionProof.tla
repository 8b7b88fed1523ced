-------------------------- MODULE SubdivisionProof --------------------------
(***************************************************************************)
(* The drill-down of a range of any length, for groups of any two sizes:   *)
(* its pieces tile it, three rounds end at single pages, and the recursive *)
(* query makes the rows Subdivide writes down.                             *)
(***************************************************************************)
EXTENDS Subdivision, DataProof, Induction

\* No piece is larger than the chunk.
LEMMA PiecesSmall ==
    ASSUME NEW f \in Positive, NEW n \in Positive
    PROVE  \A r \in Subdivide(f, n) : r[2] <= NChunk(n)
<1>1. NChunk(n) \in Positive
    BY NChunkFits
<1> QED
    BY <1>1 DEF Subdivide, Positive

\* The sizes the rounds come down to.
Down ==
    /\ range \in Positive \X Positive /\ level \in 0 .. 3
    /\ level = 1 => range[2] <= Coarse
    /\ level = 2 => range[2] <= Fine
    /\ level = 3 => range[2] = 1

\* Every cut comes down to the next size.
THEOREM RoundsComeDown == Spec => []Down
<1>1. Init => Down
    <2> SUFFICES ASSUME Init PROVE Down
        OBVIOUS
    <2>1. range \in Positive \X Positive /\ level = 0
        BY SubdivisionAssumption DEF Init, Positive
    <2> QED
        BY <2>1 DEF Down
<1>2. Down /\ [Cut]_vars => Down'
    <2> SUFFICES ASSUME Down, [Cut]_vars PROVE Down'
        OBVIOUS
    <2>1. CASE UNCHANGED vars
        BY <2>1 DEF vars, Down
    <2>2. CASE Cut
        <3> DEFINE n == range[2]
        <3>1. range[1] \in Positive /\ n \in Positive /\ n > 1
            BY <2>2 DEF Cut, Down
        <3>2. range' \in Positive \X Positive /\ range'[2] <= NChunk(n)
            BY <2>2, <3>1, SubdivideTiles, PiecesSmall DEF Cut
        <3>3. level' = level + 1 /\ level \in 0 .. 3
            BY <2>2 DEF Cut, Down
        <3>4. /\ NChunk(n) <= Coarse
              /\ n <= Coarse => NChunk(n) <= Fine
              /\ n <= Fine => NChunk(n) = 1
            BY <3>1, RangeAssumption DEF NChunk, Positive
        <3>5. level # 3
            BY <3>1 DEF Down
        <3>6. range'[2] \in Nat \ {0}
            BY <3>2 DEF Positive
        <3>7. /\ level = 1 => n <= Coarse
              /\ level = 2 => n <= Fine
            BY DEF Down
        <3> HIDE DEF n
        <3>8. level' \in 0 .. 3
            BY <3>3, <3>5
        <3>9. level' = 1 => range'[2] <= Coarse
            BY <3>1, <3>2, <3>4, <3>6, RangeAssumption DEF NChunk, Positive
        <3>10. level' = 2 => range'[2] <= Fine
            BY <3>1, <3>2, <3>3, <3>4, <3>6, <3>7, RangeAssumption DEF NChunk, Positive
        <3>11. level' = 3 => range'[2] = 1
            BY <3>2, <3>3, <3>4, <3>6, <3>7
        <3> QED
            BY <3>2, <3>8, <3>9, <3>10, <3>11 DEF Down
    <2> QED
        BY <2>1, <2>2
<1> QED
    BY <1>1, <1>2, PTL DEF Spec

\* The pieces of every range met on the way tile it (subdivide.go,
\* subdivideHashRange).
THEOREM PiecesAlwaysTile == Spec => []PiecesTile
<1>1. Down => PiecesTile
    <2> SUFFICES ASSUME Down PROVE PiecesTile
        OBVIOUS
    <2>1. range[1] \in Positive /\ range[2] \in Positive /\ range = <<range[1], range[2]>>
        BY DEF Down
    <2> QED
        BY <2>1, SubdivideTiles DEF PiecesTile, Pieces
<1> QED
    BY <1>1, RoundsComeDown, PTL

\* Three rounds reach single pages, for a range of any length (subdivide.go,
\* nChunk).
THEOREM RoundsAreThree == Spec => []ThreeRounds
<1>1. Down => ThreeRounds
    BY DEF Down, ThreeRounds
<1> QED
    BY <1>1, RoundsComeDown, PTL

\* The recursive query makes the rows of Subdivide: the rows from n on are
\* those at n and every chunk after it.
LEMMA QueryIsSubdivide ==
    ASSUME NEW f \in Positive, NEW npg \in Positive
    PROVE  CteRows(f, npg) = Subdivide(f, npg)
<1> DEFINE c == NChunk(npg)
           e == f + npg
           D == f .. (e - 1)
           row(n) == <<n, IF e - n < c THEN e - n ELSE c>>
           After(n) == {row(m) : m \in {x \in n .. (e - 1) : (x - n) % c = 0}}
           Body(u) == [n \in D |-> {row(n)} \union (IF n + c < e THEN u[n + c] ELSE {})]
           all == [n \in D |-> After(n)]
           from == CHOOSE u : u = Body(u)
<1>1. c \in Positive /\ e \in Nat /\ f < e
    BY NChunkFits DEF Positive
<1> HIDE DEF c, e
<1>2. \A n \in D : n \in Nat /\ f <= n /\ n < e
    BY <1>1 DEF Positive
<1>3. ASSUME NEW n \in D
      PROVE  After(n) = {row(n)} \union (IF n + c < e THEN After(n + c) ELSE {})
    <2> DEFINE N == {x \in n .. (e - 1) : (x - n) % c = 0}
               M == {x \in (n + c) .. (e - 1) : (x - (n + c)) % c = 0}
    <2>1. n \in Nat /\ n < e /\ c \in Nat \ {0}
        BY <1>1, <1>2 DEF Positive
    <2>2. \A k \in Nat : (k + c) % c = k % c
        <3> TAKE k \in Nat
        <3>1. \A d \in Nat \ {0}, q, t \in Nat : t < d => (q * d + t) % d = t
            BY SMT
        <3> DEFINE q == k \div c
                   t == k % c
        <3>2. k = c * q + t /\ q \in Nat /\ t \in 0 .. (c - 1)
            BY <2>1, DivMod DEF Positive
        <3> HIDE DEF q, t
        <3>3. k + c = (q + 1) * c + t /\ t < c /\ q + 1 \in Nat /\ t \in Nat
            BY <2>1, <3>2
        <3>4. (k + c) % c = t
            BY <2>1, <3>1, <3>3
        <3> QED
            BY <3>4 DEF t
    <2>3. n \in N
        <3>1. n - n = 0 /\ 0 % c = 0
            BY <2>1
        <3> QED
            BY <2>1, <3>1, <1>1
    <2>4. ASSUME NEW x \in N, x # n
          PROVE  x \in M /\ n + c < e
        <3>1. x \in Nat /\ x - n \in Nat /\ n < x /\ x < e /\ (x - n) % c = 0
            BY <2>1, <2>4, <1>1
        <3>2. c <= x - n
            <4>1. \A k \in Nat, d \in Nat \ {0} : k < d => k % d = k
                BY SMT
            <4> SUFFICES ASSUME x - n < c PROVE FALSE
                BY <3>1, <2>1
            <4>2. (x - n) % c = x - n
                BY <3>1, <2>1, <4>1
            <4> QED
                BY <3>1, <4>2
        <3>3. x - (n + c) \in Nat /\ (x - (n + c)) + c = x - n
            BY <2>1, <3>1, <3>2
        <3>4. (x - (n + c)) % c = 0
            BY <2>1, <2>2, <3>1, <3>3
        <3> QED
            BY <2>1, <3>1, <3>2, <3>4, <1>1
    <2>5. ASSUME NEW x \in M
          PROVE  x \in N
        <3>1. x - (n + c) \in Nat /\ (x - (n + c)) + c = x - n /\ (x - (n + c)) % c = 0
              /\ x \in n .. (e - 1)
            BY <2>1, <2>5, <1>1
        <3>2. (x - n) % c = 0
            BY <2>1, <2>2, <3>1
        <3> QED
            BY <3>1, <3>2
    <2>6. ~ (n + c < e) => M = {}
        BY <2>1, <1>1
    <2> HIDE DEF N, M
    <2>7. N = {n} \union (IF n + c < e THEN M ELSE {})
        BY <2>3, <2>4, <2>5, <2>6
    <2>8. After(n) = {row(m) : m \in N} /\ After(n + c) = {row(m) : m \in M}
        BY DEF N, M
    <2> HIDE DEF row, After
    <2> QED
        BY <2>7, <2>8
<1> HIDE DEF After
<1>4. all = Body(all)
    <2>1. \A n \in D : n + c < e => n + c \in D
        BY <1>1, <1>2 DEF Positive
    <2> HIDE DEF D, row
    <2>2. \A n \in D : After(n) = {row(n)} \union (IF n + c < e THEN all[n + c] ELSE {})
        BY <1>3, <2>1
    <2> QED
        BY <2>2
<1>5. from = Body(from)
    <2> HIDE DEF Body, all
    <2> QED
        BY <1>4
<1> HIDE DEF from
<1>6. \A n \in D : from[n] = {row(n)} \union (IF n + c < e THEN from[n + c] ELSE {})
    <2> HIDE DEF D, row
    <2> QED
        BY <1>5
<1>7. \A n \in D : from[n] = After(n)
    <2> DEFINE last == e - 1
               C == {k \in 0 .. (last - f) :
                        \A n \in D : last - n <= k => from[n] = After(n)}
    <2>1. last \in Nat /\ last - f \in Nat
        BY <1>1 DEF Positive
    <2>2. 0 \in C
        <3> SUFFICES ASSUME NEW n \in D, last - n <= 0
                     PROVE  from[n] = After(n)
            BY <2>1
        <3>1. ~ (n + c < e)
            BY <1>1, <1>2 DEF Positive
        <3> QED
            BY <3>1, <1>3, <1>6
    <2>3. ASSUME NEW k \in 0 .. (last - f), k # last - f, k \in C
          PROVE  k + 1 \in C
        <3>1. k + 1 \in 0 .. (last - f)
            BY <2>1, <2>3
        <3>2. ASSUME NEW n \in D, last - n <= k + 1
              PROVE  from[n] = After(n)
            <4>1. CASE n + c < e
                <5>1. n + c \in D /\ last - (n + c) <= k
                    BY <4>1, <3>2, <2>1, <1>1, <1>2 DEF Positive
                <5>2. from[n + c] = After(n + c)
                    BY <5>1, <2>3
                <5> QED
                    BY <5>2, <1>3, <1>6
            <4>2. CASE ~ (n + c < e)
                BY <4>2, <1>3, <1>6
            <4> QED
                BY <4>1, <4>2
        <3> QED
            BY <3>1, <3>2
    <2>4. \A k \in 0 .. (last - f) : k \in C
        <3> DEFINE top == last - f
        <3>1. top \in Nat /\ 0 \in C
            BY <2>1, <2>2
        <3>2. \A k \in 0 .. top : k # top /\ k \in C => k + 1 \in C
            BY <2>3
        <3> HIDE DEF C, top
        <3> QED
            BY <3>1, <3>2, InductionTo DEF top
    <2>5. last - f \in 0 .. (last - f) /\ \A n \in D : last - n <= last - f
        BY <2>1, <1>1, <1>2 DEF Positive
    <2> QED
        BY <2>4, <2>5
<1>8. f \in D
    BY <1>1 DEF Positive
<1>9. CteRows(f, npg) = from[f]
    BY DEF CteRows, from, c, e
<1>10. After(f) = Subdivide(f, npg)
    <2> DEFINE N == {x \in f .. (e - 1) : (x - f) % c = 0}
    <2>1. f - f = 0 /\ 0 % c = 0
        BY <1>1 DEF Positive
    <2>2. f \in N
        BY <2>1, <1>8
    <2>3. {f} \union N = N
        BY <2>2
    <2>4. Subdivide(f, npg) = {row(n) : n \in {f} \union N}
        BY DEF Subdivide, c, e
    <2> QED
        BY <2>3, <2>4 DEF After
<1> QED
    BY <1>7, <1>8, <1>9, <1>10

\* On the way down the query always makes the rows of Subdivide (subdivide.go,
\* the WITH RECURSIVE of subdivideHashRange).
THEOREM QueriesAreSubdivide == Spec => []SubdivideIsTheQuery
<1>1. Down => SubdivideIsTheQuery
    BY QueryIsSubdivide DEF Down, SubdivideIsTheQuery, Pieces
<1> QED
    BY <1>1, RoundsComeDown, PTL
=============================================================================
