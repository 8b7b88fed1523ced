----------------------------- MODULE HashRanges -----------------------------
(***************************************************************************)
(* The page ranges one hash stands for: how the replica cuts its file into *)
(* ranges, and how it cuts a range the origin asks detail of.  A range is  *)
(* <<first page, number of pages>>, a row of the sendHash or badHash       *)
(* table.  The code's 30, 1000 and 100 are the constants Fine, Coarse and  *)
(* FlatMax, so that every level of the subdivision fits in a few pages.    *)
(***************************************************************************)
EXTENDS Naturals

CONSTANTS Fine,      \* pages of a middle-sized group (30)
          Coarse,    \* pages of a large group (1000)
          FlatMax    \* a replica of so many pages is hashed page by page (100)

ASSUME RangeAssumption ==
    /\ Fine \in Nat /\ Coarse \in Nat /\ FlatMax \in Nat
    /\ 1 < Fine /\ Fine < Coarse /\ 1 <= FlatMax

\* The pages a range, and a set of ranges, stand for.
PagesIn(r) == r[1] .. (r[1] + r[2] - 1)
PagesOf(S) == UNION {PagesIn(r) : r \in S}

\* Mutant: a group of exactly Fine pages is cut into itself.
NChunkStrict(npg) ==
    IF npg < Fine THEN 1 ELSE IF npg <= Coarse THEN Fine ELSE Coarse

\* Pages per hash when a range of npg pages is cut.
NChunk(npg) ==
    IF npg <= Fine THEN 1 ELSE IF npg <= Coarse THEN Fine ELSE Coarse

\* Mutants: the last, short chunk is forgotten; a row is made past the end;
\* the last chunk is not shortened.
SubdivideWhole(fpg, npg) ==
    LET c == NChunk(npg)
    IN  {<<n, c>> : n \in {m \in fpg .. (fpg + npg - c) : (m - fpg) % c = 0}}

SubdividePastEnd(fpg, npg) ==
    LET c == NChunk(npg)
        iEnd == fpg + npg
    IN  {<<n, IF iEnd - n < c THEN iEnd - n ELSE c>> :
            n \in {m \in fpg .. iEnd : (m - fpg) % c = 0}}

SubdivideLong(fpg, npg) ==
    LET c == NChunk(npg)
    IN  {<<n, c>> : n \in {m \in fpg .. (fpg + npg - 1) : (m - fpg) % c = 0}}

\* The rows the CTE of subdivideHashRange generates: one every c pages, the
\* first always, the last cut at the end of the range.
Subdivide(fpg, npg) ==
    LET c == NChunk(npg)
        iEnd == fpg + npg
    IN  {<<n, IF iEnd - n < c THEN iEnd - n ELSE c>> :
            n \in {fpg} \union {m \in fpg .. (iEnd - 1) : (m - fpg) % c = 0}}

\* REPLACE INTO a table whose key is the first page.
ReplaceInto(S, rows) ==
    rows \union {r \in S : \A x \in rows : x[1] # r[1]}

\* Mutant: the protocol version is not looked at.
FirstRangesV2(protocol, n) ==
    IF n <= FlatMax THEN {<<p, 1>> : p \in 1 .. (IF n = 0 THEN 1 ELSE n)}
    ELSE ReplaceInto({<<1, 1>>}, Subdivide(2, n - 1))

\* Mutant: page 1 is in the first group.
FirstRangesGrouped(protocol, n) ==
    IF protocol < 2 \/ n <= FlatMax
    THEN {<<p, 1>> : p \in 1 .. (IF n = 0 THEN 1 ELSE n)}
    ELSE Subdivide(1, n)

\* The rows of sendHash for the first batch of a replica of n pages.
FirstRanges(protocol, n) ==
    IF protocol < 2 \/ n <= FlatMax
    THEN {<<p, 1>> : p \in 1 .. (IF n = 0 THEN 1 ELSE n)}
    ELSE ReplaceInto({<<1, 1>>}, Subdivide(2, n - 1))
=============================================================================
