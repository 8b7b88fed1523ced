---------------------------- MODULE Subdivision ----------------------------
(***************************************************************************)
(* One range of pages, cut round after round as long as the origin finds   *)
(* that its hash differs: the drill-down of a difference to single pages,  *)
(* and the recursive query that does the cutting.                          *)
(***************************************************************************)
EXTENDS HashRanges

CONSTANTS Firsts,    \* first pages of the ranges to start from
          Lengths    \* their lengths

ASSUME SubdivisionAssumption ==
    Firsts \subseteq Nat \ {0} /\ Lengths \subseteq Nat \ {0}

VARIABLES range,     \* the range to cut next
          level      \* how often it has been cut

vars == <<range, level>>

Init == range \in Firsts \X Lengths /\ level = 0

\* The origin asks for detail, and one of the pieces differs.
Cut ==
    /\ range[2] > 1
    /\ range' \in Subdivide(range[1], range[2])
    /\ level' = level + 1

Spec == Init /\ [][Cut]_vars

-----------------------------------------------------------------------------
(* Properties.                                                             *)

Pieces == Subdivide(range[1], range[2])

\* The pieces of a range cover it, page by page, without an overlap and
\* without going past its end: no page escapes comparison, and badHash
\* never gets two rows for one page (subdivide.go, subdivideHashRange).
PiecesTile ==
    /\ PagesOf(Pieces) = PagesIn(range)
    /\ \A r, s \in Pieces : r # s => PagesIn(r) \intersect PagesIn(s) = {}

\* 1000, 30, 1: three rounds reach single pages, whatever the length
\* (subdivide.go, nChunk).
ThreeRounds == level <= 3 /\ (level = 3 => range[2] = 1)

\* The rows as the SQL builds them: start at the first page, go on by a chunk
\* while the row is below the end minus the chunk, cut the last one.
CteRows(fpg, npg) ==
    LET c == NChunk(npg)
        iEnd == fpg + npg
        from[n \in fpg .. (iEnd - 1)] ==
            {<<n, IF iEnd - n < c THEN iEnd - n ELSE c>>}
                \union (IF n + c < iEnd THEN from[n + c] ELSE {})
    IN  from[fpg]

\* The rows Subdivide writes down are those of the query (subdivide.go, the
\* WITH RECURSIVE of subdivideHashRange).
SubdivideIsTheQuery == Pieces = CteRows(range[1], range[2])
=============================================================================
