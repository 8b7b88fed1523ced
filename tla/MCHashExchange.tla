--------------------------- MODULE MCHashExchange ---------------------------
(***************************************************************************)
(* HashExchange on files of a few pages.  The origin's page p has body p;  *)
(* a replica's page differs from it or not, page by page, which is all a   *)
(* hash can tell.                                                          *)
(***************************************************************************)
EXTENDS HashExchangeProps

\* n pages; those in D hold another body, page 1 is in WAL mode or not.
File(n, D, w, c) ==
    [p \in 1 .. n |->
        IF p = LockBytePage THEN ZeroImage
        ELSE [body |-> IF p \in D THEN p + 100 ELSE p,
              size |-> IF p = 1 THEN n ELSE 0,
              wal  |-> p = 1 /\ w,
              chg  |-> IF p = 1 THEN c ELSE 0]]

MCOriginFiles ==
    {<<>>} \union {File(n, {}, w, 0) : n \in {1, 5, 7, 8}, w \in BOOLEAN}

\* Replicas as long as, longer than and shorter than the origin, with any
\* pages of a band different; 1 to 8 pages reach every level of the ranges.
MCReplicaFiles ==
    {<<>>, File(8, {}, TRUE, 1)} \union
    {File(n, D, w, 0) : n \in {2, 7, 8}, w \in {TRUE}, D \in SUBSET {1, 3, 7}}
    \union {File(n, {3}, FALSE, 0) : n \in {5, 7}}

MCCounters == {0, 1}
=============================================================================
