------------------------------ MODULE MCResync ------------------------------
(***************************************************************************)
(* Resync on an origin of three versions, of different sizes, and a replica *)
(* of no pages or of a content of its own.                                 *)
(***************************************************************************)
EXTENDS Resync

\* Version c: n pages, of which those in D have changed.
Version(c, n, D) ==
    [p \in 1 .. n |->
        IF p = LockBytePage THEN ZeroImage
        ELSE [body |-> IF p \in D THEN p + 100 * c ELSE p,
              size |-> IF p = 1 THEN n ELSE 0,
              wal  |-> p = 1,
              chg  |-> IF p = 1 THEN c ELSE 0]]

Versions == {Version(0, 2, {}), Version(1, 5, {2}), Version(2, 3, {1, 2, 3})}
Replicas == {<<>>, Version(3, 5, {2, 5})}
OneCounter == {9}
OneSize == {512}

Default == [protocol |-> 0, allowNonWal |-> FALSE, commCheck |-> FALSE]
DefaultOptions == {<<Default, Default>>}
=============================================================================
