-------------------------- MODULE MCHashFunctions --------------------------
(***************************************************************************)
(* HashFunctions with blocks of three bytes, over rows that hold the bytes *)
(* of the padding themselves.                                              *)
(***************************************************************************)
EXTENDS HashFunctions

Row(kind, bytes) == [kind |-> kind, bytes |-> bytes]

\* Up to two rows: from nothing to one byte more than a block.
MCRows ==
    {Row("null", <<>>), Row("number", <<>>)}
    \union {Row("blob", b) : b \in {<<>>, <<0>>, <<6>>, <<6, 0>>, <<0, 128>>}}

MCRoles == {"origin", "replica"}
=============================================================================
