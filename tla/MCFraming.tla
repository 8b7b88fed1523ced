----------------------------- MODULE MCFraming -----------------------------
(***************************************************************************)
(* Framing with a buffer of three bytes, so that fields fit, cross its end *)
(* and, a page, are larger than it.                                        *)
(***************************************************************************)
EXTENDS Framing

Plain(types) == [k \in DOMAIN types |-> [type |-> types[k]]]

Texted(type, n) == <<[type |-> type, len |-> n]>>

\* What the two roles write: rounds, pages, a run that ends with an error, and
\* a communication check with an empty text and with a long one.
MCScripts ==
    {Plain(<<"ORIGIN_BEGIN", "ORIGIN_DETAIL", "READY">>),
     Plain(<<"ORIGIN_BEGIN", "ORIGIN_PAGE", "ORIGIN_PAGE", "ORIGIN_TXN", "END">>),
     Plain(<<"REPLICA_BEGIN", "REPLICA_HASH", "REPLICA_CONFIG", "REPLICA_HASH", "READY">>),
     Plain(<<"ORIGIN_BEGIN">>) \o Texted("ERROR", 3),
     Texted("MSG", 0) \o Plain(<<"END">>),
     Texted("MSG", 4) \o Plain(<<"END">>)}

MCRooms == {0, 2}
=============================================================================
