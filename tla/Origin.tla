------------------------------- MODULE Origin -------------------------------
(***************************************************************************)
(* originSide: announce the file, compare every hash the replica sends     *)
(* with the read snapshot, ask detail of the groups that differ, send the  *)
(* pages.                                                                  *)
(***************************************************************************)
EXTENDS Rsync

VARIABLES origin,   \* the origin's file, as other programs commit to it
          snap,     \* what the run's read transaction sees
          iHash,    \* first page of the range of the next hash
          nHash,    \* number of pages of that range
          mxHash,   \* one past the highest page hashed
          badHash,  \* the TEMP table: ranges that differ
          hashed    \* the TEMP table exists (pCkHash is not nil)

exchange == <<iHash, nHash, mxHash, badHash, hashed>>
originVars == <<origin, snap, exchange>>

OriginInit ==
    /\ origin \in OriginFiles
    /\ snap = <<>>
    /\ iHash = 1 /\ nHash = 1 /\ mxHash = 0
    /\ badHash = {} /\ hashed = FALSE

OriginBegin(protocol, db) ==
    [type |-> "ORIGIN_BEGIN", protocol |-> protocol,
     pageSize |-> OriginPageSize, pageCount |-> Len(db)]

OriginFails(msgs) == FailAfter("origin", msgs, "ORIGIN_ERROR")

\* A communication check writes and returns; it reads nothing.
OriginCommCheck ==
    /\ pc["origin"] = "start"
    /\ rs["origin"].commCheck
    /\ Push("origin", <<[type |-> "ORIGIN_MSG"], [type |-> "ORIGIN_END"]>>, "nil")
    /\ UNCHANGED <<chan, rs, faults, originVars>>

\* BEGIN on a new connection: what its first read finds.
Snapshot == origin

\* BEGIN; the first read fixes the snapshot the whole run works on.
OriginStart ==
    /\ pc["origin"] = "start"
    /\ ~rs["origin"].commCheck
    /\ rs["origin"].walOnly => InWal(origin)
    /\ snap' = Snapshot
    /\ rs' = [rs EXCEPT !["origin"].pageCount = Len(Snapshot),
                        !["origin"].pageSize = OriginPageSize]
    /\ Send("origin", <<OriginBegin(rs["origin"].protocol, Snapshot)>>)
    /\ UNCHANGED <<chan, faults, origin, exchange>>

\* The file is missing, a statement fails, or it is not in WAL mode.
OriginRefuses ==
    /\ pc["origin"] = "start"
    /\ ~rs["origin"].commCheck
    /\ IF rs["origin"].walOnly /\ ~InWal(origin)
       THEN UNCHANGED faults ELSE Fault
    /\ OriginFails(<<>>)
    /\ UNCHANGED <<chan, rs, originVars>>

OnReplicaMsg == Drop("origin", "REPLICA_MSG") /\ UNCHANGED originVars

OnReplicaEnd == EndsRun("origin", "REPLICA_END", "nil") /\ UNCHANGED originVars

OnReplicaError ==
    EndsRun("origin", "REPLICA_ERROR", "error") /\ UNCHANGED originVars

\* The replica speaks an older protocol: say hello again in it.  A proposal
\* that is not older is an error.
OnReplicaBegin ==
    /\ Receives("origin", "REPLICA_BEGIN")
    /\ chan' = Consumed("origin")
    /\ LET proposed == Head(Incoming("origin")).protocol
       IN  IF proposed < rs["origin"].protocol
           THEN /\ rs' = [rs EXCEPT !["origin"].protocol = proposed]
                /\ Send("origin", <<OriginBegin(proposed, snap)>>)
           ELSE UNCHANGED rs /\ OriginFails(<<>>)
    /\ UNCHANGED <<faults, originVars>>

OnReplicaConfig ==
    /\ Receives("origin", "REPLICA_CONFIG")
    /\ chan' = Consumed("origin")
    /\ iHash' = Head(Incoming("origin")).fpg
    /\ nHash' = Head(Incoming("origin")).npg
    /\ ReadOn
    /\ UNCHANGED <<rs, faults, origin, snap, mxHash, badHash, hashed>>

\* A hash carries no page number: it is the one of the range the counters
\* say.  NULL on this side, none of the pages existing, is no match.
OnReplicaHash ==
    /\ Receives("origin", "REPLICA_HASH")
    /\ chan' = Consumed("origin")
    /\ rs' = [rs EXCEPT !["origin"].hashMessages = @ + 1]
    /\ hashed' = TRUE
    /\ LET own == HashOf(snap, iHash, nHash)
           match == ~IsNull(own) /\ own = Head(Incoming("origin")).hash
       IN  badHash' = IF match THEN badHash
                      ELSE badHash \union {<<iHash, nHash>>}
    /\ mxHash' = Larger(mxHash, Plus(iHash, nHash))
    /\ iHash' = Plus(iHash, nHash)
    /\ ReadOn
    /\ UNCHANGED <<faults, origin, snap, nHash>>

OnReplicaHashFails ==
    /\ Receives("origin", "REPLICA_HASH")
    /\ chan' = Consumed("origin")
    /\ rs' = [rs EXCEPT !["origin"].hashMessages = @ + 1]
    /\ Fault
    /\ OriginFails(<<>>)
    /\ UNCHANGED originVars

BadGroups == {r \in badHash : r[2] > 1}

\* ORIGIN_DETAIL for every group, in the order of the first pages.
Details ==
    LET firsts == Ascending({r[1] : r \in BadGroups}, mxHash)
    IN  [i \in DOMAIN firsts |->
            [type |-> "ORIGIN_DETAIL", fpg |-> firsts[i],
             npg |-> (CHOOSE r \in BadGroups : r[1] = firsts[i])[2]]]

\* badHash once the pages the replica never hashed are filled in and the
\* lock-byte page is dropped.
Filled ==
    {r \in badHash \union (IF mxHash <= Len(snap)
                           THEN {<<p, 1>> : p \in mxHash .. Len(snap)} ELSE {}) :
        r[1] # LockBytePage}

\* The JOIN drops entries of pages the origin does not have.
PageStream ==
    LET pages == Ascending({r[1] : r \in Filled}, Len(snap))
    IN  [i \in DOMAIN pages |->
            [type |-> "ORIGIN_PAGE", pgno |-> pages[i], data |-> snap[pages[i]]]]

\* Mutant: the end is said before the commit.
GoodbyeSwapped ==
    <<[type |-> "ORIGIN_END"], [type |-> "ORIGIN_TXN", pageCount |-> Len(snap)]>>

Goodbye ==
    <<[type |-> "ORIGIN_TXN", pageCount |-> Len(snap)], [type |-> "ORIGIN_END"]>>

CountRound(n) ==
    rs' = [rs EXCEPT !["origin"].hashRounds = @ + 1,
                     !["origin"].pageUpdates = @ + n]

\* The round left groups that differ: ask detail of each, and go.
OnReplicaReadyDetail ==
    /\ Receives("origin", "REPLICA_READY")
    /\ chan' = Consumed("origin")
    /\ hashed /\ BadGroups # {}
    /\ CountRound(0)
    /\ badHash' = badHash \ BadGroups
    /\ Send("origin", Append(Details, [type |-> "ORIGIN_READY"]))
    /\ UNCHANGED <<faults, origin, snap, iHash, nHash, mxHash, hashed>>

\* Only single pages are left: send them, then commit and end.
OnReplicaReadyPages ==
    /\ Receives("origin", "REPLICA_READY")
    /\ chan' = Consumed("origin")
    /\ hashed /\ BadGroups = {}
    /\ CountRound(Len(PageStream))
    /\ badHash' = Filled
    /\ Send("origin", PageStream \o Goodbye)
    /\ UNCHANGED <<faults, origin, snap, iHash, nHash, mxHash, hashed>>

\* A query fails on the way.  With no hash ever received there is no badHash
\* table to query.  (Returning drops the table, so what it held last is
\* left as it was.)
OnReplicaReadyFails ==
    /\ Receives("origin", "REPLICA_READY")
    /\ chan' = Consumed("origin")
    /\ IF hashed THEN Fault ELSE UNCHANGED faults
    /\ \E msgs \in IF ~hashed THEN {<<>>}
                   ELSE IF BadGroups # {} THEN Prefixes(Details)
                   ELSE Prefixes(PageStream) :
        /\ OriginFails(msgs)
        /\ CountRound(IF BadGroups # {} THEN 0 ELSE Len(msgs))
    /\ UNCHANGED originVars

OriginStep ==
    \/ OriginCommCheck \/ OriginStart \/ OriginRefuses
    \/ OnReplicaMsg \/ OnReplicaEnd \/ OnReplicaError
    \/ OnReplicaBegin \/ OnReplicaConfig
    \/ OnReplicaHash \/ OnReplicaHashFails
    \/ OnReplicaReadyDetail \/ OnReplicaReadyPages \/ OnReplicaReadyFails

\* Another program commits to the origin's file.  In rollback mode the read
\* transaction of the run keeps it from committing; in WAL mode it does not.
OriginWrite ==
    /\ InWal(snap) \/ pc["origin"] = "done" \/ rs["origin"].pageSize = 0
    /\ origin' \in OriginFiles \ {origin, <<>>}
    /\ UNCHANGED <<wire, rs, faults, snap, exchange>>
=============================================================================
