-------------------------------- MODULE Wire --------------------------------
(***************************************************************************)
(* The stream between the two roles and what package wire does with it.    *)
(*                                                                         *)
(* out[s] is what side s has written and not yet handed to the stream: the *)
(* bufio.Writer and the write in progress.  chan[s] is what the stream and *)
(* the peer's bufio.Reader hold of it.  A message is sent or not, whole;   *)
(* only a broken link or a killed or cancelled writer can cut one, and     *)
(* then the reader's result says so.  Module Framing has the bytes.        *)
(*                                                                         *)
(* Capacity = 0 is a rendezvous (net.Pipe): a write completes only into a  *)
(* read that is waiting, which takes up to a buffer of it.  A positive     *)
(* Capacity is a pipe or socket that holds so many messages.               *)
(***************************************************************************)
EXTENDS Naturals, Sequences

CONSTANT Capacity

ASSUME CapacityAssumption == Capacity \in Nat

Sides == {"origin", "replica"}
Peer(s) == IF s = "origin" THEN "replica" ELSE "origin"

VARIABLES out,      \* per side: written, not yet in the stream
          chan,     \* per side: in the stream, not yet read by the peer
          pc,       \* per side: "start", "read", "write", "sql" or "done"
          ret,      \* per side: the run's result, "none" until decided
          closed,   \* per side: its caller has closed the stream
          linkUp,   \* the stream works
          cancelled \* the sides whose context is cancelled

wire == <<out, chan, pc, ret, closed, linkUp, cancelled>>

WireInit ==
    /\ out = [s \in Sides |-> <<>>]
    /\ chan = [s \in Sides |-> <<>>]
    /\ pc = [s \in Sides |-> "start"]
    /\ ret = [s \in Sides |-> "none"]
    /\ closed = [s \in Sides |-> FALSE]
    /\ linkUp = TRUE
    /\ cancelled = {}

-----------------------------------------------------------------------------
(* What a handler does with the stream: at most one of these.              *)

\* The messages of the peer that s can read next.
Incoming(s) == chan[Peer(s)]

\* s is in its message loop and the next message is of this type.
Receives(s, type) ==
    /\ pc[s] = "read"
    /\ Incoming(s) # <<>>
    /\ Head(Incoming(s)).type = type

Consumed(s) == [chan EXCEPT ![Peer(s)] = Tail(@)]

\* Write the messages and flush; then read on, or return r if r # "none".
Push(s, msgs, r) ==
    /\ out' = [out EXCEPT ![s] = @ \o msgs]
    /\ pc' = [pc EXCEPT ![s] = "write"]
    /\ ret' = [ret EXCEPT ![s] = r]
    /\ UNCHANGED <<closed, linkUp, cancelled>>

\* Mutant: the messages stay in the buffer.
SendUnflushed(s, msgs) ==
    /\ out' = [out EXCEPT ![s] = @ \o msgs]
    /\ pc' = [pc EXCEPT ![s] = "read"]
    /\ UNCHANGED <<ret, closed, linkUp, cancelled>>

\* Write and flush, then wait for the peer's answer.
Send(s, msgs) == Push(s, msgs, "none")

\* Return without writing anything.
Return(s, r) ==
    /\ ret' = [ret EXCEPT ![s] = r]
    /\ pc' = [pc EXCEPT ![s] = "done"]
    /\ UNCHANGED <<out, closed, linkUp, cancelled>>

\* Read the next message.
ReadOn == UNCHANGED <<out, pc, ret, closed, linkUp, cancelled>>

-----------------------------------------------------------------------------
(* The steps of the stream itself.                                         *)

\* How many messages the stream takes of s now.
Room(s) ==
    IF Capacity > 0 THEN Capacity - Len(chan[s])
    ELSE IF pc[Peer(s)] = "read" /\ chan[s] = <<>> THEN Len(out[s]) ELSE 0

\* A flush, or a write that spills the buffer, gets some messages through.
Transfer(s) ==
    /\ pc[s] = "write"
    /\ linkUp /\ ~closed[Peer(s)]
    /\ \E k \in 1 .. Len(out[s]) :
        /\ k <= Room(s)
        /\ chan' = [chan EXCEPT ![s] = @ \o SubSeq(out[s], 1, k)]
        /\ out' = [out EXCEPT ![s] = SubSeq(@, k + 1, Len(@))]
    /\ UNCHANGED <<pc, ret, closed, linkUp, cancelled>>

\* Flush returns: everything is in the stream.
Flushed(s) ==
    /\ pc[s] = "write" /\ out[s] = <<>>
    /\ pc' = [pc EXCEPT ![s] = IF ret[s] = "none" THEN "read" ELSE "done"]
    /\ UNCHANGED <<out, chan, ret, closed, linkUp, cancelled>>

\* The write fails: the peer has closed its end or the link is down.
WriteFails(s) ==
    /\ pc[s] = "write" /\ out[s] # <<>>
    /\ closed[Peer(s)] \/ ~linkUp
    /\ out' = [out EXCEPT ![s] = <<>>]
    /\ ret' = [ret EXCEPT ![s] = "error"]
    /\ pc' = [pc EXCEPT ![s] = "done"]
    /\ UNCHANGED <<chan, closed, linkUp, cancelled>>

\* The stream ends where a message would begin: io.EOF, the run is over.  A
\* broken link, or a writer that stopped anywhere, may also cut a message:
\* an error.
StreamEnds(s) ==
    /\ pc[s] = "read" /\ Incoming(s) = <<>>
    /\ \/ closed[Peer(s)] /\ Return(s, "nil")
       \/ ~linkUp /\ \E r \in {"nil", "error"} : Return(s, r)
       \/ closed[Peer(s)] /\ ret[Peer(s)] \in {"killed", "cancelled"} /\ Return(s, "error")
    /\ UNCHANGED chan

\* The caller of a role that has returned closes its stream.
CallerCloses(s) ==
    /\ pc[s] = "done" /\ ~closed[s]
    /\ closed' = [closed EXCEPT ![s] = TRUE]
    /\ UNCHANGED <<out, chan, pc, ret, linkUp, cancelled>>

StreamStep(s) ==
    Transfer(s) \/ Flushed(s) \/ WriteFails(s) \/ StreamEnds(s) \/ CallerCloses(s)

-----------------------------------------------------------------------------
(* Cancellation.  ctxStream looks at the context where a Read or a Write of *)
(* the stream begins: a cancelled side may go on with what its buffer holds *)
(* and stays in an I/O it is blocked in, so it may or may not return here.  *)

CancelledRead(s) ==
    /\ pc[s] = "read" /\ s \in cancelled
    /\ Return(s, "cancelled")
    /\ UNCHANGED chan

\* What is in the buffer stays there.
CancelledWrite(s) ==
    /\ pc[s] = "write" /\ s \in cancelled /\ out[s] # <<>>
    /\ out' = [out EXCEPT ![s] = <<>>]
    /\ ret' = [ret EXCEPT ![s] = "cancelled"]
    /\ pc' = [pc EXCEPT ![s] = "done"]
    /\ UNCHANGED <<chan, closed, linkUp, cancelled>>

\* The context of s is cancelled.
Cancels(s) ==
    /\ pc[s] # "done" /\ s \notin cancelled
    /\ cancelled' = cancelled \union {s}
    /\ UNCHANGED <<out, chan, pc, ret, closed, linkUp>>

-----------------------------------------------------------------------------
(* Faults.                                                                 *)

\* The connection is lost, and with it the end of what was under way.
LinkBreaks ==
    /\ linkUp
    /\ linkUp' = FALSE
    /\ \E i \in 0 .. Len(chan["origin"]), j \in 0 .. Len(chan["replica"]) :
        chan' = [origin  |-> SubSeq(chan["origin"], 1, i),
                 replica |-> SubSeq(chan["replica"], 1, j)]
    /\ UNCHANGED <<out, pc, ret, closed, cancelled>>

\* The process of s is killed; the system closes its end.
Crashes(s) ==
    /\ pc[s] # "done"
    /\ pc' = [pc EXCEPT ![s] = "done"]
    /\ ret' = [ret EXCEPT ![s] = "killed"]
    /\ out' = [out EXCEPT ![s] = <<>>]
    /\ closed' = [closed EXCEPT ![s] = TRUE]
    /\ UNCHANGED <<chan, linkUp, cancelled>>
=============================================================================
