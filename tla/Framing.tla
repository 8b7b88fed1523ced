------------------------------ MODULE Framing ------------------------------
(***************************************************************************)
(* One direction of the stream, byte by byte: the wire.Writer of one side, *)
(* the stream, the wire.Reader of the other.  Bytes are positions: what    *)
(* the writer has put, what the stream has taken and given, and what the   *)
(* reader has made fields of, are counters in the same numbering, so the   *)
(* content of bufio.Writer is sent + 1 .. put and the content of           *)
(* bufio.Reader taken + 1 .. got.                                          *)
(*                                                                         *)
(* Both ends of a message are separate code: WriteFields is what the       *)
(* writing role puts, ReadLengths what the reading role asks for.  The     *)
(* context of each side is checked where ctxStream checks it, and the      *)
(* sides may be cancelled, killed, or stop reading and writing at any time.*)
(***************************************************************************)
EXTENDS Naturals, Sequences, FiniteSetsExt

CONSTANTS Buf,        \* bytes in a bufio buffer (4096)
          Word,       \* bytes of a number (4)
          HashLen,    \* bytes of a hash (20)
          PageSize,   \* bytes of a page
          MaxText,    \* bytes of the longest text (1 MiB)
          MaxExponent,\* largest exponent of a page size on the wire (16)
          Scripts,    \* the messages a writer may send, in order
          Rooms       \* bytes the stream holds; 0 is a rendezvous (net.Pipe)

Message ==
    [type : {"ORIGIN_BEGIN", "REPLICA_BEGIN", "REPLICA_CONFIG", "REPLICA_HASH",
             "ORIGIN_DETAIL", "READY", "ORIGIN_PAGE", "ORIGIN_TXN", "END"}]
      \union [type : {"MSG", "ERROR"}, len : 0 .. MaxText]

ASSUME FramingAssumption ==
    /\ {Buf, Word, HashLen, PageSize} \subseteq Nat \ {0}
    /\ Word <= Buf /\ HashLen <= Buf /\ MaxText \in Nat
    /\ \E n \in 0 .. MaxExponent : PageSize = 2 ^ n
    /\ \A s \in Scripts :
        /\ s \in Seq(Message)
        /\ \A k \in DOMAIN s : s[k].type = "ORIGIN_PAGE" =>
              \E j \in 1 .. k - 1 : s[j].type = "ORIGIN_BEGIN"
    /\ Rooms \subseteq Nat

Ends == {"writer", "reader"}

VARIABLES script,     \* the messages to write
          room,       \* the bytes the stream holds
          msg,        \* number of the message being written
          fld,        \* number of its field being written
          left,       \* bytes of that field not yet in the buffer
          waits,      \* the role is in the read of the peer's answer
          put,        \* bytes put, into the buffer or the stream
          goal,       \* the Write in progress ends here (goal = sent: none is)
          sent,       \* bytes the stream has taken
          got,        \* bytes the stream has given
          ask,        \* bytes the Read in progress asks for, 0 when none is
          taken,      \* bytes of complete and partial fields read
          reading,    \* type of the message being read, "none" between two
          rest,       \* lengths of its fields to read, this one included
          part,       \* bytes read of this one
          szPage,     \* the page size the reader has been told
          counted,    \* per end: bytesWritten, bytesRead
          status,     \* per end: "running", the result, "killed" or "hung"
          cancelled,  \* ends whose context is cancelled
          closed,     \* ends that have closed the stream
          mark        \* per end: put or taken when it was cancelled

writing == <<msg, fld, left, waits, put, goal>>
parsing == <<taken, reading, rest, part, szPage>>
env == <<script, room, cancelled, closed, mark>>
vars == <<writing, sent, got, ask, parsing, counted, status, env>>

-----------------------------------------------------------------------------
(* The messages.                                                           *)

Byte == [len |-> 1, via |-> "WriteByte"]
Bytes(n) == [len |-> n, via |-> "WriteBytes"]
Text == [len |-> 1, via |-> "uncounted"]
Flush == [len |-> 0, via |-> "Flush"]
Answer == [len |-> 0, via |-> "answer"]

\* Mutant: the hashes of a round stay in the buffer.
EndRoundUnflushed == <<Byte, Answer>>

\* *_READY, after which the peer has its turn.
EndRound == <<Byte, Flush, Answer>>

\* A message as the roles write it: its fields, the flush after it, and the
\* read of the peer's answer where the role waits for one.
WriteFields(m) ==
    CASE m.type = "ORIGIN_BEGIN" -> <<Byte, Byte, Byte, Bytes(Word), Flush, Answer>>
      [] m.type = "REPLICA_BEGIN" -> <<Byte, Byte, Flush, Answer>>
      [] m.type = "REPLICA_CONFIG" -> <<Byte, Bytes(Word), Bytes(Word)>>
      [] m.type = "REPLICA_HASH" -> <<Byte, Bytes(HashLen)>>
      [] m.type = "ORIGIN_DETAIL" -> <<Byte, Bytes(Word), Bytes(Word)>>
      [] m.type = "READY" -> EndRound
      [] m.type = "ORIGIN_PAGE" -> <<Byte, Bytes(Word), Bytes(PageSize)>>
      [] m.type = "ORIGIN_TXN" -> <<Byte, Bytes(Word)>>
      [] m.type = "END" -> <<Byte, Flush>>
      [] m.type \in {"MSG", "ERROR"} -> <<Text, Bytes(Word), Bytes(m.len), Flush>>

\* Mutant: the exponent is counted from one.
ExponentFromOne(v) == 1 + (CHOOSE n \in 0 .. MaxExponent : 2 ^ n = v)

\* WritePow2: a page size is the exponent of its power of two.
Exponent(v) == CHOOSE n \in 0 .. MaxExponent : 2 ^ n = v

\* ReadPow2.
FromExponent(n) == 2 ^ n

\* What the reading role asks for after the type byte of m.
ReadLengths(m) ==
    CASE m.type = "ORIGIN_BEGIN" -> <<1, 1, Word>>
      [] m.type = "REPLICA_BEGIN" -> <<1>>
      [] m.type = "REPLICA_CONFIG" -> <<Word, Word>>
      [] m.type = "REPLICA_HASH" -> <<HashLen>>
      [] m.type = "ORIGIN_DETAIL" -> <<Word, Word>>
      [] m.type = "ORIGIN_PAGE" -> <<Word, szPage>>
      [] m.type = "ORIGIN_TXN" -> <<Word>>
      [] m.type \in {"MSG", "ERROR"} -> <<Word, m.len>>
      [] OTHER -> <<>>

\* Where each of these lengths begins, and where the last one ends.
Offsets(lengths) ==
    LET at[k \in 0 .. Len(lengths)] ==
            IF k = 0 THEN 0 ELSE at[k - 1] + lengths[k]
    IN  [k \in 1 .. Len(lengths) + 1 |-> at[k - 1]]

\* Where the f-th field of m begins, counted from where m does.
FieldAt(m, f) == Offsets([g \in DOMAIN WriteFields(m) |-> WriteFields(m)[g].len])[f]

LengthOf(m) == FieldAt(m, Len(WriteFields(m)) + 1)

\* Where the messages of a script begin.
Beginnings == [s \in Scripts |-> Offsets([j \in DOMAIN s |-> LengthOf(s[j])])]

\* Where the k-th message begins.
StartOf(k) == Beginnings[script][k]

Total == StartOf(Len(script) + 1)

\* The message a reader finds at a position: what the byte there is the type
\* of, or nothing it can know the fields of.
MessageAt(p) ==
    IF \E k \in DOMAIN script : StartOf(k) = p
    THEN script[CHOOSE k \in DOMAIN script : StartOf(k) = p]
    ELSE [type |-> "garbage"]

Init ==
    /\ script \in Scripts /\ room \in Rooms
    /\ msg = 1 /\ fld = 1 /\ left = 1 /\ waits = FALSE
    /\ put = 0 /\ goal = 0 /\ sent = 0 /\ got = 0 /\ ask = 0 /\ taken = 0
    /\ reading = "none" /\ rest = <<1>> /\ part = 0 /\ szPage = 0
    /\ counted = [e \in Ends |-> 0]
    /\ status = [e \in Ends |-> "running"]
    /\ cancelled = {} /\ closed = {}
    /\ mark = [e \in Ends |-> 0]

Becomes(e, r) == status' = [status EXCEPT ![e] = r]

-----------------------------------------------------------------------------
(* wire.Writer over bufio.Writer.                                          *)

Field == WriteFields(script[msg])[fld]

\* Mutant: one byte too many is taken into the buffer.
AvailableAndOne == Buf + 1 - (put - sent)

Available == Buf - (put - sent)

\* The role is about to write, to flush or to read; no Write is in progress.
AtField(via) ==
    /\ status["writer"] = "running"
    /\ sent = goal
    /\ msg <= Len(script) /\ Field.via \in via

Data == {"WriteByte", "WriteBytes", "uncounted"}

\* Go on with the next field or message.
Advance ==
    IF fld < Len(WriteFields(script[msg]))
    THEN /\ msg' = msg /\ fld' = fld + 1
         /\ left' = WriteFields(script[msg])[fld + 1].len
    ELSE msg' = msg + 1 /\ fld' = 1 /\ left' = 1

\* WriteByte counts its byte whatever comes of it, WriteBytes what it has
\* written in full; the type byte of a text message is not counted.
Counts(ok) ==
    counted' = [counted EXCEPT !["writer"] =
        @ + (IF Field.via = "WriteByte" \/ (Field.via = "WriteBytes" /\ ok)
             THEN Field.len ELSE 0)]

\* The rest of the field fits into the buffer: the write returns.
PutField ==
    /\ AtField(Data) /\ left <= Available
    /\ put' = put + left
    /\ Counts(TRUE)
    /\ Advance
    /\ UNCHANGED <<waits, goal, sent, got, ask, parsing, status, env>>

\* Mutants: the context is not checked before a write, or before a read.
WriteUnchecked == TRUE
ReadUnchecked(e) == TRUE

\* ctxStream.Write and ctxStream.Read, the check before the I/O.
WriteAllowed == "writer" \notin cancelled

ReadAllowed(e) == e \notin cancelled

\* It does not fit: fill the buffer and write it out, or, with an empty
\* buffer, write the field itself.
Spill ==
    /\ AtField(Data) /\ left > Available
    /\ WriteAllowed
    /\ LET n == IF put = sent THEN left ELSE Available
       IN  put' = put + n /\ left' = left - n /\ goal' = put + n
    /\ UNCHANGED <<msg, fld, waits, sent, got, ask, parsing, counted, status, env>>

\* Writer.Flush writes the buffer out, if there is anything in it.
FlushStarts ==
    /\ AtField({"Flush"}) /\ sent < put
    /\ WriteAllowed
    /\ goal' = put
    /\ UNCHANGED <<msg, fld, left, waits, put, sent, got, ask, parsing, counted, status, env>>

FlushReturns ==
    /\ AtField({"Flush"}) /\ sent = put
    /\ Advance
    /\ UNCHANGED <<waits, put, goal, sent, got, ask, parsing, counted, status, env>>

\* The role reads the other direction, and comes back from it once the peer
\* has read everything it can answer to.
AnswerAwaited ==
    /\ AtField({"answer"}) /\ ~waits
    /\ ReadAllowed("writer")
    /\ waits' = TRUE
    /\ UNCHANGED <<msg, fld, left, put, goal, sent, got, ask, parsing, counted, status, env>>

AnswerComes ==
    /\ waits /\ AtField({"answer"}) /\ taken = put
    /\ waits' = FALSE
    /\ Advance
    /\ UNCHANGED <<put, goal, sent, got, ask, parsing, counted, status, env>>

\* The context is cancelled where a Write, or the read, would start.
WriterCancelled ==
    /\ \/ ~WriteAllowed /\ AtField(Data) /\ left > Available /\ Counts(FALSE)
       \/ ~WriteAllowed /\ AtField({"Flush"}) /\ sent < put /\ UNCHANGED counted
       \/ ~ReadAllowed("writer") /\ AtField({"answer"}) /\ ~waits /\ UNCHANGED counted
    /\ Becomes("writer", "cancelled")
    /\ UNCHANGED <<writing, sent, got, ask, parsing, env>>

\* The reading side has closed the stream under a Write.
WriteBreaks ==
    /\ status["writer"] = "running" /\ sent < goal
    /\ "reader" \in closed
    /\ Counts(FALSE)
    /\ Becomes("writer", "error")
    /\ UNCHANGED <<writing, sent, got, ask, parsing, env>>

\* Everything is written: the role has nothing more to say.
WriterReturns ==
    /\ status["writer"] = "running" /\ msg > Len(script)
    /\ Becomes("writer", "nil")
    /\ UNCHANGED <<writing, sent, got, ask, parsing, counted, env>>

WriterStep ==
    \/ PutField \/ Spill \/ FlushStarts \/ FlushReturns
    \/ AnswerAwaited \/ AnswerComes
    \/ WriterCancelled \/ WriteBreaks \/ WriterReturns

-----------------------------------------------------------------------------
(* wire.Reader over bufio.Reader, in the message loop of a role.           *)

Idle == status["reader"] = "running" /\ ask = 0

Wanted == rest[1] - part

\* Reading a field of no bytes takes nothing and asks for nothing.
CanTake == Wanted = 0 \/ got > taken

\* Mutant: a field is counted as soon as some of it is read.
CountedAtFirst(n) == IF part = 0 THEN rest[1] ELSE 0

\* A field is counted once it is complete.
CountedBytes(n) == IF part + n = rest[1] THEN rest[1] ELSE 0

\* After the type byte of message m, or after a field of it: the fields left,
\* or the next message.
NextField(type, lengths) ==
    /\ part' = 0
    /\ IF lengths = <<>> THEN reading' = "none" /\ rest' = <<1>>
                         ELSE reading' = type /\ rest' = lengths

\* Copy what the buffer has into the field, and go on when it is complete.
\* ORIGIN_END and the payload of an *_ERROR end the run.
Take ==
    /\ Idle /\ CanTake
    /\ LET n == IF got - taken < Wanted THEN got - taken ELSE Wanted
           complete == n = Wanted
           m == MessageAt(taken)
       IN  /\ taken' = taken + n
           /\ counted' = [counted EXCEPT !["reader"] = @ + CountedBytes(n)]
           /\ szPage' = IF complete /\ reading = "ORIGIN_BEGIN" /\ Len(rest) = 2
                        THEN FromExponent(Exponent(PageSize)) ELSE szPage
           /\ IF ~complete
              THEN part' = part + n /\ UNCHANGED <<reading, rest>>
              ELSE IF reading = "none" THEN NextField(m.type, ReadLengths(m))
              ELSE NextField(reading, Tail(rest))
           /\ IF complete /\ reading = "none" /\ m.type = "END"
              THEN Becomes("reader", "nil")
              ELSE IF complete /\ reading = "ERROR" /\ Len(rest) = 1
              THEN Becomes("reader", "error")
              ELSE UNCHANGED status
    /\ UNCHANGED <<writing, sent, got, ask, env>>

\* The buffer is empty: one Read fills it, or goes into the field itself when
\* that wants a buffer or more.
ReadStarts ==
    /\ Idle /\ ~CanTake
    /\ ReadAllowed("reader")
    /\ ask' = IF Wanted >= Buf THEN Wanted ELSE Buf
    /\ UNCHANGED <<writing, sent, got, parsing, counted, status, env>>

ReadCancelled ==
    /\ Idle /\ ~CanTake
    /\ ~ReadAllowed("reader")
    /\ Becomes("reader", "cancelled")
    /\ UNCHANGED <<writing, sent, got, ask, parsing, counted, env>>

\* Mutant: no byte of the field read is taken for the end of the run.
EndResultOfField == IF part = 0 THEN "nil" ELSE "error"

\* The stream has ended: the end of the run where a type byte would be, an
\* error inside of a message.
EndResult == IF reading = "none" THEN "nil" ELSE "error"

ReadEnds ==
    /\ status["reader"] = "running" /\ ask > 0
    /\ "writer" \in closed /\ got = sent
    /\ Becomes("reader", EndResult)
    /\ UNCHANGED <<writing, sent, got, ask, parsing, counted, env>>

ReaderStep == Take \/ ReadStarts \/ ReadCancelled \/ ReadEnds

-----------------------------------------------------------------------------
(* The stream, the callers, and what may happen to a side.                 *)

WriteInProgress == sent < goal /\ status["writer"] = "running" /\ "reader" \notin closed
ReadInProgress == ask > 0 /\ status["reader"] = "running"

\* The stream takes some of a Write.
StreamTakes ==
    /\ WriteInProgress
    /\ \E k \in 1 .. (goal - sent) : k <= room - (sent - got) /\ sent' = sent + k
    /\ UNCHANGED <<writing, got, ask, parsing, counted, status, env>>

\* The stream gives a Read some of what it was asked for.
StreamGives ==
    /\ ReadInProgress
    /\ \E k \in 1 .. ask : k <= sent - got /\ got' = got + k
    /\ ask' = 0
    /\ UNCHANGED <<writing, sent, parsing, counted, status, env>>

\* A rendezvous: bytes go from a Write to a Read.
StreamHands ==
    /\ room = 0 /\ WriteInProgress /\ ReadInProgress
    /\ \E k \in 1 .. ask : k <= goal - sent /\ sent' = sent + k /\ got' = got + k
    /\ ask' = 0
    /\ UNCHANGED <<writing, parsing, counted, status, env>>

StreamStep == StreamTakes \/ StreamGives \/ StreamHands

Returned(e) == status[e] \in {"nil", "error", "cancelled"}

\* The caller of a role that has returned closes its end.
CallerCloses(e) ==
    /\ Returned(e) /\ e \notin closed
    /\ closed' = closed \union {e}
    /\ UNCHANGED <<writing, sent, got, ask, parsing, counted, status, script, room,
                   cancelled, mark>>

Cancel(e) ==
    /\ status[e] = "running" /\ e \notin cancelled
    /\ cancelled' = cancelled \union {e}
    /\ mark' = [mark EXCEPT ![e] = IF e = "writer" THEN put ELSE taken]
    /\ UNCHANGED <<writing, sent, got, ask, parsing, counted, status, script, room,
                   closed>>

\* The process is killed and the system closes its end; or it neither reads
\* nor writes any more and closes nothing.
Kill(e) ==
    /\ status[e] = "running"
    /\ Becomes(e, "killed")
    /\ closed' = closed \union {e}
    /\ UNCHANGED <<writing, sent, got, ask, parsing, counted, script, room,
                   cancelled, mark>>

Hang(e) ==
    /\ status[e] = "running"
    /\ Becomes(e, "hung")
    /\ UNCHANGED <<writing, sent, got, ask, parsing, counted, env>>

AtRest ==
    /\ (\E e \in Ends : status[e] = "hung") \/ closed = Ends
    /\ UNCHANGED vars

Next ==
    \/ WriterStep \/ ReaderStep \/ StreamStep
    \/ \E e \in Ends : CallerCloses(e) \/ Cancel(e) \/ Kill(e) \/ Hang(e)
    \/ AtRest

Spec == Init /\ [][Next]_vars

\* A side that runs goes on, the stream moves what it can, and a caller
\* closes the stream of a role that has returned.
Fairness ==
    /\ WF_vars(WriterStep) /\ WF_vars(ReaderStep) /\ WF_vars(StreamStep)
    /\ \A e \in Ends : WF_vars(CallerCloses(e))

FairSpec == Spec /\ Fairness

-----------------------------------------------------------------------------
(* Properties.                                                             *)

\* The positions keep their order and no buffer holds more than it can.
TypeOK ==
    /\ taken <= got /\ got <= sent /\ sent <= goal /\ put <= Total
    /\ goal <= put /\ (sent = goal => put - sent <= Buf)
    /\ sent - got <= room
    /\ got - taken <= IF Wanted > Buf THEN Wanted ELSE Buf
    /\ status \in [Ends -> {"running", "nil", "error", "cancelled", "killed", "hung"}]
    /\ part <= rest[1]

Starts == {StartOf(k) : k \in 1 .. Len(script) + 1}

\* The two codes of every message agree on its length, the page size having
\* come over the same wire: where the reader looks for a message, the writer
\* began one (origin.go, replica.go, subdivide.go; wire.go, WritePow2).
InStep == reading = "none" => taken \in Starts

\* A run that ends without an error on the end of the stream has read whole
\* messages and all the stream took, however the writer ended: a message cut
\* by a cancelled, failed or killed writer is never the end of a run
\* (replica.go and origin.go, io.EOF in the message loop).
NothingTorn ==
    status["reader"] = "nil" =>
        /\ taken \in Starts
        /\ taken = sent \/ MessageAt(taken - 1).type = "END"

TextsBefore(p) ==
    Cardinality({k \in DOMAIN script :
        StartOf(k) < p /\ script[k].type \in {"MSG", "ERROR"}})

\* BytesReceived of one side against BytesSent of the other (sync.go, Stats):
\* the type byte of a text message is counted by its reader alone, everything
\* else by both; after a failure the reader has never counted more.
CountersMeet ==
    /\ Returned("writer") /\ status["reader"] # "running" =>
        counted["reader"] <= counted["writer"] + TextsBefore(taken)
    /\ status["writer"] = "nil" /\ taken = Total =>
        counted["reader"] = counted["writer"] + TextsBefore(taken)

\* A buffer, or a field that is larger.
Longest == Max({Buf, PageSize, MaxText})

\* A cancelled side goes on with what is in its buffer and with the I/O in
\* progress, and no further: "within one 4 KiB buffer of messages" (sync.go,
\* Origin and Replica), or within the one field that is larger.
CancelledStops ==
    /\ "reader" \in cancelled => taken <= mark["reader"] + Longest
    /\ "writer" \in cancelled => put <= mark["writer"] + Buf

InIO(e) == IF e = "writer" THEN sent < goal \/ waits ELSE ask > 0

\* A side cancelled between two I/Os returns, even if its peer never reads
\* nor writes again (sync.go, ctxStream: "without it, a side whose context is
\* cancelled could still block forever").
CancelledReturns ==
    \A e \in Ends :
        (e \in cancelled /\ ~InIO(e)) ~> status[e] # "running"

Disturbed ==
    cancelled # {} \/ \E e \in Ends : status[e] \in {"killed", "hung"}

\* Left alone, the peer reads everything written before a role waits for its
\* answer: "the peer never waits on buffered bytes" (wire.go, package comment).
EverythingArrives ==
    <>Disturbed \/ <>(taken = Total /\ \A e \in Ends : Returned(e))
=============================================================================
