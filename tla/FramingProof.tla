---------------------------- MODULE FramingProof ----------------------------
(***************************************************************************)
(* A cancelled side stops in time, for buffers, pages and texts of any     *)
(* length, any messages and any stream: what it still does is bounded by   *)
(* what its buffer holds and by the one Read or Write in progress          *)
(* (Stopping).  And both ends are in the same message (Framed): the writer *)
(* has put the messages up to the one it writes and some of a field, the   *)
(* reader the rest of the fields of the message it reads to go.            *)
(***************************************************************************)
EXTENDS Framing, Induction, FiniteSetTheorems, SequenceTheorems, TLAPS

MessageFields == [len : Nat, via : Data \union {"Flush", "answer"}]

WriterTypes ==
    /\ script \in Seq(Message)
    /\ msg \in Nat \ {0} /\ left \in Nat
    /\ msg <= Len(script) => fld \in DOMAIN WriteFields(script[msg])
    /\ put \in Nat /\ goal \in Nat /\ sent \in Nat

ReaderTypes ==
    /\ got \in Nat /\ ask \in Nat /\ taken \in Nat /\ part \in Nat
    /\ szPage \in 0 .. PageSize
    /\ rest \in Seq(0 .. Longest) /\ rest # <<>> /\ part <= rest[1]

\* The positions keep their order; a Write in progress writes all that is in
\* the buffer, which is full at most otherwise; a Read starts with an empty
\* buffer.
Positions ==
    /\ taken <= got /\ got <= sent /\ sent <= goal /\ goal <= put
    /\ sent < goal => goal = put
    /\ sent = goal => put <= sent + Buf
    /\ ask > 0 => got = taken
    /\ got + ask <= taken + Longest

\* No Write begins after the writer's cancellation and no Read after the
\* reader's, so these bounds are never moved.
AfterCancel ==
    /\ mark \in [Ends -> Nat]
    /\ "writer" \in cancelled => goal <= mark["writer"] /\ put <= mark["writer"] + Buf
    /\ "reader" \in cancelled => got + ask <= mark["reader"] + Longest

Stopping == WriterTypes /\ ReaderTypes /\ Positions /\ AfterCancel

-----------------------------------------------------------------------------
(* The messages.                                                           *)

LEMMA LongestIsLongest ==
    Longest \in Nat /\ Buf <= Longest /\ PageSize <= Longest /\ MaxText <= Longest
<1>1. \E x \in {Buf, PageSize, MaxText} : \A y \in {Buf, PageSize, MaxText} : x >= y
    BY FramingAssumption
<1>2. QED
    BY <1>1, FramingAssumption DEF Longest, Max

\* What is written: at least a type byte, and lengths are numbers.
LEMMA FieldsWritten ==
    ASSUME NEW m \in Message
    PROVE  WriteFields(m) \in Seq(MessageFields) /\ WriteFields(m) # <<>>
<1>1. /\ Byte \in MessageFields /\ Text \in MessageFields /\ Flush \in MessageFields
      /\ Answer \in MessageFields
      /\ \A n \in Nat : Bytes(n) \in MessageFields
    BY DEF Byte, Bytes, Text, Flush, Answer, MessageFields, Data
<1>2. Word \in Nat /\ HashLen \in Nat /\ PageSize \in Nat
    BY FramingAssumption
<1>3. CASE m.type \in {"MSG", "ERROR"}
  <2>1. m.len \in Nat
      BY <1>3, FramingAssumption DEF Message
  <2>2. WriteFields(m) = <<Text, Bytes(Word), Bytes(m.len), Flush>>
      BY <1>3 DEF WriteFields
  <2>3. QED
      BY <1>1, <1>2, <2>1, <2>2
<1>4. CASE m.type = "ORIGIN_BEGIN"
  <2>1. WriteFields(m) = <<Byte, Byte, Byte, Bytes(Word), Flush, Answer>>
      BY <1>4 DEF WriteFields
  <2>2. QED
      BY <1>1, <1>2, <2>1
<1>5. CASE m.type = "REPLICA_BEGIN"
  <2>1. WriteFields(m) = <<Byte, Byte, Flush, Answer>>
      BY <1>5 DEF WriteFields
  <2>2. QED
      BY <1>1, <2>1
<1>6. CASE m.type \in {"REPLICA_CONFIG", "ORIGIN_DETAIL"}
  <2>1. WriteFields(m) = <<Byte, Bytes(Word), Bytes(Word)>>
      BY <1>6 DEF WriteFields
  <2>2. QED
      BY <1>1, <1>2, <2>1
<1>7. CASE m.type = "REPLICA_HASH"
  <2>1. WriteFields(m) = <<Byte, Bytes(HashLen)>>
      BY <1>7 DEF WriteFields
  <2>2. QED
      BY <1>1, <1>2, <2>1
<1>8. CASE m.type = "ORIGIN_PAGE"
  <2>1. WriteFields(m) = <<Byte, Bytes(Word), Bytes(PageSize)>>
      BY <1>8 DEF WriteFields
  <2>2. QED
      BY <1>1, <1>2, <2>1
<1>9. CASE m.type = "ORIGIN_TXN"
  <2>1. WriteFields(m) = <<Byte, Bytes(Word)>>
      BY <1>9 DEF WriteFields
  <2>2. QED
      BY <1>1, <1>2, <2>1
<1>10. CASE m.type = "READY"
  <2>1. WriteFields(m) = <<Byte, Flush, Answer>>
      BY <1>10 DEF WriteFields, EndRound
  <2>2. QED
      BY <1>1, <2>1
<1>11. CASE m.type = "END"
  <2>1. WriteFields(m) = <<Byte, Flush>>
      BY <1>11 DEF WriteFields
  <2>2. QED
      BY <1>1, <2>1
<1>12. QED
    BY <1>3, <1>4, <1>5, <1>6, <1>7, <1>8, <1>9, <1>10, <1>11 DEF Message

\* What is read: no field is longer than Longest.
LEMMA FieldsRead ==
    ASSUME szPage \in 0 .. PageSize, NEW m \in Message \union {[type |-> "garbage"]}
    PROVE  ReadLengths(m) \in Seq(0 .. Longest)
<1>1. /\ 1 \in 0 .. Longest /\ Word \in 0 .. Longest /\ HashLen \in 0 .. Longest
      /\ szPage \in 0 .. Longest
    BY FramingAssumption, LongestIsLongest
<1>2. CASE m.type \in {"MSG", "ERROR"}
  <2>1. m.len \in 0 .. Longest
      BY <1>2, FramingAssumption, LongestIsLongest DEF Message
  <2>2. QED
      BY <1>1, <1>2, <2>1 DEF ReadLengths
<1>3. CASE m.type = "ORIGIN_BEGIN"
  <2>1. ReadLengths(m) = <<1, 1, Word>>
      BY <1>3 DEF ReadLengths
  <2>2. QED
      BY <1>1, <2>1
<1>4. CASE m.type = "REPLICA_BEGIN"
  <2>1. ReadLengths(m) = <<1>>
      BY <1>4 DEF ReadLengths
  <2>2. QED
      BY <1>1, <2>1
<1>5. CASE m.type \in {"REPLICA_CONFIG", "ORIGIN_DETAIL"}
  <2>1. ReadLengths(m) = <<Word, Word>>
      BY <1>5 DEF ReadLengths
  <2>2. QED
      BY <1>1, <2>1
<1>6. CASE m.type = "REPLICA_HASH"
  <2>1. ReadLengths(m) = <<HashLen>>
      BY <1>6 DEF ReadLengths
  <2>2. QED
      BY <1>1, <2>1
<1>7. CASE m.type = "ORIGIN_PAGE"
  <2>1. ReadLengths(m) = <<Word, szPage>>
      BY <1>7 DEF ReadLengths
  <2>2. QED
      BY <1>1, <2>1
<1>8. CASE m.type = "ORIGIN_TXN"
  <2>1. ReadLengths(m) = <<Word>>
      BY <1>8 DEF ReadLengths
  <2>2. QED
      BY <1>1, <2>1
<1>9. CASE m.type \in {"READY", "END", "garbage"}
  <2>1. ReadLengths(m) = <<>>
      BY <1>9 DEF ReadLengths
  <2>2. QED
      BY <2>1
<1>10. QED
    BY <1>2, <1>3, <1>4, <1>5, <1>6, <1>7, <1>8, <1>9 DEF Message

LEMMA MessageFound ==
    ASSUME WriterTypes, NEW p
    PROVE  MessageAt(p) \in Message \union {[type |-> "garbage"]}
<1>1. CASE \E k \in DOMAIN script : StartOf(k) = p
  <2>1. MessageAt(p) = script[CHOOSE k \in DOMAIN script : StartOf(k) = p]
      BY <1>1 DEF MessageAt
  <2>2. (CHOOSE k \in DOMAIN script : StartOf(k) = p) \in DOMAIN script
      BY <1>1
  <2>3. QED
      BY <2>1, <2>2 DEF WriterTypes
<1>2. CASE ~\E k \in DOMAIN script : StartOf(k) = p
    BY <1>2 DEF MessageAt
<1>3. QED
    BY <1>1, <1>2

LEMMA PageSizeTold == FromExponent(Exponent(PageSize)) = PageSize
    BY FramingAssumption DEF FromExponent, Exponent

-----------------------------------------------------------------------------
(* The steps.                                                              *)

LEMMA InitStops == Init => Stopping
<1> SUFFICES ASSUME Init PROVE Stopping
    OBVIOUS
<1>1. script \in Seq(Message)
    BY FramingAssumption DEF Init
<1>2. msg <= Len(script) => 1 \in DOMAIN WriteFields(script[msg])
  <2> SUFFICES ASSUME msg <= Len(script) PROVE 1 \in DOMAIN WriteFields(script[msg])
      OBVIOUS
  <2>1. script[msg] \in Message
      BY <1>1 DEF Init
  <2>2. QED
      BY <2>1, FieldsWritten
<1>3. WriterTypes
    BY <1>1, <1>2 DEF Init, WriterTypes
<1>4. ReaderTypes
    BY FramingAssumption, LongestIsLongest DEF Init, ReaderTypes
<1>5. Positions /\ AfterCancel
    BY FramingAssumption, LongestIsLongest DEF Init, Positions, AfterCancel
<1>6. QED
    BY <1>3, <1>4, <1>5 DEF Stopping

\* Going on with the next field keeps the writer's types.
LEMMA AdvanceKeepsTypes ==
    ASSUME WriterTypes, msg <= Len(script), Advance, script' = script
    PROVE  /\ msg' \in Nat \ {0} /\ left' \in Nat
           /\ msg' <= Len(script') => fld' \in DOMAIN WriteFields(script'[msg'])
<1>1. script[msg] \in Message
    BY DEF WriterTypes
<1>2. WriteFields(script[msg]) \in Seq(MessageFields)
    BY <1>1, FieldsWritten
<1>3. CASE fld < Len(WriteFields(script[msg]))
  <2>1. /\ msg' = msg /\ fld' = fld + 1
        /\ left' = WriteFields(script[msg])[fld + 1].len
      BY <1>3 DEF Advance
  <2>2. fld + 1 \in DOMAIN WriteFields(script[msg])
      BY <1>2, <1>3 DEF WriterTypes
  <2>3. WriteFields(script[msg])[fld + 1] \in MessageFields
      BY <1>2, <2>2
  <2>4. QED
      BY <2>1, <2>2, <2>3 DEF WriterTypes, MessageFields
<1>4. CASE ~(fld < Len(WriteFields(script[msg])))
  <2>1. msg' = msg + 1 /\ fld' = 1 /\ left' = 1
      BY <1>4 DEF Advance
  <2>2. ASSUME msg + 1 <= Len(script) PROVE 1 \in DOMAIN WriteFields(script[msg + 1])
    <3>1. script[msg + 1] \in Message
        BY <2>2 DEF WriterTypes
    <3>2. QED
        BY <3>1, FieldsWritten
  <2>3. QED
      BY <2>1, <2>2 DEF WriterTypes
<1>5. QED
    BY <1>3, <1>4

\* A role that writes: into the buffer, or a buffer into the stream.
LEMMA WriterKeeps ==
    ASSUME Stopping, WriterStep
    PROVE  Stopping'
<1> USE DEF Stopping
<1>0. mark["writer"] \in Nat /\ mark["reader"] \in Nat
    BY DEF AfterCancel, Ends
<1>1. Buf \in Nat \ {0} /\ Longest \in Nat
    BY FramingAssumption, LongestIsLongest
<1>2. CASE PutField
  <2>1. /\ sent = goal /\ msg <= Len(script) /\ Advance
        /\ left <= Buf - (put - sent) /\ put' = put + left
        /\ UNCHANGED <<goal, sent, got, ask, parsing, env>>
      BY <1>2 DEF PutField, AtField, Available
  <2>2. WriterTypes'
      BY <2>1, AdvanceKeepsTypes DEF WriterTypes, env
  <2>3. ReaderTypes'
      BY <2>1 DEF ReaderTypes, parsing
  <2>4. Positions'
      BY <1>1, <2>1 DEF WriterTypes, ReaderTypes, Positions, parsing
  <2>5. AfterCancel'
      BY <1>1, <1>0, <2>1 DEF WriterTypes, ReaderTypes, Positions, AfterCancel, parsing, env
  <2>6. QED
      BY <2>2, <2>3, <2>4, <2>5
<1>3. CASE Spill
  <2> DEFINE n == IF put = sent THEN left ELSE Available
  <2>1. /\ sent = goal /\ left > Buf - (put - sent) /\ "writer" \notin cancelled
        /\ put' = put + n /\ left' = left - n /\ goal' = put + n
        /\ UNCHANGED <<msg, fld, sent, got, ask, parsing, env>>
      BY <1>3 DEF Spill, AtField, Available, WriteAllowed
  <2>2. n \in Nat /\ left - n \in Nat /\ put + n > sent
      BY <1>1, <2>1 DEF Available, WriterTypes, Positions
  <2>3. WriterTypes'
      BY <2>1, <2>2 DEF WriterTypes, env
  <2>4. ReaderTypes'
      BY <2>1 DEF ReaderTypes, parsing
  <2>5. Positions'
    <3>1. /\ put \in Nat /\ sent \in Nat /\ put + n \in Nat
          /\ put' = put + n /\ goal' = put + n /\ sent' = sent
        BY <2>1, <2>2 DEF WriterTypes
    <3>2. sent' < goal' /\ goal' = put'
        BY <2>2, <3>1
    <3>3. got' = got /\ taken' = taken /\ ask' = ask
        BY <2>1 DEF parsing
    <3> HIDE DEF n
    <3> QED
        BY <3>1, <3>2, <3>3 DEF Positions
  <2>6. AfterCancel'
      BY <1>0, <2>1 DEF AfterCancel, parsing, env
  <2>7. QED
      BY <2>3, <2>4, <2>5, <2>6
<1>4. CASE FlushStarts
  <2>1. /\ sent = goal /\ sent < put /\ "writer" \notin cancelled /\ goal' = put
        /\ UNCHANGED <<msg, fld, left, put, sent, got, ask, parsing, env>>
      BY <1>4 DEF FlushStarts, AtField, WriteAllowed
  <2>2. WriterTypes' /\ ReaderTypes'
      BY <2>1 DEF WriterTypes, ReaderTypes, parsing, env
  <2>3. Positions'
      BY <1>1, <2>1 DEF WriterTypes, ReaderTypes, Positions, parsing
  <2>4. AfterCancel'
      BY <1>1, <1>0, <2>1 DEF WriterTypes, ReaderTypes, Positions, AfterCancel, parsing, env
  <2>5. QED
      BY <2>2, <2>3, <2>4
<1>5. CASE FlushReturns \/ AnswerComes
  <2>1. /\ msg <= Len(script) /\ Advance
        /\ UNCHANGED <<put, goal, sent, got, ask, parsing, env>>
      BY <1>5 DEF FlushReturns, AnswerComes, AtField
  <2>2. WriterTypes'
      BY <2>1, AdvanceKeepsTypes DEF WriterTypes, env
  <2>3. ReaderTypes' /\ Positions' /\ AfterCancel'
      BY <2>1 DEF ReaderTypes, Positions, AfterCancel, parsing, env
  <2>4. QED
      BY <2>2, <2>3
<1>6. CASE AnswerAwaited \/ WriterCancelled \/ WriteBreaks \/ WriterReturns
  <2>1. UNCHANGED <<msg, fld, left, put, goal, sent, got, ask, parsing, env>>
      BY <1>6 DEF AnswerAwaited, WriterCancelled, WriteBreaks, WriterReturns, writing
  <2>2. QED
      BY <2>1 DEF WriterTypes, ReaderTypes, Positions, AfterCancel, parsing, env
<1>7. QED
    BY <1>2, <1>3, <1>4, <1>5, <1>6 DEF WriterStep

\* A role that reads: from the buffer, or a Read into it.
LEMMA ReaderKeeps ==
    ASSUME Stopping, ReaderStep
    PROVE  Stopping'
<1> USE DEF Stopping
<1>0. mark["writer"] \in Nat /\ mark["reader"] \in Nat
    BY DEF AfterCancel, Ends
<1>1. Buf \in Nat \ {0} /\ Longest \in Nat /\ Buf <= Longest
    BY FramingAssumption, LongestIsLongest
<1>2. rest[1] \in 0 .. Longest /\ Wanted \in 0 .. Longest
    BY <1>1 DEF ReaderTypes, Wanted
<1>3. CASE Take
  <2> DEFINE n == IF got - taken < Wanted THEN got - taken ELSE Wanted
             m == MessageAt(taken)
  <2>1. /\ ask = 0 /\ taken' = taken + n
        /\ UNCHANGED <<writing, sent, got, ask, env>>
      BY <1>3 DEF Take, Idle
  <2>2. n \in Nat /\ n <= got - taken /\ n <= Wanted
      BY <1>2 DEF ReaderTypes, Positions
  <2>3. szPage' \in 0 .. PageSize
      BY <1>3, PageSizeTold, FramingAssumption DEF Take, ReaderTypes
  <2>4. part' \in Nat /\ rest' \in Seq(0 .. Longest) /\ rest' # <<>> /\ part' <= rest'[1]
    <3>1. CASE n # Wanted
      <4>1. part' = part + n /\ rest' = rest
          BY <1>3, <3>1 DEF Take
      <4>2. QED
          BY <1>2, <2>2, <4>1 DEF ReaderTypes, Wanted
    <3>2. ASSUME NEW type, NEW lengths \in Seq(0 .. Longest), NextField(type, lengths)
          PROVE  part' \in Nat /\ rest' \in Seq(0 .. Longest) /\ rest' # <<>> /\ part' <= rest'[1]
      <4>1. part' = 0
          BY <3>2 DEF NextField
      <4>2. CASE lengths = <<>>
        <5>1. rest' = <<1>>
            BY <3>2, <4>2 DEF NextField
        <5>2. QED
            BY <1>1, <4>1, <5>1
      <4>3. CASE lengths # <<>>
        <5>1. rest' = lengths
            BY <3>2, <4>3 DEF NextField
        <5>2. 1 \in 1 .. Len(lengths)
            BY <4>3
        <5>3. lengths[1] \in 0 .. Longest
            BY <5>2, <1>1
        <5>4. QED
            BY <4>1, <4>3, <5>1, <5>3
      <4>4. QED
          BY <4>2, <4>3
    <3>3. CASE n = Wanted /\ reading = "none"
      <4>1. NextField(m.type, ReadLengths(m))
          BY <1>3, <3>3 DEF Take
      <4>2. ReadLengths(m) \in Seq(0 .. Longest)
          BY MessageFound, FieldsRead DEF ReaderTypes
      <4>3. QED
          BY <3>2, <4>1, <4>2
    <3>4. CASE n = Wanted /\ reading # "none"
      <4>1. NextField(reading, Tail(rest))
          BY <1>3, <3>4 DEF Take
      <4>2. Tail(rest) \in Seq(0 .. Longest)
          BY DEF ReaderTypes
      <4>3. QED
          BY <3>2, <4>1, <4>2
    <3>5. QED
        BY <3>1, <3>3, <3>4
  <2>5. ReaderTypes'
      BY <2>1, <2>2, <2>3, <2>4 DEF ReaderTypes
  <2>6. WriterTypes'
      BY <2>1 DEF WriterTypes, writing, env
  <2>7. Positions'
      BY <1>1, <2>1, <2>2 DEF WriterTypes, ReaderTypes, Positions, writing
  <2>8. AfterCancel'
      BY <1>1, <1>0, <2>1, <2>2 DEF WriterTypes, ReaderTypes, Positions, AfterCancel, writing, env
  <2>9. QED
      BY <2>5, <2>6, <2>7, <2>8
<1>4. CASE ReadStarts
  <2>1. /\ ~(got > taken) /\ "reader" \notin cancelled
        /\ ask' = IF Wanted >= Buf THEN Wanted ELSE Buf
        /\ UNCHANGED <<writing, sent, got, parsing, env>>
      BY <1>4 DEF ReadStarts, CanTake, ReadAllowed
  <2>2. ask' \in 0 .. Longest
      BY <1>1, <1>2, <2>1
  <2>3. got = taken
      BY <2>1 DEF ReaderTypes, Positions
  <2>4. WriterTypes' /\ ReaderTypes'
      BY <2>1, <2>2 DEF WriterTypes, ReaderTypes, writing, parsing, env
  <2>5. Positions'
      BY <1>1, <2>1, <2>2, <2>3 DEF WriterTypes, ReaderTypes, Positions,
          writing, parsing
  <2>6. AfterCancel'
      BY <1>1, <1>0, <2>1, <2>2, <2>3 DEF WriterTypes, ReaderTypes, Positions, AfterCancel,
          writing, parsing, env
  <2>7. QED
      BY <2>4, <2>5, <2>6
<1>5. CASE ReadCancelled \/ ReadEnds
  <2>1. UNCHANGED <<writing, sent, got, ask, parsing, env>>
      BY <1>5 DEF ReadCancelled, ReadEnds
  <2>2. QED
      BY <2>1 DEF WriterTypes, ReaderTypes, Positions, AfterCancel, writing, parsing, env
<1>6. QED
    BY <1>3, <1>4, <1>5 DEF ReaderStep

\* The stream takes no more than a Write has, and gives no more than a Read
\* asks for.
LEMMA StreamKeeps ==
    ASSUME Stopping, StreamStep
    PROVE  Stopping'
<1> USE DEF Stopping
<1>0. mark["writer"] \in Nat /\ mark["reader"] \in Nat
    BY DEF AfterCancel, Ends
<1>1. Buf \in Nat /\ Longest \in Nat
    BY FramingAssumption, LongestIsLongest
<1>2. CASE StreamTakes
  <2>1. PICK k \in 1 .. (goal - sent) : sent' = sent + k
      BY <1>2 DEF StreamTakes
  <2>2. UNCHANGED <<writing, got, ask, parsing, env>>
      BY <1>2 DEF StreamTakes
  <2>3. WriterTypes' /\ ReaderTypes'
      BY <2>1, <2>2 DEF WriterTypes, ReaderTypes, writing, parsing, env
  <2>4. Positions'
      BY <1>1, <2>1, <2>2 DEF WriterTypes, ReaderTypes, Positions,
          writing, parsing
  <2>5. AfterCancel'
      BY <1>1, <1>0, <2>1, <2>2 DEF WriterTypes, ReaderTypes, Positions, AfterCancel,
          writing, parsing, env
  <2>6. QED
      BY <2>3, <2>4, <2>5
<1>3. CASE StreamGives
  <2>1. PICK k \in 1 .. ask : k <= sent - got /\ got' = got + k
      BY <1>3 DEF StreamGives
  <2>2. ask' = 0 /\ UNCHANGED <<writing, sent, parsing, env>>
      BY <1>3 DEF StreamGives
  <2>3. WriterTypes' /\ ReaderTypes'
      BY <2>1, <2>2 DEF WriterTypes, ReaderTypes, writing, parsing, env
  <2>4. Positions'
      BY <1>1, <2>1, <2>2 DEF WriterTypes, ReaderTypes, Positions,
          writing, parsing
  <2>5. AfterCancel'
      BY <1>1, <1>0, <2>1, <2>2 DEF WriterTypes, ReaderTypes, Positions, AfterCancel,
          writing, parsing, env
  <2>6. QED
      BY <2>3, <2>4, <2>5
<1>4. CASE StreamHands
  <2>1. PICK k \in 1 .. ask : k <= goal - sent /\ sent' = sent + k /\ got' = got + k
      BY <1>4 DEF StreamHands
  <2>2. ask' = 0 /\ UNCHANGED <<writing, parsing, env>>
      BY <1>4 DEF StreamHands
  <2>3. WriterTypes' /\ ReaderTypes'
      BY <2>1, <2>2 DEF WriterTypes, ReaderTypes, writing, parsing, env
  <2>4. Positions'
      BY <1>1, <2>1, <2>2 DEF WriterTypes, ReaderTypes, Positions,
          writing, parsing
  <2>5. AfterCancel'
      BY <1>1, <1>0, <2>1, <2>2 DEF WriterTypes, ReaderTypes, Positions, AfterCancel,
          writing, parsing, env
  <2>6. QED
      BY <2>3, <2>4, <2>5
<1>5. QED
    BY <1>2, <1>3, <1>4 DEF StreamStep

\* The moment of the cancellation: what is in progress is within the bounds.
LEMMA CancelKeeps ==
    ASSUME Stopping, NEW e \in Ends, Cancel(e)
    PROVE  Stopping'
<1> USE DEF Stopping
<1>1. /\ cancelled' = cancelled \union {e}
      /\ mark' = [mark EXCEPT ![e] = IF e = "writer" THEN put ELSE taken]
      /\ UNCHANGED <<writing, sent, got, ask, parsing, script>>
    BY DEF Cancel
<1>2. Buf \in Nat /\ Longest \in Nat
    BY FramingAssumption, LongestIsLongest
<1>3. WriterTypes' /\ ReaderTypes' /\ Positions'
    BY <1>1 DEF WriterTypes, ReaderTypes, Positions, writing, parsing
<1>4. AfterCancel'
    BY <1>1, <1>2 DEF WriterTypes, ReaderTypes, Positions, AfterCancel, Ends, writing
<1>5. QED
    BY <1>3, <1>4

-----------------------------------------------------------------------------
\* Every reachable state keeps to the bounds.
THEOREM StreamStops == Spec => []Stopping
<1>1. Stopping /\ [Next]_vars => Stopping'
  <2> SUFFICES ASSUME Stopping, [Next]_vars PROVE Stopping'
      OBVIOUS
  <2>1. CASE UNCHANGED <<writing, sent, got, ask, parsing, script, cancelled, mark>>
      BY <2>1 DEF Stopping, WriterTypes, ReaderTypes, Positions, AfterCancel, writing, parsing
  <2>2. ASSUME NEW e \in Ends, CallerCloses(e) \/ Kill(e) \/ Hang(e)
        PROVE  Stopping'
      BY <2>1, <2>2 DEF CallerCloses, Kill, Hang, env
  <2>3. CASE AtRest \/ UNCHANGED vars
      BY <2>1, <2>3 DEF AtRest, vars, env
  <2>4. QED
      BY <2>2, <2>3, WriterKeeps, ReaderKeeps, StreamKeeps, CancelKeeps DEF Next
<1>2. QED
    BY InitStops, <1>1, PTL DEF Spec

\* A cancelled side stops within a buffer of what it had written or read, or
\* within one larger field (sync.go, Origin and Replica).
THEOREM CancellationStops == Spec => []CancelledStops
<1>1. Stopping => CancelledStops
  <2> SUFFICES ASSUME Stopping PROVE CancelledStops
      OBVIOUS
  <2>1. Longest \in Nat
      BY LongestIsLongest
  <2>2. QED
      BY <2>1 DEF Stopping, ReaderTypes, Positions, AfterCancel, CancelledStops, Ends
<1>2. QED
    BY <1>1, StreamStops, PTL

-----------------------------------------------------------------------------
(* Where things begin.                                                     *)

LEMMA OffsetsUnfold ==
    ASSUME NEW L \in Seq(Nat)
    PROVE  /\ Offsets(L) \in [1 .. Len(L) + 1 -> Nat]
           /\ Offsets(L)[1] = 0
           /\ \A k \in 1 .. Len(L) : Offsets(L)[k + 1] = Offsets(L)[k] + L[k]
<1> DEFINE n == Len(L)
           Body(u) == [k \in 0 .. n |-> IF k = 0 THEN 0 ELSE u[k - 1] + L[k]]
           g == [x \in (1 .. n) \X Nat |-> x[2] + L[x[1]]]
           at == CHOOSE u : u = Body(u)
<1>1. n \in Nat /\ \A k \in 1 .. n : L[k] \in Nat
    OBVIOUS
<1>2. g \in Steps(n, Nat)
    <2> SUFFICES ASSUME NEW x \in (1 .. n) \X Nat
                 PROVE  x[2] + L[x[1]] \in Nat
        BY DEF Steps
    <2>1. x[2] \in Nat /\ L[x[1]] \in Nat
        BY <1>1
    <2> QED
        BY <2>1
<1>3. PICK f : /\ f \in [0 .. n -> Nat] /\ f[0] = 0
               /\ \A k \in 1 .. n : f[k] = g[<<k, f[k - 1]>>]
    <2>1. \E f : Iterates(f, 0, g, n, Nat)
        <3> HIDE DEF g, n
        <3> QED
            BY <1>1, <1>2, PrimitiveRecursion
    <2> HIDE DEF g, n
    <2> QED
        BY <2>1 DEF Iterates
<1>4. \A k \in 1 .. n : f[k] = f[k - 1] + L[k]
    <2> TAKE k \in 1 .. n
    <2>1. f[k - 1] \in Nat
        <3>1. k - 1 \in 0 .. n
            BY <1>1
        <3> HIDE DEF g, n
        <3> QED
            BY <3>1, <1>3
    <2>2. g[<<k, f[k - 1]>>] = f[k - 1] + L[k]
        BY <2>1
    <2>3. f[k] = g[<<k, f[k - 1]>>]
        BY <1>3, Zenon
    <2> QED
        BY <2>2, <2>3, Zenon
<1> HIDE DEF g
<1>5. f = Body(f)
    <2>1. \A k \in 0 .. n : f[k] = Body(f)[k]
        BY <1>1, <1>3, <1>4
    <2>2. DOMAIN f = 0 .. n /\ f = [k \in DOMAIN f |-> f[k]]
        BY <1>3
    <2> QED
        BY <2>1, <2>2
<1>6. at = Body(at)
    <2> HIDE DEF Body
    <2> QED
        BY <1>5
<1>7. Offsets(L) = [k \in 1 .. n + 1 |-> at[k - 1]]
    BY DEF Offsets
<1> HIDE DEF at
<1>8. at[0] = 0
    BY <1>1, <1>6
<1>9. ASSUME NEW k \in 1 .. n
      PROVE  at[k] = at[k - 1] + L[k]
    <2>1. k \in 0 .. n /\ k # 0
        OBVIOUS
    <2> QED
        BY <1>6, <2>1, Zenon
<1>10. \A k \in 0 .. n : at[k] \in Nat
    <2> DEFINE C == {k \in 0 .. n : at[k] \in Nat}
    <2> HIDE DEF n
    <2>1. 0 \in C
        BY <1>1, <1>8
    <2>2. ASSUME NEW k \in 0 .. n, k # n, k \in C
          PROVE  k + 1 \in C
        <3>1. k + 1 \in 1 .. n /\ (k + 1) - 1 = k /\ k + 1 \in 0 .. n
            BY <2>2, <1>1
        <3>2. at[k + 1] = at[(k + 1) - 1] + L[k + 1]
            BY <3>1, <1>9
        <3>3. at[k] \in Nat /\ L[k + 1] \in Nat
            BY <2>2, <3>1, <1>1
        <3> QED
            BY <3>1, <3>2, <3>3
    <2>3. \A k \in 0 .. n : k \in C
        <3> HIDE DEF C
        <3> QED
            BY <1>1, <2>1, <2>2, InductionTo
    <2> QED
        BY <2>3
<1>11. \A k \in 1 .. n + 1 : k - 1 \in 0 .. n
    BY <1>1
<1>12. \A k \in 1 .. n : (k + 1) - 1 = k /\ k \in 1 .. n + 1 /\ k + 1 \in 1 .. n + 1
    BY <1>1
<1> QED
    BY <1>1, <1>7, <1>8, <1>9, <1>10, <1>11, <1>12

LEMMA OffsetsGrow ==
    ASSUME NEW L \in Seq(Nat), NEW j \in 1 .. Len(L) + 1, NEW k \in 1 .. Len(L) + 1, j <= k
    PROVE  Offsets(L)[j] <= Offsets(L)[k]
<1> DEFINE at == Offsets(L)
           n == Len(L) + 1 - j
           C == {d \in 0 .. n : at[j] <= at[j + d]}
<1>1. /\ at \in [1 .. Len(L) + 1 -> Nat]
      /\ \A i \in 1 .. Len(L) : at[i + 1] = at[i] + L[i] /\ L[i] \in Nat
    BY OffsetsUnfold
<1>2. n \in Nat /\ Len(L) \in Nat
    OBVIOUS
<1> HIDE DEF at
<1>3. 0 \in C
    <2>1. at[j] \in Nat
        BY <1>1
    <2>2. j + 0 = j /\ 0 \in 0 .. n
        BY <1>2
    <2>3. at[j] <= at[j + 0]
        BY <2>1, <2>2
    <2> QED
        BY <2>2, <2>3
<1>4. ASSUME NEW d \in 0 .. n, d # n, d \in C
      PROVE  d + 1 \in C
    <2>1. /\ j + d \in 1 .. Len(L) + 1 /\ j + d \in 1 .. Len(L)
          /\ j + (d + 1) = (j + d) + 1 /\ d + 1 \in 0 .. n
        BY <1>4, <1>2
    <2>2. at[j + d] \in Nat /\ at[j] \in Nat
        BY <2>1, <1>1
    <2>3. at[(j + d) + 1] = at[j + d] + L[j + d] /\ L[j + d] \in Nat
        BY <2>1, <1>1
    <2>4. at[j] <= at[j + d]
        BY <1>4
    <2>5. at[j] <= at[j + (d + 1)]
        BY <2>1, <2>2, <2>3, <2>4
    <2> QED
        BY <2>1, <2>5
<1>5. \A d \in 0 .. n : d \in C
    <2> HIDE DEF C, n
    <2> QED
        BY <1>2, <1>3, <1>4, InductionTo
<1>6. k - j \in 0 .. n /\ j + (k - j) = k
    BY <1>2
<1> QED
    BY <1>5, <1>6 DEF at

Lengths(m) == [f \in DOMAIN WriteFields(m) |-> WriteFields(m)[f].len]

\* The fields of a message follow one another, and the first is a byte.
LEMMA FieldsFollow ==
    ASSUME NEW m \in Message
    PROVE  /\ Len(WriteFields(m)) \in Nat \ {0}
           /\ DOMAIN WriteFields(m) = 1 .. Len(WriteFields(m))
           /\ \A f \in 1 .. Len(WriteFields(m)) :
                /\ WriteFields(m)[f].len \in Nat
                /\ FieldAt(m, f) \in Nat
                /\ FieldAt(m, f + 1) = FieldAt(m, f) + WriteFields(m)[f].len
           /\ FieldAt(m, 1) = 0 /\ FieldAt(m, 2) = 1
           /\ WriteFields(m)[1].len = 1
           /\ LengthOf(m) \in Nat \ {0}
           /\ LengthOf(m) = FieldAt(m, Len(WriteFields(m)) + 1)
           /\ \A f, g \in 1 .. Len(WriteFields(m)) + 1 : f <= g =>
                FieldAt(m, f) \in Nat /\ FieldAt(m, g) \in Nat /\ FieldAt(m, f) <= FieldAt(m, g)
<1> DEFINE W == WriteFields(m)
<1>1. /\ Len(W) \in Nat \ {0} /\ DOMAIN W = 1 .. Len(W)
      /\ \A f \in 1 .. Len(W) : W[f].len \in Nat
    <2>1. W \in Seq(MessageFields) /\ W # <<>>
        BY FieldsWritten
    <2> HIDE DEF W
    <2>2. \A f \in 1 .. Len(W) : W[f] \in MessageFields
        BY <2>1
    <2>3. Len(W) \in Nat \ {0} /\ DOMAIN W = 1 .. Len(W)
        BY <2>1
    <2> QED
        BY <2>2, <2>3 DEF MessageFields
<1>2. W[1].len = 1
    BY DEF WriteFields, Byte, Text, EndRound, Message
<1> HIDE DEF W
<1>3. Lengths(m) = [f \in 1 .. Len(W) |-> W[f].len]
    BY <1>1 DEF Lengths, W
<1>4. Lengths(m) \in Seq(Nat) /\ Len(Lengths(m)) = Len(W)
    BY <1>1, <1>3
<1>5. \A f : FieldAt(m, f) = Offsets(Lengths(m))[f]
    BY DEF FieldAt, Lengths
<1>6. /\ Offsets(Lengths(m)) \in [1 .. Len(W) + 1 -> Nat]
      /\ Offsets(Lengths(m))[1] = 0
      /\ \A f \in 1 .. Len(W) :
            Offsets(Lengths(m))[f + 1] = Offsets(Lengths(m))[f] + Lengths(m)[f]
    BY <1>4, OffsetsUnfold
<1>7. \A f, g \in 1 .. Len(W) + 1 : f <= g =>
            Offsets(Lengths(m))[f] <= Offsets(Lengths(m))[g]
    BY <1>4, OffsetsGrow
<1>8. \A f \in 1 .. Len(W) : Lengths(m)[f] = W[f].len
    BY <1>3
<1> HIDE DEF Lengths
<1>9. \A f \in 1 .. Len(W) + 1 : FieldAt(m, f) \in Nat
    BY <1>5, <1>6
<1>10. /\ FieldAt(m, 1) = 0
       /\ \A f \in 1 .. Len(W) : FieldAt(m, f + 1) = FieldAt(m, f) + W[f].len
       /\ \A f, g \in 1 .. Len(W) + 1 : f <= g => FieldAt(m, f) <= FieldAt(m, g)
    BY <1>5, <1>6, <1>7, <1>8
<1>11. FieldAt(m, 2) = 1
    <2>1. 1 \in 1 .. Len(W) /\ 1 + 1 = 2
        BY <1>1
    <2>2. FieldAt(m, 1 + 1) = FieldAt(m, 1) + W[1].len
        BY <2>1, <1>10
    <2> QED
        BY <2>1, <2>2, <1>2, <1>10
<1>12. LengthOf(m) = FieldAt(m, Len(W) + 1)
    BY DEF LengthOf, W
<1>13. LengthOf(m) \in Nat \ {0}
    <2>1. 2 \in 1 .. Len(W) + 1 /\ Len(W) + 1 \in 1 .. Len(W) + 1 /\ 2 <= Len(W) + 1
        BY <1>1
    <2>2. FieldAt(m, 2) <= FieldAt(m, Len(W) + 1)
        BY <2>1, <1>10
    <2>3. FieldAt(m, Len(W) + 1) \in Nat
        BY <2>1, <1>9
    <2> QED
        BY <2>2, <2>3, <1>11, <1>12
<1>14. \A f \in 1 .. Len(W) : f \in 1 .. Len(W) + 1
    BY <1>1
<1> QED
    BY <1>1, <1>2, <1>9, <1>10, <1>11, <1>12, <1>13, <1>14 DEF W

\* So do the messages of a script, none of which is empty.
LEMMA MessagesFollow ==
    ASSUME script \in Scripts
    PROVE  /\ script \in Seq(Message) /\ Len(script) \in Nat
           /\ StartOf(1) = 0 /\ Total = StartOf(Len(script) + 1) /\ Total \in Nat
           /\ \A k \in 1 .. Len(script) :
                /\ StartOf(k + 1) = StartOf(k) + LengthOf(script[k])
                /\ script[k] \in Message /\ LengthOf(script[k]) \in Nat \ {0}
           /\ \A j, k \in 1 .. Len(script) + 1 :
                /\ StartOf(j) \in Nat
                /\ j <= k => StartOf(j) <= StartOf(k)
                /\ j < k => StartOf(j + 1) <= StartOf(k)
                /\ j < k => StartOf(j) < StartOf(k)
<1> DEFINE L == [j \in DOMAIN script |-> LengthOf(script[j])]
<1>1. script \in Seq(Message) /\ Len(script) \in Nat /\ DOMAIN script = 1 .. Len(script)
      /\ \A k \in 1 .. Len(script) : script[k] \in Message
    BY FramingAssumption
<1>2. \A k \in 1 .. Len(script) : LengthOf(script[k]) \in Nat \ {0}
    BY <1>1, FieldsFollow
<1>3. L \in Seq(Nat) /\ Len(L) = Len(script)
      /\ \A k \in 1 .. Len(script) : L[k] = LengthOf(script[k])
    BY <1>1, <1>2
<1>4. \A k : StartOf(k) = Offsets(L)[k]
    BY DEF StartOf, Beginnings
<1> HIDE DEF L
<1>5. /\ Offsets(L) \in [1 .. Len(script) + 1 -> Nat]
      /\ Offsets(L)[1] = 0
      /\ \A k \in 1 .. Len(script) : Offsets(L)[k + 1] = Offsets(L)[k] + L[k]
    BY <1>3, OffsetsUnfold
<1>6. \A j, k \in 1 .. Len(script) + 1 : j <= k => Offsets(L)[j] <= Offsets(L)[k]
    BY <1>3, OffsetsGrow
<1>7. \A k \in 1 .. Len(script) + 1 : StartOf(k) \in Nat
    BY <1>4, <1>5
<1>8. \A k \in 1 .. Len(script) : StartOf(k + 1) = StartOf(k) + LengthOf(script[k])
    BY <1>3, <1>4, <1>5
<1>9. \A j, k \in 1 .. Len(script) + 1 : j <= k => StartOf(j) <= StartOf(k)
    BY <1>4, <1>6
<1>10. ASSUME NEW j \in 1 .. Len(script) + 1, NEW k \in 1 .. Len(script) + 1, j < k
       PROVE  StartOf(j + 1) <= StartOf(k) /\ StartOf(j) < StartOf(k)
    <2>1. j \in 1 .. Len(script) /\ j + 1 \in 1 .. Len(script) + 1 /\ j + 1 <= k
        BY <1>1, <1>10
    <2>2. StartOf(j + 1) <= StartOf(k)
        BY <2>1, <1>9
    <2>3. StartOf(j + 1) = StartOf(j) + LengthOf(script[j]) /\ LengthOf(script[j]) \in Nat \ {0}
        BY <2>1, <1>8, <1>2
    <2>4. StartOf(j) \in Nat /\ StartOf(k) \in Nat
        BY <1>7
    <2> QED
        BY <2>2, <2>3, <2>4
<1>11. StartOf(1) = 0
    BY <1>4, <1>5
<1>12. Total = StartOf(Len(script) + 1) /\ Total \in Nat
    <2>1. Len(script) + 1 \in 1 .. Len(script) + 1
        BY <1>1
    <2> QED
        BY <2>1, <1>7 DEF Total
<1> QED
    BY <1>1, <1>2, <1>7, <1>8, <1>9, <1>10, <1>11, <1>12

\* The message found where one begins is that one.
LEMMA MessageIsFound ==
    ASSUME script \in Scripts, NEW k \in 1 .. Len(script)
    PROVE  MessageAt(StartOf(k)) = script[k]
<1>1. DOMAIN script = 1 .. Len(script) /\ Len(script) \in Nat
    BY MessagesFollow
<1>2. \A j \in 1 .. Len(script) : StartOf(j) = StartOf(k) => j = k
    <2> SUFFICES ASSUME NEW j \in 1 .. Len(script), StartOf(j) = StartOf(k), j # k
                 PROVE  FALSE
        OBVIOUS
    <2>1. j \in 1 .. Len(script) + 1 /\ k \in 1 .. Len(script) + 1 /\ (j < k \/ k < j)
        BY <1>1
    <2>2. StartOf(j) \in Nat /\ StartOf(k) \in Nat
        BY <2>1, MessagesFollow
    <2>3. StartOf(j) < StartOf(k) \/ StartOf(k) < StartOf(j)
        BY <2>1, MessagesFollow
    <2> QED
        BY <2>2, <2>3
<1>3. (CHOOSE j \in DOMAIN script : StartOf(j) = StartOf(k)) = k
    BY <1>1, <1>2
<1> QED
    BY <1>1, <1>3 DEF MessageAt

\* The two codes of a message: after its type byte, what one role reads is as
\* long as what the other writes, field by field, and no byte is left over.
Agrees(m, lengths) ==
    /\ Len(lengths) + 1 \in 1 .. Len(WriteFields(m))
    /\ \A i \in 1 .. Len(lengths) : lengths[i] = WriteFields(m)[i + 1].len
    /\ FieldAt(m, Len(lengths) + 2) = LengthOf(m)

LEMMA CodesAgree ==
    ASSUME NEW m \in Message, m.type = "ORIGIN_PAGE" => szPage = PageSize
    PROVE  Agrees(m, ReadLengths(m))
<1> DEFINE W == WriteFields(m)
<1>1. /\ \A f \in 1 .. Len(W) : FieldAt(m, f + 1) = FieldAt(m, f) + W[f].len /\ FieldAt(m, f) \in Nat
      /\ LengthOf(m) = FieldAt(m, Len(W) + 1)
    BY FieldsFollow
<1>2. /\ Byte.len = 1 /\ Text.len = 1 /\ Flush.len = 0 /\ Answer.len = 0
      /\ \A n : Bytes(n).len = n
    BY DEF Byte, Text, Flush, Answer, Bytes
<1>3. CASE m.type \in {"MSG", "ERROR"}
    <2>1. W = <<Text, Bytes(Word), Bytes(m.len), Flush>> /\ ReadLengths(m) = <<Word, m.len>>
        BY <1>3 DEF WriteFields, ReadLengths
    <2> HIDE DEF W
    <2>2. FieldAt(m, 4 + 1) = FieldAt(m, 4) + 0 /\ FieldAt(m, 4) \in Nat /\ LengthOf(m) = FieldAt(m, 4 + 1)
        BY <2>1, <1>1, <1>2
    <2> QED
        BY <2>1, <2>2, <1>2 DEF Agrees, W
<1>4. CASE m.type = "ORIGIN_BEGIN"
    <2>1. W = <<Byte, Byte, Byte, Bytes(Word), Flush, Answer>> /\ ReadLengths(m) = <<1, 1, Word>>
        BY <1>4 DEF WriteFields, ReadLengths
    <2> HIDE DEF W
    <2>2. /\ FieldAt(m, 5 + 1) = FieldAt(m, 5) + 0 /\ FieldAt(m, 5) \in Nat
          /\ FieldAt(m, 6 + 1) = FieldAt(m, 6) + 0 /\ FieldAt(m, 6) \in Nat
          /\ LengthOf(m) = FieldAt(m, 6 + 1)
        BY <2>1, <1>1, <1>2
    <2> QED
        BY <2>1, <2>2, <1>2 DEF Agrees, W
<1>5. CASE m.type = "REPLICA_BEGIN"
    <2>1. W = <<Byte, Byte, Flush, Answer>> /\ ReadLengths(m) = <<1>>
        BY <1>5 DEF WriteFields, ReadLengths
    <2> HIDE DEF W
    <2>2. /\ FieldAt(m, 3 + 1) = FieldAt(m, 3) + 0 /\ FieldAt(m, 3) \in Nat
          /\ FieldAt(m, 4 + 1) = FieldAt(m, 4) + 0 /\ FieldAt(m, 4) \in Nat
          /\ LengthOf(m) = FieldAt(m, 4 + 1)
        BY <2>1, <1>1, <1>2
    <2> QED
        BY <2>1, <2>2, <1>2 DEF Agrees, W
<1>6. CASE m.type \in {"REPLICA_CONFIG", "ORIGIN_DETAIL"}
    <2>1. W = <<Byte, Bytes(Word), Bytes(Word)>> /\ ReadLengths(m) = <<Word, Word>>
        BY <1>6 DEF WriteFields, ReadLengths
    <2> HIDE DEF W
    <2> QED
        BY <2>1, <1>1, <1>2 DEF Agrees, W
<1>7. CASE m.type = "REPLICA_HASH"
    <2>1. W = <<Byte, Bytes(HashLen)>> /\ ReadLengths(m) = <<HashLen>>
        BY <1>7 DEF WriteFields, ReadLengths
    <2> HIDE DEF W
    <2> QED
        BY <2>1, <1>1, <1>2 DEF Agrees, W
<1>8. CASE m.type = "ORIGIN_PAGE"
    <2>1. W = <<Byte, Bytes(Word), Bytes(PageSize)>> /\ ReadLengths(m) = <<Word, PageSize>>
        BY <1>8 DEF WriteFields, ReadLengths
    <2> HIDE DEF W
    <2> QED
        BY <2>1, <1>1, <1>2 DEF Agrees, W
<1>9. CASE m.type = "ORIGIN_TXN"
    <2>1. W = <<Byte, Bytes(Word)>> /\ ReadLengths(m) = <<Word>>
        BY <1>9 DEF WriteFields, ReadLengths
    <2> HIDE DEF W
    <2> QED
        BY <2>1, <1>1, <1>2 DEF Agrees, W
<1>10. CASE m.type = "READY"
    <2>1. W = <<Byte, Flush, Answer>> /\ ReadLengths(m) = <<>>
        BY <1>10 DEF WriteFields, ReadLengths, EndRound
    <2> HIDE DEF W
    <2>2. /\ FieldAt(m, 2 + 1) = FieldAt(m, 2) + 0 /\ FieldAt(m, 2) \in Nat
          /\ FieldAt(m, 3 + 1) = FieldAt(m, 3) + 0 /\ FieldAt(m, 3) \in Nat
          /\ LengthOf(m) = FieldAt(m, 3 + 1)
        BY <2>1, <1>1, <1>2
    <2> QED
        BY <2>1, <2>2, <1>2 DEF Agrees, W
<1>11. CASE m.type = "END"
    <2>1. W = <<Byte, Flush>> /\ ReadLengths(m) = <<>>
        BY <1>11 DEF WriteFields, ReadLengths
    <2> HIDE DEF W
    <2>2. /\ FieldAt(m, 2 + 1) = FieldAt(m, 2) + 0 /\ FieldAt(m, 2) \in Nat
          /\ LengthOf(m) = FieldAt(m, 2 + 1)
        BY <2>1, <1>1, <1>2
    <2> QED
        BY <2>1, <2>2, <1>2 DEF Agrees, W
<1> QED
    BY <1>3, <1>4, <1>5, <1>6, <1>7, <1>8, <1>9, <1>10, <1>11 DEF Message

-----------------------------------------------------------------------------
(* The ends of fields, and the type bytes of texts.                        *)

\* Where the f-th field of the k-th message begins.
FieldStart(k, f) == StartOf(k) + FieldAt(script[k], f)

Boundaries ==
    {b \in Nat : \/ \E k \in 1 .. Len(script) : \E f \in 1 .. Len(WriteFields(script[k])) :
                        b = FieldStart(k, f)
                 \/ b = Total}

\* No field begins inside of another.
LEMMA NoneInside ==
    ASSUME script \in Scripts, NEW k \in 1 .. Len(script),
           NEW f \in 1 .. Len(WriteFields(script[k])),
           NEW b \in Boundaries, b < FieldStart(k, f) + WriteFields(script[k])[f].len
    PROVE  b <= FieldStart(k, f)
<1> DEFINE len == WriteFields(script[k])[f].len
           at == FieldAt(script[k], f)
           next == FieldAt(script[k], f + 1)
           start == StartOf(k)
           after == StartOf(k + 1)
<1>1. script[k] \in Message
    BY MessagesFollow
<1>2. /\ f + 1 \in 1 .. Len(WriteFields(script[k])) + 1
      /\ f + 1 <= Len(WriteFields(script[k])) + 1
      /\ Len(WriteFields(script[k])) + 1 \in 1 .. Len(WriteFields(script[k])) + 1
    BY <1>1, FieldsFollow
<1>3. /\ at \in Nat /\ len \in Nat /\ next = at + len
      /\ next <= LengthOf(script[k])
    BY <1>1, <1>2, FieldsFollow
<1>4. /\ k \in 1 .. Len(script) + 1 /\ k + 1 \in 1 .. Len(script) + 1
      /\ Len(script) + 1 \in 1 .. Len(script) + 1
    BY MessagesFollow
<1>5. /\ start \in Nat /\ after = start + LengthOf(script[k])
      /\ LengthOf(script[k]) \in Nat /\ after \in Nat
    BY <1>4, MessagesFollow
<1>6. /\ FieldStart(k, f) = start + at
      /\ b < start + at + len /\ b \in Nat
    BY DEF FieldStart, Boundaries
<1> HIDE DEF len, at, next, start, after
<1>7. b < after /\ b < start + next
    BY <1>3, <1>5, <1>6
<1>8. b # Total
    <2>1. after <= StartOf(Len(script) + 1)
        BY <1>4, MessagesFollow DEF after
    <2>2. Total = StartOf(Len(script) + 1) /\ Total \in Nat
        BY MessagesFollow
    <2> QED
        BY <2>1, <2>2, <1>5, <1>7
<1>9. PICK j \in 1 .. Len(script) : \E g \in 1 .. Len(WriteFields(script[j])) : b = FieldStart(j, g)
    BY <1>8 DEF Boundaries
<1>10. PICK g \in 1 .. Len(WriteFields(script[j])) : b = FieldStart(j, g)
    BY <1>9
<1> DEFINE from == StartOf(j)
           to == StartOf(j + 1)
           here == FieldAt(script[j], g)
<1>11. b = from + here
    BY <1>10 DEF FieldStart
<1>12. script[j] \in Message /\ j \in 1 .. Len(script) + 1 /\ j + 1 \in 1 .. Len(script) + 1
    BY MessagesFollow
<1>17. from \in Nat /\ to = from + LengthOf(script[j]) /\ LengthOf(script[j]) \in Nat
    BY <1>12, MessagesFollow
<1>13. here \in Nat /\ here <= LengthOf(script[j])
    <2>1. g \in 1 .. Len(WriteFields(script[j])) + 1 /\ g <= Len(WriteFields(script[j])) + 1
          /\ Len(WriteFields(script[j])) + 1 \in 1 .. Len(WriteFields(script[j])) + 1
        OBVIOUS
    <2> QED
        BY <2>1, <1>12, FieldsFollow
<1>14. CASE j < k
    <2>1. to <= start
        BY <1>4, <1>12, <1>14, MessagesFollow DEF to, start
    <2> DEFINE whole == LengthOf(script[j])
    <2>2. /\ from \in Nat /\ here \in Nat /\ whole \in Nat
          /\ here <= whole /\ to = from + whole
        BY <1>13, <1>17
    <2> HIDE DEF from, to, here, whole
    <2>3. from + here <= start
        BY <2>1, <2>2, <1>5
    <2>4. start <= start + at
        BY <1>3, <1>5
    <2>5. from + here <= start + at
        BY <2>2, <2>3, <2>4, <1>3, <1>5
    <2> QED
        BY <2>5, <1>6, <1>11
<1>15. CASE j > k
    <2>1. after <= from
        BY <1>4, <1>12, <1>15, MessagesFollow DEF after, from
    <2>2. after \in Nat /\ from \in Nat /\ here \in Nat
        BY <1>5, <1>13, <1>17
    <2> HIDE DEF from, to, here
    <2>3. after <= from + here
        BY <2>1, <2>2
    <2>4. b < after /\ b = from + here
        BY <1>7, <1>11
    <2> QED
        BY <2>2, <2>3, <2>4
<1>16. CASE j = k
    <2>1. f \in 1 .. Len(WriteFields(script[k])) + 1 /\ g \in 1 .. Len(WriteFields(script[k])) + 1
        BY <1>10, <1>16
    <2>2. CASE g <= f
        <3>1. here <= at
            BY <2>1, <2>2, <1>1, <1>16, FieldsFollow DEF here, at
        <3>2. from = start
            BY <1>16 DEF from, start
        <3> HIDE DEF from, here
        <3> QED
            BY <3>1, <3>2, <1>3, <1>5, <1>6, <1>11, <1>13
    <2>3. CASE f + 1 <= g
        <3>1. next <= here
            BY <2>1, <2>3, <1>1, <1>2, <1>16, FieldsFollow DEF next, here
        <3>2. from = start
            BY <1>16 DEF from, start
        <3> HIDE DEF from, here
        <3> QED
            BY ONLY <3>1, <3>2, <1>3, <1>5, <1>7, <1>11, <1>13
    <2> QED
        BY <2>1, <2>2, <2>3
<1> QED
    BY <1>4, <1>12, <1>14, <1>15, <1>16

Texts(p) ==
    {k \in DOMAIN script : StartOf(k) < p /\ script[k].type \in {"MSG", "ERROR"}}

LEMMA StartsAreNumbers ==
    ASSUME script \in Scripts
    PROVE  \A k \in 1 .. Len(script) + 1 : StartOf(k) \in Nat
<1> TAKE k \in 1 .. Len(script) + 1
<1> QED
    BY MessagesFollow

LEMMA TextsFinite ==
    ASSUME script \in Scripts, NEW p
    PROVE  IsFiniteSet(Texts(p)) /\ TextsBefore(p) = Cardinality(Texts(p)) /\ TextsBefore(p) \in Nat
<1>1. IsFiniteSet(1 .. Len(script)) /\ DOMAIN script = 1 .. Len(script)
    BY MessagesFollow, FS_Interval
<1>2. Texts(p) \subseteq 1 .. Len(script)
    BY <1>1 DEF Texts
<1>3. IsFiniteSet(Texts(p))
    BY <1>1, <1>2, FS_Subset
<1>4. TextsBefore(p) = Cardinality(Texts(p))
    BY DEF TextsBefore, Texts
<1> QED
    BY <1>3, <1>4, FS_CardinalityType

\* Where no text begins, none is counted.
LEMMA NoTextBetween ==
    ASSUME script \in Scripts, NEW p \in Nat, NEW q \in Nat, p <= q,
           \A k \in 1 .. Len(script) :
              p <= StartOf(k) /\ StartOf(k) < q => script[k].type \notin {"MSG", "ERROR"}
    PROVE  TextsBefore(q) = TextsBefore(p)
<1>1. DOMAIN script = 1 .. Len(script)
    BY MessagesFollow
<1>2. \A k \in 1 .. Len(script) : StartOf(k) \in Nat
    BY MessagesFollow, StartsAreNumbers
<1>3. Texts(q) = Texts(p)
    BY <1>1, <1>2 DEF Texts
<1> QED
    BY <1>3, TextsFinite

\* Where one begins, one is.
LEMMA TextFrom ==
    ASSUME script \in Scripts, NEW k \in 1 .. Len(script), script[k].type \in {"MSG", "ERROR"}
    PROVE  TextsBefore(StartOf(k) + 1) = TextsBefore(StartOf(k)) + 1
<1>1. DOMAIN script = 1 .. Len(script) /\ Len(script) \in Nat
    BY MessagesFollow
<1>2. \A j \in 1 .. Len(script) : StartOf(j) \in Nat
    BY <1>1, StartsAreNumbers
<1>3. \A j \in 1 .. Len(script) : StartOf(j) = StartOf(k) => j = k
    <2> SUFFICES ASSUME NEW j \in 1 .. Len(script), StartOf(j) = StartOf(k), j # k
                 PROVE  FALSE
        OBVIOUS
    <2>1. j \in 1 .. Len(script) + 1 /\ k \in 1 .. Len(script) + 1 /\ (j < k \/ k < j)
        BY <1>1
    <2>2. StartOf(j) < StartOf(k) \/ StartOf(k) < StartOf(j)
        BY <2>1, MessagesFollow
    <2> QED
        BY <2>2, <1>2
<1>4. Texts(StartOf(k) + 1) = Texts(StartOf(k)) \union {k}
    BY <1>1, <1>2, <1>3 DEF Texts
<1>5. k \notin Texts(StartOf(k))
    BY <1>2 DEF Texts
<1>6. Cardinality(Texts(StartOf(k)) \union {k}) = Cardinality(Texts(StartOf(k))) + 1
    BY <1>5, TextsFinite, FS_AddElement
<1> QED
    BY <1>4, <1>6, TextsFinite

LEMMA TextsByOne ==
    ASSUME script \in Scripts, NEW p \in Nat
    PROVE  TextsBefore(p + 1) \in TextsBefore(p) .. TextsBefore(p) + 1
<1>1. TextsBefore(p) \in Nat
    BY TextsFinite
<1>2. CASE \E k \in 1 .. Len(script) : StartOf(k) = p /\ script[k].type \in {"MSG", "ERROR"}
    BY <1>1, <1>2, TextFrom
<1>3. CASE ~ \E k \in 1 .. Len(script) : StartOf(k) = p /\ script[k].type \in {"MSG", "ERROR"}
    <2>1. \A k \in 1 .. Len(script) : StartOf(k) \in Nat
        BY MessagesFollow, StartsAreNumbers
    <2>2. p + 1 \in Nat /\ p <= p + 1
          /\ \A k \in 1 .. Len(script) : p <= StartOf(k) /\ StartOf(k) < p + 1 => StartOf(k) = p
        BY <2>1
    <2>3. TextsBefore(p + 1) = TextsBefore(p)
        <3>1. \A k \in 1 .. Len(script) :
                 p <= StartOf(k) /\ StartOf(k) < p + 1 => script[k].type \notin {"MSG", "ERROR"}
            BY <1>3, <2>2
        <3> QED
            BY ONLY <2>2, <3>1, NoTextBetween, script \in Scripts, p \in Nat
    <2> QED
        BY <1>1, <2>3
<1> QED
    BY <1>2, <1>3

\* No more texts are counted than bytes.
LEMMA TextsGrow ==
    ASSUME script \in Scripts, NEW p \in Nat, NEW q \in Nat, p <= q
    PROVE  /\ TextsBefore(p) \in Nat /\ TextsBefore(q) \in Nat
           /\ TextsBefore(p) <= TextsBefore(q)
           /\ TextsBefore(q) + p <= TextsBefore(p) + q
<1> DEFINE n == q - p
           C == {d \in 0 .. n : TextsBefore(p + d) \in TextsBefore(p) .. TextsBefore(p) + d}
<1>1. n \in Nat /\ \A r : TextsBefore(r) \in Nat
    BY TextsFinite
<1>2. 0 \in C
    BY <1>1
<1>3. ASSUME NEW d \in 0 .. n, d # n, d \in C
      PROVE  d + 1 \in C
    <2>1. p + d \in Nat /\ p + (d + 1) = (p + d) + 1 /\ d + 1 \in 0 .. n
        BY <1>3, <1>1
    <2>2. TextsBefore((p + d) + 1) \in TextsBefore(p + d) .. TextsBefore(p + d) + 1
        BY <2>1, TextsByOne
    <2>3. TextsBefore(p + d) \in TextsBefore(p) .. TextsBefore(p) + d
        BY <1>3
    <2>4. TextsBefore(p + (d + 1)) \in TextsBefore(p) .. TextsBefore(p) + (d + 1)
        BY <2>1, <2>2, <2>3, <1>1
    <2> QED
        BY <2>1, <2>4
<1>4. \A d \in 0 .. n : d \in C
    <2> HIDE DEF C, n
    <2> QED
        BY <1>1, <1>2, <1>3, InductionTo
<1>5. n \in 0 .. n /\ p + n = q
    OBVIOUS
<1>6. TextsBefore(q) \in TextsBefore(p) .. TextsBefore(p) + n
    <2>1. n \in C
        BY <1>4, <1>5
    <2>2. TextsBefore(p + n) \in TextsBefore(p) .. TextsBefore(p) + n
        BY <2>1
    <2> QED
        BY <2>2, <1>5
<1> QED
    BY <1>1, <1>6

-----------------------------------------------------------------------------
(* Both ends of the stream.                                                *)

\* The writer is in a field of the script, whose first bytes it has put.
WriterAt ==
    /\ script \in Scripts /\ msg \in 1 .. Len(script) + 1
    /\ msg <= Len(script) =>
         /\ fld \in 1 .. Len(WriteFields(script[msg]))
         /\ left <= Field.len /\ put + left = FieldStart(msg, fld) + Field.len
    /\ msg = Len(script) + 1 => put = Total /\ sent = goal

\* What it has put before that field.
Before == IF msg <= Len(script) THEN FieldStart(msg, fld) ELSE Total

AtMessage(k) == reading = "none" /\ rest = <<1>> /\ part = 0 /\ taken = StartOf(k)

\* The reader is in the f-th field of the k-th message; the fields it has
\* still to read are the rest of those written.
InMessage(k, f) ==
    /\ k \in 1 .. Len(script) /\ reading = script[k].type
    /\ f \in 2 .. Len(WriteFields(script[k])) /\ Len(rest) > 0
    /\ \A i \in 1 .. Len(rest) :
         /\ f + i - 1 <= Len(WriteFields(script[k]))
         /\ rest[i] = WriteFields(script[k])[f + i - 1].len
    /\ FieldAt(script[k], f + Len(rest)) = LengthOf(script[k])
    /\ taken = FieldStart(k, f) + part
    /\ part = 0 \/ part < rest[1]
    /\ reading = "ORIGIN_BEGIN" /\ Len(rest) = 1 => szPage = PageSize

\* The reader knows the page size from the first ORIGIN_BEGIN on.
Told(k) ==
    (\E j \in 1 .. k - 1 : script[j].type = "ORIGIN_BEGIN") => szPage = PageSize

ReaderAt ==
    \E k \in 1 .. Len(script) + 1 :
        /\ Told(k)
        /\ AtMessage(k) \/ \E f \in Nat : InMessage(k, f)

Capacity ==
    /\ room \in Nat /\ sent <= got + room
    /\ got + ask <= taken + Wanted \/ got + ask <= taken + Buf

\* How the runs end.
Ended ==
    /\ status \in [Ends -> {"running", "nil", "error", "cancelled", "killed", "hung"}]
    /\ \A e \in Ends \cap closed : status[e] # "running"
    /\ status["writer"] = "nil" => msg = Len(script) + 1
    /\ status["reader"] = "nil" =>
         /\ reading = "none"
         /\ \/ "writer" \in closed /\ taken = sent
            \/ \E k \in 1 .. Len(script) : script[k].type = "END" /\ taken = StartOf(k + 1)

\* The reader has counted the fields it has read; the writer those it has put,
\* the type bytes of texts apart, and once it has failed no less than can be
\* read in full.
Tally ==
    /\ counted \in [Ends -> Nat]
    /\ counted["reader"] + part = taken
    /\ status["writer"] \in {"running", "nil"} =>
         counted["writer"] + TextsBefore(Before) = Before
    /\ Returned("writer") =>
         \A b \in Boundaries : b <= sent => b <= counted["writer"] + TextsBefore(b)

Framed == WriterAt /\ ReaderAt /\ Capacity /\ Ended /\ Tally

\* What these say depends on the script alone.
LEMMA SameScript ==
    ASSUME script' = script
    PROVE  /\ \A k : StartOf(k)' = StartOf(k)
           /\ \A k, f : FieldStart(k, f)' = FieldStart(k, f)
           /\ Total' = Total /\ Boundaries' = Boundaries
           /\ \A p : TextsBefore(p)' = TextsBefore(p)
<1>1. \A k : StartOf(k)' = StartOf(k)
    BY DEF StartOf
<1>2. \A k, f : FieldStart(k, f)' = FieldStart(k, f)
    BY <1>1 DEF FieldStart
<1>3. Total' = Total
    BY DEF Total, StartOf
<1>4. Boundaries' = Boundaries
    BY <1>2, <1>3 DEF Boundaries
<1>5. \A p : TextsBefore(p)' = TextsBefore(p)
    BY DEF TextsBefore, StartOf
<1> QED
    BY <1>1, <1>2, <1>3, <1>4, <1>5

\* The field of a message, its place, and what comes after it.
LEMMA FieldPlaced ==
    ASSUME script \in Scripts, NEW k \in 1 .. Len(script),
           NEW f \in 1 .. Len(WriteFields(script[k]))
    PROVE  /\ FieldStart(k, f) \in Nat /\ WriteFields(script[k])[f].len \in Nat
           /\ FieldStart(k, f + 1) = FieldStart(k, f) + WriteFields(script[k])[f].len
           /\ FieldStart(k, f + 1) <= StartOf(k + 1)
           /\ StartOf(k + 1) <= Total
           /\ StartOf(k) \in Nat /\ StartOf(k) <= FieldStart(k, f)
           /\ FieldStart(k, f) <= Total
           /\ FieldStart(k, f) \in Boundaries
           /\ f = Len(WriteFields(script[k])) => FieldStart(k, f + 1) = StartOf(k + 1)
           /\ f # 1 => StartOf(k) < FieldStart(k, f)
           /\ StartOf(k + 1) \in Nat
<1> DEFINE n == Len(WriteFields(script[k]))
           m == script[k]
           here == FieldAt(m, f)
           next == FieldAt(m, f + 1)
           len == WriteFields(m)[f].len
           start == StartOf(k)
           after == StartOf(k + 1)
           all == LengthOf(m)
<1>1. m \in Message /\ Len(script) \in Nat
    BY MessagesFollow
<1>2. n \in Nat \ {0}
    BY <1>1, FieldsFollow
<1>3. /\ f + 1 \in 1 .. n + 1 /\ f + 1 <= n + 1 /\ n + 1 \in 1 .. n + 1
      /\ f # 1 => 2 \in 1 .. n + 1 /\ 2 <= f /\ f \in 1 .. n + 1
    BY <1>2
<1>4. here \in Nat /\ len \in Nat /\ next = here + len /\ FieldAt(m, 2) = 1
    BY <1>1, FieldsFollow
<1>5. all \in Nat /\ all = FieldAt(m, n + 1) /\ next <= all
    BY <1>1, <1>3, FieldsFollow
<1>6. f # 1 => 1 <= here
    <2> SUFFICES ASSUME f # 1 PROVE 1 <= here
        OBVIOUS
    <2>1. FieldAt(m, 2) <= FieldAt(m, f)
        BY <1>1, <1>3, FieldsFollow
    <2> QED
        BY <2>1, <1>4
<1>7. /\ k \in 1 .. Len(script) + 1 /\ k + 1 \in 1 .. Len(script) + 1
      /\ k + 1 <= Len(script) + 1 /\ Len(script) + 1 \in 1 .. Len(script) + 1
    BY <1>1
<1>8. start \in Nat /\ after \in Nat /\ after = start + all
    BY <1>7, MessagesFollow, StartsAreNumbers
<1>9. after <= Total /\ Total \in Nat
    BY <1>7, MessagesFollow
<1>10. FieldStart(k, f) = start + here /\ FieldStart(k, f + 1) = start + next
    BY DEF FieldStart
<1>11. FieldStart(k, f) \in Nat
    BY <1>4, <1>8, <1>10
<1>12. FieldStart(k, f) \in Boundaries
    BY <1>11 DEF Boundaries
<1>13. f = n => next = all
    BY <1>5
<1> HIDE DEF here, next, len, start, after, all
<1>14. /\ start + next = (start + here) + len /\ start + next <= after
       /\ start <= start + here /\ start + here <= Total
       /\ f = n => start + next = after
       /\ f # 1 => start < start + here
    BY <1>4, <1>5, <1>6, <1>8, <1>9, <1>13
<1> QED
    BY <1>8, <1>9, <1>10, <1>11, <1>12, <1>14, <1>4 DEF len, start, after

LEMMA WriterPlaced ==
    ASSUME WriterTypes, WriterAt
    PROVE  /\ Before \in Nat /\ Before <= put /\ put <= Total /\ Total \in Nat
           /\ Len(script) \in Nat
           /\ msg <= Len(script) =>
                /\ Field.len \in Nat /\ Field = WriteFields(script[msg])[fld]
                /\ Before = FieldStart(msg, fld) /\ put + left = Before + Field.len
<1>1. Total \in Nat /\ Len(script) \in Nat
    BY MessagesFollow DEF WriterAt
<1>2. CASE msg <= Len(script)
    <2> DEFINE at == FieldStart(msg, fld)
               next == FieldStart(msg, fld + 1)
               len == WriteFields(script[msg])[fld].len
               after == StartOf(msg + 1)
    <2>1. msg \in 1 .. Len(script) /\ fld \in 1 .. Len(WriteFields(script[msg])) /\ script \in Scripts
        BY <1>1, <1>2 DEF WriterAt
    <2>2. /\ at \in Nat /\ len \in Nat /\ next = at + len
          /\ next <= after /\ after <= Total /\ after \in Nat
        BY <2>1, FieldPlaced
    <2>3. left <= len /\ put + left = at + len
        BY <1>2 DEF WriterAt, Field
    <2>4. put \in Nat /\ left \in Nat
        BY DEF WriterTypes
    <2>5. Before = at
        BY <1>2 DEF Before
    <2> HIDE DEF at, next, len, after
    <2>6. at <= put /\ put <= Total
        BY <2>2, <2>3, <2>4, <1>1
    <2> QED
        BY <2>2, <2>3, <2>5, <2>6, <1>1 DEF at, len, Field
<1>3. CASE ~(msg <= Len(script))
    BY <1>1, <1>3 DEF WriterAt, Before
<1> QED
    BY <1>2, <1>3

\* Going on with the next field: it begins where this one ends.
LEMMA AdvancePlaced ==
    ASSUME WriterTypes, WriterAt, msg <= Len(script), Advance, script' = script,
           put' = Before + Field.len, sent' = goal'
    PROVE  WriterAt' /\ Before' = Before + Field.len
<1>1. /\ msg \in 1 .. Len(script) /\ fld \in 1 .. Len(WriteFields(script[msg]))
      /\ script \in Scripts /\ Len(script) \in Nat
    BY MessagesFollow DEF WriterAt
<1> DEFINE n == Len(WriteFields(script[msg]))
           end == Before + Field.len
<1>2. /\ FieldStart(msg, fld + 1) = end
      /\ fld = n => StartOf(msg + 1) = end
      /\ end \in Nat
    <2>1. Before = FieldStart(msg, fld) /\ Field = WriteFields(script[msg])[fld]
        BY DEF Before, Field
    <2> QED
        BY <1>1, <2>1, FieldPlaced
<1>3. n \in Nat \ {0} /\ script[msg] \in Message
    BY <1>1, MessagesFollow, FieldsFollow
<1>4. CASE fld < n
    <2>1. msg' = msg /\ fld' = fld + 1 /\ left' = WriteFields(script[msg])[fld + 1].len
        BY <1>4 DEF Advance
    <2>2. fld + 1 \in 1 .. n
        BY <1>1, <1>3, <1>4
    <2>3. FieldStart(msg, fld)' = Beginnings[script][msg] + FieldAt(script[msg], fld + 1)
        BY <2>1 DEF FieldStart, StartOf
    <2>4. FieldStart(msg, fld)' = end
        BY <2>3, <1>2 DEF FieldStart, StartOf
    <2>5. Before' = end
        <3>1. msg' <= Len(script')
            BY <2>1, <1>1
        <3> QED
            BY <3>1, <2>4 DEF Before
    <2>6. Field.len' = left'
        BY <2>1 DEF Field
    <2>7. left' \in Nat
        BY <2>1, <2>2, <1>3, FieldsFollow
    <2> HIDE DEF end
    <2>8. WriterAt'
        <3>1. script' \in Scripts /\ msg' \in 1 .. Len(script') + 1
              /\ msg' <= Len(script') /\ msg' # Len(script') + 1
            BY <2>1, <1>1
        <3>2. fld' \in 1 .. Len(WriteFields(script'[msg']))
            BY <2>1, <2>2
        <3>3. put' + left' = end + Field.len' /\ left' <= Field.len'
            BY <2>6, <2>7 DEF end
        <3>4. FieldStart(msg, fld)' = end
            BY <2>4
        <3> QED
            BY <3>1, <3>2, <3>3, <3>4 DEF WriterAt
    <2> QED
        BY <2>5, <2>8 DEF end
<1>5. CASE ~(fld < n)
    <2>1. msg' = msg + 1 /\ fld' = 1 /\ left' = 1
        BY <1>5 DEF Advance
    <2>2. fld = n
        BY <1>1, <1>3, <1>5
    <2>3. StartOf(msg + 1) = end
        BY <2>2, <1>2
    <2>4. CASE msg = Len(script)
        <3>1. Total = end
            BY <2>3, <2>4 DEF Total
        <3>2. Total' = Total
            BY SameScript
        <3>3. ~(msg' <= Len(script')) /\ msg' = Len(script') + 1
            BY <2>1, <2>4, <1>1
        <3>4. Before' = end
            BY <3>1, <3>2, <3>3 DEF Before
        <3>5. WriterAt'
            BY <3>1, <3>2, <3>3, <1>1 DEF WriterAt
        <3> QED
            BY <3>4, <3>5
    <2>5. CASE msg # Len(script)
        <3>1. msg + 1 \in 1 .. Len(script) /\ msg + 1 <= Len(script) /\ msg + 1 # Len(script) + 1
            BY <2>5, <1>1
        <3>2. script[msg + 1] \in Message
            BY <3>1, <1>1, MessagesFollow
        <3>3. /\ Len(WriteFields(script[msg + 1])) \in Nat \ {0}
              /\ FieldAt(script[msg + 1], 1) = 0
              /\ WriteFields(script[msg + 1])[1].len = 1
            BY <3>2, FieldsFollow
        <3>4. FieldStart(msg + 1, 1) = end
            BY <3>3, <2>3, <1>2 DEF FieldStart
        <3>12. FieldStart(msg, fld)' = Beginnings[script][msg + 1] + FieldAt(script[msg + 1], 1)
            BY <2>1 DEF FieldStart, StartOf
        <3>5. FieldStart(msg, fld)' = end
            BY <3>4, <3>12 DEF FieldStart, StartOf
        <3>6. Before' = end
            BY <3>1, <3>5, <2>1 DEF Before
        <3>7. Field.len' = 1
            BY <2>1, <3>3 DEF Field
        <3>8. fld' \in 1 .. Len(WriteFields(script'[msg']))
            BY <2>1, <3>3
        <3>9. left' <= Field.len' /\ put' + left' = FieldStart(msg, fld)' + Field.len'
            BY <3>5, <3>7, <2>1, <1>2
        <3>10. script' \in Scripts /\ msg' \in 1 .. Len(script') + 1
              /\ msg' <= Len(script') /\ msg' # Len(script') + 1
            BY <2>1, <1>1, <3>1
        <3>11. WriterAt'
            BY <3>8, <3>9, <3>10 DEF WriterAt
        <3> QED
            BY <3>6, <3>11
    <2> QED
        BY <2>4, <2>5
<1> QED
    BY <1>4, <1>5

\* The one byte a writer does not count is the type of a text, and flushing
\* and waiting write none.
LEMMA Uncounted ==
    ASSUME NEW m \in Message, NEW f \in 1 .. Len(WriteFields(m))
    PROVE  LET field == WriteFields(m)[f]
           IN  /\ field.via = "uncounted" <=> f = 1 /\ m.type \in {"MSG", "ERROR"}
               /\ field.via = "uncounted" => field.len = 1
               /\ field.via \in {"Flush", "answer"} => field.len = 0
<1> DEFINE W == WriteFields(m)
           Right(F) ==
               /\ F[f].via = "uncounted" <=> f = 1 /\ m.type \in {"MSG", "ERROR"}
               /\ F[f].via = "uncounted" => F[f].len = 1
               /\ F[f].via \in {"Flush", "answer"} => F[f].len = 0
<1>1. /\ Byte = [len |-> 1, via |-> "WriteByte"]
      /\ Text = [len |-> 1, via |-> "uncounted"]
      /\ Flush = [len |-> 0, via |-> "Flush"]
      /\ Answer = [len |-> 0, via |-> "answer"]
      /\ \A n : Bytes(n).via = "WriteBytes"
    BY DEF Byte, Text, Flush, Answer, Bytes
<1>2. CASE m.type \in {"MSG", "ERROR"}
    <2>1. W = <<Text, Bytes(Word), Bytes(m.len), Flush>>
        BY <1>2 DEF WriteFields
    <2>2. f \in 1 .. 4
        BY <2>1
    <2> HIDE DEF W
    <2> QED
        BY <2>1, <2>2, <1>1, <1>2 DEF W
<1>3. CASE m.type \notin {"MSG", "ERROR"}
    <2>1. \/ W = <<Byte, Byte, Byte, Bytes(Word), Flush, Answer>>
          \/ W = <<Byte, Byte, Flush, Answer>>
          \/ W = <<Byte, Bytes(Word), Bytes(Word)>>
          \/ W = <<Byte, Bytes(HashLen)>>
          \/ W = <<Byte, Flush, Answer>>
          \/ W = <<Byte, Bytes(Word), Bytes(PageSize)>>
          \/ W = <<Byte, Bytes(Word)>>
          \/ W = <<Byte, Flush>>
        BY <1>3 DEF WriteFields, Message, EndRound
    <2> HIDE DEF W
    <2>2. Len(W) \in 1 .. 6
        BY <2>1
    <2>3. f \in 1 .. Len(W)
        BY DEF W
    <2>4. f \in 1 .. 6
        <3>1. \A n \in 1 .. 6 : \A i \in 1 .. n : i \in 1 .. 6
            OBVIOUS
        <3> QED
            BY ONLY <2>2, <2>3, <3>1
    <2>5. W[f].via # "uncounted" /\ (W[f].via \in {"Flush", "answer"} => W[f].len = 0)
        BY <2>1, <2>3, <2>4, <1>1
    <2> QED
        BY <2>5, <1>3 DEF W
<1> QED
    BY <1>2, <1>3

\* A text is counted with its first field.
LEMMA TextsOfField ==
    ASSUME script \in Scripts, NEW k \in 1 .. Len(script),
           NEW f \in 1 .. Len(WriteFields(script[k]))
    PROVE  LET field == WriteFields(script[k])[f]
           IN  TextsBefore(FieldStart(k, f) + field.len) =
                   TextsBefore(FieldStart(k, f)) + (IF field.via = "uncounted" THEN 1 ELSE 0)
<1> DEFINE field == WriteFields(script[k])[f]
           at == FieldStart(k, f)
           len == field.len
           start == StartOf(k)
           after == StartOf(k + 1)
<1>1. script[k] \in Message /\ Len(script) \in Nat
    BY MessagesFollow
<1>2. /\ at \in Nat /\ len \in Nat /\ start \in Nat /\ after \in Nat
      /\ FieldStart(k, f + 1) = at + len /\ FieldStart(k, f + 1) <= after
      /\ start <= at /\ (f # 1 => start < at)
    BY FieldPlaced
<1>3. TextsBefore(at) \in Nat
    BY TextsFinite
<1>4. CASE field.via = "uncounted"
    <2>1. f = 1 /\ script[k].type \in {"MSG", "ERROR"} /\ len = 1
        BY <1>1, <1>4, Uncounted
    <2>2. at = start
        <3>1. FieldAt(script[k], 1) = 0
            BY <1>1, FieldsFollow
        <3> QED
            BY <2>1, <3>1, <1>2 DEF FieldStart
    <2>3. TextsBefore(start + 1) = TextsBefore(start) + 1
        BY <2>1, TextFrom
    <2> HIDE DEF at, len, start, field
    <2>4. TextsBefore(at + len) = TextsBefore(at) + 1
        BY <2>1, <2>2, <2>3
    <2> QED
        BY <2>4, <1>4 DEF at, len, field
<1>5. CASE field.via # "uncounted"
    <2>1. ~(f = 1 /\ script[k].type \in {"MSG", "ERROR"})
        BY <1>1, <1>5, Uncounted
    <2>2. ASSUME NEW j \in 1 .. Len(script), at <= StartOf(j), StartOf(j) < at + len
          PROVE  script[j].type \notin {"MSG", "ERROR"}
        <3> DEFINE from == StartOf(j)
        <3>1. from \in Nat /\ j \in 1 .. Len(script) + 1 /\ k \in 1 .. Len(script) + 1
            BY <1>1, StartsAreNumbers
        <3>2. ASSUME j < k PROVE FALSE
            <4>1. from < start
                BY <3>1, <3>2, MessagesFollow
            <4> HIDE DEF from, at, len, start
            <4>2. at <= from
                BY <2>2 DEF from, at
            <4> QED
                BY <4>1, <4>2, <3>1, <1>2
        <3>3. ASSUME k < j PROVE FALSE
            <4>1. after <= from
                BY <3>1, <3>3, MessagesFollow
            <4>2. from < at + len
                BY <2>2
            <4>3. at + len <= after
                BY <1>2
            <4> HIDE DEF from, at, len, after
            <4> QED
                BY <4>1, <4>2, <4>3, <3>1, <1>2
        <3>4. ASSUME j = k, f # 1 PROVE FALSE
            <4>1. start < at /\ at <= start
                BY <3>4, <2>2, <1>2
            <4> HIDE DEF at, start
            <4> QED
                BY <4>1, <1>2
        <3> QED
            BY <3>1, <3>2, <3>3, <3>4, <2>1
    <2> HIDE DEF at, len
    <2>3. at + len \in Nat /\ at <= at + len
        BY <1>2
    <2>4. TextsBefore(at + len) = TextsBefore(at)
        BY <1>2, <2>2, <2>3, NoTextBetween
    <2> QED
        BY <2>4, <1>3, <1>5 DEF at, len
<1> QED
    BY <1>4, <1>5

\* A writer that stops has counted no less than can be read in full.
LEMMA StoppedCounts ==
    ASSUME WriterTypes, WriterAt, (msg <= Len(script) /\ sent < Before + Field.len) \/ put = Before,
           sent <= put,
           NEW c \in Nat, Before <= c + TextsBefore(Before)
    PROVE  \A b \in Boundaries : b <= sent => b <= c + TextsBefore(b)
<1> SUFFICES ASSUME NEW b \in Boundaries, b <= sent
             PROVE  b <= c + TextsBefore(b)
    OBVIOUS
<1>1. /\ Before \in Nat /\ Before <= put /\ put <= Total /\ Total \in Nat
      /\ put \in Nat /\ sent \in Nat /\ left \in Nat
    BY WriterPlaced DEF WriterTypes
<1>2. b \in Nat
    BY <1>1 DEF Boundaries
<1>3. b <= Before
    <2>1. CASE msg <= Len(script) /\ sent < Before + Field.len
        <3>1. /\ Before = FieldStart(msg, fld)
              /\ Field = WriteFields(script[msg])[fld] /\ Field.len \in Nat
              /\ msg \in 1 .. Len(script) /\ fld \in 1 .. Len(WriteFields(script[msg]))
              /\ script \in Scripts
            BY <2>1, WriterPlaced DEF WriterAt
        <3>2. b < FieldStart(msg, fld) + WriteFields(script[msg])[fld].len
            <4>1. b < Before + Field.len
                BY <3>1, <2>1, <1>1, <1>2
            <4> QED
                BY <4>1, <3>1
        <3> QED
            BY <3>1, <3>2, NoneInside
    <2>2. CASE put = Before
        BY <2>2, <1>1, <1>2
    <2> QED
        BY <2>1, <2>2
<1>4. /\ TextsBefore(b) \in Nat /\ TextsBefore(Before) \in Nat
      /\ TextsBefore(Before) + b <= TextsBefore(b) + Before
    BY <1>1, <1>2, <1>3, TextsGrow DEF WriterAt
<1> QED
    BY <1>1, <1>2, <1>4

-----------------------------------------------------------------------------
(* The steps of the writer.                                                *)

LEMMA ReaderStays ==
    ASSUME ReaderAt, UNCHANGED <<parsing, script>>
    PROVE  ReaderAt'
<1>1. UNCHANGED <<taken, reading, rest, part, szPage, script>>
    BY DEF parsing
<1>2. /\ \A k : StartOf(k)' = StartOf(k)
      /\ \A k, f : FieldStart(k, f)' = FieldStart(k, f)
    BY <1>1, SameScript
<1>3. \A k : Told(k) => Told(k)'
    BY <1>1 DEF Told
<1>4. \A k : AtMessage(k) => AtMessage(k)'
    BY <1>1, <1>2 DEF AtMessage
<1>5. \A k, f : InMessage(k, f) => InMessage(k, f)'
    BY <1>1, <1>2 DEF InMessage
<1> QED
    BY <1>1, <1>3, <1>4, <1>5 DEF ReaderAt

\* A side ends once, and what has been read stays read.
LEMMA EndedStays ==
    ASSUME Ended, UNCHANGED <<script, taken, reading>>,
           closed \subseteq closed', sent' = sent \/ "writer" \notin closed,
           status["reader"] = "nil" => status'["reader"] = "nil"
    PROVE  status["reader"] = "nil" =>
             /\ reading' = "none"
             /\ \/ "writer" \in closed' /\ taken' = sent'
                \/ \E k \in 1 .. Len(script') : script'[k].type = "END" /\ taken' = StartOf(k + 1)'
<1>1. \A k : StartOf(k + 1)' = StartOf(k + 1)
    BY DEF StartOf
<1> QED
    BY <1>1 DEF Ended

\* The writer goes on with its next field.
LEMMA FieldDone ==
    ASSUME Stopping, Framed, status["writer"] = "running", msg <= Len(script),
           Advance, UNCHANGED <<sent, got, ask, parsing, env, status, goal>>, sent = goal,
           put' = Before + Field.len,
           counted' = [counted EXCEPT !["writer"] =
               @ + (IF Field.via = "uncounted" THEN 0 ELSE Field.len)]
    PROVE  WriterAt' /\ Tally'
<1>1. WriterTypes /\ WriterAt /\ Tally
    BY DEF Stopping, Framed
<1>2. UNCHANGED <<script, taken, part, closed>>
    BY DEF env, parsing
<1>3. WriterAt' /\ Before' = Before + Field.len
    <2>1. script' = script /\ sent' = goal'
        BY <1>2
    <2> QED
        BY <1>1, <2>1, AdvancePlaced
<1>4. /\ script \in Scripts /\ msg \in 1 .. Len(script)
      /\ fld \in 1 .. Len(WriteFields(script[msg]))
    BY <1>1, MessagesFollow DEF WriterAt
<1>5. /\ Before = FieldStart(msg, fld) /\ Field = WriteFields(script[msg])[fld]
      /\ Before \in Nat /\ Field.len \in Nat
    BY <1>1, <1>4, WriterPlaced
<1>6. TextsBefore(Before + Field.len) =
          TextsBefore(Before) + (IF Field.via = "uncounted" THEN 1 ELSE 0)
    BY <1>4, <1>5, TextsOfField
<1>7. Field.via = "uncounted" => Field.len = 1
    <2>1. script[msg] \in Message
        BY <1>4, MessagesFollow
    <2> QED
        BY <2>1, <1>4, <1>5, Uncounted
<1>8. TextsBefore(Before) \in Nat
    BY <1>4, TextsFinite
<1>9. /\ counted["writer"] \in Nat /\ counted["reader"] \in Nat
      /\ counted["writer"] + TextsBefore(Before) = Before
      /\ counted["reader"] + part = taken
    BY <1>1 DEF Tally, Ends
<1>10. /\ counted' \in [Ends -> Nat] /\ counted'["reader"] = counted["reader"]
       /\ counted'["writer"] =
             counted["writer"] + (IF Field.via = "uncounted" THEN 0 ELSE Field.len)
    BY <1>1, <1>5, <1>9 DEF Tally, Ends
<1>11. counted'["writer"] + TextsBefore(Before + Field.len) = Before + Field.len
    BY <1>5, <1>6, <1>7, <1>8, <1>9, <1>10
<1>12. TextsBefore(Before)' = TextsBefore(Before + Field.len)
    <2>1. TextsBefore(Before)' =
             Cardinality({k \in DOMAIN script :
                 StartOf(k)' < Before' /\ script[k].type \in {"MSG", "ERROR"}})
        BY <1>2 DEF TextsBefore
    <2>2. \A k : StartOf(k)' = StartOf(k)
        BY <1>2, SameScript
    <2> QED
        BY <2>1, <2>2, <1>3 DEF TextsBefore
<1>13. Tally'
    <2>1. status'["writer"] = "running"
        OBVIOUS
    <2>2. counted'["writer"] + TextsBefore(Before)' = Before'
        BY <1>3, <1>11, <1>12
    <2>3. counted'["reader"] + part' = taken'
        BY <1>2, <1>9, <1>10
    <2>4. ~Returned("writer")'
        BY <2>1 DEF Returned
    <2> QED
        BY <2>1, <2>2, <2>3, <2>4, <1>10 DEF Tally
<1> QED
    BY <1>3, <1>13

\* The writer stops, in the place where it is.
LEMMA WriterStopped ==
    ASSUME Stopping, Framed, status["writer"] = "running", NEW r \in {"nil", "error", "cancelled"},
           status' = [status EXCEPT !["writer"] = r],
           UNCHANGED <<writing, sent, got, ask, parsing, env>>,
           (msg <= Len(script) /\ sent < Before + Field.len) \/ put = Before,
           counted' \in [Ends -> Nat], counted'["reader"] = counted["reader"],
           counted["writer"] <= counted'["writer"],
           r = "nil" => counted' = counted /\ msg > Len(script)
    PROVE  WriterAt' /\ Tally' /\ (status'["writer"] = "nil" => msg' = Len(script') + 1)
<1>1. WriterTypes /\ WriterAt /\ Tally /\ Positions /\ Ended
    BY DEF Stopping, Framed
<1>2. UNCHANGED <<script, taken, part, msg, fld, left, put, goal, sent>>
    BY DEF env, parsing, writing
<1>3. /\ \A k : StartOf(k)' = StartOf(k)
      /\ \A k, f : FieldStart(k, f)' = FieldStart(k, f)
      /\ Total' = Total /\ Boundaries' = Boundaries
      /\ \A p : TextsBefore(p)' = TextsBefore(p)
    BY <1>2, SameScript
<1>4. FieldStart(msg, fld)' = FieldStart(msg, fld) /\ Field' = Field
    BY <1>2 DEF FieldStart, StartOf, Field
<1>5. WriterAt'
    BY <1>1, <1>2, <1>3, <1>4 DEF WriterAt
<1>6. Before' = Before
    BY <1>2, <1>3, <1>4 DEF Before
<1>7. TextsBefore(Before)' = TextsBefore(Before)
    <2>1. \A k : StartOf(k)' = StartOf(k)
        BY <1>3
    <2> QED
        BY <2>1, <1>2, <1>6 DEF TextsBefore
<1>8. counted["writer"] + TextsBefore(Before) = Before /\ counted["writer"] \in Nat
    BY <1>1 DEF Tally, Ends
<1>9. \A b \in Boundaries : b <= sent => b <= counted'["writer"] + TextsBefore(b)
    <2>1. sent <= put /\ counted'["writer"] \in Nat
        BY <1>1 DEF Positions, WriterTypes, Ends
    <2>2. TextsBefore(Before) \in Nat /\ Before \in Nat
        BY <1>1, TextsFinite, WriterPlaced DEF WriterAt
    <2>3. Before <= counted'["writer"] + TextsBefore(Before)
        BY <2>1, <2>2, <1>8
    <2> QED
        BY <1>1, <2>1, <2>3, StoppedCounts
<1>10. status'["writer"] = r /\ "writer" \in Ends
    BY <1>1 DEF Ended, Ends
<1>11. Tally'
    <2>1. counted'["reader"] + part' = taken'
        BY <1>1, <1>2 DEF Tally
    <2>2. status'["writer"] \in {"running", "nil"} =>
              counted'["writer"] + TextsBefore(Before)' = Before'
        BY <1>6, <1>7, <1>8, <1>10
    <2>3. \A b \in Boundaries' : b <= sent' => b <= counted'["writer"] + TextsBefore(b)'
        BY <1>2, <1>3, <1>9
    <2> QED
        BY <2>1, <2>2, <2>3 DEF Tally
<1>12. r = "nil" => msg' = Len(script') + 1
    BY <1>1, <1>2, MessagesFollow DEF WriterAt
<1> QED
    BY <1>5, <1>10, <1>11, <1>12

LEMMA WriterFrames ==
    ASSUME Stopping, Framed, WriterStep
    PROVE  Framed'
<1>1. WriterTypes /\ ReaderTypes /\ Positions /\ WriterAt /\ ReaderAt /\ Capacity /\ Ended /\ Tally
    BY DEF Stopping, Framed
<1>2. status["writer"] = "running" /\ UNCHANGED <<sent, got, ask, parsing, env>>
    BY DEF WriterStep, PutField, Spill, FlushStarts, FlushReturns, AnswerAwaited, AnswerComes,
           WriterCancelled, WriteBreaks, WriterReturns, AtField
<1>3. UNCHANGED <<script, room, closed, taken, reading, rest, part, szPage>>
    BY <1>2 DEF env, parsing
<1>4. ReaderAt'
    BY <1>1, <1>2, <1>3, ReaderStays
<1>5. Capacity'
    BY <1>1, <1>2, <1>3 DEF Capacity, Wanted
<1>6. "writer" \notin closed /\ "writer" \in Ends /\ "reader" \in Ends
    BY <1>1, <1>2 DEF Ended, Ends
<1>7. ASSUME UNCHANGED status PROVE Ended'
    <2>1. status' \in [Ends -> {"running", "nil", "error", "cancelled", "killed", "hung"}]
          /\ \A e \in Ends \cap closed' : status'[e] # "running"
        BY <1>1, <1>3, <1>7 DEF Ended
    <2>2. status'["writer"] # "nil" /\ status'["reader"] = status["reader"]
        BY <1>2, <1>7
    <2>3. status["reader"] = "nil" =>
             /\ reading' = "none"
             /\ \/ "writer" \in closed' /\ taken' = sent'
                \/ \E k \in 1 .. Len(script') : script'[k].type = "END" /\ taken' = StartOf(k + 1)'
        BY <1>1, <1>2, <1>3, <2>2, EndedStays
    <2> QED
        BY <2>1, <2>2, <2>3 DEF Ended
<1>8. ASSUME NEW r \in {"nil", "error", "cancelled"}, Becomes("writer", r),
             r = "nil" => msg' = Len(script') + 1
      PROVE  Ended'
    <2>1. /\ status' \in [Ends -> {"running", "nil", "error", "cancelled", "killed", "hung"}]
          /\ status'["writer"] = r /\ status'["reader"] = status["reader"]
        BY <1>1, <1>8 DEF Ended, Ends, Becomes
    <2>2. \A e \in Ends \cap closed' : status'[e] # "running"
        BY <1>1, <1>3, <1>6, <1>8 DEF Ended, Becomes
    <2>3. status["reader"] = "nil" =>
             /\ reading' = "none"
             /\ \/ "writer" \in closed' /\ taken' = sent'
                \/ \E k \in 1 .. Len(script') : script'[k].type = "END" /\ taken' = StartOf(k + 1)'
        BY <1>1, <1>2, <1>3, <2>1, EndedStays
    <2> QED
        BY <2>1, <2>2, <2>3, <1>8 DEF Ended
<1>9. /\ Before \in Nat /\ Before <= put
      /\ msg <= Len(script) => Field.len \in Nat /\ put + left = Before + Field.len
    BY <1>1, WriterPlaced
<1>10. put \in Nat /\ left \in Nat /\ sent \in Nat /\ goal \in Nat /\ Buf \in Nat /\ fld = fld
    BY <1>1, FramingAssumption DEF WriterTypes
<1>11. ASSUME msg <= Len(script), Field.via \in {"Flush", "answer"}
       PROVE  Field.len = 0 /\ left = 0 /\ put = Before /\ put = Before + Field.len
    <2>1. script[msg] \in Message /\ fld \in 1 .. Len(WriteFields(script[msg]))
        <3>1. msg \in 1 .. Len(script) /\ script \in Scripts
            BY <1>1, <1>11, MessagesFollow DEF WriterAt
        <3> QED
            BY <3>1, <1>1, <1>11, MessagesFollow DEF WriterAt
    <2>2. Field.len = 0
        BY <2>1, <1>11, Uncounted DEF Field
    <2>3. left <= Field.len
        BY <1>1, <1>11 DEF WriterAt
    <2> QED
        BY <2>2, <2>3, <1>9, <1>10, <1>11
<1>12. counted["writer"] \in Nat /\ counted["reader"] \in Nat /\ counted \in [Ends -> Nat]
    BY <1>1, <1>6 DEF Tally
<1>13. CASE PutField
    <2>1. /\ sent = goal /\ msg <= Len(script) /\ Field.via \in Data /\ Advance
          /\ put' = put + left /\ Counts(TRUE) /\ UNCHANGED <<goal, status>>
        BY <1>13 DEF PutField, AtField
    <2>2. put' = Before + Field.len
        BY <2>1, <1>9
    <2>3. counted' = [counted EXCEPT !["writer"] =
               @ + (IF Field.via = "uncounted" THEN 0 ELSE Field.len)]
        BY <2>1 DEF Counts, Data
    <2>4. WriterAt' /\ Tally'
        BY <1>2, <2>1, <2>2, <2>3, FieldDone
    <2> QED
        BY <1>4, <1>5, <1>7, <2>1, <2>4 DEF Framed
<1>14. CASE FlushReturns \/ AnswerComes
    <2>1. /\ sent = goal /\ msg <= Len(script) /\ Field.via \in {"Flush", "answer"} /\ Advance
          /\ UNCHANGED <<put, goal, counted, status>>
        BY <1>14 DEF FlushReturns, AnswerComes, AtField
    <2>2. put' = Before + Field.len /\ Field.len = 0
        BY <2>1, <1>11
    <2>3. counted' = [counted EXCEPT !["writer"] =
               @ + (IF Field.via = "uncounted" THEN 0 ELSE Field.len)]
        BY <2>1, <2>2, <1>12
    <2>4. WriterAt' /\ Tally'
        BY <1>2, <2>1, <2>2, <2>3, FieldDone
    <2> QED
        BY <1>4, <1>5, <1>7, <2>1, <2>4 DEF Framed
<1>15. CASE Spill \/ FlushStarts \/ AnswerAwaited
    <2>1. /\ msg <= Len(script) /\ UNCHANGED <<msg, fld, counted, status>>
          /\ put' + left' = put + left /\ left' <= left
        <3>1. CASE Spill
            <4> DEFINE n == IF put = sent THEN left ELSE Available
            <4>1. /\ left > Available /\ put' = put + n /\ left' = left - n
                  /\ sent = goal /\ msg <= Len(script) /\ UNCHANGED <<msg, fld, counted, status>>
                BY <3>1 DEF Spill, AtField
            <4>2. n \in Nat
                BY <4>1, <1>1, <1>10 DEF Available, Positions
            <4> HIDE DEF n
            <4> QED
                BY <4>1, <4>2, <1>10
        <3>2. CASE FlushStarts \/ AnswerAwaited
            BY <3>2, <1>10 DEF FlushStarts, AnswerAwaited, AtField
        <3> QED
            BY <3>1, <3>2, <1>15
    <2>2. FieldStart(msg, fld)' = FieldStart(msg, fld) /\ Field' = Field
        BY <2>1, <1>3 DEF FieldStart, StartOf, Field
    <2>3. WriterAt'
        <3>1. /\ script' \in Scripts /\ msg' \in 1 .. Len(script') + 1
              /\ fld' \in 1 .. Len(WriteFields(script'[msg']))
              /\ msg' # Len(script') + 1
            <4>1. Len(script) \in Nat
                BY <1>1, MessagesFollow DEF WriterAt
            <4> QED
                BY <4>1, <2>1, <1>1, <1>3 DEF WriterAt
        <3>2. left' <= Field'.len /\ put' + left' = FieldStart(msg, fld)' + Field'.len
            <4>1. left <= Field.len /\ put + left = FieldStart(msg, fld) + Field.len
                BY <2>1, <1>1 DEF WriterAt
            <4>2. left' \in Nat
                <5>1. WriterTypes'
                    BY WriterKeeps DEF Stopping
                <5> QED
                    BY <5>1 DEF WriterTypes
            <4>3. Field.len \in Nat
                BY <2>1, <1>9
            <4>4. left' <= Field.len
                BY <4>1, <4>2, <4>3, <2>1, <1>10
            <4> QED
                BY <4>1, <4>4, <2>1, <2>2
        <3> QED
            BY <3>1, <3>2 DEF WriterAt
    <2>4. Before' = Before
        BY <2>1, <2>2, <1>3 DEF Before
    <2>5. TextsBefore(Before)' = TextsBefore(Before)
        <3>1. \A k : StartOf(k)' = StartOf(k)
            BY <1>3, SameScript
        <3> QED
            BY <3>1, <2>4, <1>3 DEF TextsBefore
    <2>6. Tally'
        <3>1. counted["writer"] + TextsBefore(Before) = Before /\ counted["reader"] + part = taken
            BY <1>1, <1>2 DEF Tally
        <3>2. ~Returned("writer")'
            BY <1>2, <2>1 DEF Returned
        <3> QED
            BY <3>1, <3>2, <2>1, <2>4, <2>5, <1>3, <1>12 DEF Tally
    <2> QED
        BY <1>4, <1>5, <1>7, <2>1, <2>3, <2>6 DEF Framed
<1>16. ASSUME NEW r \in {"nil", "error", "cancelled"}, Becomes("writer", r),
              UNCHANGED <<writing, sent, got, ask, parsing, env>>,
              (msg <= Len(script) /\ sent < Before + Field.len) \/ put = Before,
              counted' = counted \/ (Counts(FALSE) /\ msg <= Len(script)),
              r = "nil" => counted' = counted /\ msg > Len(script)
       PROVE  Framed'
    <2>1. status' = [status EXCEPT !["writer"] = r]
        BY <1>16 DEF Becomes
    <2>2. /\ counted' \in [Ends -> Nat] /\ counted'["reader"] = counted["reader"]
          /\ counted["writer"] <= counted'["writer"]
        <3>1. CASE counted' = counted
            BY <3>1, <1>12
        <3>2. CASE Counts(FALSE) /\ msg <= Len(script)
            <4> DEFINE n == IF Field.via = "WriteByte" THEN Field.len ELSE 0
            <4>1. counted' = [counted EXCEPT !["writer"] = @ + n]
                BY <3>2 DEF Counts
            <4>2. n \in Nat
                BY <3>2, <1>9
            <4> HIDE DEF n
            <4>3. counted'["writer"] = counted["writer"] + n /\ counted'["reader"] = counted["reader"]
                BY <4>1, <1>6, <1>12
            <4>4. counted["writer"] + n \in Nat /\ counted["writer"] <= counted["writer"] + n
                BY <4>2, <1>12
            <4> QED
                BY <4>1, <4>3, <4>4, <1>6, <1>12
        <3> QED
            BY <3>1, <3>2, <1>16
    <2>3. WriterAt' /\ Tally' /\ (status'["writer"] = "nil" => msg' = Len(script') + 1)
        BY <1>2, <1>16, <2>1, <2>2, WriterStopped
    <2>4. r = "nil" => msg' = Len(script') + 1
        BY <2>1, <2>3, <1>1, <1>6 DEF Ended
    <2>5. Ended'
        BY <1>8, <1>16, <2>4
    <2> QED
        BY <1>4, <1>5, <2>3, <2>5 DEF Framed
<1>17. CASE WriterCancelled
    <2>1. /\ Becomes("writer", "cancelled") /\ UNCHANGED <<writing, sent, got, ask, parsing, env>>
          /\ counted' = counted \/ (Counts(FALSE) /\ msg <= Len(script))
        BY <1>17 DEF WriterCancelled, AtField
    <2>2. (msg <= Len(script) /\ sent < Before + Field.len) \/ put = Before
        <3>1. CASE AtField(Data) /\ left > Available
            <4>1. msg <= Len(script) /\ sent = goal /\ left > Buf - (put - sent)
                BY <3>1 DEF Available, AtField
            <4>2. put <= sent + Buf /\ sent <= put
                BY <4>1, <1>1, <1>10 DEF Positions
            <4>3. left > 0
                BY <4>1, <4>2, <1>10
            <4> QED
                BY <4>1, <4>2, <4>3, <1>9, <1>10
        <3>2. CASE AtField({"Flush"}) \/ AtField({"answer"})
            <4>1. msg <= Len(script) /\ Field.via \in {"Flush", "answer"}
                BY <3>2 DEF AtField
            <4> QED
                BY <4>1, <1>11
        <3> QED
            BY <3>1, <3>2, <1>17 DEF WriterCancelled
    <2>3. "cancelled" \in {"nil", "error", "cancelled"} /\ "cancelled" # "nil"
        OBVIOUS
    <2> QED
        BY ONLY <2>1, <2>2, <2>3, <1>16
<1>18. CASE WriteBreaks
    <2>1. /\ Becomes("writer", "error") /\ UNCHANGED <<writing, sent, got, ask, parsing, env>>
          /\ sent < goal /\ Counts(FALSE)
        BY <1>18 DEF WriteBreaks
    <2>2. sent < put /\ sent # goal
        BY <2>1, <1>1, <1>10 DEF Positions
    <2>3. msg <= Len(script)
        <3>1. Len(script) \in Nat
            BY <1>1, MessagesFollow DEF WriterAt
        <3> QED
            BY <3>1, <2>2, <1>1 DEF WriterAt
    <2>4. sent < Before + Field.len
        BY <2>2, <2>3, <1>9, <1>10
    <2>5. "error" \in {"nil", "error", "cancelled"} /\ "error" # "nil"
        OBVIOUS
    <2> QED
        BY ONLY <2>1, <2>3, <2>4, <2>5, <1>16
<1>19. CASE WriterReturns
    <2>1. /\ Becomes("writer", "nil") /\ UNCHANGED <<writing, sent, got, ask, parsing, env>>
          /\ msg > Len(script) /\ counted' = counted
        BY <1>19 DEF WriterReturns
    <2>2. put = Before
        <3>1. Len(script) \in Nat
            BY <1>1, MessagesFollow DEF WriterAt
        <3> QED
            BY <3>1, <2>1, <1>1 DEF WriterAt, Before
    <2>3. "nil" \in {"nil", "error", "cancelled"}
        OBVIOUS
    <2> QED
        BY ONLY <2>1, <2>2, <2>3, <1>16
<1> QED
    BY <1>13, <1>14, <1>15, <1>17, <1>18, <1>19 DEF WriterStep

-----------------------------------------------------------------------------
(* The steps of the reader.                                                *)

LEMMA WriterStays ==
    ASSUME WriterAt, UNCHANGED <<script, writing>>, msg = Len(script) + 1 => sent' = goal
    PROVE  WriterAt' /\ Before' = Before /\ TextsBefore(Before)' = TextsBefore(Before)
<1>1. UNCHANGED <<script, msg, fld, left, put, goal>>
    BY DEF writing
<1>2. FieldStart(msg, fld)' = FieldStart(msg, fld) /\ Field' = Field /\ Total' = Total
    BY <1>1, SameScript DEF FieldStart, StartOf, Field
<1>3. WriterAt'
    BY <1>1, <1>2 DEF WriterAt
<1>4. Before' = Before
    BY <1>1, <1>2 DEF Before
<1>5. TextsBefore(Before)' = TextsBefore(Before)
    <2>1. \A k : StartOf(k)' = StartOf(k)
        BY <1>1, SameScript
    <2> QED
        BY <2>1, <1>1, <1>4 DEF TextsBefore
<1> QED
    BY <1>3, <1>4, <1>5

LEMMA TallyStays ==
    ASSUME Tally, WriterAt, UNCHANGED <<script, writing>>,
           msg = Len(script) + 1 => sent' = goal,
           counted' \in [Ends -> Nat], counted'["writer"] = counted["writer"],
           counted'["reader"] + part' = taken',
           status'["writer"] = status["writer"] \/ status'["writer"] \in {"killed", "hung"},
           sent' = sent \/ status["writer"] = "running"
    PROVE  Tally'
<1>1. Before' = Before /\ TextsBefore(Before)' = TextsBefore(Before)
    BY WriterStays
<1>2. Boundaries' = Boundaries /\ \A p : TextsBefore(p)' = TextsBefore(p)
    BY SameScript
<1>3. status'["writer"] \in {"running", "nil"} =>
          counted'["writer"] + TextsBefore(Before)' = Before'
    BY <1>1 DEF Tally
<1>4. Returned("writer")' =>
          \A b \in Boundaries' : b <= sent' => b <= counted'["writer"] + TextsBefore(b)'
    BY <1>2 DEF Tally, Returned
<1> QED
    BY <1>3, <1>4 DEF Tally

\* What a Take moves.
LEMMA TakeMoves ==
    ASSUME Stopping, Framed, Take
    PROVE  LET n == taken' - taken
           IN  /\ n \in Nat /\ taken' = taken + n /\ taken' <= got
               /\ \/ n = Wanted /\ part' = 0
                  \/ n < Wanted /\ part' = part + n /\ UNCHANGED <<reading, rest, szPage, status>>
               /\ got <= taken' + Buf
               /\ counted' = [counted EXCEPT !["reader"] = counted'["reader"]]
               /\ counted'["reader"] \in Nat /\ counted'["reader"] + part' = taken'
<1> DEFINE n == IF got - taken < Wanted THEN got - taken ELSE Wanted
<1>1. ReaderTypes /\ Positions /\ Capacity /\ Tally /\ ask = 0 /\ CanTake
    BY DEF Stopping, Framed, Take, Idle
<1>2. /\ got \in Nat /\ taken \in Nat /\ part \in Nat /\ Buf \in Nat /\ taken <= got
      /\ part <= rest[1] /\ rest[1] \in Nat
    <2>1. 1 \in 1 .. Len(rest) /\ Longest \in Nat
        BY <1>1, LongestIsLongest DEF ReaderTypes
    <2>2. rest[1] \in 0 .. Longest
        BY <2>1, <1>1 DEF ReaderTypes
    <2> QED
        BY <1>1, <2>1, <2>2, FramingAssumption DEF ReaderTypes, Positions
<1>3. Wanted \in Nat /\ Wanted = rest[1] - part
    BY <1>2 DEF Wanted
<1>4. taken' = taken + n /\ n \in Nat /\ taken + n <= got /\ n <= Wanted /\ (n # Wanted => taken + n = got)
    BY <1>2, <1>3 DEF Take
<1>5. got <= taken + n + Buf
    <2>1. got <= taken + Wanted \/ got <= taken + Buf
        BY <1>1, <1>2 DEF Capacity
    <2> HIDE DEF n
    <2> QED
        BY <2>1, <1>2, <1>3, <1>4
<1>6. n = Wanted => part' = 0
    BY DEF Take, NextField
<1>7. n # Wanted => part' = part + n /\ UNCHANGED <<reading, rest, szPage, status>>
    BY DEF Take
<1>8. counted' = [counted EXCEPT !["reader"] = @ + CountedBytes(n)]
    BY DEF Take
<1> HIDE DEF n
<1>9. /\ counted \in [Ends -> Nat] /\ counted["reader"] \in Nat /\ "reader" \in Ends
      /\ counted["reader"] + part = taken
    BY <1>1 DEF Tally, Ends
<1>10. CountedBytes(n) = IF n = Wanted THEN rest[1] ELSE 0
    BY <1>2, <1>3, <1>4 DEF CountedBytes
<1>11. counted'["reader"] = counted["reader"] + CountedBytes(n)
    BY <1>8, <1>9
<1>12. counted'["reader"] \in Nat /\ counted'["reader"] + part' = taken + n
    <2>1. CASE n = Wanted
        BY <2>1, <1>2, <1>3, <1>6, <1>9, <1>10, <1>11
    <2>2. CASE n # Wanted
        BY <2>2, <1>2, <1>4, <1>7, <1>9, <1>10, <1>11
    <2> QED
        BY <2>1, <2>2
<1>13. counted' = [counted EXCEPT !["reader"] = counted'["reader"]]
    BY <1>8, <1>9, <1>11
<1>14. taken' - taken = n /\ (n # Wanted => n < Wanted)
    BY <1>2, <1>3, <1>4
<1> QED
    BY <1>4, <1>5, <1>6, <1>7, <1>12, <1>13, <1>14

\* The page size once told stays told.
LEMMA ToldStays ==
    ASSUME Take, NEW k, Told(k)
    PROVE  Told(k)'
<1>1. script' = script
    BY DEF Take, env
<1>2. szPage' \in {szPage, PageSize}
    BY PageSizeTold DEF Take
<1> QED
    BY <1>1, <1>2 DEF Told

\* The type byte of a message: the reader goes on with its fields.
LEMMA TypeRead ==
    ASSUME Stopping, Framed, Take, NEW k \in 1 .. Len(script) + 1, Told(k), AtMessage(k)
    PROVE  /\ ReaderAt'
           /\ status'["reader"] = "nil" =>
                /\ reading' = "none" /\ k \in 1 .. Len(script)
                /\ script[k].type = "END" /\ taken' = StartOf(k + 1)
<1>1. WriterTypes /\ ReaderTypes /\ Positions /\ WriterAt /\ Ended /\ CanTake
    BY DEF Stopping, Framed, Take
<1>2. Wanted = 1 /\ reading = "none" /\ taken = StartOf(k) /\ script \in Scripts
    BY <1>1 DEF AtMessage, Wanted, WriterAt
<1>3. got > taken /\ taken \in Nat /\ got \in Nat
    BY <1>1, <1>2 DEF CanTake, ReaderTypes
<1>4. k \in 1 .. Len(script) /\ Len(script) \in Nat
    <2>1. /\ got <= sent /\ sent <= put /\ put <= Total /\ Total \in Nat
          /\ sent \in Nat /\ put \in Nat
        BY <1>1, WriterPlaced DEF WriterTypes, Positions
    <2>2. Total = StartOf(Len(script) + 1) /\ Len(script) \in Nat
        BY <1>2, MessagesFollow
    <2>3. k # Len(script) + 1
        BY <2>1, <2>2, <1>2, <1>3
    <2> QED
        BY <2>2, <2>3
<1> DEFINE m == script[k]
           R == ReadLengths(m)
           W == WriteFields(m)
<1>5. m \in Message /\ MessageAt(taken) = m
    BY <1>2, <1>4, MessagesFollow, MessageIsFound
<1>6. Agrees(m, R)
    <2>1. m.type = "ORIGIN_PAGE" => szPage = PageSize
        <3> SUFFICES ASSUME m.type = "ORIGIN_PAGE" PROVE szPage = PageSize
            OBVIOUS
        <3>1. k \in DOMAIN script
            BY <1>2, <1>4, MessagesFollow
        <3>2. \E j \in 1 .. k - 1 : script[j].type = "ORIGIN_BEGIN"
            BY <3>1, <1>2, FramingAssumption
        <3> QED
            BY <3>2 DEF Told
    <2> QED
        BY <2>1, <1>5, CodesAgree
<1>7. /\ taken' = taken + 1 /\ part' = 0 /\ script' = script
      /\ NextField(m.type, R) /\ szPage' = szPage
      /\ status' = IF m.type = "END" THEN [status EXCEPT !["reader"] = "nil"] ELSE status
    <2>1. (IF got - taken < Wanted THEN got - taken ELSE Wanted) = 1
        BY <1>2, <1>3
    <2>2. /\ taken' = taken + 1 /\ NextField(m.type, R) /\ script' = script
          /\ szPage' = szPage
        BY <2>1, <1>2, <1>5 DEF Take, env
    <2>3. status' = IF m.type = "END" THEN [status EXCEPT !["reader"] = "nil"] ELSE status
        BY <2>1, <1>2, <1>5 DEF Take, Becomes
    <2> QED
        BY <2>2, <2>3 DEF NextField
<1>8. /\ Len(W) \in Nat \ {0} /\ FieldAt(m, 2) = 1 /\ LengthOf(m) \in Nat
      /\ StartOf(k + 1) = StartOf(k) + LengthOf(m) /\ StartOf(k) \in Nat
      /\ \A j : StartOf(j)' = StartOf(j)
      /\ FieldStart(k, 2)' = FieldStart(k, 2)
    BY <1>2, <1>3, <1>4, <1>5, <1>7, FieldsFollow, MessagesFollow, SameScript
<1>9. Len(R) \in Nat /\ R \in Seq(0 .. Longest)
    BY <1>1, <1>5, FieldsRead DEF ReaderTypes
<1>10. CASE R = <<>>
    <2>1. reading' = "none" /\ rest' = <<1>>
        BY <1>7, <1>10 DEF NextField
    <2>2. taken' = StartOf(k + 1)
        <3>1. FieldAt(m, 0 + 2) = LengthOf(m)
            BY <1>6, <1>10 DEF Agrees
        <3> QED
            BY <3>1, <1>2, <1>7, <1>8
    <2>3. AtMessage(k + 1)'
        BY <2>1, <2>2, <1>7, <1>8 DEF AtMessage
    <2>4. m.type # "ORIGIN_BEGIN"
        BY <1>10 DEF ReadLengths
    <2>5. Told(k + 1)'
        <3>1. \A j \in 1 .. (k + 1) - 1 : j \in 1 .. k - 1 \/ j = k
            BY <1>4
        <3> QED
            BY <3>1, <2>4, <1>7 DEF Told
    <2>6. ReaderAt'
        <3>1. k + 1 \in 1 .. Len(script') + 1
            BY <1>4, <1>7
        <3> QED
            BY <2>3, <2>5, <3>1 DEF ReaderAt
    <2>7. status["reader"] = "running"
        BY DEF Take, Idle
    <2>8. status'["reader"] = "nil" => m.type = "END"
        BY <2>7, <1>7
    <2> QED
        BY <2>1, <2>2, <2>6, <2>8, <1>4
<1>11. CASE R # <<>>
    <2>1. reading' = m.type /\ rest' = R /\ Len(R) > 0
        BY <1>7, <1>9, <1>11 DEF NextField
    <2>2. Len(R) + 1 <= Len(W) /\ 2 \in 2 .. Len(W)
        BY <2>1, <1>6, <1>8, <1>9 DEF Agrees
    <2>3. \A i \in 1 .. Len(R) :
              /\ 2 + i - 1 <= Len(W)
              /\ R[i] = W[2 + i - 1].len
        <3> TAKE i \in 1 .. Len(R)
        <3>1. 2 + i - 1 = i + 1 /\ i + 1 <= Len(W)
            BY <2>2, <1>8, <1>9
        <3>2. R[i] = W[i + 1].len
            BY <1>6 DEF Agrees
        <3> QED
            BY <3>1, <3>2
    <2>4. FieldAt(m, 2 + Len(R)) = LengthOf(m)
        <3>1. 2 + Len(R) = Len(R) + 2
            BY <1>9
        <3> QED
            BY <3>1, <1>6 DEF Agrees
    <2>5. taken' = FieldStart(k, 2)' + part'
        BY <1>2, <1>7, <1>8 DEF FieldStart
    <2>6. ~(m.type = "ORIGIN_BEGIN" /\ Len(R) = 1)
        BY DEF ReadLengths
    <2> HIDE DEF R, W
    <2>7. InMessage(k, 2)'
        <3>1. WriteFields(script[k]) = W
            BY DEF W
        <3> HIDE DEF m
        <3>2. script[k] = m
            BY DEF m
        <3> QED
            BY <2>1, <2>2, <2>3, <2>4, <2>5, <2>6, <3>1, <3>2, <1>4, <1>7 DEF InMessage
    <2>8. ReaderAt'
        <3>1. k \in 1 .. Len(script') + 1 /\ Told(k)'
            BY <1>7, ToldStays
        <3> QED
            BY <2>7, <3>1 DEF ReaderAt
    <2>9. m.type # "END"
        BY <1>11 DEF R, ReadLengths
    <2>10. status["reader"] = "running"
        BY DEF Take, Idle
    <2> QED
        BY <2>8, <2>9, <2>10, <1>7
<1> QED
    BY <1>10, <1>11

\* Bytes of another field: it is read in part, or the next one is begun, or
\* the message is complete.
LEMMA FieldRead ==
    ASSUME Stopping, Framed, Take, NEW k \in 1 .. Len(script) + 1, Told(k),
           NEW f \in Nat, InMessage(k, f)
    PROVE  ReaderAt' /\ status'["reader"] # "nil"
<1> DEFINE m == script[k]
           W == WriteFields(m)
           n == taken' - taken
<1>1. ReaderTypes /\ script \in Scripts /\ Ended /\ Len(script) \in Nat
    BY MessagesFollow DEF Stopping, Framed, WriterAt
<1>2. /\ k \in 1 .. Len(script) /\ reading = m.type /\ f \in 2 .. Len(W) /\ Len(rest) > 0
      /\ \A i \in 1 .. Len(rest) : f + i - 1 <= Len(W) /\ rest[i] = W[f + i - 1].len
      /\ FieldAt(m, f + Len(rest)) = LengthOf(m)
      /\ taken = FieldStart(k, f) + part
      /\ part = 0 \/ part < rest[1]
      /\ reading = "ORIGIN_BEGIN" /\ Len(rest) = 1 => szPage = PageSize
    BY DEF InMessage
<1>3. m \in Message /\ reading # "none" /\ Len(W) \in Nat /\ Len(rest) \in Nat
      /\ rest \in Seq(0 .. Longest)
    <2>1. m \in Message
        BY <1>1, <1>2, MessagesFollow
    <2>2. reading # "none" /\ rest \in Seq(0 .. Longest)
        BY <2>1, <1>1, <1>2 DEF Message, ReaderTypes
    <2>3. Len(W) \in Nat
        BY <2>1, FieldsFollow
    <2>4. Len(rest) \in Nat
        BY <2>2
    <2> QED
        BY <2>1, <2>2, <2>3, <2>4
<1>4. script' = script /\ status["reader"] = "running"
    BY DEF Take, Idle, env
<1>5. /\ \A j : StartOf(j)' = StartOf(j)
      /\ \A i : FieldStart(k, i)' = FieldStart(k, i)
    BY <1>4, SameScript
<1>6. status' = [status EXCEPT !["reader"] = "error"] \/ status' = status
    BY <1>3 DEF Take, Becomes
<1>7. status'["reader"] # "nil"
    BY <1>1, <1>4, <1>6 DEF Ended
<1>8. rest[1] = W[f].len /\ rest[1] \in Nat
    <2>1. 1 \in 1 .. Len(rest) /\ f + 1 - 1 = f
        BY <1>2, <1>3
    <2>2. rest[1] \in 0 .. Longest /\ Longest \in Nat
        BY <2>1, <1>3, LongestIsLongest
    <2> QED
        BY <2>1, <2>2, <1>2
<1>9. /\ FieldStart(k, f) \in Nat
      /\ FieldStart(k, f + 1) = FieldStart(k, f) + W[f].len
    <2>1. f \in 1 .. Len(W)
        BY <1>2, <1>3
    <2> QED
        BY <2>1, <1>1, <1>2, FieldPlaced
<1>10. part \in Nat /\ taken \in Nat /\ Wanted = rest[1] - part
    BY <1>1 DEF ReaderTypes, Wanted
<1>11. n \in Nat /\ taken' = taken + n
    BY TakeMoves
<1>12. k \in 1 .. Len(script') + 1 /\ Told(k)'
    BY <1>4, ToldStays
<1>13. CASE n < Wanted
    <2>1. part' = part + n /\ UNCHANGED <<reading, rest, szPage>>
        BY <1>13, <1>10, <1>8, <1>11, TakeMoves
    <2>2. part' < rest[1]
        BY <2>1, <1>8, <1>10, <1>11, <1>13
    <2>3. taken' = FieldStart(k, f)' + part'
        BY <2>1, <1>2, <1>5, <1>9, <1>10, <1>11
    <2> HIDE DEF n
    <2>4. InMessage(k, f)'
        BY <2>1, <2>2, <2>3, <1>2, <1>4 DEF InMessage
    <2> QED
        BY <2>4, <1>7, <1>12 DEF ReaderAt
<1>14. CASE n = Wanted
    <2>1. part' = 0 /\ taken' = FieldStart(k, f + 1)
        <3>1. part' = 0
            BY <1>8, <1>10, <1>11, <1>14, TakeMoves
        <3>2. taken' = FieldStart(k, f) + rest[1]
            <4> DEFINE at == FieldStart(k, f)
                       w == rest[1]
            <4>1. /\ taken = at + part /\ at \in Nat /\ w \in Nat /\ part \in Nat
                  /\ Wanted = w - part /\ taken' = taken + n /\ n = Wanted
                BY <1>2, <1>8, <1>9, <1>10, <1>11, <1>14
            <4> HIDE DEF n, at, w
            <4>2. taken' = at + w
                BY ONLY <4>1
            <4> QED
                BY <4>2 DEF at, w
        <3> QED
            BY <3>1, <3>2, <1>8, <1>9
    <2>2. /\ NextField(reading, Tail(rest))
          /\ szPage' = IF reading = "ORIGIN_BEGIN" /\ Len(rest) = 2
                       THEN FromExponent(Exponent(PageSize)) ELSE szPage
        <3>1. (IF got - taken < Wanted THEN got - taken ELSE Wanted) = Wanted
            <4>1. got \in Nat
                BY <1>1 DEF ReaderTypes
            <4>2. taken' = taken + (IF got - taken < Wanted THEN got - taken ELSE Wanted)
                BY DEF Take
            <4> QED
                BY <4>1, <4>2, <1>8, <1>10, <1>11, <1>14
        <3> QED
            BY <3>1, <1>3 DEF Take
    <2>5. /\ Tail(rest) \in Seq(0 .. Longest) /\ Len(Tail(rest)) = Len(rest) - 1
          /\ \A i \in 1 .. Len(Tail(rest)) : Tail(rest)[i] = rest[i + 1]
          /\ Len(rest) = 1 => Tail(rest) = <<>>
        <3>1. rest # <<>>
            BY <1>2
        <3>2. /\ Tail(rest) \in Seq(0 .. Longest) /\ Len(Tail(rest)) = Len(rest) - 1
              /\ \A i \in 1 .. Len(Tail(rest)) : Tail(rest)[i] = rest[i + 1]
            BY <3>1, <1>3, HeadTailProperties
        <3>3. Len(rest) = 1 => Len(Tail(rest)) = 0
            BY <3>2
        <3> QED
            BY <3>2, <3>3, EmptySeq
    <2>6. Len(rest) \in Nat /\ Len(rest) > 0
        BY <1>2, <1>3
    <2>3. CASE Len(rest) = 1
        <3>1. Tail(rest) = <<>>
            BY <2>3, <2>5
        <3>2. reading' = "none" /\ rest' = <<1>> /\ szPage' = szPage
            BY <2>2, <2>3, <3>1 DEF NextField
        <3>3. FieldAt(m, f + 1) = LengthOf(m)
            BY <2>3, <1>2
        <3>4. taken' = StartOf(k + 1)
            BY <2>1, <3>3, <1>1, <1>2, MessagesFollow DEF FieldStart
        <3>5. AtMessage(k + 1)'
            BY <2>1, <3>2, <3>4, <1>5 DEF AtMessage
        <3>6. Told(k + 1)'
            <4>1. \A j \in 1 .. (k + 1) - 1 : j \in 1 .. k - 1 \/ j = k
                BY <1>2
            <4>2. script[k].type = "ORIGIN_BEGIN" => szPage = PageSize
                BY <2>3, <1>2
            <4> QED
                BY <4>1, <4>2, <3>2, <1>4 DEF Told
        <3>7. k + 1 \in 1 .. Len(script') + 1
            BY <1>1, <1>2, <1>4
        <3> QED
            BY <3>5, <3>6, <3>7, <1>7 DEF ReaderAt
    <2>4. CASE Len(rest) # 1
        <3> DEFINE T == Tail(rest)
        <3>1. /\ T # <<>> /\ Len(T) = Len(rest) - 1 /\ Len(T) > 0 /\ Len(T) \in Nat
              /\ \A i \in 1 .. Len(T) : T[i] = rest[i + 1] /\ i + 1 \in 1 .. Len(rest)
            <4>1. Len(T) = Len(rest) - 1 /\ \A i \in 1 .. Len(T) : T[i] = rest[i + 1]
                BY <2>5
            <4> HIDE DEF T
            <4>2. Len(T) \in Nat /\ Len(T) > 0
                BY <4>1, <2>4, <2>6
            <4>3. \A i \in 1 .. Len(T) : i + 1 \in 1 .. Len(rest)
                BY <4>1, <4>2, <2>6
            <4> QED
                BY <4>1, <4>2, <4>3
        <3>2. reading' = reading /\ rest' = T
            BY <2>2, <3>1 DEF NextField
        <3> HIDE DEF T, n
        <3>3. f + 1 \in 2 .. Len(W)
            <4>1. 2 \in 1 .. Len(rest) /\ f + 2 - 1 = f + 1
                <5> DEFINE l == Len(rest)
                <5>1. l \in Nat /\ l > 0 /\ l # 1
                    BY <2>4, <2>6
                <5> HIDE DEF l
                <5>2. 2 \in 1 .. l
                    BY <5>1
                <5> QED
                    BY <5>2 DEF l
            <4>2. f + 1 <= Len(W)
                BY <4>1, <1>2
            <4> QED
                BY <4>2, <1>2, <1>3
        <3>4. \A i \in 1 .. Len(T) :
                 (f + 1) + i - 1 <= Len(W) /\ T[i] = W[(f + 1) + i - 1].len
            <4> TAKE i \in 1 .. Len(T)
            <4>1. i + 1 \in 1 .. Len(rest) /\ T[i] = rest[i + 1]
                BY <3>1
            <4>2. f + (i + 1) - 1 = (f + 1) + i - 1
                BY <3>1
            <4>3. f + (i + 1) - 1 <= Len(W) /\ rest[i + 1] = W[f + (i + 1) - 1].len
                BY <4>1, <1>2
            <4> QED
                BY <4>1, <4>2, <4>3
        <3>5. FieldAt(m, (f + 1) + Len(T)) = LengthOf(m)
            <4>1. (f + 1) + Len(T) = f + Len(rest)
                BY <3>1, <1>3
            <4> QED
                BY <4>1, <1>2
        <3>6. taken' = FieldStart(k, f + 1)' + part'
            BY <2>1, <1>5, <1>8, <1>9
        <3>7. reading = "ORIGIN_BEGIN" /\ Len(T) = 1 => szPage' = PageSize
            <4>1. Len(T) = 1 => Len(rest) = 2
                <5> DEFINE l == Len(rest)
                           t == Len(T)
                <5>1. l \in Nat /\ t = l - 1
                    BY <3>1, <2>6
                <5> HIDE DEF l, t
                <5>2. t = 1 => l = 2
                    BY <5>1
                <5> QED
                    BY <5>2 DEF l, t
            <4> QED
                BY <4>1, <2>2, PageSizeTold
        <3>8. InMessage(k, f + 1)'
            BY <2>1, <3>1, <3>2, <3>3, <3>4, <3>5, <3>6, <3>7, <1>2, <1>4 DEF InMessage
        <3>9. f + 1 \in Nat
            OBVIOUS
        <3> QED
            BY <3>8, <3>9, <1>7, <1>12 DEF ReaderAt
    <2> QED
        BY <2>3, <2>4
<1>15. n < Wanted \/ n = Wanted
    BY TakeMoves
<1> QED
    BY <1>13, <1>14, <1>15

LEMMA ReaderFrames ==
    ASSUME Stopping, Framed, ReaderStep
    PROVE  Framed'
<1>1. /\ WriterTypes /\ ReaderTypes /\ Positions /\ WriterAt /\ ReaderAt
      /\ Capacity /\ Ended /\ Tally
    BY DEF Stopping, Framed
<1>2. status["reader"] = "running" /\ UNCHANGED <<writing, sent, got, env>>
    BY DEF ReaderStep, Take, ReadStarts, ReadCancelled, ReadEnds, Idle
<1>3. UNCHANGED <<script, room, closed, msg, goal>>
    BY <1>2 DEF env, writing
<1>4. "reader" \notin closed /\ "writer" \in Ends /\ "reader" \in Ends
    BY <1>1, <1>2 DEF Ended, Ends
<1>5. WriterAt' /\ (msg = Len(script) + 1 => sent' = goal)
    <2>1. msg = Len(script) + 1 => sent' = goal
        BY <1>1, <1>2 DEF WriterAt
    <2> QED
        BY <2>1, <1>1, <1>2, <1>3, WriterStays
<1>6. counted \in [Ends -> Nat] /\ counted["reader"] + part = taken
    BY <1>1 DEF Tally
<1>7. CASE Take
    <2>1. /\ taken' <= got /\ got <= taken' + Buf /\ ask = 0 /\ ask' = 0 /\ got \in Nat
          /\ taken' \in Nat /\ Buf \in Nat
          /\ counted' = [counted EXCEPT !["reader"] = counted'["reader"]]
          /\ counted'["reader"] \in Nat /\ counted'["reader"] + part' = taken'
        <3>1. ask = 0 /\ ask' = 0 /\ got \in Nat /\ Buf \in Nat /\ taken \in Nat
            BY <1>1, <1>7, FramingAssumption DEF Take, Idle, ReaderTypes
        <3> QED
            BY <3>1, <1>7, TakeMoves
    <2>2. Capacity'
        <3>1. got' + ask' <= taken' + Buf
            <4>1. got' = got
                BY <1>2
            <4>2. got \in Nat /\ taken' \in Nat /\ Buf \in Nat /\ ask' = 0 /\ got <= taken' + Buf
                BY <2>1
            <4>3. \A a, b, c \in Nat : a <= b + c => a + 0 <= b + c
                OBVIOUS
            <4>4. got + 0 <= taken' + Buf
                BY <4>2, <4>3
            <4> QED
                BY <4>1, <4>2, <4>4, Zenon
        <3> QED
            BY <3>1, <1>1, <1>2, <1>3 DEF Capacity
    <2>3. status' \in [Ends -> {"running", "nil", "error", "cancelled", "killed", "hung"}]
          /\ status'["writer"] = status["writer"]
        <3>1. status' = status \/ \E r \in {"nil", "error"} : status' = [status EXCEPT !["reader"] = r]
            BY <1>7 DEF Take, Becomes
        <3> QED
            BY <3>1, <1>1, <1>4 DEF Ended, Ends
    <2>4. Tally'
        <3>1. counted' \in [Ends -> Nat] /\ counted'["writer"] = counted["writer"]
            BY <2>1, <1>4, <1>6 DEF Ends
        <3> QED
            BY <3>1, <2>1, <2>3, <1>1, <1>2, <1>3, <1>5, TallyStays
    <2>5. PICK k \in 1 .. Len(script) + 1 :
              Told(k) /\ (AtMessage(k) \/ \E f \in Nat : InMessage(k, f))
        BY <1>1 DEF ReaderAt
    <2>6. ReaderAt' /\ (status'["reader"] = "nil" =>
              /\ reading' = "none" /\ k \in 1 .. Len(script)
              /\ script[k].type = "END" /\ taken' = StartOf(k + 1))
        <3>1. CASE AtMessage(k)
            BY <2>5, <3>1, <1>7, TypeRead
        <3>2. ASSUME NEW f \in Nat, InMessage(k, f)
              PROVE  ReaderAt' /\ status'["reader"] # "nil"
            BY <2>5, <3>2, <1>7, FieldRead
        <3> QED
            BY <2>5, <3>1, <3>2
    <2>7. Ended'
        <3>1. \A e \in Ends \cap closed' : status'[e] # "running"
            <4>1. \A e \in Ends \cap closed : e # "reader" /\ status[e] # "running"
                BY <1>1, <1>4 DEF Ended
            <4>2. \A e \in Ends : e # "reader" => status'[e] = status[e]
                BY <1>1, <1>7 DEF Take, Becomes, Ended
            <4> QED
                BY <4>1, <4>2, <1>3
        <3>2. StartOf(k + 1)' = StartOf(k + 1)
            BY <1>3, SameScript
        <3>3. status'["writer"] = "nil" => msg' = Len(script') + 1
            BY <2>3, <1>1, <1>3 DEF Ended
        <3>4. status'["reader"] = "nil" =>
                 /\ reading' = "none"
                 /\ \E j \in 1 .. Len(script') : script'[j].type = "END" /\ taken' = StartOf(j + 1)'
            <4>1. \A j : StartOf(j + 1)' = StartOf(j + 1)
                BY <1>3, SameScript
            <4> QED
                BY <4>1, <2>6, <1>3
        <3> QED
            BY <3>1, <3>3, <3>4, <2>3 DEF Ended
    <2> QED
        BY <1>5, <2>2, <2>4, <2>6, <2>7 DEF Framed
<1>8. CASE ReadStarts \/ ReadCancelled \/ ReadEnds
    <2>1. UNCHANGED <<taken, reading, rest, part, szPage, counted, parsing>>
        BY <1>8 DEF ReadStarts, ReadCancelled, ReadEnds, parsing
    <2>2. ReaderAt'
        BY <2>1, <1>1, <1>3, ReaderStays
    <2>3. Capacity'
        <3>1. CASE ReadStarts
            <4>1. /\ ask' = IF Wanted >= Buf THEN Wanted ELSE Buf
                  /\ ~(got > taken)
                BY <3>1 DEF ReadStarts, CanTake
            <4>2. got = taken
                BY <4>1, <1>1 DEF ReaderTypes, Positions
            <4>3. Wanted' = Wanted
                BY <2>1 DEF Wanted
            <4>4. /\ got' = got /\ sent' = sent /\ room' = room /\ taken' = taken
                  /\ ask' = Wanted \/ ask' = Buf
                BY <4>1, <2>1, <1>2, <1>3
            <4>5. got' + ask' <= taken' + Wanted' \/ got' + ask' <= taken' + Buf
                <5>1. taken \in Nat /\ Buf \in Nat /\ Wanted \in Int
                    <6>1. 1 \in 1 .. Len(rest) /\ Longest \in Nat
                        BY <1>1, LongestIsLongest DEF ReaderTypes
                    <6>2. rest[1] \in 0 .. Longest
                        BY <6>1, <1>1 DEF ReaderTypes
                    <6> QED
                        BY <6>1, <6>2, <1>1, FramingAssumption DEF ReaderTypes, Wanted
                <5> QED
                    BY ONLY <5>1, <4>2, <4>3, <4>4
            <4> QED
                BY <4>4, <4>5, <1>1 DEF Capacity
        <3>2. CASE ReadCancelled \/ ReadEnds
            <4>1. ask' = ask /\ Wanted' = Wanted
                BY <3>2, <2>1 DEF ReadCancelled, ReadEnds, Wanted
            <4> QED
                BY <4>1, <2>1, <1>1, <1>2, <1>3 DEF Capacity
        <3> QED
            BY <3>1, <3>2, <1>8
    <2>4. \/ status' = status
          \/ \E r \in {"nil", "error", "cancelled"} :
                /\ status' = [status EXCEPT !["reader"] = r]
                /\ r = "nil" => reading = "none" /\ "writer" \in closed /\ got = sent /\ ask > 0
        <3>1. CASE ReadStarts
            BY <3>1 DEF ReadStarts
        <3>2. CASE ReadCancelled
            BY <3>2 DEF ReadCancelled, Becomes
        <3>3. CASE ReadEnds
            BY <3>3 DEF ReadEnds, EndResult, Becomes
        <3> QED
            BY <3>1, <3>2, <3>3, <1>8
    <2>5. status' \in [Ends -> {"running", "nil", "error", "cancelled", "killed", "hung"}]
          /\ \A e \in Ends : e # "reader" => status'[e] = status[e]
        BY <2>4, <1>1, <1>4 DEF Ended, Ends
    <2>6. Tally'
        BY <2>1, <2>5, <1>1, <1>2, <1>3, <1>4, <1>5, <1>6, TallyStays
    <2>7. Ended'
        <3>1. \A e \in Ends \cap closed' : status'[e] # "running"
            BY <2>5, <1>1, <1>3, <1>4 DEF Ended
        <3>2. status'["writer"] = "nil" => msg' = Len(script') + 1
            BY <2>5, <1>1, <1>3, <1>4 DEF Ended
        <3>3. status'["reader"] = "nil" =>
                 reading' = "none" /\ "writer" \in closed' /\ taken' = sent'
            <4> SUFFICES ASSUME status'["reader"] = "nil"
                         PROVE  reading' = "none" /\ "writer" \in closed' /\ taken' = sent'
                OBVIOUS
            <4>1. reading = "none" /\ "writer" \in closed /\ got = sent /\ ask > 0
                BY <2>4, <1>1, <1>2, <1>4 DEF Ended
            <4> QED
                BY <4>1, <2>1, <1>1, <1>2, <1>3 DEF Positions
        <3> QED
            BY <3>1, <3>2, <3>3, <2>5 DEF Ended
    <2> QED
        BY <1>5, <2>2, <2>3, <2>6, <2>7 DEF Framed
<1> QED
    BY <1>7, <1>8 DEF ReaderStep

-----------------------------------------------------------------------------
(* The stream, and what may happen to a side.                              *)

\* The stream takes bytes only of a Write, while the writer runs.
LEMMA StreamFrames ==
    ASSUME Stopping, Framed, StreamStep
    PROVE  Framed'
<1>1. /\ WriterTypes /\ ReaderTypes /\ Positions /\ WriterAt /\ ReaderAt
      /\ Capacity /\ Ended /\ Tally
    BY DEF Stopping, Framed
<1>2. UNCHANGED <<writing, parsing, counted, status, env>>
    BY DEF StreamStep, StreamTakes, StreamGives, StreamHands
<1>3. UNCHANGED <<script, room, closed, msg, goal, put, taken, reading, rest, part>>
    BY <1>2 DEF env, writing, parsing
<1>4. sent' = sent \/ (sent < goal /\ status["writer"] = "running")
    BY DEF StreamStep, StreamTakes, StreamGives, StreamHands, WriteInProgress
<1>5. sent \in Nat /\ got \in Nat /\ ask \in Nat /\ goal \in Nat /\ taken \in Nat /\ Buf \in Nat
      /\ "writer" \in Ends /\ room \in Nat /\ Wanted' = Wanted /\ got <= sent
    BY <1>1, <1>3, FramingAssumption DEF WriterTypes, ReaderTypes, Ends, Capacity, Wanted, Positions
<1>6. msg = Len(script) + 1 => sent' = goal
    BY <1>1, <1>4, <1>5 DEF WriterAt
<1>7. WriterAt'
    BY <1>1, <1>2, <1>3, <1>6, WriterStays
<1>8. ReaderAt'
    BY <1>1, <1>2, <1>3, ReaderStays
<1>9. Capacity'
    <2>1. Wanted \in Int
        <3>1. 1 \in 1 .. Len(rest) /\ Longest \in Nat
            BY <1>1, LongestIsLongest DEF ReaderTypes
        <3>2. rest[1] \in 0 .. Longest
            BY <3>1, <1>1 DEF ReaderTypes
        <3> QED
            BY <3>1, <3>2, <1>1 DEF ReaderTypes, Wanted
    <2>2. /\ sent <= got + room
          /\ got + ask <= taken + Wanted \/ got + ask <= taken + Buf
        BY <1>1 DEF Capacity
    <2> HIDE DEF Wanted
    <2>3. /\ sent' <= got' + room
          /\ got' + ask' <= taken + Wanted \/ got' + ask' <= taken + Buf
        <3>1. CASE StreamTakes
            <4>1. PICK k \in 1 .. (goal - sent) : k <= room - (sent - got) /\ sent' = sent + k
                BY <3>1 DEF StreamTakes
            <4>2. got' = got /\ ask' = ask
                BY <3>1 DEF StreamTakes
            <4>3. sent + k <= got + room
                BY <4>1, <1>5
            <4> QED
                BY <4>1, <4>2, <4>3, <2>2
        <3>2. CASE StreamGives
            <4>1. PICK k \in 1 .. ask : k <= sent - got /\ got' = got + k
                BY <3>2 DEF StreamGives
            <4>2. sent' = sent /\ ask' = 0
                BY <3>2 DEF StreamGives
            <4>3. sent <= (got + k) + room
                BY <4>1, <2>2, <1>5
            <4>4. (got + k) + 0 <= taken + Wanted \/ (got + k) + 0 <= taken + Buf
                BY <4>1, <2>1, <2>2, <1>5
            <4> QED
                BY <4>1, <4>2, <4>3, <4>4
        <3>3. CASE StreamHands
            <4>1. PICK k \in 1 .. ask : k <= goal - sent /\ sent' = sent + k /\ got' = got + k
                BY <3>3 DEF StreamHands
            <4>2. ask' = 0
                BY <3>3 DEF StreamHands
            <4>3. sent + k <= (got + k) + room
                BY <4>1, <2>2, <1>5
            <4>4. (got + k) + 0 <= taken + Wanted \/ (got + k) + 0 <= taken + Buf
                BY <4>1, <2>1, <2>2, <1>5
            <4> QED
                BY <4>1, <4>2, <4>3, <4>4
        <3> QED
            BY <3>1, <3>2, <3>3 DEF StreamStep
    <2> QED
        BY <2>3, <1>3, <1>5 DEF Capacity
<1>10. Ended'
    <2>1. sent' = sent \/ "writer" \notin closed
        BY <1>1, <1>4, <1>5 DEF Ended
    <2>2. status["reader"] = "nil" =>
             /\ reading' = "none"
             /\ \/ "writer" \in closed' /\ taken' = sent'
                \/ \E k \in 1 .. Len(script') : script'[k].type = "END" /\ taken' = StartOf(k + 1)'
        BY <1>1, <1>2, <1>3, <2>1, EndedStays
    <2> QED
        BY <2>2, <1>1, <1>2, <1>3 DEF Ended
<1>11. Tally'
    <2>1. counted \in [Ends -> Nat] /\ counted["reader"] + part = taken
        BY <1>1 DEF Tally
    <2> QED
        BY <2>1, <1>1, <1>2, <1>3, <1>4, <1>6, TallyStays
<1> QED
    BY <1>7, <1>8, <1>9, <1>10, <1>11 DEF Framed

\* A side that is killed or hangs says nothing more, and closing the stream
\* or cancelling moves no byte.
LEMMA CallerFrames ==
    ASSUME Stopping, Framed, NEW e \in Ends,
           CallerCloses(e) \/ Cancel(e) \/ Kill(e) \/ Hang(e)
    PROVE  Framed'
<1>1. /\ WriterTypes /\ ReaderTypes /\ WriterAt /\ ReaderAt /\ Capacity /\ Ended /\ Tally
    BY DEF Stopping, Framed
<1>2. UNCHANGED <<writing, sent, got, ask, parsing, counted, script, room>>
    BY DEF CallerCloses, Cancel, Kill, Hang, env
<1>3. UNCHANGED <<msg, goal, taken, reading, rest, part>>
    BY <1>2 DEF writing, parsing
<1>4. /\ status' = status \/ \E r \in {"killed", "hung"} : status' = [status EXCEPT ![e] = r]
      /\ closed' = closed \/ (closed' = closed \union {e} /\ status'[e] # "running")
      /\ status' # status => status[e] = "running"
    BY <1>1 DEF CallerCloses, Cancel, Kill, Hang, env, Becomes, Returned, Ended
<1>5. msg = Len(script) + 1 => sent' = goal
    BY <1>1, <1>2 DEF WriterAt
<1>6. WriterAt' /\ ReaderAt'
    BY <1>1, <1>2, <1>3, <1>5, WriterStays, ReaderStays
<1>7. Capacity'
    BY <1>1, <1>2, <1>3 DEF Capacity, Wanted
<1>8. /\ status' \in [Ends -> {"running", "nil", "error", "cancelled", "killed", "hung"}]
      /\ \A x \in Ends : status'[x] = status[x] \/
             (x = e /\ status[x] = "running" /\ status'[x] \in {"killed", "hung"})
    BY <1>1, <1>4 DEF Ended
<1>9. "writer" \in Ends /\ "reader" \in Ends
    BY DEF Ends
<1>10. Ended'
    <2>1. \A x \in Ends \cap closed' : status'[x] # "running"
        BY <1>1, <1>4, <1>8 DEF Ended
    <2>2. status'["writer"] = "nil" => msg' = Len(script') + 1
        BY <1>1, <1>2, <1>3, <1>8, <1>9 DEF Ended
    <2>3. status'["reader"] = "nil" =>
             /\ reading' = "none"
             /\ \/ "writer" \in closed' /\ taken' = sent'
                \/ \E k \in 1 .. Len(script') : script'[k].type = "END" /\ taken' = StartOf(k + 1)'
        <3>1. status'["reader"] = "nil" => status["reader"] = "nil"
            BY <1>8, <1>9
        <3>2. closed \subseteq closed' /\ status["reader"] = "nil" => status'["reader"] = "nil"
            BY <1>4, <1>8, <1>9
        <3>3. closed \subseteq closed'
            BY <1>4
        <3> QED
            BY <3>1, <3>2, <3>3, <1>1, <1>2, <1>3, EndedStays
    <2> QED
        BY <2>1, <2>2, <2>3, <1>8 DEF Ended
<1>11. Tally'
    <2>1. counted \in [Ends -> Nat] /\ counted["reader"] + part = taken
        BY <1>1 DEF Tally
    <2>2. status'["writer"] = status["writer"] \/ status'["writer"] \in {"killed", "hung"}
        BY <1>8, <1>9
    <2> QED
        BY <2>1, <2>2, <1>1, <1>2, <1>3, <1>5, TallyStays
<1> QED
    BY <1>6, <1>7, <1>10, <1>11 DEF Framed

LEMMA InitFrames == Init => Framed
<1> SUFFICES ASSUME Init PROVE Framed
    OBVIOUS
<1>1. script \in Scripts /\ Len(script) \in Nat /\ room \in Nat /\ Buf \in Nat
    BY MessagesFollow, FramingAssumption DEF Init
<1>2. StartOf(1) = 0 /\ 1 \in 1 .. Len(script) + 1 /\ Total = StartOf(Len(script) + 1)
    BY <1>1, MessagesFollow
<1>3. WriterAt /\ Before = 0
    <2>1. CASE 1 <= Len(script)
        <3>1. script[1] \in Message
            BY <1>1, <2>1, MessagesFollow
        <3>2. /\ 1 \in 1 .. Len(WriteFields(script[1]))
              /\ FieldAt(script[1], 1) = 0 /\ WriteFields(script[1])[1].len = 1
            BY <3>1, FieldsFollow
        <3>3. FieldStart(1, 1) = 0
            BY <3>2, <1>2 DEF FieldStart
        <3>4. msg = 1 /\ fld = 1 /\ left = 1 /\ put = 0
            BY DEF Init
        <3>5. FieldStart(msg, fld) = 0 /\ Field.len = 1
            BY <3>2, <3>3, <3>4 DEF Field
        <3>6. 1 # Len(script) + 1
            BY <1>1, <2>1
        <3> QED
            BY <3>2, <3>4, <3>5, <3>6, <2>1, <1>1, <1>2 DEF WriterAt, Before
    <2>2. CASE ~(1 <= Len(script))
        <3>1. Len(script) + 1 = 1
            BY <1>1, <2>2
        <3> QED
            BY <3>1, <2>2, <1>1, <1>2 DEF Init, WriterAt, Before
    <2> QED
        BY <2>1, <2>2
<1>4. ReaderAt
    <2>1. Told(1)
        BY DEF Told
    <2>2. AtMessage(1)
        BY <1>2 DEF AtMessage, Init
    <2> QED
        BY <2>1, <2>2, <1>2 DEF ReaderAt
<1>5. Capacity
    BY <1>1 DEF Init, Capacity
<1>6. Ended
    BY DEF Init, Ended, Ends
<1>7. Tally
    <2>1. TextsBefore(0) = 0
        <3>1. Texts(0) = {}
            <4>1. \A k \in 1 .. Len(script) : StartOf(k) \in Nat
                BY <1>1, StartsAreNumbers
            <4>2. DOMAIN script = 1 .. Len(script)
                BY <1>1, MessagesFollow
            <4> QED
                BY <4>1, <4>2 DEF Texts
        <3> QED
            BY <3>1, <1>1, TextsFinite, FS_EmptySet
    <2>2. status["writer"] = "running" /\ counted = [x \in Ends |-> 0] /\ part = 0 /\ taken = 0
        BY DEF Init, Ends
    <2>3. counted["writer"] = 0 /\ counted["reader"] = 0 /\ counted \in [Ends -> Nat]
        BY <2>2 DEF Ends
    <2>4. TextsBefore(Before) = 0
        BY <2>1, <1>3
    <2> QED
        BY <2>2, <2>3, <2>4, <1>3 DEF Tally, Returned
<1> QED
    BY <1>3, <1>4, <1>5, <1>6, <1>7 DEF Framed

\* Both ends are in the same message, in every reachable state.
THEOREM EndsAgree == Spec => [](Stopping /\ Framed)
<1>1. Stopping /\ Framed /\ [Next]_vars => Framed'
    <2> SUFFICES ASSUME Stopping, Framed, [Next]_vars PROVE Framed'
        OBVIOUS
    <2>1. CASE AtRest \/ UNCHANGED vars
        <3>1. UNCHANGED <<writing, sent, got, ask, parsing, counted, status, script, room, closed>>
            BY <2>1 DEF AtRest, vars, env
        <3>2. UNCHANGED <<msg, fld, left, put, goal, taken, reading, rest, part, szPage>>
            BY <3>1 DEF writing, parsing
        <3>3. /\ WriterAt /\ ReaderAt /\ Capacity /\ Ended /\ Tally
              /\ msg = Len(script) + 1 => sent' = goal
            BY <3>1 DEF Framed, WriterAt
        <3>4. WriterAt' /\ ReaderAt'
            BY <3>1, <3>3, WriterStays, ReaderStays
        <3>5. Capacity'
            BY <3>1, <3>2, <3>3 DEF Capacity, Wanted
        <3>6. Ended'
            <4>1. \A k : StartOf(k)' = StartOf(k)
                BY <3>1, SameScript
            <4> QED
                BY <4>1, <3>1, <3>2, <3>3 DEF Ended
        <3>7. Tally'
            <4>1. counted \in [Ends -> Nat] /\ counted["reader"] + part = taken
                BY <3>3 DEF Tally
            <4> QED
                BY <4>1, <3>1, <3>2, <3>3, TallyStays
        <3> QED
            BY <3>4, <3>5, <3>6, <3>7 DEF Framed
    <2> QED
        BY <2>1, WriterFrames, ReaderFrames, StreamFrames, CallerFrames DEF Next
<1>2. Init => Framed
    BY InitFrames
<1> QED
    BY StreamStops, <1>1, <1>2, PTL DEF Spec

-----------------------------------------------------------------------------
(* What the runs check.                                                    *)

\* The positions keep their order and no buffer holds more than it can.
THEOREM FramingTypes == Spec => []TypeOK
<1>1. Stopping /\ Framed => TypeOK
    <2> SUFFICES ASSUME Stopping, Framed PROVE TypeOK
        OBVIOUS
    <2>1. WriterTypes /\ ReaderTypes /\ Positions /\ WriterAt /\ Capacity /\ Ended
        BY DEF Stopping, Framed
    <2>2. put <= Total
        BY <2>1, WriterPlaced
    <2>3. /\ put \in Nat /\ sent \in Nat /\ got \in Nat /\ taken \in Nat /\ room \in Nat
          /\ Buf \in Nat /\ ask \in Nat
        BY <2>1, FramingAssumption DEF WriterTypes, ReaderTypes, Capacity
    <2>4. Wanted \in Int
        <3>1. 1 \in 1 .. Len(rest) /\ Longest \in Nat
            BY <2>1, LongestIsLongest DEF ReaderTypes
        <3>2. rest[1] \in 0 .. Longest
            BY <3>1, <2>1 DEF ReaderTypes
        <3> QED
            BY <3>1, <3>2, <2>1 DEF ReaderTypes, Wanted
    <2>5. sent - got <= room
        BY <2>1, <2>3 DEF Capacity
    <2>6. got - taken <= IF Wanted > Buf THEN Wanted ELSE Buf
        <3>1. got + ask <= taken + Wanted \/ got + ask <= taken + Buf
            BY <2>1 DEF Capacity
        <3> HIDE DEF Wanted
        <3> QED
            BY <3>1, <2>3, <2>4
    <2>7. sent = goal => put - sent <= Buf
        BY <2>1, <2>3 DEF Positions
    <2> QED
        BY <2>1, <2>2, <2>5, <2>6, <2>7 DEF TypeOK, Positions, Ended, ReaderTypes
<1> QED
    BY <1>1, EndsAgree, PTL

\* Where the reader looks for a message, the writer began one.
THEOREM ReaderInStep == Spec => []InStep
<1>1. Framed => InStep
    <2> SUFFICES ASSUME Framed, reading = "none" PROVE taken \in Starts
        BY DEF InStep
    <2>1. PICK k \in 1 .. Len(script) + 1 : AtMessage(k) \/ \E f \in Nat : InMessage(k, f)
        BY DEF Framed, ReaderAt
    <2>2. ASSUME NEW f \in Nat, InMessage(k, f) PROVE FALSE
        <3>1. script[k] \in Message
            BY <2>2, MessagesFollow DEF InMessage, Framed, WriterAt
        <3> QED
            BY <3>1, <2>2 DEF InMessage, Message
    <2> QED
        BY <2>1, <2>2 DEF AtMessage, Starts
<1> QED
    BY <1>1, EndsAgree, PTL

\* A run that ends without an error on the end of the stream has read whole
\* messages and all the stream took.
THEOREM StreamIsWhole == Spec => []NothingTorn
<1>1. Framed /\ InStep => NothingTorn
    <2> SUFFICES ASSUME Framed, InStep, status["reader"] = "nil"
                 PROVE  taken \in Starts /\ (taken = sent \/ MessageAt(taken - 1).type = "END")
        BY DEF NothingTorn
    <2>1. taken \in Starts
        BY DEF Framed, Ended, InStep
    <2>2. CASE taken = sent
        BY <2>1, <2>2
    <2>3. ASSUME NEW k \in 1 .. Len(script), script[k].type = "END", taken = StartOf(k + 1)
          PROVE  MessageAt(taken - 1).type = "END"
        <3>1. script \in Scripts
            BY DEF Framed, WriterAt
        <3>2. script[k] \in Message /\ StartOf(k + 1) = StartOf(k) + LengthOf(script[k])
            BY <3>1, MessagesFollow
        <3>3. LengthOf(script[k]) = 1
            <4> DEFINE W == WriteFields(script[k])
            <4>1. Len(W) = 2 /\ W[2].len = 0 /\ 2 \in 1 .. Len(W)
                <5>1. W = <<Byte, Flush>>
                    BY <2>3 DEF WriteFields
                <5> HIDE DEF W
                <5> QED
                    BY <5>1 DEF Flush
            <4>2. /\ FieldAt(script[k], 2 + 1) = FieldAt(script[k], 2) + 0
                  /\ FieldAt(script[k], 2) = 1 /\ LengthOf(script[k]) = FieldAt(script[k], 2 + 1)
                BY <4>1, <3>2, FieldsFollow
            <4> QED
                BY <4>2
        <3>4. StartOf(k) \in Nat
            BY <3>1, MessagesFollow, StartsAreNumbers
        <3>5. taken - 1 = StartOf(k)
            BY <3>2, <3>3, <3>4, <2>3
        <3> QED
            BY <3>1, <3>5, <2>3, MessageIsFound
    <2> QED
        BY <2>1, <2>2, <2>3 DEF Framed, Ended
<1> QED
    BY <1>1, ReaderInStep, EndsAgree, PTL

\* BytesReceived of one side against BytesSent of the other.
THEOREM StatsMeet == Spec => []CountersMeet
<1>1. Stopping /\ Framed => CountersMeet
    <2> SUFFICES ASSUME Stopping, Framed PROVE CountersMeet
        OBVIOUS
    <2>1. /\ WriterTypes /\ ReaderTypes /\ Positions /\ WriterAt /\ ReaderAt /\ Ended /\ Tally
          /\ script \in Scripts
        BY DEF Stopping, Framed, WriterAt
    <2>2. /\ taken \in Nat /\ part \in Nat /\ sent \in Nat /\ got \in Nat
          /\ counted["reader"] \in Nat /\ counted["writer"] \in Nat
          /\ counted["reader"] + part = taken /\ taken <= got /\ got <= sent
        BY <2>1 DEF WriterTypes, ReaderTypes, Positions, Tally, Ends
    <2> DEFINE b == taken - part
    <2>3. b = counted["reader"] /\ b \in Nat /\ b <= taken /\ b <= sent
        BY <2>2
    <2>4. Total \in Nat /\ Total = StartOf(Len(script) + 1) /\ Len(script) \in Nat
        BY <2>1, MessagesFollow
    <2>5. b \in Boundaries /\ (taken = Total => part = 0)
        <3>1. PICK k \in 1 .. Len(script) + 1 : AtMessage(k) \/ \E f \in Nat : InMessage(k, f)
            BY <2>1 DEF ReaderAt
        <3>2. CASE AtMessage(k)
            <4>1. b = StartOf(k) /\ part = 0
                BY <3>2, <2>2 DEF AtMessage
            <4>2. CASE k = Len(script) + 1
                BY <4>1, <4>2, <2>3, <2>4 DEF Boundaries
            <4>3. CASE k # Len(script) + 1
                <5>1. k \in 1 .. Len(script)
                    BY <4>3, <2>4
                <5>2. script[k] \in Message
                    BY <5>1, <2>1, MessagesFollow
                <5>3. 1 \in 1 .. Len(WriteFields(script[k])) /\ FieldAt(script[k], 1) = 0
                    BY <5>2, FieldsFollow
                <5>4. FieldStart(k, 1) = b
                    BY <5>3, <4>1, <2>3 DEF FieldStart
                <5>5. FieldStart(k, 1) \in Boundaries
                    BY <5>1, <5>3, <2>1, FieldPlaced
                <5> QED
                    BY <5>4, <5>5, <4>1
            <4> QED
                BY <4>2, <4>3
        <3>3. ASSUME NEW f \in Nat, InMessage(k, f)
              PROVE  b \in Boundaries /\ (taken = Total => part = 0)
            <4> DEFINE at == FieldStart(k, f)
                       len == WriteFields(script[k])[f].len
            <4>1. /\ k \in 1 .. Len(script) /\ f \in 2 .. Len(WriteFields(script[k]))
                  /\ taken = at + part /\ (part = 0 \/ part < rest[1]) /\ Len(rest) > 0
                  /\ \A i \in 1 .. Len(rest) : rest[i] = WriteFields(script[k])[f + i - 1].len
                BY <3>3 DEF InMessage
            <4>2. rest[1] = len
                <5>1. 1 \in 1 .. Len(rest) /\ f + 1 - 1 = f
                    BY <4>1, <2>1 DEF ReaderTypes
                <5> QED
                    BY <5>1, <4>1
            <4>3. script[k] \in Message /\ f \in 1 .. Len(WriteFields(script[k]))
                BY <4>1, <2>1, MessagesFollow
            <4>4. /\ at \in Nat /\ len \in Nat /\ at \in Boundaries
                  /\ FieldStart(k, f + 1) = at + len
                  /\ FieldStart(k, f + 1) <= StartOf(k + 1) /\ StartOf(k + 1) <= Total
                  /\ StartOf(k + 1) \in Nat
                BY <4>1, <4>3, <2>1, FieldPlaced
            <4> HIDE DEF at, len
            <4>5. b = at
                BY <4>1, <4>4, <2>2
            <4>6. at + len <= Total
                BY <4>4, <2>4
            <4>7. taken = Total => part = 0
                BY <4>1, <4>2, <4>4, <4>6, <2>2, <2>4
            <4> QED
                BY <4>4, <4>5, <4>7
        <3> QED
            BY <3>1, <3>2, <3>3
    <2>6. ASSUME Returned("writer")
          PROVE  counted["reader"] <= counted["writer"] + TextsBefore(taken)
        <3>1. b <= counted["writer"] + TextsBefore(b)
            BY <2>1, <2>3, <2>5, <2>6 DEF Tally
        <3>2. TextsBefore(b) \in Nat /\ TextsBefore(taken) \in Nat /\ TextsBefore(b) <= TextsBefore(taken)
            BY <2>1, <2>2, <2>3, TextsGrow
        <3> QED
            BY <3>1, <3>2, <2>2, <2>3
    <2>7. ASSUME status["writer"] = "nil", taken = Total
          PROVE  counted["reader"] = counted["writer"] + TextsBefore(taken)
        <3>1. Before = Total
            <4>1. ~(msg <= Len(script))
                BY <2>1, <2>4, <2>7 DEF Ended
            <4> QED
                BY <4>1 DEF Before
        <3>2. counted["writer"] + TextsBefore(Before) = Before
            BY <2>1, <2>7 DEF Tally
        <3>3. counted["reader"] = taken
            BY <2>2, <2>5, <2>7
        <3> QED
            BY <3>1, <3>2, <3>3, <2>7
    <2> QED
        BY <2>6, <2>7 DEF CountersMeet
<1> QED
    BY <1>1, EndsAgree, PTL
=============================================================================
