------------------------------- MODULE SyncProof -------------------------------
(***************************************************************************)
(* What the operators of the run compute: sequences of messages, ascending *)
(* page numbers, rounds of hashes, and where the counters stand after them.*)
(* Then the inductive invariant of a run, action by action, and what       *)
(* follows from it, the properties the runs check: for every size of the   *)
(* files, every way to cut them into ranges and every capacity of the      *)
(* stream.                                                                 *)
(***************************************************************************)
EXTENDS SyncInvariant, Resync, DataProof, Induction, FiniteSetTheorems, SequenceTheorems

(***************************************************************************)
(* Sequences of messages.                                                  *)
(***************************************************************************)

LEMMA HasNothing ==
    ASSUME NEW types
    PROVE  ~Has(<<>>, types)
    BY DEF Has

LEMMA HasTail ==
    ASSUME NEW msgs \in Seq(Message), msgs # <<>>, NEW types
    PROVE  Has(msgs, types) <=> Head(msgs).type \in types \/ Has(Tail(msgs), types)
<1>1. Has(Tail(msgs), types) => Has(msgs, types)
    <2> SUFFICES ASSUME NEW k \in DOMAIN Tail(msgs), Tail(msgs)[k].type \in types
                 PROVE  Has(msgs, types)
        BY DEF Has
    <2>1. k + 1 \in DOMAIN msgs /\ msgs[k + 1] = Tail(msgs)[k]
        OBVIOUS
    <2> QED
        BY <2>1 DEF Has
<1>2. Head(msgs).type \in types => Has(msgs, types)
    <2>1. 1 \in DOMAIN msgs /\ Head(msgs) = msgs[1]
        OBVIOUS
    <2> QED
        BY <2>1 DEF Has
<1>3. ASSUME NEW k \in DOMAIN msgs, msgs[k].type \in types
      PROVE  Head(msgs).type \in types \/ Has(Tail(msgs), types)
    <2>1. CASE k = 1
        BY <2>1, <1>3
    <2>2. CASE k # 1
        <3>1. k - 1 \in DOMAIN Tail(msgs) /\ Tail(msgs)[k - 1] = msgs[k]
            BY <2>2
        <3> QED
            BY <3>1, <1>3 DEF Has
    <2> QED
        BY <2>1, <2>2
<1> QED
    BY <1>1, <1>2, <1>3 DEF Has

\* a is what is left of b when messages are cut off at either end.
Within(a, b) ==
    \E i \in Nat : /\ Len(a) + i <= Len(b)
                   /\ \A k \in 1 .. Len(a) : a[k] = b[k + i]

LEMMA TailWithin ==
    ASSUME NEW msgs \in Seq(Message), msgs # <<>>
    PROVE  Within(Tail(msgs), msgs)
<1>1. /\ Len(Tail(msgs)) + 1 <= Len(msgs)
      /\ \A k \in 1 .. Len(Tail(msgs)) : Tail(msgs)[k] = msgs[k + 1]
    OBVIOUS
<1> QED
    BY <1>1 DEF Within

LEMMA PrefixWithin ==
    ASSUME NEW msgs \in Seq(Message), NEW n \in 0 .. Len(msgs)
    PROVE  /\ SubSeq(msgs, 1, n) \in Seq(Message)
           /\ Len(SubSeq(msgs, 1, n)) = n
           /\ \A k \in 1 .. n : SubSeq(msgs, 1, n)[k] = msgs[k]
           /\ Within(SubSeq(msgs, 1, n), msgs)
<1>1. /\ SubSeq(msgs, 1, n) \in Seq(Message)
      /\ Len(SubSeq(msgs, 1, n)) = n
      /\ \A k \in 1 .. n : SubSeq(msgs, 1, n)[k] = msgs[k]
    OBVIOUS
<1>2. 0 \in Nat /\ n + 0 <= Len(msgs) /\ \A k \in 1 .. n : k + 0 = k
    OBVIOUS
<1> QED
    BY <1>1, <1>2 DEF Within

LEMMA SameWithin ==
    ASSUME NEW msgs \in Seq(Message)
    PROVE  Within(msgs, msgs)
<1>1. 0 \in Nat /\ Len(msgs) + 0 <= Len(msgs) /\ \A k \in 1 .. Len(msgs) : k + 0 = k
    OBVIOUS
<1> QED
    BY <1>1 DEF Within

LEMMA HasWithin ==
    ASSUME NEW a \in Seq(Message), NEW b \in Seq(Message), Within(a, b), NEW types,
           Has(a, types)
    PROVE  Has(b, types)
<1>1. PICK i \in Nat : /\ Len(a) + i <= Len(b)
                       /\ \A k \in 1 .. Len(a) : a[k] = b[k + i]
    BY DEF Within
<1>2. PICK k \in 1 .. Len(a) : a[k].type \in types
    BY DEF Has
<1>3. k + i \in DOMAIN b /\ b[k + i].type \in types
    BY <1>1, <1>2
<1> QED
    BY <1>3 DEF Has

LEMMA InOrderWithin ==
    ASSUME NEW a \in Seq(Message), NEW b \in Seq(Message), Within(a, b), InOrder(b)
    PROVE  InOrder(a)
<1>1. PICK i \in Nat : /\ Len(a) + i <= Len(b)
                       /\ \A k \in 1 .. Len(a) : a[k] = b[k + i]
    BY DEF Within
<1> SUFFICES ASSUME NEW j \in 1 .. Len(a), NEW k \in 1 .. Len(a), j < k
             PROVE  Precedes(a[j].type, a[k].type)
    BY DEF InOrder
<1>2. j + i \in DOMAIN b /\ k + i \in DOMAIN b /\ j + i < k + i
    BY <1>1
<1> QED
    BY <1>1, <1>2 DEF InOrder

LEMMA ElementWithin ==
    ASSUME NEW a \in Seq(Message), NEW b \in Seq(Message), Within(a, b),
           NEW k \in DOMAIN a
    PROVE  \E j \in DOMAIN b : a[k] = b[j]
<1>1. PICK i \in Nat : /\ Len(a) + i <= Len(b)
                       /\ \A l \in 1 .. Len(a) : a[l] = b[l + i]
    BY DEF Within
<1>2. k + i \in DOMAIN b
    BY <1>1
<1> QED
    BY <1>1, <1>2

(***************************************************************************)
(* Page numbers in ascending order.                                        *)
(***************************************************************************)

LEMMA AscendingUnfolds ==
    ASSUME NEW S, NEW n \in Nat
    PROVE  \E f \in [0 .. n -> Seq(Nat)] :
              /\ f[0] = <<>>
              /\ \A p \in 1 .. n : f[p] = IF p \in S THEN Append(f[p - 1], p) ELSE f[p - 1]
              /\ Ascending(S, n) = f[n]
<1> DEFINE Body(u) == [p \in 0 .. n |->
                IF p = 0 THEN <<>>
                ELSE IF p \in S THEN Append(u[p - 1], p) ELSE u[p - 1]]
           g == [x \in (1 .. n) \X Seq(Nat) |->
                    IF x[1] \in S THEN Append(x[2], x[1]) ELSE x[2]]
           upTo == CHOOSE u : u = Body(u)
<1>1. g \in Steps(n, Seq(Nat))
    BY DEF Steps
<1>2. <<>> \in Seq(Nat)
    OBVIOUS
<1>3. \E f : Iterates(f, <<>>, g, n, Seq(Nat))
    <2> HIDE DEF g
    <2> QED
        BY <1>1, <1>2, PrimitiveRecursion
<1>4. PICK f : /\ f \in [0 .. n -> Seq(Nat)] /\ f[0] = <<>>
               /\ \A p \in 1 .. n : f[p] = g[<<p, f[p - 1]>>]
    BY <1>3 DEF Iterates
<1>5. \A p \in 1 .. n : f[p] = IF p \in S THEN Append(f[p - 1], p) ELSE f[p - 1]
    <2> TAKE p \in 1 .. n
    <2>1. p - 1 \in 0 .. n
        OBVIOUS
    <2>2. f[p - 1] \in Seq(Nat)
        BY <2>1, <1>4
    <2>3. g[<<p, f[p - 1]>>] = IF p \in S THEN Append(f[p - 1], p) ELSE f[p - 1]
        BY <2>2
    <2> QED
        BY <1>4, <2>3
<1> HIDE DEF g
<1>6. f = Body(f)
    <2>1. \A p \in 0 .. n : f[p] = Body(f)[p]
        <3> TAKE p \in 0 .. n
        <3>1. CASE p = 0
            BY <3>1, <1>4
        <3>2. CASE p # 0
            <4>1. p \in 1 .. n
                BY <3>2
            <4> QED
                BY <4>1, <3>2, <1>5
        <3> QED
            BY <3>1, <3>2
    <2>2. DOMAIN f = 0 .. n /\ f = [p \in DOMAIN f |-> f[p]]
        BY <1>4
    <2> QED
        BY <2>1, <2>2
<1>7. upTo = Body(upTo)
    <2> HIDE DEF Body
    <2> QED
        BY <1>6
<1>8. Ascending(S, n) = upTo[n]
    BY DEF Ascending
<1> HIDE DEF upTo
<1>9. upTo[0] = <<>>
    BY <1>7
<1>10. ASSUME NEW p \in 1 .. n
       PROVE  upTo[p] = IF p \in S THEN Append(upTo[p - 1], p) ELSE upTo[p - 1]
    <2>1. p \in 0 .. n /\ p # 0
        OBVIOUS
    <2> QED
        BY <1>7, <2>1, Zenon
<1>11. upTo \in [0 .. n -> Seq(Nat)]
    <2> DEFINE T == {q \in 0 .. n : upTo[q] \in Seq(Nat)}
    <2>1. 0 \in T
        <3>1. 0 \in 0 .. n
            OBVIOUS
        <3> QED
            BY <1>2, <1>9, <3>1
    <2>2. ASSUME NEW k \in 0 .. n, k # n, k \in T
          PROVE  k + 1 \in T
        <3>1. k + 1 \in 1 .. n /\ (k + 1) - 1 = k
            BY <2>2
        <3>2. upTo[k + 1] = IF k + 1 \in S THEN Append(upTo[k], k + 1) ELSE upTo[k]
            BY <3>1, <1>10
        <3>3. upTo[k] \in Seq(Nat) /\ Append(upTo[k], k + 1) \in Seq(Nat)
            BY <2>2, <3>1
        <3>4. upTo[k + 1] \in Seq(Nat)
            BY <3>2, <3>3
        <3> QED
            BY <3>1, <3>4
    <2> HIDE DEF T
    <2>3. \A k \in 0 .. n : k \in T
        BY <2>1, <2>2, InductionTo
    <2>4. \A k \in 0 .. n : upTo[k] \in Seq(Nat)
        BY <2>3 DEF T
    <2>5. DOMAIN upTo = 0 .. n /\ upTo = [p \in DOMAIN upTo |-> upTo[p]]
        BY <1>7
    <2> QED
        BY <2>4, <2>5
<1> QED
    BY <1>8, <1>9, <1>10, <1>11

\* a has the members of S up to n, each once, in ascending order.
IsAscending(a, S, n) ==
    /\ a \in Seq(Nat)
    /\ \A k \in DOMAIN a : a[k] \in S /\ a[k] \in 1 .. n
    /\ \A j, k \in DOMAIN a : j < k => a[j] < a[k]
    /\ \A p \in 1 .. n : p \in S => \E k \in DOMAIN a : a[k] = p

LEMMA AscendingIs ==
    ASSUME NEW S, NEW n \in Nat
    PROVE  IsAscending(Ascending(S, n), S, n)
<1>1. PICK f \in [0 .. n -> Seq(Nat)] :
              /\ f[0] = <<>>
              /\ \A p \in 1 .. n : f[p] = IF p \in S THEN Append(f[p - 1], p) ELSE f[p - 1]
              /\ Ascending(S, n) = f[n]
    BY AscendingUnfolds
<1> DEFINE Is(m, a) ==
              /\ \A k \in DOMAIN a : a[k] \in S /\ a[k] \in 1 .. m
              /\ \A j, k \in DOMAIN a : j < k => a[j] < a[k]
              /\ \A p \in 1 .. m : p \in S => \E k \in DOMAIN a : a[k] = p
           T == {m \in 0 .. n : Is(m, f[m])}
<1>2. 0 \in T
    BY <1>1
<1>3. ASSUME NEW m \in 0 .. n, m # n, m \in T
      PROVE  m + 1 \in T
    <2> DEFINE a == f[m]
    <2>1. /\ a \in Seq(Nat) /\ Is(m, a) /\ m + 1 \in 1 .. n /\ m \in Nat
          /\ f[m + 1] = IF m + 1 \in S THEN Append(a, m + 1) ELSE a
        <3>1. m + 1 \in 1 .. n /\ (m + 1) - 1 = m
            BY <1>3
        <3> QED
            BY <3>1, <1>1, <1>3
    <2> HIDE DEF a
    <2>2. CASE m + 1 \in S
        <3> DEFINE b == Append(a, m + 1)
        <3>1. /\ DOMAIN b = 1 .. Len(a) + 1 /\ b[Len(a) + 1] = m + 1
              /\ \A k \in 1 .. Len(a) : b[k] = a[k]
              /\ DOMAIN a = 1 .. Len(a) /\ Len(a) \in Nat
            BY <2>1
        <3> HIDE DEF b
        <3>2. ASSUME NEW k \in DOMAIN b
              PROVE  /\ b[k] \in S /\ b[k] \in 1 .. m + 1
                     /\ \/ k \in DOMAIN a /\ b[k] = a[k] /\ b[k] < m + 1
                        \/ k = Len(a) + 1 /\ b[k] = m + 1
            <4>1. CASE k = Len(a) + 1
                BY <4>1, <3>1, <2>1, <2>2
            <4>2. CASE k # Len(a) + 1
                <5>1. k \in DOMAIN a /\ b[k] = a[k]
                    BY <4>2, <3>1
                <5>2. a[k] \in S /\ a[k] \in 1 .. m
                    BY <5>1, <2>1
                <5> QED
                    BY <5>1, <5>2, <2>1
            <4> QED
                BY <4>1, <4>2
        <3>3. \A j, k \in DOMAIN b : j < k => b[j] < b[k]
            <4> SUFFICES ASSUME NEW j \in DOMAIN b, NEW k \in DOMAIN b, j < k
                         PROVE  b[j] < b[k]
                OBVIOUS
            <4>1. j \in DOMAIN a /\ b[j] = a[j] /\ b[j] < m + 1
                BY <3>1, <3>2
            <4>2. CASE k = Len(a) + 1
                BY <4>1, <4>2, <3>1
            <4>3. CASE k # Len(a) + 1
                BY <4>1, <4>3, <3>2, <2>1
            <4> QED
                BY <4>2, <4>3
        <3>4. \A p \in 1 .. m + 1 : p \in S => \E k \in DOMAIN b : b[k] = p
            <4> SUFFICES ASSUME NEW p \in 1 .. m + 1, p \in S
                         PROVE  \E k \in DOMAIN b : b[k] = p
                OBVIOUS
            <4>1. CASE p = m + 1
                <5>1. Len(a) + 1 \in DOMAIN b
                    BY <3>1
                <5> QED
                    BY <5>1, <4>1, <3>1
            <4>2. CASE p # m + 1
                <5>1. PICK k \in DOMAIN a : a[k] = p
                    BY <4>2, <2>1
                <5>2. k \in DOMAIN b
                    BY <3>1
                <5> QED
                    BY <5>1, <5>2, <3>1
            <4> QED
                BY <4>1, <4>2
        <3>5. Is(m + 1, b)
            BY <3>2, <3>3, <3>4
        <3>6. f[m + 1] = b
            BY <2>1, <2>2 DEF b
        <3>7. m + 1 \in 0 .. n
            BY <2>1
        <3> HIDE DEF Is
        <3> QED
            BY <3>5, <3>6, <3>7
    <2>3. CASE m + 1 \notin S
        <3>1. Is(m + 1, a)
            <4>1. \A p \in 1 .. m + 1 : p \in 1 .. m \/ p = m + 1
                BY <2>1
            <4>2. \A k \in DOMAIN a : a[k] \in 1 .. m + 1
                BY <2>1
            <4> QED
                BY <2>1, <2>3, <4>1, <4>2
        <3>2. f[m + 1] = a
            BY <2>1, <2>3
        <3>3. m + 1 \in 0 .. n
            BY <2>1
        <3> HIDE DEF Is
        <3> QED
            BY <3>1, <3>2, <3>3
    <2> QED
        BY <2>2, <2>3
<1>4. \A k \in 0 .. n : k \in T
    <2> HIDE DEF T
    <2> QED
        BY <1>2, <1>3, InductionTo
<1>5. n \in T
    BY <1>4
<1> QED
    BY <1>1, <1>5 DEF IsAscending

\* With every page in S they are just the pages.
LEMMA AscendingAll ==
    ASSUME NEW n \in Nat, NEW S, 1 .. n \subseteq S
    PROVE  Ascending(S, n) = [k \in 1 .. n |-> k]
<1>1. PICK f \in [0 .. n -> Seq(Nat)] :
              /\ f[0] = <<>>
              /\ \A p \in 1 .. n : f[p] = IF p \in S THEN Append(f[p - 1], p) ELSE f[p - 1]
              /\ Ascending(S, n) = f[n]
    BY AscendingUnfolds
<1> DEFINE T == {m \in 0 .. n : Len(f[m]) = m /\ \A k \in 1 .. m : f[m][k] = k}
<1>2. 0 \in T
    BY <1>1
<1>3. ASSUME NEW m \in 0 .. n, m # n, m \in T
      PROVE  m + 1 \in T
    <2>0. m + 1 \in 1 .. n /\ (m + 1) - 1 = m
        BY <1>3
    <2>1. /\ m + 1 \in S /\ f[m] \in Seq(Nat)
          /\ Len(f[m]) = m /\ \A k \in 1 .. m : f[m][k] = k
        BY <2>0, <1>3
    <2>2. f[m + 1] = IF m + 1 \in S THEN Append(f[m], m + 1) ELSE f[m]
        BY <2>0, <1>1
    <2>3. Len(f[m + 1]) = m + 1
        BY <2>1, <2>2
    <2>4. \A k \in 1 .. m + 1 : f[m + 1][k] = k
        BY <2>1, <2>2
    <2> QED
        BY <2>0, <2>3, <2>4
<1>4. \A k \in 0 .. n : k \in T
    <2> HIDE DEF T
    <2> QED
        BY <1>2, <1>3, InductionTo
<1>5. Len(f[n]) = n /\ f[n] \in Seq(Nat) /\ \A k \in 1 .. n : f[n][k] = k
    BY <1>4
<1> QED
    BY <1>1, <1>5

(***************************************************************************)
(* Pieces one after the other.                                             *)
(***************************************************************************)

LEMMA FlattenUnfolds ==
    ASSUME NEW T, NEW seqs \in Seq(Seq(T))
    PROVE  \E f \in [0 .. Len(seqs) -> Seq(T)] :
              /\ f[0] = <<>>
              /\ \A k \in 1 .. Len(seqs) : f[k] = f[k - 1] \o seqs[k]
              /\ FlattenSeq(seqs) = f[Len(seqs)]
<1> DEFINE n == Len(seqs)
           Body(u) == [i \in 1 .. n |-> IF i = 1 THEN seqs[i] ELSE u[i - 1] \o seqs[i]]
           g == [x \in (1 .. n) \X Seq(T) |-> x[2] \o seqs[x[1]]]
           flatten == CHOOSE u : u = Body(u)
<1>1. n \in Nat /\ \A k \in 1 .. n : seqs[k] \in Seq(T)
    OBVIOUS
<1>2. <<>> \in Seq(T)
    OBVIOUS
<1>3. g \in Steps(n, Seq(T))
    <2> SUFFICES ASSUME NEW x \in (1 .. n) \X Seq(T)
                 PROVE  x[2] \o seqs[x[1]] \in Seq(T)
        BY DEF Steps
    <2>1. x[2] \in Seq(T) /\ seqs[x[1]] \in Seq(T)
        BY <1>1
    <2> QED
        BY <2>1, ConcatProperties
<1>4. PICK f : /\ f \in [0 .. n -> Seq(T)] /\ f[0] = <<>>
               /\ \A k \in 1 .. n : f[k] = g[<<k, f[k - 1]>>]
    <2>1. \E f : Iterates(f, <<>>, g, n, Seq(T))
        <3> HIDE DEF g, n
        <3> QED
            BY <1>1, <1>2, <1>3, PrimitiveRecursion
    <2> HIDE DEF g, n
    <2> QED
        BY <2>1 DEF Iterates
<1>5. \A k \in 1 .. n : f[k] = f[k - 1] \o seqs[k]
    <2> TAKE k \in 1 .. n
    <2>1. k - 1 \in 0 .. n
        BY <1>1
    <2>2. f[k - 1] \in Seq(T)
        BY <2>1, <1>4
    <2>3. g[<<k, f[k - 1]>>] = f[k - 1] \o seqs[k]
        BY <2>2
    <2> QED
        BY <1>4, <2>3
<1> HIDE DEF g
<1>6. CASE n = 0
    <2>1. FlattenSeq(seqs) = seqs /\ seqs = <<>>
        BY <1>6 DEF FlattenSeq
    <2> QED
        BY <2>1, <1>4, <1>5, <1>6
<1>7. CASE n # 0
    <2>1. FlattenSeq(seqs) = flatten[n]
        BY <1>7 DEF FlattenSeq
    <2> DEFINE v == [k \in 1 .. n |-> f[k]]
    <2> HIDE DEF n
    <2>2. v = Body(v)
        <3>1. ASSUME NEW i \in 1 .. n
              PROVE  f[i] = IF i = 1 THEN seqs[i] ELSE v[i - 1] \o seqs[i]
            <4>1. CASE i = 1
                <5>1. i - 1 = 0 /\ i \in 1 .. n
                    BY <4>1
                <5>2. f[i] = f[0] \o seqs[i]
                    BY <5>1, <1>5
                <5>3. <<>> \o seqs[i] = seqs[i]
                    BY <1>1, ConcatEmptySeq
                <5> QED
                    BY <4>1, <5>2, <5>3, <1>4
            <4>2. CASE i # 1
                <5>1. i - 1 \in 1 .. n
                    BY <4>2, <1>1
                <5> QED
                    BY <4>2, <5>1, <1>5
            <4> QED
                BY <4>1, <4>2
        <3> QED
            BY <3>1, Zenon
    <2>3. flatten = Body(flatten)
        <3> HIDE DEF Body, v
        <3> QED
            BY <2>2
    <2> HIDE DEF flatten
    <2>9. ASSUME NEW i \in 1 .. n
          PROVE  flatten[i] = IF i = 1 THEN seqs[i] ELSE flatten[i - 1] \o seqs[i]
        BY <2>3, Zenon
    <2>10. ASSUME NEW i \in 1 .. n
           PROVE  f[i] = f[i - 1] \o seqs[i]
        BY <1>5
    <2> DEFINE C == {k \in 0 .. n : k = 0 \/ flatten[k] = f[k]}
    <2>4. 0 \in C
        BY <1>1
    <2>5. ASSUME NEW k \in 0 .. n, k # n, k \in C
          PROVE  k + 1 \in C
        <3>1. k + 1 \in 1 .. n /\ (k + 1) - 1 = k /\ k + 1 \in 0 .. n
            BY <2>5, <1>1
        <3>2. flatten[k + 1] = IF k + 1 = 1 THEN seqs[k + 1] ELSE flatten[k] \o seqs[k + 1]
            <4>1. flatten[k + 1] = IF k + 1 = 1 THEN seqs[k + 1]
                                   ELSE flatten[(k + 1) - 1] \o seqs[k + 1]
                BY <3>1, <2>9
            <4> QED
                BY <3>1, <4>1
        <3>3. f[k + 1] = f[k] \o seqs[k + 1]
            <4>1. f[k + 1] = f[(k + 1) - 1] \o seqs[k + 1]
                BY <3>1, <2>10
            <4> QED
                BY <3>1, <4>1
        <3>4. CASE k = 0
            <4>1. <<>> \o seqs[k + 1] = seqs[k + 1]
                BY <3>1, <1>1, ConcatEmptySeq
            <4>2. f[k] = <<>>
                BY <3>4, <1>4
            <4> QED
                BY <4>1, <4>2, <3>1, <3>2, <3>3, <3>4
        <3>5. CASE k # 0
            <4>1. k + 1 # 1 /\ flatten[k] = f[k]
                BY <2>5, <3>5
            <4> QED
                BY <4>1, <3>1, <3>2, <3>3
        <3> QED
            BY <3>4, <3>5
    <2>6. \A k \in 0 .. n : k \in C
        <3> HIDE DEF C
        <3> QED
            BY <1>1, <2>4, <2>5, InductionTo
    <2>7. n \in C
        BY <2>6, <1>1
    <2>8. flatten[n] = f[n]
        BY <2>7, <1>7
    <2> QED
        BY <2>1, <2>8, <1>4, <1>5 DEF n
<1> QED
    BY <1>6, <1>7

(***************************************************************************)
(* Where the counters stand.                                               *)
(***************************************************************************)

LEMMA PlusIs ==
    ASSUME NEW m \in Nat, NEW n \in Nat
    PROVE  /\ Plus(m, n) \in 0 .. Modulus - 1
           /\ m + n < Modulus => Plus(m, n) = m + n
    BY RsyncAssumption DEF Plus

LEMMA AdvancedIs ==
    ASSUME NEW r \in Nat \X Nat, NEW m \in ReplicaMessages
    PROVE  Advanced(r, m) \in Nat \X Nat
<1>1. m.type = "REPLICA_CONFIG" => m.fpg \in Nat /\ m.npg \in Nat
    BY DEF ReplicaMessages
<1>2. Plus(r[1], r[2]) \in Nat /\ r[2] \in Nat
    BY PlusIs, RsyncAssumption
<1> QED
    BY <1>1, <1>2 DEF Advanced

LEMMA PositionsUnfold ==
    ASSUME NEW msgs \in Seq(ReplicaMessages), NEW r \in Nat \X Nat
    PROVE  /\ Positions(msgs, r) \in [0 .. Len(msgs) -> Nat \X Nat]
           /\ Positions(msgs, r)[0] = r
           /\ \A k \in 1 .. Len(msgs) :
                Positions(msgs, r)[k] = Advanced(Positions(msgs, r)[k - 1], msgs[k])
<1> DEFINE n == Len(msgs)
           T == Nat \X Nat
           Body(u) == [k \in 0 .. n |-> IF k = 0 THEN r ELSE Advanced(u[k - 1], msgs[k])]
           g == [x \in (1 .. n) \X T |-> Advanced(x[2], msgs[x[1]])]
           at == CHOOSE u : u = Body(u)
<1>1. n \in Nat /\ \A k \in 1 .. n : msgs[k] \in ReplicaMessages
    OBVIOUS
<1>2. g \in Steps(n, T)
    <2> SUFFICES ASSUME NEW x \in (1 .. n) \X T
                 PROVE  Advanced(x[2], msgs[x[1]]) \in T
        BY DEF Steps
    <2>1. x[2] \in Nat \X Nat /\ msgs[x[1]] \in ReplicaMessages
        BY <1>1
    <2> QED
        BY <2>1, AdvancedIs
<1>3. PICK f : /\ f \in [0 .. n -> T] /\ f[0] = r
               /\ \A k \in 1 .. n : f[k] = g[<<k, f[k - 1]>>]
    <2>1. \E f : Iterates(f, r, g, n, T)
        <3> HIDE DEF g, n
        <3> QED
            BY <1>1, <1>2, PrimitiveRecursion
    <2> HIDE DEF g, n
    <2> QED
        BY <2>1 DEF Iterates
<1>4. \A k \in 1 .. n : f[k] = Advanced(f[k - 1], msgs[k])
    <2> TAKE k \in 1 .. n
    <2>1. k - 1 \in 0 .. n
        BY <1>1
    <2>2. f[k - 1] \in T
        BY <2>1, <1>3
    <2>3. g[<<k, f[k - 1]>>] = Advanced(f[k - 1], msgs[k])
        BY <2>2
    <2> QED
        BY <1>3, <2>3
<1> HIDE DEF g
<1>5. f = Body(f)
    <2>1. \A k \in 0 .. n : f[k] = Body(f)[k]
        <3> TAKE k \in 0 .. n
        <3>1. CASE k = 0
            BY <3>1, <1>3
        <3>2. CASE k # 0
            <4>1. k \in 1 .. n
                BY <3>2, <1>1
            <4> QED
                BY <4>1, <3>2, <1>4
        <3> QED
            BY <3>1, <3>2
    <2>2. DOMAIN f = 0 .. n /\ f = [k \in DOMAIN f |-> f[k]]
        BY <1>3
    <2> QED
        BY <2>1, <2>2
<1>6. at = Body(at)
    <2> HIDE DEF Body
    <2> QED
        BY <1>5
<1>7. Positions(msgs, r) = at
    BY DEF Positions
<1> HIDE DEF at
<1>8. at[0] = r
    BY <1>1, <1>6
<1>9. ASSUME NEW k \in 1 .. n
      PROVE  at[k] = Advanced(at[k - 1], msgs[k])
    <2>1. k \in 0 .. n /\ k # 0
        OBVIOUS
    <2> QED
        BY <1>6, <2>1, Zenon
<1>10. at \in [0 .. n -> T]
    <2> DEFINE C == {k \in 0 .. n : at[k] \in T}
    <2> HIDE DEF n
    <2>1. 0 \in C
        BY <1>1, <1>8
    <2>2. ASSUME NEW k \in 0 .. n, k # n, k \in C
          PROVE  k + 1 \in C
        <3>1. k + 1 \in 1 .. n /\ (k + 1) - 1 = k /\ k + 1 \in 0 .. n
            BY <2>2, <1>1
        <3>2. at[k + 1] = Advanced(at[k], msgs[k + 1])
            <4>1. at[k + 1] = Advanced(at[(k + 1) - 1], msgs[k + 1])
                BY <3>1, <1>9
            <4> QED
                BY <3>1, <4>1
        <3>3. at[k] \in Nat \X Nat /\ msgs[k + 1] \in ReplicaMessages
            BY <2>2, <3>1, <1>1
        <3>4. at[k + 1] \in T
            BY <3>2, <3>3, AdvancedIs
        <3> QED
            BY <3>1, <3>4
    <2>3. \A k \in 0 .. n : k \in C
        <3> HIDE DEF C
        <3> QED
            BY <1>1, <2>1, <2>2, InductionTo
    <2>4. \A k \in 0 .. n : at[k] \in T
        BY <2>3
    <2>5. DOMAIN at = 0 .. n /\ at = [k \in DOMAIN at |-> at[k]]
        <3>1. DOMAIN Body(at) = 0 .. n /\ Body(at) = [k \in DOMAIN Body(at) |-> Body(at)[k]]
            OBVIOUS
        <3> HIDE DEF Body
        <3> QED
            BY <3>1, <1>6, Zenon
    <2> QED
        BY <2>4, <2>5
<1> QED
    BY <1>7, <1>8, <1>9, <1>10

\* The counters of a part of a stream stand where those of the stream stand.
LEMMA PositionsShift ==
    ASSUME NEW a \in Seq(ReplicaMessages), NEW b \in Seq(ReplicaMessages),
           NEW r \in Nat \X Nat, NEW j \in Nat, Len(a) + j <= Len(b),
           \A k \in 1 .. Len(a) : a[k] = b[k + j]
    PROVE  /\ Positions(b, r)[j] \in Nat \X Nat
           /\ \A k \in 0 .. Len(a) :
                Positions(a, Positions(b, r)[j])[k] = Positions(b, r)[k + j]
<1> DEFINE n == Len(a)
           B == Positions(b, r)
           A == Positions(a, B[j])
           C == {k \in 0 .. n : A[k] = B[k + j]}
<1>1. n \in Nat /\ Len(b) \in Nat /\ j \in 0 .. Len(b)
    OBVIOUS
<1>2. /\ B \in [0 .. Len(b) -> Nat \X Nat]
      /\ \A k \in 1 .. Len(b) : B[k] = Advanced(B[k - 1], b[k])
    BY PositionsUnfold
<1> HIDE DEF B
<1>3. B[j] \in Nat \X Nat
    BY <1>1, <1>2
<1>4. A[0] = B[j] /\ \A k \in 1 .. n : A[k] = Advanced(A[k - 1], a[k])
    BY <1>3, PositionsUnfold
<1> HIDE DEF A
<1>5. 0 \in C
    BY <1>1, <1>4
<1>6. ASSUME NEW k \in 0 .. n, k # n, k \in C
      PROVE  k + 1 \in C
    <2>1. /\ k + 1 \in 1 .. n /\ (k + 1) - 1 = k /\ k + 1 \in 0 .. n
          /\ (k + 1) + j \in 1 .. Len(b) /\ ((k + 1) + j) - 1 = k + j
        BY <1>1, <1>6
    <2>2. A[k + 1] = Advanced(A[k], a[k + 1])
        BY <2>1, <1>4, Zenon
    <2>3. B[(k + 1) + j] = Advanced(B[k + j], b[(k + 1) + j])
        BY <2>1, <1>2, Zenon
    <2>4. a[k + 1] = b[(k + 1) + j]
        BY <2>1
    <2> QED
        BY <2>1, <2>2, <2>3, <2>4, <1>6
<1>7. \A k \in 0 .. n : k \in C
    <2> HIDE DEF C
    <2> QED
        BY <1>1, <1>5, <1>6, InductionTo
<1> QED
    BY <1>3, <1>7 DEF A, B

LEMMA NamesRangesShift ==
    ASSUME NEW a \in Seq(ReplicaMessages), NEW b \in Seq(ReplicaMessages),
           NEW r \in Nat \X Nat, NEW j \in Nat, Len(a) + j <= Len(b),
           \A k \in 1 .. Len(a) : a[k] = b[k + j],
           NEW db, NamesRanges(b, r, db)
    PROVE  NamesRanges(a, Positions(b, r)[j], db)
<1> DEFINE B == Positions(b, r)
           A == Positions(a, B[j])
<1>1. \A k \in HashesIn(b) :
            /\ Bounded(B[k - 1])
            /\ db # <<>> => b[k].hash = HashOf(db, B[k - 1][1], B[k - 1][2])
    BY DEF NamesRanges
<1>2. \A k \in 0 .. Len(a) : A[k] = B[k + j]
    BY PositionsShift
<1> HIDE DEF B
<1> SUFFICES ASSUME NEW k \in HashesIn(a)
             PROVE  /\ Bounded(A[k - 1])
                    /\ db # <<>> => a[k].hash = HashOf(db, A[k - 1][1], A[k - 1][2])
    BY DEF NamesRanges, B
<1> HIDE DEF A
<1>3. k \in 1 .. Len(a) /\ a[k].type = "REPLICA_HASH"
    BY DEF HashesIn
<1>4. k + j \in HashesIn(b) /\ a[k] = b[k + j]
    BY <1>3 DEF HashesIn
<1>5. k - 1 \in 0 .. Len(a) /\ (k - 1) + j = (k + j) - 1
    BY <1>3
<1>6. A[k - 1] = B[(k + j) - 1]
    BY <1>2, <1>5, Zenon
<1> QED
    BY <1>1, <1>4, <1>6

LEMMA NoHashNamesRanges ==
    ASSUME NEW msgs, HashesIn(msgs) = {}, NEW r, NEW db
    PROVE  NamesRanges(msgs, r, db)
    BY DEF NamesRanges

LEMMA PrefixNamesRanges ==
    ASSUME NEW a \in Seq(ReplicaMessages), NEW b \in Seq(ReplicaMessages),
           NEW r \in Nat \X Nat, Len(a) <= Len(b), \A k \in 1 .. Len(a) : a[k] = b[k],
           NEW db, NamesRanges(b, r, db)
    PROVE  NamesRanges(a, r, db)
<1>1. 0 \in Nat /\ Len(a) + 0 <= Len(b) /\ \A k \in 1 .. Len(a) : k + 0 = k
    OBVIOUS
<1>2. \A k \in 1 .. Len(a) : a[k] = b[k + 0]
    BY <1>1
<1>3. Positions(b, r)[0] = r
    BY PositionsUnfold
<1>4. NamesRanges(a, Positions(b, r)[0], db)
    BY <1>1, <1>2, NamesRangesShift
<1> QED
    BY <1>3, <1>4

\* Reading a message moves the counters to where the rest begins.
LEMMA TailNamesRanges ==
    ASSUME NEW msgs \in Seq(ReplicaMessages), msgs # <<>>, NEW r \in Nat \X Nat,
           NEW db, NamesRanges(msgs, r, db)
    PROVE  /\ NamesRanges(Tail(msgs), Advanced(r, Head(msgs)), db)
           /\ Head(msgs).type = "REPLICA_HASH" =>
                /\ Bounded(r)
                /\ db # <<>> => Head(msgs).hash = HashOf(db, r[1], r[2])
<1>1. /\ 1 \in 1 .. Len(msgs) /\ Head(msgs) = msgs[1] /\ 1 - 1 = 0
      /\ Tail(msgs) \in Seq(ReplicaMessages) /\ Len(Tail(msgs)) + 1 <= Len(msgs)
      /\ \A k \in 1 .. Len(Tail(msgs)) : Tail(msgs)[k] = msgs[k + 1]
    OBVIOUS
<1>2. Positions(msgs, r)[0] = r
    BY PositionsUnfold
<1>3. Positions(msgs, r)[1] = Advanced(r, Head(msgs))
    <2>0. \A k \in 1 .. Len(msgs) :
            Positions(msgs, r)[k] = Advanced(Positions(msgs, r)[k - 1], msgs[k])
        BY PositionsUnfold
    <2>1. Positions(msgs, r)[1] = Advanced(Positions(msgs, r)[1 - 1], msgs[1])
        BY <1>1, <2>0, Zenon
    <2> QED
        BY <1>1, <1>2, <2>1
<1>4. NamesRanges(Tail(msgs), Positions(msgs, r)[1], db)
    BY <1>1, NamesRangesShift
<1>5. ASSUME Head(msgs).type = "REPLICA_HASH"
      PROVE  /\ Bounded(r)
             /\ db # <<>> => Head(msgs).hash = HashOf(db, r[1], r[2])
    <2>1. 1 \in HashesIn(msgs)
        BY <1>1, <1>5 DEF HashesIn
    <2>2. /\ Bounded(Positions(msgs, r)[1 - 1])
          /\ db # <<>> => msgs[1].hash = HashOf(db, Positions(msgs, r)[1 - 1][1],
                                                    Positions(msgs, r)[1 - 1][2])
        BY <2>1, Zenon DEF NamesRanges
    <2>3. Positions(msgs, r)[1 - 1] = r
        BY <1>1, <1>2
    <2> QED
        BY <2>2, <2>3, <1>1
<1> QED
    BY <1>3, <1>4, <1>5

\* The counters on the way are the same with one more message behind.
LEMMA AppendPositions ==
    ASSUME NEW msgs \in Seq(ReplicaMessages), NEW m \in ReplicaMessages, NEW r \in Nat \X Nat
    PROVE  /\ \A k \in 0 .. Len(msgs) :
                Positions(Append(msgs, m), r)[k] = Positions(msgs, r)[k]
           /\ Positions(Append(msgs, m), r)[Len(msgs) + 1]
                = Advanced(Positions(msgs, r)[Len(msgs)], m)
<1> DEFINE n == Len(msgs)
           b == Append(msgs, m)
           A == Positions(msgs, r)
           B == Positions(b, r)
<1>1. /\ n \in Nat /\ b \in Seq(ReplicaMessages) /\ Len(b) = n + 1
      /\ b[n + 1] = m /\ \A k \in 1 .. n : b[k] = msgs[k]
      /\ n + 1 \in 1 .. Len(b) /\ n \in 0 .. n /\ n + 0 <= Len(b)
      /\ (n + 1) - 1 = n
    OBVIOUS
<1> HIDE DEF b
<1>2. B[0] = r /\ \A k \in 1 .. Len(b) : B[k] = Advanced(B[k - 1], b[k])
    BY <1>1, PositionsUnfold
<1>3. \A k \in 0 .. n : A[k] = B[k]
    <2>1. \A k \in 1 .. n : msgs[k] = b[k + 0]
        BY <1>1
    <2>2. \A k \in 0 .. n : Positions(msgs, B[0])[k] = B[k + 0]
        <3> HIDE DEF B, n
        <3>1. 0 \in Nat /\ Len(msgs) + 0 <= Len(b) /\ n = Len(msgs)
            BY <1>1 DEF n
        <3>2. \A k \in 0 .. Len(msgs) :
                Positions(msgs, Positions(b, r)[0])[k] = Positions(b, r)[k + 0]
            BY <1>1, <2>1, <3>1, PositionsShift
        <3> QED
            BY <3>1, <3>2, Zenon DEF B
    <2>3. \A k \in 0 .. n : k + 0 = k
        BY <1>1
    <2> QED
        BY <1>2, <2>2, <2>3
<1> HIDE DEF A
<1>4. B[n + 1] = Advanced(A[n], m)
    <2>1. B[n + 1] = Advanced(B[(n + 1) - 1], b[n + 1])
        BY <1>1, <1>2, Zenon
    <2> QED
        BY <2>1, <1>1, <1>3
<1> QED
    BY <1>3, <1>4 DEF A, b

LEMMA AppendNamesRanges ==
    ASSUME NEW msgs \in Seq(ReplicaMessages), NEW m \in ReplicaMessages,
           NEW r \in Nat \X Nat, NEW db, NamesRanges(msgs, r, db),
           m.type = "REPLICA_HASH" =>
              LET at == Positions(msgs, r)[Len(msgs)]
              IN  Bounded(at) /\ (db # <<>> => m.hash = HashOf(db, at[1], at[2]))
    PROVE  /\ NamesRanges(Append(msgs, m), r, db)
           /\ Positions(Append(msgs, m), r)[Len(msgs) + 1]
                = Advanced(Positions(msgs, r)[Len(msgs)], m)
<1> DEFINE n == Len(msgs)
           b == Append(msgs, m)
           A == Positions(msgs, r)
           B == Positions(b, r)
<1>1. /\ n \in Nat /\ Len(b) = n + 1 /\ b \in Seq(ReplicaMessages)
      /\ b[n + 1] = m /\ \A k \in 1 .. n : b[k] = msgs[k]
      /\ n \in 0 .. n /\ (n + 1) - 1 = n
    OBVIOUS
<1>2. (\A k \in 0 .. n : A[k] = B[k]) /\ B[n + 1] = Advanced(A[n], m)
    BY AppendPositions
<1> HIDE DEF b
<1>3. \A k \in HashesIn(msgs) :
            /\ Bounded(A[k - 1])
            /\ db # <<>> => msgs[k].hash = HashOf(db, A[k - 1][1], A[k - 1][2])
    BY DEF NamesRanges
<1>4. m.type = "REPLICA_HASH" =>
        Bounded(A[n]) /\ (db # <<>> => m.hash = HashOf(db, A[n][1], A[n][2]))
    OBVIOUS
<1> HIDE DEF A
<1>5. ASSUME NEW k \in HashesIn(b)
      PROVE  /\ Bounded(B[k - 1])
             /\ db # <<>> => b[k].hash = HashOf(db, B[k - 1][1], B[k - 1][2])
    <2> HIDE DEF B
    <2>1. k \in 1 .. n + 1 /\ b[k].type = "REPLICA_HASH"
        BY <1>1 DEF HashesIn
    <2>2. CASE k = n + 1
        <3>1. b[k] = m /\ k - 1 = n /\ B[k - 1] = A[n]
            BY <1>1, <1>2, <2>2
        <3> QED
            BY <3>1, <1>4, <2>1
    <2>3. CASE k # n + 1
        <3>1. k \in 1 .. n /\ k - 1 \in 0 .. n
            BY <2>1, <2>3, <1>1
        <3>2. b[k] = msgs[k] /\ A[k - 1] = B[k - 1]
            BY <3>1, <1>1, <1>2
        <3>3. k \in HashesIn(msgs)
            BY <3>1, <3>2, <2>1 DEF HashesIn
        <3> QED
            BY <3>2, <3>3, <1>3
    <2> QED
        BY <2>2, <2>3
<1>6. NamesRanges(b, r, db)
    BY <1>5, Zenon DEF NamesRanges
<1> QED
    BY <1>2, <1>6 DEF A, b

LEMMA AppendHashedRanges ==
    ASSUME NEW msgs \in Seq(ReplicaMessages), NEW m \in ReplicaMessages,
           NEW r \in Nat \X Nat, HashedOnce(msgs, r),
           NEW at, at = Positions(msgs, r)[Len(msgs)],
           m.type = "REPLICA_HASH" => at \notin HashedRanges(msgs, r)
    PROVE  /\ HashedOnce(Append(msgs, m), r)
           /\ HashedRanges(Append(msgs, m), r)
                = HashedRanges(msgs, r) \union (IF m.type = "REPLICA_HASH" THEN {at} ELSE {})
<1> DEFINE n == Len(msgs)
           b == Append(msgs, m)
           A == Positions(msgs, r)
           B == Positions(b, r)
           H == HashesIn(msgs)
           G == HashesIn(b)
<1>1. /\ n \in Nat /\ DOMAIN b = 1 .. n + 1 /\ DOMAIN msgs = 1 .. n
      /\ b[n + 1] = m /\ \A k \in 1 .. n : b[k] = msgs[k]
    OBVIOUS
<1>2. \A k \in 0 .. n : A[k] = B[k]
    BY AppendPositions
<1>3. /\ H \subseteq 1 .. n
      /\ G = H \union (IF m.type = "REPLICA_HASH" THEN {n + 1} ELSE {})
    BY <1>1 DEF HashesIn
<1>4. /\ \A j, k \in H : j # k => A[j - 1] # A[k - 1]
      /\ HashedRanges(msgs, r) = {A[k - 1] : k \in H}
      /\ HashedRanges(b, r) = {B[k - 1] : k \in G}
    BY DEF HashedOnce, HashedRanges
<1>5. at = A[n]
    OBVIOUS
<1> HIDE DEF A, B, H, G, b
<1>6. \A k \in H : k - 1 \in 0 .. n /\ B[k - 1] = A[k - 1]
    BY <1>1, <1>2, <1>3
<1>7. B[(n + 1) - 1] = at
    <2>1. (n + 1) - 1 = n /\ n \in 0 .. n
        BY <1>1
    <2> QED
        BY <1>2, <1>5, <2>1
<1>8. HashedRanges(b, r)
        = HashedRanges(msgs, r) \union (IF m.type = "REPLICA_HASH" THEN {at} ELSE {})
    BY <1>3, <1>4, <1>6, <1>7
<1>9. \A j, k \in G : j # k => B[j - 1] # B[k - 1]
    <2> SUFFICES ASSUME NEW j \in G, NEW k \in G, j # k PROVE B[j - 1] # B[k - 1]
        OBVIOUS
    <2>1. CASE j \in H /\ k \in H
        BY <1>4, <1>6, <2>1
    <2>2. CASE ~(j \in H /\ k \in H)
        <3>1. /\ m.type = "REPLICA_HASH"
              /\ (j = n + 1 /\ k \in H) \/ (k = n + 1 /\ j \in H)
            BY <1>3, <2>2
        <3>2. \A x \in H : B[x - 1] # at
            BY <1>4, <1>6, <3>1
        <3> QED
            BY <1>7, <3>1, <3>2
    <2> QED
        BY <2>1, <2>2
<1>10. HashedOnce(b, r)
    BY <1>9, Zenon DEF HashedOnce, B, G
<1> QED
    BY <1>8, <1>10 DEF b

\* With no transaction open only the ranges themselves are claimed.
LEMMA ForgetDatabase ==
    ASSUME NEW msgs, NEW r, NEW db, NamesRanges(msgs, r, db)
    PROVE  NamesRanges(msgs, r, <<>>)
    BY DEF NamesRanges

(***************************************************************************)
(* How many hashes.                                                        *)
(***************************************************************************)

LEMMA HashesFinite ==
    ASSUME NEW msgs \in Seq(Message)
    PROVE  IsFiniteSet(HashesIn(msgs)) /\ Cardinality(HashesIn(msgs)) \in Nat
<1>1. HashesIn(msgs) \in SUBSET (1 .. Len(msgs)) /\ Len(msgs) \in Nat
    BY DEF HashesIn
<1>2. IsFiniteSet(1 .. Len(msgs))
    BY <1>1, FS_Interval
<1> QED
    BY <1>1, <1>2, FS_Subset, FS_CardinalityType

LEMMA NoHashes ==
    ASSUME NEW msgs \in Seq(Message), ~Has(msgs, {"REPLICA_HASH"})
    PROVE  HashesIn(msgs) = {} /\ Cardinality(HashesIn(msgs)) = 0
<1>1. HashesIn(msgs) = {}
    BY DEF HashesIn, Has
<1> QED
    BY <1>1, FS_EmptySet

LEMMA HashesWithin ==
    ASSUME NEW a \in Seq(Message), NEW b \in Seq(Message), Within(a, b)
    PROVE  Cardinality(HashesIn(a)) <= Cardinality(HashesIn(b))
<1>1. PICK i \in Nat : /\ Len(a) + i <= Len(b)
                       /\ \A k \in 1 .. Len(a) : a[k] = b[k + i]
    BY DEF Within
<1> DEFINE f == [k \in HashesIn(a) |-> k + i]
<1>2. \A k \in HashesIn(a) : k \in Nat /\ k + i \in HashesIn(b)
    <2> SUFFICES ASSUME NEW k \in HashesIn(a)
                 PROVE  k \in Nat /\ k + i \in HashesIn(b)
        OBVIOUS
    <2>1. k \in 1 .. Len(a) /\ a[k].type = "REPLICA_HASH"
        BY DEF HashesIn
    <2>2. k + i \in 1 .. Len(b) /\ b[k + i] = a[k]
        BY <1>1, <2>1
    <2> QED
        BY <2>1, <2>2 DEF HashesIn
<1>3. f \in Injection(HashesIn(a), HashesIn(b))
    BY <1>2 DEF Injection, IsInjective
<1> QED
    BY <1>3, HashesFinite, FS_Injection

LEMMA HashesTail ==
    ASSUME NEW msgs \in Seq(Message), msgs # <<>>, Head(msgs).type = "REPLICA_HASH"
    PROVE  Cardinality(HashesIn(Tail(msgs))) + 1 <= Cardinality(HashesIn(msgs))
<1> DEFINE S == HashesIn(Tail(msgs))
           T == HashesIn(msgs) \ {1}
           f == [k \in S |-> k + 1]
<1>1. /\ 1 \in HashesIn(msgs) /\ Tail(msgs) \in Seq(Message)
      /\ \A k \in S : k \in Nat /\ k + 1 \in T
    BY DEF HashesIn
<1>2. f \in Injection(S, T)
    BY <1>1 DEF Injection, IsInjective
<1>3. IsFiniteSet(T) /\ Cardinality(T) = Cardinality(HashesIn(msgs)) - 1
    BY <1>1, HashesFinite, FS_RemoveElement
<1>4. Cardinality(S) <= Cardinality(T)
    BY <1>2, <1>3, FS_Injection
<1> HIDE DEF S, T
<1>5. Cardinality(HashesIn(msgs)) \in Nat /\ Cardinality(S) \in Nat
    BY <1>1, HashesFinite DEF S
<1> QED
    BY <1>3, <1>4, <1>5 DEF S

LEMMA HashesAppend ==
    ASSUME NEW msgs \in Seq(Message), NEW m \in Message
    PROVE  Cardinality(HashesIn(Append(msgs, m)))
             = Cardinality(HashesIn(msgs)) + (IF m.type = "REPLICA_HASH" THEN 1 ELSE 0)
<1> DEFINE n == Len(msgs)
           b == Append(msgs, m)
<1>1. /\ n \in Nat /\ DOMAIN b = 1 .. n + 1 /\ DOMAIN msgs = 1 .. n
      /\ b[n + 1] = m /\ \A k \in 1 .. n : b[k] = msgs[k]
      /\ n + 1 \in 1 .. n + 1 /\ \A k \in 1 .. n + 1 : k = n + 1 \/ k \in 1 .. n
    OBVIOUS
<1> HIDE DEF b
<1>2. IsFiniteSet(HashesIn(msgs)) /\ Cardinality(HashesIn(msgs)) \in Nat
    BY HashesFinite
<1>3. CASE m.type = "REPLICA_HASH"
    <2>1. HashesIn(b) = HashesIn(msgs) \union {n + 1}
        BY <1>1, <1>3 DEF HashesIn
    <2>2. n + 1 \notin HashesIn(msgs)
        BY <1>1 DEF HashesIn
    <2> QED
        BY <1>2, <1>3, <2>1, <2>2, FS_AddElement DEF b
<1>4. CASE m.type # "REPLICA_HASH"
    <2>1. HashesIn(b) = HashesIn(msgs)
        BY <1>1, <1>4 DEF HashesIn
    <2> QED
        BY <1>2, <1>4, <2>1 DEF b
<1> QED
    BY <1>3, <1>4

(***************************************************************************)
(* A round of hashes.                                                      *)
(***************************************************************************)

LEMMA HashOfIs ==
    ASSUME NEW db \in Seq(Image), NEW r \in PageRange
    PROVE  /\ HashOf(db, r[1], r[2]) \in Hashes
           /\ r[1] <= Len(db) => ~IsNull(HashOf(db, r[1], r[2]))
<1> DEFINE f == r[1]
           n == r[2]
           e == Existing(db, f, n)
<1>1. f \in Nat \ {0} /\ n \in Nat \ {0} /\ Len(db) \in Nat
    BY DEF PageRange
<1>2. e \in Nat /\ (f <= Len(db) => e # 0) /\ \A i \in 1 .. e : f + i - 1 \in 1 .. Len(db)
    BY <1>1 DEF Existing, Smaller
<1> HIDE DEF f, n, e
<1>3. [i \in 1 .. e |-> db[f + i - 1]] \in [1 .. e -> Image]
    BY <1>2
<1>4. /\ [i \in 1 .. e |-> db[f + i - 1]] \in Seq(Image)
      /\ Len([i \in 1 .. e |-> db[f + i - 1]]) = e
    BY <1>2, <1>3, SeqOfImages
<1>5. HashOf(db, f, n) = [group |-> n > 1, pages |-> [i \in 1 .. e |-> db[f + i - 1]]]
    BY DEF HashOf, e
<1>6. HashOf(db, f, n) \in Hashes
    BY <1>4, <1>5 DEF Hashes
<1>7. f <= Len(db) => HashOf(db, f, n).pages # <<>>
    BY <1>2, <1>4, <1>5
<1> QED
    BY <1>6, <1>7 DEF IsNull, f, n

HashMessage(db, r) == [type |-> "REPLICA_HASH", hash |-> HashOf(db, r[1], r[2])]
ConfigMessage(r) == [type |-> "REPLICA_CONFIG", fpg |-> r[1], npg |-> r[2]]

\* msgs is what a round over db has written when the counters, at from when
\* it began, stand at to: n hashes, no configuration if that is not allowed.
IsRound(msgs, from, to, db, n, done, allowed) ==
    /\ msgs \in Seq(ReplicaMessages)
    /\ \A k \in DOMAIN msgs : msgs[k].type \in {"REPLICA_CONFIG", "REPLICA_HASH"}
    /\ ~allowed => ~Has(msgs, {"REPLICA_CONFIG"})
    /\ NamesRanges(msgs, from, db)
    /\ Positions(msgs, from)[Len(msgs)] = to
    /\ Cardinality(HashesIn(msgs)) = n
    /\ HashedOnce(msgs, from) /\ HashedRanges(msgs, from) = done
    /\ n # 0 => Has(msgs, {"REPLICA_HASH"})

LEMMA ConcatOne ==
    ASSUME NEW T, NEW s \in Seq(T), NEW e \in T
    PROVE  s \o (<<>> \o <<e>>) = Append(s, e)
    OBVIOUS

LEMMA ConcatTwo ==
    ASSUME NEW T, NEW s \in Seq(T), NEW d \in T, NEW e \in T
    PROVE  s \o (<<d>> \o <<e>>) = Append(Append(s, d), e)
<1> DEFINE p == <<d>> \o <<e>>
           q == Append(s, d)
<1>1. p \in Seq(T) /\ Len(p) = 2 /\ p[1] = d /\ p[2] = e
    <2>1. <<d>> \in Seq(T) /\ Len(<<d>>) = 1 /\ <<d>>[1] = d
        OBVIOUS
    <2>2. <<e>> \in Seq(T) /\ Len(<<e>>) = 1 /\ <<e>>[1] = e
        OBVIOUS
    <2> QED
        BY <2>1, <2>2, ConcatProperties
<1>2. q \in Seq(T) /\ Len(q) = Len(s) + 1
    OBVIOUS
<1> HIDE DEF p
<1>3. /\ s \o p \in Seq(T) /\ Len(s \o p) = Len(s) + Len(p)
      /\ \A i \in 1 .. Len(s) + Len(p) :
            (s \o p)[i] = IF i <= Len(s) THEN s[i] ELSE p[i - Len(s)]
    BY <1>1, ConcatProperties, Zenon
<1>4. /\ Append(q, e) \in Seq(T) /\ Len(Append(q, e)) = Len(s) + 2
      /\ \A i \in 1 .. Len(s) + 2 :
            Append(q, e)[i] = IF i <= Len(s) THEN s[i] ELSE IF i = Len(s) + 1 THEN d ELSE e
    BY <1>2
<1> DEFINE u == s \o p
           v == Append(q, e)
<1> HIDE DEF q, u, v
<1>5. \A i \in 1 .. Len(s) + 2 : u[i] = v[i]
    <2> TAKE i \in 1 .. Len(s) + 2
    <2>1. /\ Len(s) \in Nat /\ i \in 1 .. Len(s) + Len(p)
          /\ u[i] = IF i <= Len(s) THEN s[i] ELSE p[i - Len(s)]
          /\ v[i] = IF i <= Len(s) THEN s[i] ELSE IF i = Len(s) + 1 THEN d ELSE e
        BY <1>1, <1>3, <1>4 DEF u, v
    <2>2. CASE i <= Len(s)
        BY <2>1, <2>2
    <2>3. CASE i = Len(s) + 1
        BY <2>1, <2>3, <1>1
    <2>4. CASE i = Len(s) + 2
        BY <2>1, <2>4, <1>1
    <2> QED
        BY <2>1, <2>2, <2>3, <2>4
<1>6. u \in Seq(T) /\ v \in Seq(T) /\ Len(u) = Len(s) + 2 /\ Len(v) = Len(s) + 2
    BY <1>1, <1>3, <1>4 DEF u, v
<1>7. u = v
    BY <1>5, <1>6, SeqEqual
<1> QED
    BY <1>7 DEF p, q, u, v

LEMMA RangeAsPair ==
    ASSUME NEW r, Bounded(r)
    PROVE  /\ r = <<r[1], r[2]>> /\ r[1] \in Nat \ {0} /\ r[2] \in Nat \ {0} /\ r \in Nat \X Nat
           /\ r[1] \in 0 .. Modulus - 1
    BY RsyncAssumption DEF Bounded, PageRange

LEMMA RoundBegins ==
    ASSUME NEW from \in Nat \X Nat, NEW db, NEW allowed \in BOOLEAN
    PROVE  IsRound(<<>>, from, from, db, 0, {}, allowed)
<1>1. <<>> \in Seq(ReplicaMessages) /\ <<>> \in Seq(Message) /\ Len(<<>>) = 0
    OBVIOUS
<1>2. ~Has(<<>>, {"REPLICA_HASH"}) /\ ~Has(<<>>, {"REPLICA_CONFIG"})
    BY HasNothing
<1>3. HashesIn(<<>>) = {} /\ Cardinality(HashesIn(<<>>)) = 0
    BY <1>1, <1>2, NoHashes
<1>4. Positions(<<>>, from)[Len(<<>>)] = from
    BY <1>1, PositionsUnfold
<1> QED
    BY <1>1, <1>2, <1>3, <1>4, NoHashNamesRanges DEF IsRound, HashedOnce, HashedRanges

LEMMA RoundConfigures ==
    ASSUME NEW msgs, NEW from \in Nat \X Nat, NEW to, NEW db, NEW n \in Nat,
           NEW done, IsRound(msgs, from, to, db, n, done, TRUE), NEW r, Bounded(r)
    PROVE  IsRound(Append(msgs, ConfigMessage(r)), from, r, db, n, done, TRUE)
<1> DEFINE m == ConfigMessage(r)
           b == Append(msgs, m)
<1>1. m \in ReplicaMessages /\ m.type = "REPLICA_CONFIG" /\ <<m.fpg, m.npg>> = r
    BY RangeAsPair DEF ReplicaMessages, ConfigMessage
<1>2. msgs \in Seq(ReplicaMessages) /\ msgs \in Seq(Message) /\ m \in Message
    BY <1>1 DEF IsRound, Message
<1> HIDE DEF m
<1>3. /\ b \in Seq(ReplicaMessages) /\ Len(b) = Len(msgs) + 1
      /\ \A k \in DOMAIN b : b[k] = m \/ (k \in DOMAIN msgs /\ b[k] = msgs[k])
      /\ \A k \in DOMAIN msgs : k \in DOMAIN b /\ b[k] = msgs[k]
    BY <1>1, <1>2
<1>4. NamesRanges(b, from, db) /\ Positions(b, from)[Len(b)] = r
    <2>1. NamesRanges(msgs, from, db)
        BY DEF IsRound
    <2>2. Advanced(Positions(msgs, from)[Len(msgs)], m) = r
        BY <1>1 DEF Advanced
    <2>3. m.type # "REPLICA_HASH"
        BY <1>1
    <2> QED
        BY <1>1, <1>2, <1>3, <2>1, <2>2, <2>3, AppendNamesRanges
<1>5. Cardinality(HashesIn(b)) = n
    <2>1. Cardinality(HashesIn(msgs)) = n /\ m.type # "REPLICA_HASH"
        BY <1>1 DEF IsRound
    <2> QED
        BY <1>2, <2>1, HashesAppend
<1>6. n # 0 => Has(b, {"REPLICA_HASH"})
    BY <1>3 DEF IsRound, Has
<1>7. \A k \in DOMAIN b : b[k].type \in {"REPLICA_CONFIG", "REPLICA_HASH"}
    BY <1>1, <1>3 DEF IsRound
<1>8. HashedOnce(b, from) /\ HashedRanges(b, from) = done
    <2>1. HashedOnce(msgs, from) /\ HashedRanges(msgs, from) = done /\ m.type # "REPLICA_HASH"
        BY <1>1 DEF IsRound
    <2> DEFINE at == Positions(msgs, from)[Len(msgs)]
    <2>2. /\ HashedOnce(b, from)
          /\ HashedRanges(b, from) = HashedRanges(msgs, from)
                \union (IF m.type = "REPLICA_HASH" THEN {at} ELSE {})
        <3> HIDE DEF at
        <3>1. m.type = "REPLICA_HASH" => at \notin HashedRanges(msgs, from)
            BY <2>1
        <3> QED
            BY <1>1, <1>2, <2>1, <3>1, AppendHashedRanges DEF at
    <2> QED
        BY <2>1, <2>2
<1> HIDE DEF b
<1>9. IsRound(b, from, r, db, n, done, TRUE)
    BY <1>3, <1>4, <1>5, <1>6, <1>7, <1>8 DEF IsRound
<1> QED
    BY <1>9 DEF b, m

LEMMA RoundHashes ==
    ASSUME NEW msgs, NEW from \in Nat \X Nat, NEW r, NEW db \in Seq(Image),
           NEW n \in Nat, NEW allowed \in BOOLEAN,
           NEW done, r \notin done,
           IsRound(msgs, from, r, db, n, done, allowed), Bounded(r)
    PROVE  IsRound(Append(msgs, HashMessage(db, r)), from, Expected(r), db, n + 1,
                   done \union {r}, allowed)
<1> DEFINE m == HashMessage(db, r)
           b == Append(msgs, m)
<1>1. m \in ReplicaMessages /\ m.type = "REPLICA_HASH" /\ m.hash = HashOf(db, r[1], r[2])
    BY HashOfIs DEF ReplicaMessages, HashMessage, Bounded
<1>2. msgs \in Seq(ReplicaMessages) /\ msgs \in Seq(Message) /\ m \in Message
    BY <1>1 DEF IsRound, Message
<1> HIDE DEF m
<1>3. /\ b \in Seq(ReplicaMessages) /\ Len(b) = Len(msgs) + 1
      /\ \A k \in DOMAIN b : b[k] = m \/ (k \in DOMAIN msgs /\ b[k] = msgs[k])
      /\ Len(msgs) + 1 \in DOMAIN b /\ b[Len(msgs) + 1] = m
    BY <1>1, <1>2
<1>4. NamesRanges(b, from, db) /\ Positions(b, from)[Len(b)] = Expected(r)
    <2>1. NamesRanges(msgs, from, db) /\ Positions(msgs, from)[Len(msgs)] = r
        BY DEF IsRound
    <2>2. Advanced(r, m) = Expected(r)
        BY <1>1 DEF Advanced, Expected
    <2> QED
        BY <1>1, <1>2, <1>3, <2>1, <2>2, AppendNamesRanges
<1>5. Cardinality(HashesIn(b)) = n + 1
    <2>1. Cardinality(HashesIn(msgs)) = n
        BY DEF IsRound
    <2> QED
        BY <1>1, <1>2, <2>1, HashesAppend
<1>6. Has(b, {"REPLICA_HASH"})
    BY <1>1, <1>3 DEF Has
<1>7. \A k \in DOMAIN b : b[k].type \in {"REPLICA_CONFIG", "REPLICA_HASH"}
    BY <1>1, <1>3 DEF IsRound
<1>8. ~allowed => ~Has(b, {"REPLICA_CONFIG"})
    <2>1. ASSUME ~allowed PROVE ~Has(b, {"REPLICA_CONFIG"})
        <3>1. ~Has(msgs, {"REPLICA_CONFIG"})
            BY <2>1 DEF IsRound
        <3> QED
            BY <1>1, <1>3, <3>1 DEF Has
    <2> QED
        BY <2>1
<1>9. HashedOnce(b, from) /\ HashedRanges(b, from) = done \union {r}
    <2>1. /\ HashedOnce(msgs, from) /\ HashedRanges(msgs, from) = done
          /\ r = Positions(msgs, from)[Len(msgs)] /\ msgs \in Seq(ReplicaMessages)
        BY DEF IsRound
    <2>2. /\ HashedOnce(b, from)
          /\ HashedRanges(b, from) = HashedRanges(msgs, from)
                \union (IF m.type = "REPLICA_HASH" THEN {r} ELSE {})
        BY <1>1, <2>1, AppendHashedRanges
    <2> QED
        BY <1>1, <2>1, <2>2
<1> HIDE DEF b
<1>10. IsRound(b, from, Expected(r), db, n + 1, done \union {r}, allowed)
    BY <1>3, <1>4, <1>5, <1>6, <1>7, <1>8, <1>9 DEF IsRound
<1> QED
    BY <1>10 DEF b, m

\* At most one hash of every row, each of the range the counters name, and no
\* configuration where they run from page to page.
LEMMA RoundIs ==
    ASSUME NEW db \in Seq(Image), NEW S, IsFiniteSet(S), \A r \in S : Bounded(r),
           NEW i \in Nat, NEW n \in Nat, NEW from \in Nat \X Nat,
           from = <<i, n>> \/ i = 0
    PROVE  LET msgs == HashMessages(db, S, i, n) IN
           /\ msgs \in Seq(ReplicaMessages)
           /\ \A k \in DOMAIN msgs : msgs[k].type \in {"REPLICA_CONFIG", "REPLICA_HASH"}
           /\ NamesRanges(msgs, from, db)
           /\ Cardinality(HashesIn(msgs)) <= Cardinality(S)
           /\ (\E r \in S : r[1] <= Len(db)) => Has(msgs, {"REPLICA_HASH"})
           /\ HashedOnce(msgs, from)
           /\ /\ \A r \in S : r[1] <= Len(db)
              /\ \A q, r \in S : q[1] = r[1] => q = r
              => HashedRanges(msgs, from) = S
           /\ /\ i = 1 /\ n = 1 /\ Len(db) < Modulus
              /\ S = {<<p, 1>> : p \in 1 .. Len(db)}
              => ~Has(msgs, {"REPLICA_CONFIG"})
<1> DEFINE firsts == Ascending({r[1] : r \in S}, Len(db))
           N == Len(firsts)
           row(k) == CHOOSE r \in S : r[1] = firsts[k]
           next(k) == IF k = 0 THEN <<i, n>> ELSE Expected(row(k))
           config(k) == IF row(k) = next(k - 1) THEN <<>>
                        ELSE <<[type |-> "REPLICA_CONFIG",
                                fpg |-> row(k)[1], npg |-> row(k)[2]]>>
           h(k) == HashOf(db, row(k)[1], row(k)[2])
           hash(k) == IF IsNull(h(k)) THEN <<>>
                      ELSE <<[type |-> "REPLICA_HASH", hash |-> h(k)]>>
           pieces == [k \in DOMAIN firsts |-> config(k) \o hash(k)]
           msgs == HashMessages(db, S, i, n)
           allowed == ~ \A k \in 1 .. N : row(k) = next(k - 1)
<1>1. msgs = FlattenSeq(pieces)
    BY DEF HashMessages
<1> HIDE DEF msgs
<1>2. /\ firsts \in Seq(Nat) /\ N \in Nat /\ Len(db) \in Nat /\ DOMAIN firsts = 1 .. N
      /\ \A k \in 1 .. N : firsts[k] \in {r[1] : r \in S} /\ firsts[k] \in 1 .. Len(db)
      /\ \A j, k \in 1 .. N : j < k => firsts[j] < firsts[k]
      /\ \A p \in 1 .. Len(db) : p \in {r[1] : r \in S} => \E k \in 1 .. N : firsts[k] = p
    <2>1. Len(db) \in Nat
        OBVIOUS
    <2> DEFINE F == {r[1] : r \in S}
    <2> HIDE DEF F
    <2>2. IsAscending(Ascending(F, Len(db)), F, Len(db))
        BY <2>1, AscendingIs
    <2>3. firsts = Ascending(F, Len(db))
        BY DEF F
    <2> HIDE DEF firsts
    <2>4. firsts \in Seq(Nat) /\ DOMAIN firsts = 1 .. N /\ N \in Nat
        BY <2>2, <2>3 DEF IsAscending
    <2> QED
        BY <2>1, <2>2, <2>3, <2>4 DEF F, IsAscending
<1> HIDE DEF firsts, N
<1>3. ASSUME NEW k \in 1 .. N
      PROVE  row(k) \in S /\ row(k)[1] = firsts[k] /\ Bounded(row(k)) /\ row(k)[1] <= Len(db)
    <2>1. \E r \in S : r[1] = firsts[k]
        BY <1>2
    <2>2. row(k) \in S /\ row(k)[1] = firsts[k]
        BY <2>1
    <2>3. firsts[k] \in 1 .. Len(db)
        BY <1>2
    <2> HIDE DEF row
    <2> QED
        BY <2>2, <2>3, <1>2
<1>4. ASSUME NEW k \in 1 .. N
      PROVE  /\ config(k) = IF row(k) = next(k - 1) THEN <<>> ELSE <<ConfigMessage(row(k))>>
             /\ hash(k) = <<HashMessage(db, row(k))>>
             /\ ConfigMessage(row(k)) \in ReplicaMessages
             /\ HashMessage(db, row(k)) \in ReplicaMessages
    <2>1. Bounded(row(k)) /\ row(k)[1] <= Len(db)
        BY <1>3
    <2> HIDE DEF row, next
    <2>2. ~IsNull(HashOf(db, row(k)[1], row(k)[2])) /\ HashOf(db, row(k)[1], row(k)[2]) \in Hashes
        BY <2>1, HashOfIs DEF Bounded
    <2>3. row(k)[1] \in 0 .. Modulus - 1 /\ row(k)[2] \in Nat
        BY <2>1, RangeAsPair
    <2> QED
        BY <2>2, <2>3 DEF ConfigMessage, HashMessage, ReplicaMessages
<1> HIDE DEF config, hash, h
<1>5. /\ pieces \in Seq(Seq(ReplicaMessages)) /\ Len(pieces) = N
      /\ \A k \in 1 .. N : pieces[k] = config(k) \o hash(k)
    <2>1. \A k \in 1 .. N : config(k) \o hash(k) \in Seq(ReplicaMessages)
        <3> TAKE k \in 1 .. N
        <3>1. config(k) \in Seq(ReplicaMessages) /\ hash(k) \in Seq(ReplicaMessages)
            <4> DEFINE c == ConfigMessage(row(k))
                       m == HashMessage(db, row(k))
            <4>1. /\ config(k) = IF row(k) = next(k - 1) THEN <<>> ELSE <<c>>
                  /\ hash(k) = <<m>> /\ c \in ReplicaMessages /\ m \in ReplicaMessages
                BY <1>4
            <4> HIDE DEF row, next, c, m
            <4>2. <<c>> \in Seq(ReplicaMessages) /\ <<m>> \in Seq(ReplicaMessages)
                BY <4>1
            <4>3. <<>> \in Seq(ReplicaMessages)
                OBVIOUS
            <4> QED
                BY <4>1, <4>2, <4>3
        <3> QED
            BY <3>1, ConcatProperties
    <2>2. pieces = [k \in 1 .. N |-> config(k) \o hash(k)]
        BY <1>2
    <2>3. pieces \in [1 .. N -> Seq(ReplicaMessages)]
        BY <2>1, <2>2
    <2> HIDE DEF pieces
    <2> QED
        BY <1>2, <2>2, <2>3
<1> HIDE DEF pieces
<1>6. PICK f : /\ f \in [0 .. N -> Seq(ReplicaMessages)] /\ f[0] = <<>>
               /\ \A k \in 1 .. N : f[k] = f[k - 1] \o (config(k) \o hash(k))
               /\ msgs = f[N]
    <2>1. \E g \in [0 .. Len(pieces) -> Seq(ReplicaMessages)] :
              /\ g[0] = <<>>
              /\ \A k \in 1 .. Len(pieces) : g[k] = g[k - 1] \o pieces[k]
              /\ FlattenSeq(pieces) = g[Len(pieces)]
        BY <1>5, FlattenUnfolds
    <2> QED
        BY <2>1, <1>1, <1>5
<1> DEFINE to(k) == IF k = 0 THEN from ELSE Expected(row(k))
           done(k) == {row(j) : j \in 1 .. k}
           C == {k \in 0 .. N : IsRound(f[k], from, to(k), db, k, done(k), allowed)}
<1>7. 0 \in C
    <2>1. to(0) = from /\ 0 \in 0 .. N /\ allowed \in BOOLEAN
        BY <1>2
    <2>2. IsRound(f[0], from, from, db, 0, {}, allowed)
        <3> HIDE DEF allowed
        <3> QED
            BY <2>1, <1>6, RoundBegins
    <2>3. done(0) = {}
        OBVIOUS
    <2> HIDE DEF to, allowed, done
    <2> QED
        BY <2>1, <2>2, <2>3
<1>8. ASSUME NEW k \in 0 .. N, k # N, k \in C
      PROVE  k + 1 \in C
    <2>1. k + 1 \in 1 .. N /\ (k + 1) - 1 = k /\ k + 1 \in 0 .. N /\ k + 1 # 0 /\ k \in Nat
        BY <1>2, <1>8
    <2> DEFINE r == row(k + 1)
               m == HashMessage(db, r)
               c == ConfigMessage(r)
    <2>2. Bounded(r)
        BY <2>1, <1>3
    <2>3. /\ config(k + 1) = IF r = next(k) THEN <<>> ELSE <<c>>
          /\ hash(k + 1) = <<m>> /\ m \in ReplicaMessages /\ c \in ReplicaMessages
        <3>1. config(k + 1) = IF r = next((k + 1) - 1) THEN <<>> ELSE <<c>>
            BY <2>1, <1>4
        <3> HIDE DEF next
        <3> QED
            BY <2>1, <3>1, <1>4
    <2>4. f[k + 1] = f[k] \o (config(k + 1) \o hash(k + 1)) /\ f[k] \in Seq(ReplicaMessages)
        <3>1. f[k + 1] = f[(k + 1) - 1] \o (config(k + 1) \o hash(k + 1))
            BY <2>1, <1>6, Zenon
        <3> QED
            BY <2>1, <3>1, <1>6
    <2>5. IsRound(f[k], from, to(k), db, k, done(k), allowed) /\ allowed \in BOOLEAN
        BY <1>8
    <2>6. done(k + 1) = done(k) \union {r} /\ r \notin done(k)
        <3>1. 1 .. k + 1 = (1 .. k) \union {k + 1} /\ 1 .. k \subseteq 1 .. N
            BY <2>1, <1>2
        <3>0. \A j \in 1 .. N : row(j)[1] = firsts[j]
            <4> TAKE j \in 1 .. N
            <4> QED
                BY <1>3
        <3> HIDE DEF row, r
        <3>2. \A j \in 1 .. k : row(j)[1] = firsts[j] /\ firsts[j] < firsts[k + 1]
                                /\ firsts[j] \in Nat
            BY <1>2, <2>1, <3>0, <3>1
        <3>3. r[1] = firsts[k + 1] /\ firsts[k + 1] \in Nat
            BY <1>2, <2>1, <3>0 DEF r
        <3>4. done(k + 1) = done(k) \union {r}
            BY <3>1 DEF r
        <3>5. r \notin done(k)
            BY <3>2, <3>3
        <3> QED
            BY <3>4, <3>5
    <2>7. k + 1 \in C
            <=> IsRound(f[k + 1], from, Expected(r), db, k + 1, done(k) \union {r}, allowed)
        <3>1. to(k + 1) = Expected(r)
            BY <2>1
        <3> HIDE DEF done, to, allowed, r
        <3> QED
            BY <2>1, <2>6, <3>1
    <2>8. r = next(k) => r = to(k)
        <3>1. CASE k = 0
            <4>1. r[1] # 0
                BY <2>2 DEF Bounded, PageRange
            <4>2. r = next(k) => r[1] = i /\ r = <<i, n>>
                <5>1. next(k) = <<i, n>>
                    BY <3>1
                <5> HIDE DEF r, next
                <5> QED
                    BY <5>1
            <4> QED
                BY <3>1, <4>1, <4>2
        <3>2. CASE k # 0
            BY <3>2
        <3> QED
            BY <3>1, <3>2
    <2>9. r # next(k) => allowed = TRUE
        <3>1. ASSUME r # next(k) PROVE allowed
            <4>1. row(k + 1) # next((k + 1) - 1)
                BY <2>1, <3>1
            <4> HIDE DEF row, next
            <4> QED
                BY <2>1, <4>1
        <3> QED
            BY <3>1
    <2> HIDE DEF C, allowed, to, next, r, m, c, done
    <2>10. CASE r = next(k)
        <3>1. f[k + 1] = Append(f[k], m)
            <4>1. f[k + 1] = f[k] \o (<<>> \o <<m>>)
                BY <2>3, <2>4, <2>10
            <4> QED
                BY <2>3, <2>4, <4>1, ConcatOne
        <3>2. IsRound(Append(f[k], HashMessage(db, r)), from, Expected(r), db, k + 1,
                      done(k) \union {r}, allowed)
            BY <2>1, <2>2, <2>5, <2>8, <2>10, <2>6, RoundHashes
        <3> QED
            BY <2>7, <3>1, <3>2 DEF m
    <2>11. CASE r # next(k)
        <3>1. f[k + 1] = Append(Append(f[k], c), m)
            <4>1. f[k + 1] = f[k] \o (<<c>> \o <<m>>)
                BY <2>3, <2>4, <2>11
            <4>3. f[k] \o (<<c>> \o <<m>>) = Append(Append(f[k], c), m)
                <5> DEFINE u == f[k]
                <5>1. u \in Seq(ReplicaMessages) /\ c \in ReplicaMessages /\ m \in ReplicaMessages
                    BY <2>3, <2>4
                <5> HIDE DEF u
                <5>2. u \o (<<c>> \o <<m>>) = Append(Append(u, c), m)
                    BY <5>1, ConcatTwo
                <5> QED
                    BY <5>2 DEF u
            <4> QED
                BY <4>1, <4>3
        <3>2. IsRound(Append(f[k], ConfigMessage(r)), from, r, db, k, done(k), TRUE)
            BY <2>1, <2>2, <2>5, <2>9, <2>11, RoundConfigures
        <3>3. IsRound(Append(Append(f[k], ConfigMessage(r)), HashMessage(db, r)),
                      from, Expected(r), db, k + 1, done(k) \union {r}, TRUE)
            BY <2>1, <2>2, <2>6, <3>2, RoundHashes
        <3> QED
            BY <2>7, <2>9, <2>11, <3>1, <3>3 DEF m, c
    <2> QED
        BY <2>10, <2>11
<1>9. IsRound(msgs, from, to(N), db, N, done(N), allowed)
    <2>1. \A k \in 0 .. N : k \in C
        <3> HIDE DEF C
        <3> QED
            BY <1>2, <1>7, <1>8, InductionTo
    <2>2. N \in C
        <3> HIDE DEF C
        <3> QED
            BY <2>1, <1>2
    <2>3. IsRound(f[N], from, to(N), db, N, done(N), allowed)
        <3> HIDE DEF to, allowed, done
        <3> QED
            BY <2>2
    <2> HIDE DEF to, allowed, done
    <2> QED
        BY <2>3, <1>6
<1>10. N <= Cardinality(S)
    <2> DEFINE g == [k \in 1 .. N |-> row(k)]
    <2>1. \A j, k \in 1 .. N : row(j) = row(k) => j = k
        <3> SUFFICES ASSUME NEW j \in 1 .. N, NEW k \in 1 .. N, row(j) = row(k)
                     PROVE  j = k
            OBVIOUS
        <3>1. firsts[j] = firsts[k]
            BY <1>3
        <3>2. firsts[j] \in Nat /\ firsts[k] \in Nat
            BY <1>2
        <3>3. \A a, b \in 1 .. N : a < b => firsts[a] < firsts[b]
            BY <1>2
        <3>4. ~(j < k) /\ ~(k < j)
            BY <3>1, <3>2, <3>3
        <3> QED
            BY <1>2, <3>4
    <2>2. \A k \in 1 .. N : row(k) \in S
        BY <1>3
    <2> HIDE DEF row
    <2>3. g \in Injection(1 .. N, S)
        BY <2>1, <2>2 DEF Injection, IsInjective
    <2> HIDE DEF g
    <2>4. Cardinality(1 .. N) <= Cardinality(S)
        BY <2>3, FS_Injection
    <2>5. Cardinality(1 .. N) = N
        BY <1>2, FS_Interval
    <2> QED
        BY <2>4, <2>5
<1>11. (\E r \in S : r[1] <= Len(db)) => Has(msgs, {"REPLICA_HASH"})
    <2> SUFFICES ASSUME NEW r \in S, r[1] <= Len(db)
                 PROVE  Has(msgs, {"REPLICA_HASH"})
        OBVIOUS
    <2>1. r[1] \in 1 .. Len(db)
        BY <1>2 DEF Bounded, PageRange
    <2>2. \E k \in 1 .. N : firsts[k] = r[1]
        BY <2>1, <1>2
    <2>3. N # 0
        BY <2>2, <1>2
    <2> QED
        BY <2>3, <1>9 DEF IsRound
<1>12. ASSUME i = 1, n = 1, Len(db) < Modulus, S = {<<p, 1>> : p \in 1 .. Len(db)}
       PROVE  ~Has(msgs, {"REPLICA_CONFIG"})
    <2>1. {r[1] : r \in S} = 1 .. Len(db)
        <3>1. \A r \in S : r[1] \in 1 .. Len(db)
            BY <1>12
        <3>2. ASSUME NEW p \in 1 .. Len(db)
              PROVE  \E r \in S : r[1] = p
            <4>1. <<p, 1>> \in S /\ <<p, 1>>[1] = p
                BY <1>12
            <4> QED
                BY <4>1
        <3> QED
            BY <3>1, <3>2
    <2>2. firsts = [k \in 1 .. Len(db) |-> k]
        BY <1>2, <2>1, AscendingAll DEF firsts
    <2>3. N = Len(db) /\ \A k \in 1 .. N : firsts[k] = k
        BY <1>2, <2>2 DEF N
    <2>4. \A k \in 1 .. N : row(k) = <<k, 1>>
        <3> TAKE k \in 1 .. N
        <3>1. row(k) \in S /\ row(k)[1] = k
            BY <1>3, <2>3
        <3> HIDE DEF row
        <3> QED
            BY <3>1, <1>12
    <2>5. \A k \in 1 .. N : row(k) = next(k - 1)
        <3> TAKE k \in 1 .. N
        <3>1. CASE k = 1
            BY <3>1, <2>4, <1>12
        <3>2. CASE k # 1
            <4>1. k - 1 \in 1 .. N /\ k - 1 # 0 /\ (k - 1) + 1 = k /\ k - 1 \in Nat
                BY <3>2, <1>2
            <4>2. row(k - 1) = <<k - 1, 1>>
                BY <4>1, <2>4, Zenon
            <4>3. Plus(k - 1, 1) = k
                <5>1. (k - 1) + 1 < Modulus /\ 1 \in Nat
                    BY <4>1, <1>2, <1>12, <2>3, RsyncAssumption
                <5>2. Plus(k - 1, 1) = (k - 1) + 1
                    BY <4>1, <5>1, PlusIs
                <5> QED
                    BY <4>1, <5>2
            <4> HIDE DEF row
            <4> QED
                BY <4>1, <4>2, <4>3, <2>4 DEF Expected
        <3> QED
            BY <3>1, <3>2
    <2>6. ~allowed
        BY <2>5
    <2> HIDE DEF allowed
    <2> QED
        BY <2>6, <1>9 DEF IsRound
<1>13. Cardinality(HashesIn(msgs)) = N
    <2> HIDE DEF allowed, to
    <2> QED
        BY <1>9 DEF IsRound
<1>14. /\ msgs \in Seq(ReplicaMessages)
       /\ \A k \in DOMAIN msgs : msgs[k].type \in {"REPLICA_CONFIG", "REPLICA_HASH"}
       /\ NamesRanges(msgs, from, db)
       /\ HashedOnce(msgs, from) /\ HashedRanges(msgs, from) = done(N)
    <2> HIDE DEF allowed, to, done
    <2> QED
        BY <1>9 DEF IsRound
<1>15. ASSUME \A r \in S : r[1] <= Len(db), \A q, r \in S : q[1] = r[1] => q = r
       PROVE  done(N) = S
    <2>1. \A k \in 1 .. N : row(k) \in S /\ row(k)[1] = firsts[k]
        BY <1>3
    <2>2. ASSUME NEW r \in S PROVE \E k \in 1 .. N : r = row(k)
        <3>1. r[1] \in 1 .. Len(db)
            BY <1>2, <1>15 DEF Bounded, PageRange
        <3>2. PICK k \in 1 .. N : firsts[k] = r[1]
            BY <1>2, <3>1
        <3> HIDE DEF row
        <3> QED
            BY <1>15, <2>1, <3>2
    <2> HIDE DEF row
    <2> QED
        BY <2>1, <2>2
<1> HIDE DEF done, allowed, to, row, next
<1> QED
    BY <1>10, <1>11, <1>12, <1>13, <1>14, <1>15 DEF msgs

(***************************************************************************)
(* The rows of the two tables.                                             *)
(***************************************************************************)

LEMMA TilesFinite ==
    ASSUME NEW S, S \subseteq Positive \X Positive, NEW a \in Positive, NEW b \in Nat,
           PagesOf(S) = a .. b,
           \A r, s \in S : r # s => PagesIn(r) \intersect PagesIn(s) = {}
    PROVE  /\ IsFiniteSet(S)
           /\ \A r \in S : r[1] >= a /\ r[1] + r[2] <= b + 1
<1>1. ASSUME NEW r \in S
      PROVE  /\ r[1] \in Positive /\ r[2] \in Positive
             /\ r[1] \in PagesIn(r) /\ r[1] \in a .. b
             /\ (r[1] + r[2]) - 1 \in a .. b
    <2>1. r[1] \in Positive /\ r[2] \in Positive
        OBVIOUS
    <2>2. r[1] \in PagesIn(r) /\ (r[1] + r[2]) - 1 \in PagesIn(r)
        BY <2>1 DEF PagesIn, Positive
    <2>3. PagesIn(r) \subseteq PagesOf(S)
        BY DEF PagesOf
    <2> QED
        BY <2>1, <2>2, <2>3
<1> DEFINE f == [r \in S |-> r[1]]
<1>2. \A r, s \in S : r[1] = s[1] => r = s
    <2> SUFFICES ASSUME NEW r \in S, NEW s \in S, r[1] = s[1], r # s
                 PROVE  FALSE
        OBVIOUS
    <2>1. r[1] \in PagesIn(r) /\ s[1] \in PagesIn(s)
        BY <1>1
    <2> QED
        BY <2>1
<1>3. \A r \in S : r[1] \in a .. b
    BY <1>1
<1>4. f \in Injection(S, a .. b)
    BY <1>2, <1>3 DEF Injection, IsInjective
<1>5. IsFiniteSet(a .. b)
    BY FS_Interval DEF Positive
<1>6. IsFiniteSet(S)
    <2> HIDE DEF f
    <2> QED
        BY <1>4, <1>5, FS_Injection
<1>7. ASSUME NEW r \in S
      PROVE  r[1] >= a /\ r[1] + r[2] <= b + 1
    BY <1>1 DEF Positive
<1> QED
    BY <1>6, <1>7

LEMMA SubdivideBounded ==
    ASSUME NEW r, Bounded(r)
    PROVE  /\ IsFiniteSet(Subdivide(r[1], r[2]))
           /\ \A q \in Subdivide(r[1], r[2]) : Bounded(q)
<1> DEFINE S == Subdivide(r[1], r[2])
<1>1. /\ r[1] \in Positive /\ r[2] \in Positive /\ r[1] + r[2] < Modulus
      /\ (r[1] + r[2]) - 1 \in Nat
    BY RangeAsPair DEF Bounded, Positive
<1>2. /\ S \subseteq Positive \X Positive /\ PagesOf(S) = PagesIn(<<r[1], r[2]>>)
      /\ \A q, s \in S : q # s => PagesIn(q) \intersect PagesIn(s) = {}
    BY <1>1, SubdivideTiles
<1>3. PagesOf(S) = r[1] .. ((r[1] + r[2]) - 1)
    <2>1. PagesIn(<<r[1], r[2]>>) = r[1] .. (r[1] + r[2] - 1)
        BY DEF PagesIn
    <2>2. r[1] + r[2] - 1 = (r[1] + r[2]) - 1
        BY <1>1 DEF Positive
    <2> HIDE DEF S
    <2> QED
        BY <1>2, <2>1, <2>2
<1> HIDE DEF S
<1>4. IsFiniteSet(S) /\ \A q \in S : q[1] + q[2] <= ((r[1] + r[2]) - 1) + 1
    BY <1>1, <1>2, <1>3, TilesFinite
<1>5. \A q \in S : Bounded(q)
    <2> TAKE q \in S
    <2>1. q \in Positive \X Positive /\ q[1] + q[2] <= ((r[1] + r[2]) - 1) + 1
        BY <1>2, <1>4
    <2> QED
        BY <1>1, <2>1, RsyncAssumption DEF Bounded, PageRange, Positive
<1> QED
    BY <1>4, <1>5 DEF S

LEMMA FirstRangesBounded ==
    ASSUME NEW n \in Positive, n <= Modulus - 2, NEW v \in {1, 2}
    PROVE  /\ IsFiniteSet(FirstRanges(v, n))
           /\ \A q \in FirstRanges(v, n) : Bounded(q)
           /\ \E q \in FirstRanges(v, n) : q[1] <= n
<1> DEFINE S == FirstRanges(v, n)
<1>1. /\ S \subseteq Positive \X Positive /\ PagesOf(S) = 1 .. n
      /\ \A q, s \in S : q # s => PagesIn(q) \intersect PagesIn(s) = {}
    BY FirstRangesCover
<1> HIDE DEF S
<1>2. IsFiniteSet(S) /\ \A q \in S : q[1] + q[2] <= n + 1
    BY <1>1, TilesFinite DEF Positive
<1>3. \A q \in S : Bounded(q)
    <2> TAKE q \in S
    <2>1. q \in Positive \X Positive /\ q[1] + q[2] <= n + 1
        BY <1>1, <1>2
    <2> QED
        BY <2>1, RsyncAssumption DEF Bounded, PageRange, Positive
<1>4. \E q \in S : q[1] <= n
    <2>1. 1 \in PagesOf(S)
        BY <1>1 DEF Positive
    <2>2. PICK q \in S : 1 \in PagesIn(q)
        BY <2>1 DEF PagesOf
    <2>3. q[1] <= 1 /\ q[1] \in Positive
        BY <2>2, <1>1 DEF PagesIn, Positive
    <2> QED
        BY <2>3 DEF Positive
<1> QED
    BY <1>2, <1>3, <1>4 DEF S

LEMMA ReplaceIntoBounded ==
    ASSUME NEW S, NEW rows, IsFiniteSet(S), IsFiniteSet(rows),
           \A q \in S \union rows : Bounded(q)
    PROVE  /\ IsFiniteSet(ReplaceInto(S, rows))
           /\ \A q \in ReplaceInto(S, rows) : Bounded(q)
<1>1. {r \in S : \A x \in rows : x[1] # r[1]} \in SUBSET S
    OBVIOUS
<1>2. IsFiniteSet({r \in S : \A x \in rows : x[1] # r[1]})
    BY <1>1, FS_Subset
<1>3. IsFiniteSet(ReplaceInto(S, rows))
    BY <1>2, FS_Union DEF ReplaceInto
<1> QED
    BY <1>3 DEF ReplaceInto

(***************************************************************************)
(* The kinds of message there are in a sequence.                           *)
(***************************************************************************)

Types(msgs) == {msgs[k].type : k \in DOMAIN msgs}

LEMMA HasTypes ==
    ASSUME NEW msgs, NEW types
    PROVE  Has(msgs, types) <=> \E t \in types : t \in Types(msgs)
    BY DEF Has, Types

LEMMA TypesNothing == Types(<<>>) = {}
    BY DEF Types

LEMMA TypesAppend ==
    ASSUME NEW msgs \in Seq(Message), NEW m \in Message
    PROVE  Types(Append(msgs, m)) = Types(msgs) \union {m.type}
<1> DEFINE b == Append(msgs, m)
<1>1. /\ \A k \in DOMAIN msgs : k \in DOMAIN b /\ b[k] = msgs[k]
      /\ Len(msgs) + 1 \in DOMAIN b /\ b[Len(msgs) + 1] = m
      /\ \A k \in DOMAIN b : b[k] = m \/ (k \in DOMAIN msgs /\ b[k] = msgs[k])
    OBVIOUS
<1> HIDE DEF b
<1>2. Types(b) = Types(msgs) \union {m.type}
    BY <1>1 DEF Types
<1> QED
    BY <1>2 DEF b

LEMMA TypesOne ==
    ASSUME NEW m \in Message
    PROVE  Types(<<m>>) = {m.type}
    BY DEF Types

LEMMA InOrderAppend ==
    ASSUME NEW msgs \in Seq(Message), InOrder(msgs), NEW m \in Message,
           \A k \in DOMAIN msgs : Precedes(msgs[k].type, m.type)
    PROVE  InOrder(Append(msgs, m))
<1> DEFINE b == Append(msgs, m)
<1>1. /\ DOMAIN b = 1 .. Len(msgs) + 1 /\ DOMAIN msgs = 1 .. Len(msgs) /\ Len(msgs) \in Nat
      /\ b[Len(msgs) + 1] = m /\ \A k \in 1 .. Len(msgs) : b[k] = msgs[k]
    OBVIOUS
<1> HIDE DEF b
<1>2. ASSUME NEW j \in DOMAIN b, NEW k \in DOMAIN b, j < k
      PROVE  Precedes(b[j].type, b[k].type)
    <2>1. j \in 1 .. Len(msgs) /\ b[j] = msgs[j]
        BY <1>1, <1>2
    <2>2. CASE k = Len(msgs) + 1
        BY <1>1, <2>1, <2>2
    <2>3. CASE k # Len(msgs) + 1
        <3>1. k \in 1 .. Len(msgs) /\ b[k] = msgs[k]
            BY <1>1, <2>3
        <3> QED
            BY <1>1, <1>2, <2>1, <3>1 DEF InOrder
    <2> QED
        BY <2>2, <2>3
<1>3. InOrder(b)
    BY <1>2 DEF InOrder
<1> QED
    BY <1>3 DEF b

LEMMA InOrderAllowed ==
    ASSUME NEW msgs, \A j, k \in DOMAIN msgs : Precedes(msgs[j].type, msgs[k].type)
    PROVE  InOrder(msgs)
    BY DEF InOrder

LEMMA InOrderOne ==
    ASSUME NEW m \in Message
    PROVE  InOrder(<<m>>)
    BY DEF InOrder

\* A message that lets nothing follow it is the last one.
LEMMA LastWord ==
    ASSUME NEW b \in Seq(Message), InOrder(b), NEW type, \A t : ~Precedes(type, t),
           NEW n \in 0 .. Len(b), NEW a, a = SubSeq(b, 1, n), Has(a, {type})
    PROVE  a = b
<1>1. /\ a \in Seq(Message) /\ Len(a) = n /\ \A k \in 1 .. n : a[k] = b[k]
    OBVIOUS
<1>2. PICK k \in 1 .. n : a[k].type = type
    BY <1>1 DEF Has
<1>3. k = Len(b)
    <2> SUFFICES ASSUME k # Len(b) PROVE FALSE
        OBVIOUS
    <2>1. k \in DOMAIN b /\ Len(b) \in DOMAIN b /\ k < Len(b) /\ b[k].type = type
        BY <1>1, <1>2
    <2> QED
        BY <2>1 DEF InOrder
<1>4. Len(a) = Len(b) /\ \A i \in 1 .. Len(a) : a[i] = b[i]
    BY <1>1, <1>3
<1> QED
    BY <1>1, <1>4, SeqEqual

(***************************************************************************)
(* What the origin says in answer to a round.                              *)
(***************************************************************************)

LEMMA ConcatPair ==
    ASSUME NEW T, NEW s \in Seq(T), NEW d \in T, NEW e \in T, NEW b, b = s \o <<d, e>>
    PROVE  /\ b \in Seq(T) /\ Len(b) = Len(s) + 2
           /\ \A i \in 1 .. Len(s) : b[i] = s[i]
           /\ b[Len(s) + 1] = d /\ b[Len(s) + 2] = e
<1> DEFINE p == <<d, e>>
<1>1. p \in Seq(T) /\ Len(p) = 2 /\ p[1] = d /\ p[2] = e
    OBVIOUS
<1> HIDE DEF p
<1>2. /\ s \o p \in Seq(T) /\ Len(s \o p) = Len(s) + Len(p)
      /\ \A i \in 1 .. Len(s) + Len(p) :
            (s \o p)[i] = IF i <= Len(s) THEN s[i] ELSE p[i - Len(s)]
    BY <1>1, ConcatProperties, Zenon
<1>3. b = s \o p
    BY DEF p
<1>4. /\ b \in Seq(T) /\ Len(b) = Len(s) + 2 /\ Len(s) \in Nat
      /\ \A i \in 1 .. Len(s) + 2 : b[i] = IF i <= Len(s) THEN s[i] ELSE p[i - Len(s)]
    <2>1. /\ b \in Seq(T) /\ Len(b) = Len(s) + Len(p)
          /\ \A i \in 1 .. Len(s) + Len(p) :
                b[i] = IF i <= Len(s) THEN s[i] ELSE p[i - Len(s)]
        BY <1>2, <1>3, Zenon
    <2>2. Len(s) \in Nat
        OBVIOUS
    <2> QED
        BY <1>1, <2>1, <2>2
<1>5. b[Len(s) + 1] = p[1]
    BY <1>4
<1>6. b[Len(s) + 2] = p[2]
    BY <1>4
<1> QED
    BY <1>1, <1>4, <1>5, <1>6

LEMMA DetailsIs ==
    ASSUME \A r \in badHash : Bounded(r), mxHash \in Nat
    PROVE  /\ Details \in Seq(OriginMessages)
           /\ \A k \in DOMAIN Details :
                /\ Details[k].type = "ORIGIN_DETAIL"
                /\ Bounded(<<Details[k].fpg, Details[k].npg>>)
<1> DEFINE F == {r[1] : r \in BadGroups}
           firsts == Ascending(F, mxHash)
           group(i) == CHOOSE r \in BadGroups : r[1] = firsts[i]
           detail(i) == [type |-> "ORIGIN_DETAIL", fpg |-> firsts[i], npg |-> group(i)[2]]
<1>1. Details = [i \in DOMAIN firsts |-> detail(i)]
    BY DEF Details
<1>2. IsAscending(firsts, F, mxHash)
    <2> HIDE DEF F
    <2> QED
        BY AscendingIs
<1>3. /\ firsts \in Seq(Nat) /\ DOMAIN firsts = 1 .. Len(firsts) /\ Len(firsts) \in Nat
      /\ \A i \in DOMAIN firsts : firsts[i] \in F
    <2> HIDE DEF F, firsts
    <2> QED
        BY <1>2 DEF IsAscending
<1> HIDE DEF firsts
<1>4. ASSUME NEW i \in DOMAIN firsts
      PROVE  /\ detail(i) \in OriginMessages /\ detail(i).type = "ORIGIN_DETAIL"
             /\ Bounded(<<detail(i).fpg, detail(i).npg>>)
    <2>1. \E r \in BadGroups : r[1] = firsts[i]
        BY <1>3
    <2>2. group(i) \in BadGroups /\ group(i)[1] = firsts[i]
        BY <2>1
    <2> HIDE DEF group
    <2>3. Bounded(group(i))
        BY <2>2 DEF BadGroups
    <2>4. group(i) = <<firsts[i], group(i)[2]>> /\ firsts[i] \in Nat /\ group(i)[2] \in Nat
        BY <2>2, <2>3, RangeAsPair
    <2> QED
        BY <2>3, <2>4 DEF OriginMessages
<1> HIDE DEF detail
<1>5. Details \in [1 .. Len(firsts) -> OriginMessages]
    BY <1>1, <1>3, <1>4
<1>6. Details \in Seq(OriginMessages) /\ DOMAIN Details = DOMAIN firsts
    BY <1>3, <1>5
<1>7. \A k \in DOMAIN firsts : Details[k] = detail(k)
    BY <1>1
<1> QED
    BY <1>4, <1>6, <1>7

LEMMA PageStreamIs ==
    ASSUME snap \in Seq(Image)
    PROVE  /\ PageStream \in Seq(OriginMessages)
           /\ \A k \in DOMAIN PageStream :
                /\ PageStream[k].type = "ORIGIN_PAGE"
                /\ PageStream[k].pgno \in 1 .. Len(snap)
                /\ PageStream[k].data = snap[PageStream[k].pgno]
<1> DEFINE F == {r[1] : r \in Filled}
           pages == Ascending(F, Len(snap))
           page(i) == [type |-> "ORIGIN_PAGE", pgno |-> pages[i], data |-> snap[pages[i]]]
<1>1. PageStream = [i \in DOMAIN pages |-> page(i)]
    BY DEF PageStream
<1>2. IsAscending(pages, F, Len(snap))
    <2> HIDE DEF F
    <2>1. Len(snap) \in Nat
        OBVIOUS
    <2> QED
        BY <2>1, AscendingIs
<1>3. /\ pages \in Seq(Nat) /\ DOMAIN pages = 1 .. Len(pages) /\ Len(pages) \in Nat
      /\ \A i \in DOMAIN pages : pages[i] \in 1 .. Len(snap)
    <2> HIDE DEF F, pages
    <2> QED
        BY <1>2 DEF IsAscending
<1> HIDE DEF pages
<1>4. ASSUME NEW i \in DOMAIN pages
      PROVE  /\ page(i) \in OriginMessages /\ page(i).type = "ORIGIN_PAGE"
             /\ page(i).pgno \in 1 .. Len(snap) /\ page(i).data = snap[page(i).pgno]
    <2>1. pages[i] \in 1 .. Len(snap)
        BY <1>3
    <2>2. pages[i] \in Nat \ {0} /\ snap[pages[i]] \in Image
        BY <2>1
    <2> QED
        BY <2>1, <2>2 DEF OriginMessages
<1> HIDE DEF page
<1>5. PageStream \in [1 .. Len(pages) -> OriginMessages]
    BY <1>1, <1>3, <1>4
<1>6. PageStream \in Seq(OriginMessages) /\ DOMAIN PageStream = DOMAIN pages
    BY <1>3, <1>5
<1>7. \A k \in DOMAIN pages : PageStream[k] = page(k)
    BY <1>1
<1> QED
    BY <1>4, <1>6, <1>7

(***************************************************************************)
(* The stream.                                                             *)
(***************************************************************************)

LEMMA ConcatHeadTail ==
    ASSUME NEW T, NEW s \in Seq(T), s # <<>>, NEW t \in Seq(T), NEW u, u = s \o t
    PROVE  u \in Seq(T) /\ u # <<>> /\ Head(u) = Head(s) /\ Tail(u) = Tail(s) \o t
<1>1. /\ u \in Seq(T) /\ Len(u) = Len(s) + Len(t)
      /\ \A i \in 1 .. Len(s) + Len(t) : u[i] = IF i <= Len(s) THEN s[i] ELSE t[i - Len(s)]
    BY ConcatProperties
<1>2. Len(s) \in Nat \ {0} /\ Len(t) \in Nat
    OBVIOUS
<1>3. u # <<>> /\ Head(u) = Head(s)
    BY <1>1, <1>2
<1> DEFINE a == Tail(u)
           c == Tail(s)
           b == c \o t
<1>4. c \in Seq(T) /\ Len(c) = Len(s) - 1 /\ \A i \in 1 .. Len(s) - 1 : c[i] = s[i + 1]
    OBVIOUS
<1> HIDE DEF c
<1>5. /\ b \in Seq(T) /\ Len(b) = Len(c) + Len(t)
      /\ \A i \in 1 .. Len(c) + Len(t) : b[i] = IF i <= Len(c) THEN c[i] ELSE t[i - Len(c)]
    BY <1>4, ConcatProperties, Zenon
<1>6. a \in Seq(T) /\ Len(a) = Len(u) - 1 /\ \A i \in 1 .. Len(u) - 1 : a[i] = u[i + 1]
    BY <1>1, <1>3
<1> HIDE DEF a, b
<1>7. \A i \in 1 .. Len(a) : a[i] = b[i]
    <2> TAKE i \in 1 .. Len(a)
    <2>1. /\ i \in 1 .. Len(u) - 1 /\ i + 1 \in 1 .. Len(s) + Len(t)
          /\ i \in 1 .. Len(c) + Len(t)
        BY <1>1, <1>2, <1>4, <1>6
    <2>2. a[i] = IF i + 1 <= Len(s) THEN s[i + 1] ELSE t[(i + 1) - Len(s)]
        BY <2>1, <1>1, <1>6
    <2>3. b[i] = IF i <= Len(c) THEN c[i] ELSE t[i - Len(c)]
        BY <2>1, <1>5
    <2>4. CASE i + 1 <= Len(s)
        BY <2>1, <2>2, <2>3, <2>4, <1>2, <1>4
    <2>5. CASE ~(i + 1 <= Len(s))
        <3>1. (i + 1) - Len(s) = i - Len(c) /\ ~(i <= Len(c))
            BY <2>1, <2>5, <1>2, <1>4
        <3> QED
            BY <2>2, <2>3, <2>5, <3>1
    <2> QED
        BY <2>4, <2>5
<1>8. Len(a) = Len(b)
    BY <1>1, <1>2, <1>4, <1>5, <1>6
<1>9. a = b
    BY <1>5, <1>6, <1>7, <1>8, SeqEqual
<1> QED
    BY <1>1, <1>3, <1>9 DEF a, b, c

LEMMA ConcatNotEmpty ==
    ASSUME NEW T, NEW s \in Seq(T), NEW t \in Seq(T), t # <<>>
    PROVE  s \o t # <<>>
<1>1. Len(s \o t) = Len(s) + Len(t)
    BY ConcatProperties
<1>2. Len(s) \in Nat /\ Len(t) \in Nat /\ Len(t) # 0
    OBVIOUS
<1> DEFINE u == s \o t
<1>3. Len(u) # 0
    BY <1>1, <1>2
<1> HIDE DEF u
<1>4. u # <<>>
    BY <1>3
<1> QED
    BY <1>4 DEF u

LEMMA InFlightIs ==
    ASSUME WireTyped, NEW s \in Sides
    PROVE  InFlight(s) \in Seq(Message)
    BY ConcatProperties DEF WireTyped, InFlight

\* Reading takes the first message off what the peer has in flight.
LEMMA Reading ==
    ASSUME WireTyped, NEW s \in Sides, NEW type, Receives(s, type),
           chan' = Consumed(s), out'[Peer(s)] = out[Peer(s)], linkUp' = linkUp
    PROVE  LET msgs == InFlight(Peer(s)) IN
           /\ pc[s] = "read"
           /\ msgs # <<>> /\ Head(msgs) = Head(Incoming(s)) /\ Head(msgs).type = type
           /\ InFlight(Peer(s))' = Tail(msgs)
           /\ chan' \in [Sides -> Seq(Message)] /\ chan'[s] = chan[s]
           /\ \A x \in Sides : Capacity > 0 => Len(chan'[x]) <= Capacity
<1> DEFINE p == Peer(s)
           c == chan[p]
<1>1. p \in Sides /\ p # s /\ c \in Seq(Message) /\ out[p] \in Seq(Message)
    BY DEF WireTyped, Sides, Peer
<1>2. c # <<>> /\ Head(c).type = type /\ pc[s] = "read" /\ c = Incoming(s)
    BY DEF Receives, Incoming
<1>3. chan' = [chan EXCEPT ![p] = Tail(c)]
    BY DEF Consumed
<1>4. chan' \in [Sides -> Seq(Message)] /\ chan'[s] = chan[s] /\ chan'[p] = Tail(c)
    <2>1. Tail(c) \in Seq(Message)
        BY <1>1, <1>2
    <2> HIDE DEF p, c
    <2> QED
        BY <2>1, <1>1, <1>3 DEF WireTyped
<1>5. \A x \in Sides : Capacity > 0 => Len(chan'[x]) <= Capacity
    <2> TAKE x \in Sides
    <2>1. CASE x = p
        <3>1. Len(Tail(c)) = Len(c) - 1 /\ Len(c) \in Nat
            BY <1>1, <1>2
        <3>2. Capacity > 0 => Len(c) <= Capacity
            BY <1>1 DEF WireTyped
        <3> HIDE DEF p, c
        <3> QED
            BY <2>1, <3>1, <3>2, <1>4, CapacityAssumption
    <2>2. CASE x # p
        BY <2>2, <1>1, <1>3 DEF WireTyped
    <2> QED
        BY <2>1, <2>2
<1> HIDE DEF p, c
<1>6. CASE linkUp
    <2>1. InFlight(p) = c \o out[p] /\ InFlight(p)' = Tail(c) \o out[p]
        <3>1. InFlight(p) = c \o out[p]
            BY <1>6 DEF InFlight, c
        <3>2. InFlight(p)' = chan'[p] \o out'[p]
            BY <1>6 DEF InFlight, p
        <3> QED
            BY <3>1, <3>2, <1>4 DEF p
    <2>2. InFlight(p) # <<>> /\ Head(InFlight(p)) = Head(c) /\ Tail(InFlight(p)) = Tail(c) \o out[p]
        BY <2>1, <1>1, <1>2, ConcatHeadTail
    <2> QED
        BY <2>1, <2>2, <1>2, <1>4, <1>5 DEF p
<1>7. CASE ~linkUp
    <2>1. InFlight(p) = c /\ InFlight(p)' = Tail(c)
        <3>1. InFlight(p) = c
            BY <1>7 DEF InFlight, c
        <3>2. InFlight(p)' = chan'[p]
            BY <1>7 DEF InFlight, p
        <3> QED
            BY <3>1, <3>2, <1>4
    <2> QED
        BY <2>1, <1>2, <1>4, <1>5 DEF p
<1> QED
    BY <1>6, <1>7

\* A side with nothing in flight that writes has just that in flight.
LEMMA Writing ==
    ASSUME WireTyped, NEW s \in Sides, NEW msgs \in Seq(Message), NEW r,
           InFlight(s) = <<>>, out[s] = <<>>, chan'[s] = chan[s], Push(s, msgs, r)
    PROVE  InFlight(s)' = IF linkUp THEN msgs ELSE <<>>
<1>1. out'[s] = msgs /\ linkUp' = linkUp
    BY ConcatEmptySeq DEF Push, WireTyped
<1>2. chan[s] = <<>>
    BY ConcatEmptySeq DEF InFlight, WireTyped
<1>3. InFlight(s)' = IF linkUp THEN <<>> \o msgs ELSE <<>>
    BY <1>1, <1>2 DEF InFlight
<1>4. <<>> \o msgs = msgs
    BY ConcatEmptySeq
<1> QED
    BY <1>3, <1>4

LEMMA Pushed ==
    ASSUME WireTyped, NEW s \in Sides, NEW msgs \in Seq(Message),
           NEW r \in {"none", "nil", "error"}, Push(s, msgs, r),
           chan' \in [Sides -> Seq(Message)],
           \A x \in Sides : Capacity > 0 => Len(chan'[x]) <= Capacity
    PROVE  /\ WireTyped'
           /\ pc'[s] = "write" /\ ret'[s] = r /\ closed' = closed /\ linkUp' = linkUp
           /\ \A x \in Sides \ {s} : out'[x] = out[x] /\ pc'[x] = pc[x] /\ ret'[x] = ret[x]
<1>1. out[s] \o msgs \in Seq(Message)
    BY ConcatProperties DEF WireTyped
<1> QED
    BY <1>1 DEF WireTyped, Push

LEMMA Returned ==
    ASSUME WireTyped, NEW s \in Sides,
           NEW r \in {"nil", "error", "cancelled", "unregistered"}, Return(s, r),
           chan' \in [Sides -> Seq(Message)],
           \A x \in Sides : Capacity > 0 => Len(chan'[x]) <= Capacity
    PROVE  /\ WireTyped'
           /\ pc'[s] = "done" /\ ret'[s] = r /\ closed' = closed /\ linkUp' = linkUp
           /\ out' = out
           /\ \A x \in Sides \ {s} : pc'[x] = pc[x] /\ ret'[x] = ret[x]
    BY DEF WireTyped, Return

(***************************************************************************)
(* Whose turn it is.                                                       *)
(***************************************************************************)

LEMMA Conversing ==
    ASSUME WireTyped, Conversation
    PROVE  /\ FromOrigin \in Seq(Message) /\ FromOrigin \in Seq(OriginMessages)
           /\ FromReplica \in Seq(Message) /\ FromReplica \in Seq(ReplicaMessages)
           /\ InOrder(FromOrigin) /\ InOrder(FromReplica)
<1>1. FromOrigin \in Seq(Message) /\ FromReplica \in Seq(Message)
    BY InFlightIs DEF FromOrigin, FromReplica, Sides
<1>2. /\ \A k \in DOMAIN FromOrigin : FromOrigin[k] \in OriginMessages
      /\ \A k \in DOMAIN FromReplica : FromReplica[k] \in ReplicaMessages
    BY DEF Conversation
<1> HIDE DEF FromOrigin, FromReplica
<1>3. FromOrigin \in Seq(OriginMessages) /\ FromReplica \in Seq(ReplicaMessages)
    BY <1>1, <1>2
<1> QED
    BY <1>1, <1>3 DEF Conversation

LEMMA FirstWord ==
    ASSUME NEW msgs \in Seq(Message), msgs # <<>>
    PROVE  /\ 1 \in DOMAIN msgs /\ msgs[1] = Head(msgs)
           /\ Tail(msgs) \in Seq(Message)
    OBVIOUS

\* While the origin reads what the replica has to say, it has said nothing.
LEMMA OriginSilent ==
    ASSUME WireTyped, RolesInStep, Conversation, Turns, pc["origin"] = "read",
           FromReplica # <<>>,
           Head(FromReplica).type \notin {"REPLICA_ERROR", "REPLICA_MSG", "REPLICA_END"}
    PROVE  FromOrigin = <<>> /\ ~rs["replica"].commCheck
<1>1. FromReplica \in Seq(Message) /\ FromOrigin \in Seq(Message)
    BY Conversing
<1>2. ~rs["replica"].commCheck
    BY <1>1, FirstWord DEF Turns
<1>3. ASSUME FromOrigin = <<[type |-> "ORIGIN_ERROR"]>> PROVE FALSE
    <2>1. Has(FromOrigin, {"ORIGIN_ERROR"})
        BY <1>3 DEF Has
    <2>2. ret["origin"] = "none"
        BY DEF RolesInStep, Sides
    <2> QED
        BY <2>1, <2>2 DEF Turns
<1>4. FromReplica # <<[type |-> "REPLICA_ERROR"]>>
    <2>1. Head(<<[type |-> "REPLICA_ERROR"]>>).type = "REPLICA_ERROR"
        OBVIOUS
    <2> QED
        BY <2>1
<1> QED
    BY <1>2, <1>3, <1>4 DEF Turns

\* While the replica reads what the origin has to say, it has said nothing.
LEMMA ReplicaSilent ==
    ASSUME WireTyped, RolesInStep, Conversation, Turns, pc["replica"] = "read",
           FromOrigin # <<>>, Head(FromOrigin).type # "ORIGIN_ERROR"
    PROVE  FromReplica = <<>>
<1>1. FromReplica \in Seq(Message) /\ FromOrigin \in Seq(Message)
    BY Conversing
<1>2. ~rs["replica"].commCheck /\ ret["replica"] = "none"
    BY DEF RolesInStep, Sides
<1>3. ASSUME FromReplica = <<[type |-> "REPLICA_ERROR"]>> PROVE FALSE
    <2>1. Has(FromReplica, {"REPLICA_ERROR"})
        BY <1>3 DEF Has
    <2> QED
        BY <2>1, <1>2 DEF Turns
<1>4. FromOrigin # <<[type |-> "ORIGIN_ERROR"]>>
    <2>1. Head(<<[type |-> "ORIGIN_ERROR"]>>).type = "ORIGIN_ERROR"
        OBVIOUS
    <2> QED
        BY <2>1
<1> QED
    BY <1>2, <1>3, <1>4 DEF Turns

\* Behind a message that lets nothing follow it there is nothing.
LEMMA NothingBehind ==
    ASSUME NEW msgs \in Seq(Message), InOrder(msgs), msgs # <<>>,
           \A t : ~Precedes(Head(msgs).type, t)
    PROVE  Tail(msgs) = <<>>
<1> SUFFICES ASSUME Tail(msgs) # <<>> PROVE FALSE
    OBVIOUS
<1>1. 1 \in DOMAIN msgs /\ 2 \in DOMAIN msgs /\ 1 < 2 /\ msgs[1] = Head(msgs)
    OBVIOUS
<1> QED
    BY <1>1 DEF InOrder

LEMMA LastWords ==
    ASSUME NEW p \in {"ORIGIN_BEGIN", "ORIGIN_READY", "ORIGIN_END", "ORIGIN_ERROR",
                      "REPLICA_BEGIN", "REPLICA_READY", "REPLICA_END", "REPLICA_ERROR"}
    PROVE  \A t : ~Precedes(p, t)
    BY DEF Precedes

(***************************************************************************)
(* What a role that answers a message leaves behind.                       *)
(***************************************************************************)

\* The struct of either side with another protocol or other statistics.
SameOptions == \A s \in Sides : rs'[s].commCheck = rs[s].commCheck

LEMMA OriginAnswers ==
    ASSUME WireTyped, RolesInStep, Conversation, Turns, NEW type, Receives("origin", type),
           type \in {"REPLICA_BEGIN", "REPLICA_HASH", "REPLICA_READY"},
           NEW msgs \in Seq(OriginMessages), NEW r \in {"none", "error"},
           Push("origin", msgs, r), chan' = Consumed("origin"), SameOptions
    PROVE  /\ WireTyped' /\ RolesInStep'
           /\ pc["origin"] = "read" /\ ret["origin"] = "none"
           /\ FromReplica # <<>> /\ Head(FromReplica) = Head(Incoming("origin"))
           /\ Head(FromReplica).type = type /\ FromReplica' = Tail(FromReplica)
           /\ FromOrigin = <<>> /\ FromOrigin' = IF linkUp THEN msgs ELSE <<>>
           /\ ~rs["replica"].commCheck
           /\ pc'["origin"] = "write" /\ pc'["replica"] = pc["replica"]
           /\ ret'["origin"] = r /\ ret'["replica"] = ret["replica"]
           /\ linkUp' = linkUp /\ closed' = closed
<1>1. msgs \in Seq(Message) /\ "origin" \in Sides /\ Peer("origin") = "replica"
    BY DEF Message, Sides, Peer
<1>2. /\ out'["replica"] = out["replica"] /\ linkUp' = linkUp
    BY DEF Push, WireTyped, Sides
<1>3. /\ pc["origin"] = "read"
      /\ FromReplica # <<>> /\ Head(FromReplica) = Head(Incoming("origin"))
      /\ Head(FromReplica).type = type /\ FromReplica' = Tail(FromReplica)
      /\ chan' \in [Sides -> Seq(Message)] /\ chan'["origin"] = chan["origin"]
      /\ \A x \in Sides : Capacity > 0 => Len(chan'[x]) <= Capacity
    <2>1. LET m == InFlight(Peer("origin")) IN
           /\ pc["origin"] = "read"
           /\ m # <<>> /\ Head(m) = Head(Incoming("origin")) /\ Head(m).type = type
           /\ InFlight(Peer("origin"))' = Tail(m)
           /\ chan' \in [Sides -> Seq(Message)] /\ chan'["origin"] = chan["origin"]
           /\ \A x \in Sides : Capacity > 0 => Len(chan'[x]) <= Capacity
        BY <1>1, <1>2, Reading
    <2> QED
        BY <1>1, <2>1 DEF FromReplica
<1>4. FromOrigin = <<>> /\ ~rs["replica"].commCheck
    BY <1>3, OriginSilent
<1>5. ret["origin"] = "none" /\ out["origin"] = <<>>
    BY <1>3 DEF RolesInStep, Sides
<1>6. FromOrigin' = IF linkUp THEN msgs ELSE <<>>
    BY <1>1, <1>3, <1>4, <1>5, Writing DEF FromOrigin
<1>7. /\ WireTyped'
      /\ pc'["origin"] = "write" /\ ret'["origin"] = r /\ closed' = closed /\ linkUp' = linkUp
      /\ \A x \in Sides \ {"origin"} : out'[x] = out[x] /\ pc'[x] = pc[x] /\ ret'[x] = ret[x]
    BY <1>1, <1>3, Pushed
<1>8. pc'["replica"] = pc["replica"] /\ ret'["replica"] = ret["replica"]
    BY <1>7 DEF Sides
<1>9. chan'["replica"] = Tail(chan["replica"]) /\ chan["replica"] # <<>>
    BY DEF Receives, Incoming, Consumed, Peer, WireTyped, Sides
<1>10. RolesInStep'
    BY <1>2, <1>3, <1>7, <1>8, <1>9 DEF RolesInStep, Sides, SameOptions
<1> QED
    BY <1>3, <1>4, <1>5, <1>6, <1>7, <1>8, <1>10

LEMMA ReplicaAnswers ==
    ASSUME WireTyped, RolesInStep, Conversation, Turns, NEW type, Receives("replica", type),
           type \in {"ORIGIN_BEGIN", "ORIGIN_READY", "ORIGIN_PAGE", "ORIGIN_TXN"},
           NEW msgs \in Seq(ReplicaMessages), NEW r \in {"none", "error"},
           Push("replica", msgs, r), chan' = Consumed("replica"), SameOptions
    PROVE  /\ WireTyped' /\ RolesInStep'
           /\ pc["replica"] = "read" /\ ret["replica"] = "none" /\ ~rs["replica"].commCheck
           /\ FromOrigin # <<>> /\ Head(FromOrigin) = Head(Incoming("replica"))
           /\ Head(FromOrigin).type = type /\ FromOrigin' = Tail(FromOrigin)
           /\ FromReplica = <<>> /\ FromReplica' = IF linkUp THEN msgs ELSE <<>>
           /\ pc'["replica"] = "write" /\ pc'["origin"] = pc["origin"]
           /\ ret'["replica"] = r /\ ret'["origin"] = ret["origin"]
           /\ linkUp' = linkUp /\ closed' = closed
<1>1. msgs \in Seq(Message) /\ "replica" \in Sides /\ Peer("replica") = "origin"
    BY DEF Message, Sides, Peer
<1>2. /\ out'["origin"] = out["origin"] /\ linkUp' = linkUp
    BY DEF Push, WireTyped, Sides
<1>3. /\ pc["replica"] = "read"
      /\ FromOrigin # <<>> /\ Head(FromOrigin) = Head(Incoming("replica"))
      /\ Head(FromOrigin).type = type /\ FromOrigin' = Tail(FromOrigin)
      /\ chan' \in [Sides -> Seq(Message)] /\ chan'["replica"] = chan["replica"]
      /\ \A x \in Sides : Capacity > 0 => Len(chan'[x]) <= Capacity
    <2>1. LET m == InFlight(Peer("replica")) IN
           /\ pc["replica"] = "read"
           /\ m # <<>> /\ Head(m) = Head(Incoming("replica")) /\ Head(m).type = type
           /\ InFlight(Peer("replica"))' = Tail(m)
           /\ chan' \in [Sides -> Seq(Message)] /\ chan'["replica"] = chan["replica"]
           /\ \A x \in Sides : Capacity > 0 => Len(chan'[x]) <= Capacity
        BY <1>1, <1>2, Reading
    <2> QED
        BY <1>1, <2>1 DEF FromOrigin
<1>4. FromReplica = <<>>
    BY <1>3, ReplicaSilent
<1>5. ret["replica"] = "none" /\ out["replica"] = <<>> /\ ~rs["replica"].commCheck
    BY <1>3 DEF RolesInStep, Sides
<1>6. FromReplica' = IF linkUp THEN msgs ELSE <<>>
    BY <1>1, <1>3, <1>4, <1>5, Writing DEF FromReplica
<1>7. /\ WireTyped'
      /\ pc'["replica"] = "write" /\ ret'["replica"] = r /\ closed' = closed /\ linkUp' = linkUp
      /\ \A x \in Sides \ {"replica"} : out'[x] = out[x] /\ pc'[x] = pc[x] /\ ret'[x] = ret[x]
    BY <1>1, <1>3, Pushed
<1>8. pc'["origin"] = pc["origin"] /\ ret'["origin"] = ret["origin"]
    BY <1>7 DEF Sides
<1>9. chan'["origin"] = Tail(chan["origin"]) /\ chan["origin"] # <<>>
    BY DEF Receives, Incoming, Consumed, Peer, WireTyped, Sides
<1>10. RolesInStep'
    BY <1>2, <1>3, <1>7, <1>8, <1>9 DEF RolesInStep, Sides, SameOptions
<1> QED
    BY <1>3, <1>4, <1>5, <1>6, <1>7, <1>8, <1>10

\* A role that reads a message and reads on.
LEMMA OriginTakes ==
    ASSUME WireTyped, RolesInStep, NEW type, Receives("origin", type),
           ReadOn, chan' = Consumed("origin"), SameOptions
    PROVE  /\ WireTyped' /\ RolesInStep'
           /\ pc["origin"] = "read" /\ ret["origin"] = "none"
           /\ FromReplica # <<>> /\ Head(FromReplica) = Head(Incoming("origin"))
           /\ Head(FromReplica).type = type /\ FromReplica' = Tail(FromReplica)
           /\ FromOrigin' = FromOrigin
<1>1. "origin" \in Sides /\ Peer("origin") = "replica" /\ out' = out /\ linkUp' = linkUp
    BY DEF Sides, Peer, ReadOn
<1>2. LET m == InFlight(Peer("origin")) IN
           /\ pc["origin"] = "read"
           /\ m # <<>> /\ Head(m) = Head(Incoming("origin")) /\ Head(m).type = type
           /\ InFlight(Peer("origin"))' = Tail(m)
           /\ chan' \in [Sides -> Seq(Message)] /\ chan'["origin"] = chan["origin"]
           /\ \A x \in Sides : Capacity > 0 => Len(chan'[x]) <= Capacity
    BY <1>1, Reading
<1>3. FromOrigin' = FromOrigin
    BY <1>1, <1>2 DEF FromOrigin, InFlight
<1>4. chan'["replica"] = Tail(chan["replica"]) /\ chan["replica"] # <<>>
    BY DEF Receives, Incoming, Consumed, Peer, WireTyped, Sides
<1>5. WireTyped'
    BY <1>2 DEF WireTyped, ReadOn
<1>6. RolesInStep' /\ ret["origin"] = "none"
    BY <1>2, <1>4 DEF RolesInStep, Sides, SameOptions, ReadOn
<1> QED
    BY <1>1, <1>2, <1>3, <1>5, <1>6 DEF FromReplica

LEMMA ReplicaTakes ==
    ASSUME WireTyped, RolesInStep, NEW type, Receives("replica", type),
           ReadOn, chan' = Consumed("replica"), SameOptions
    PROVE  /\ WireTyped' /\ RolesInStep'
           /\ pc["replica"] = "read" /\ ret["replica"] = "none" /\ ~rs["replica"].commCheck
           /\ FromOrigin # <<>> /\ Head(FromOrigin) = Head(Incoming("replica"))
           /\ Head(FromOrigin).type = type /\ FromOrigin' = Tail(FromOrigin)
           /\ FromReplica' = FromReplica
<1>1. "replica" \in Sides /\ Peer("replica") = "origin" /\ out' = out /\ linkUp' = linkUp
    BY DEF Sides, Peer, ReadOn
<1>2. LET m == InFlight(Peer("replica")) IN
           /\ pc["replica"] = "read"
           /\ m # <<>> /\ Head(m) = Head(Incoming("replica")) /\ Head(m).type = type
           /\ InFlight(Peer("replica"))' = Tail(m)
           /\ chan' \in [Sides -> Seq(Message)] /\ chan'["replica"] = chan["replica"]
           /\ \A x \in Sides : Capacity > 0 => Len(chan'[x]) <= Capacity
    BY <1>1, Reading
<1>3. FromReplica' = FromReplica
    BY <1>1, <1>2 DEF FromReplica, InFlight
<1>4. chan'["origin"] = Tail(chan["origin"]) /\ chan["origin"] # <<>>
    BY DEF Receives, Incoming, Consumed, Peer, WireTyped, Sides
<1>5. WireTyped'
    BY <1>2 DEF WireTyped, ReadOn
<1>6. RolesInStep' /\ ret["replica"] = "none" /\ ~rs["replica"].commCheck
    BY <1>2, <1>4 DEF RolesInStep, Sides, SameOptions, ReadOn
<1> QED
    BY <1>1, <1>2, <1>3, <1>5, <1>6 DEF FromOrigin

\* A role that reads its last message.
LEMMA OriginEnds ==
    ASSUME WireTyped, RolesInStep, NEW type, NEW r \in {"nil", "error"},
           EndsRun("origin", type, r)
    PROVE  /\ WireTyped' /\ RolesInStep'
           /\ pc["origin"] = "read" /\ ret["origin"] = "none"
           /\ FromReplica # <<>> /\ Head(FromReplica).type = type
           /\ FromReplica' = Tail(FromReplica) /\ FromOrigin' = FromOrigin
           /\ pc'["origin"] = "done" /\ pc'["replica"] = pc["replica"]
           /\ ret'["origin"] = r /\ ret'["replica"] = ret["replica"] /\ linkUp' = linkUp
<1>1. /\ "origin" \in Sides /\ Peer("origin") = "replica" /\ out' = out /\ linkUp' = linkUp
      /\ Receives("origin", type) /\ chan' = Consumed("origin") /\ Return("origin", r)
      /\ UNCHANGED rs
    BY DEF Sides, Peer, EndsRun, Return
<1>2. LET m == InFlight(Peer("origin")) IN
           /\ pc["origin"] = "read"
           /\ m # <<>> /\ Head(m) = Head(Incoming("origin")) /\ Head(m).type = type
           /\ InFlight(Peer("origin"))' = Tail(m)
           /\ chan' \in [Sides -> Seq(Message)] /\ chan'["origin"] = chan["origin"]
           /\ \A x \in Sides : Capacity > 0 => Len(chan'[x]) <= Capacity
    BY <1>1, Reading
<1>3. FromOrigin' = FromOrigin
    BY <1>1, <1>2 DEF FromOrigin, InFlight
<1>4. /\ WireTyped'
      /\ pc'["origin"] = "done" /\ ret'["origin"] = r /\ closed' = closed
      /\ \A x \in Sides \ {"origin"} : pc'[x] = pc[x] /\ ret'[x] = ret[x]
    BY <1>1, <1>2, Returned
<1>5. pc'["replica"] = pc["replica"] /\ ret'["replica"] = ret["replica"]
    BY <1>4 DEF Sides
<1>6. chan'["replica"] = Tail(chan["replica"]) /\ chan["replica"] # <<>>
    BY <1>1 DEF Receives, Incoming, Consumed, Peer, WireTyped, Sides
<1>7. RolesInStep' /\ ret["origin"] = "none"
    BY <1>1, <1>2, <1>4, <1>5, <1>6 DEF RolesInStep, Sides
<1> QED
    BY <1>1, <1>2, <1>3, <1>4, <1>5, <1>7 DEF FromReplica

LEMMA ReplicaEnds ==
    ASSUME WireTyped, RolesInStep, NEW type, NEW r \in {"nil", "error"},
           EndsRun("replica", type, r)
    PROVE  /\ WireTyped' /\ RolesInStep'
           /\ pc["replica"] = "read" /\ ret["replica"] = "none" /\ ~rs["replica"].commCheck
           /\ FromOrigin # <<>> /\ Head(FromOrigin).type = type
           /\ FromOrigin' = Tail(FromOrigin) /\ FromReplica' = FromReplica
           /\ pc'["replica"] = "done" /\ pc'["origin"] = pc["origin"]
           /\ ret'["replica"] = r /\ ret'["origin"] = ret["origin"] /\ linkUp' = linkUp
<1>1. /\ "replica" \in Sides /\ Peer("replica") = "origin" /\ out' = out /\ linkUp' = linkUp
      /\ Receives("replica", type) /\ chan' = Consumed("replica") /\ Return("replica", r)
      /\ UNCHANGED rs
    BY DEF Sides, Peer, EndsRun, Return
<1>2. LET m == InFlight(Peer("replica")) IN
           /\ pc["replica"] = "read"
           /\ m # <<>> /\ Head(m) = Head(Incoming("replica")) /\ Head(m).type = type
           /\ InFlight(Peer("replica"))' = Tail(m)
           /\ chan' \in [Sides -> Seq(Message)] /\ chan'["replica"] = chan["replica"]
           /\ \A x \in Sides : Capacity > 0 => Len(chan'[x]) <= Capacity
    BY <1>1, Reading
<1>3. FromReplica' = FromReplica
    BY <1>1, <1>2 DEF FromReplica, InFlight
<1>4. /\ WireTyped'
      /\ pc'["replica"] = "done" /\ ret'["replica"] = r /\ closed' = closed
      /\ \A x \in Sides \ {"replica"} : pc'[x] = pc[x] /\ ret'[x] = ret[x]
    BY <1>1, <1>2, Returned
<1>5. pc'["origin"] = pc["origin"] /\ ret'["origin"] = ret["origin"]
    BY <1>4 DEF Sides
<1>6. chan'["origin"] = Tail(chan["origin"]) /\ chan["origin"] # <<>>
    BY <1>1 DEF Receives, Incoming, Consumed, Peer, WireTyped, Sides
<1>7. RolesInStep' /\ ret["replica"] = "none" /\ ~rs["replica"].commCheck
    BY <1>1, <1>2, <1>4, <1>5, <1>6 DEF RolesInStep, Sides
<1> QED
    BY <1>1, <1>2, <1>3, <1>4, <1>5, <1>7 DEF FromOrigin

(***************************************************************************)
(* Steps of the stream: what is in flight is cut at its end, or not.       *)
(***************************************************************************)

LEMMA Shrinking ==
    ASSUME SyncInductive, WireTyped', RolesInStep',
           UNCHANGED <<rs, originVars, replicaVars>>, faults' \in Nat, faults' = 0 => faults = 0,
           NEW i \in 0 .. Len(FromOrigin), FromOrigin' = SubSeq(FromOrigin, 1, i),
           NEW j \in 0 .. Len(FromReplica), FromReplica' = SubSeq(FromReplica, 1, j),
           \A s \in Sides : /\ pc'[s] \in {"start", "sql"} => pc'[s] = pc[s]
                            /\ pc[s] = "done" => pc'[s] = "done"
                            /\ \/ ret'[s] = ret[s] \/ ret'[s] \notin {"none", "nil"}
                               \/ ret[s] = "none" /\ ret'[s] = "nil",
           FailuresTold'
    PROVE  SyncInductive'
<1> DEFINE O == FromOrigin
           R == FromReplica
<1>1. /\ Typed /\ WireTyped /\ OriginTyped /\ ReplicaTyped /\ RolesInStep
      /\ Conversation /\ Turns /\ Stages /\ OneByOne /\ Exchanging /\ Committing
      /\ CountersNameRanges /\ FailuresTold /\ Tallies /\ WalChecked
    BY DEF SyncInductive, Typed
<1>2. /\ O \in Seq(Message) /\ O \in Seq(OriginMessages) /\ InOrder(O)
      /\ R \in Seq(Message) /\ R \in Seq(ReplicaMessages) /\ InOrder(R)
    BY <1>1, Conversing
<1>3. /\ O' \in Seq(Message) /\ Len(O') = i /\ \A k \in 1 .. i : O'[k] = O[k]
      /\ R' \in Seq(Message) /\ Len(R') = j /\ \A k \in 1 .. j : R'[k] = R[k]
      /\ Within(O', O) /\ Within(R', R)
    <2> HIDE DEF O, R
    <2>1. O' = SubSeq(O, 1, i) /\ R' = SubSeq(R, 1, j) /\ i \in 0 .. Len(O) /\ j \in 0 .. Len(R)
        BY DEF O, R
    <2> QED
        BY <1>2, <2>1, PrefixWithin
<1>4. \A types : /\ Has(O', types) => Has(O, types)
                 /\ Has(R', types) => Has(R, types)
    <2> HIDE DEF O, R
    <2> QED
        BY <1>2, <1>3, HasWithin
<1>5. /\ \A k \in DOMAIN O' : k \in DOMAIN O /\ O'[k] = O[k]
      /\ \A k \in DOMAIN R' : k \in DOMAIN R /\ R'[k] = R[k]
    <2>1. Len(O) \in Nat /\ Len(R) \in Nat /\ i \in 0 .. Len(O) /\ j \in 0 .. Len(R)
        BY <1>2
    <2> HIDE DEF O, R
    <2> QED
        BY <1>2, <1>3, <2>1
<1>6. O = <<>> => O' = <<>>
    <2> HIDE DEF O
    <2> QED
        BY <1>2, <1>3, <1>5
<1>7. R = <<>> => R' = <<>>
    <2>1. j \in 0 .. Len(R)
        OBVIOUS
    <2> HIDE DEF O, R
    <2>2. R = <<>> => Len(R') = 0
        BY <1>3, <2>1
    <2> QED
        BY <1>3, <2>2
<1>8. /\ rs' = rs /\ origin' = origin /\ snap' = snap
      /\ iHash' = iHash /\ nHash' = nHash /\ mxHash' = mxHash
      /\ badHash' = badHash /\ hashed' = hashed
      /\ file' = file /\ fileSize' = fileSize /\ nRPage' = nRPage /\ work' = work
      /\ sendHash' = sendHash /\ jMode' = jMode /\ pIns' = pIns
    BY DEF originVars, exchange, replicaVars, txn
<1>9. Rounds' = Rounds /\ HasCommitted' = HasCommitted
    BY <1>8 DEF Rounds, HasCommitted
<1>10. \A s \in Sides : /\ ret'[s] = "none" => ret[s] = "none"
                        /\ ret'[s] \in {"none", "nil"} => ret[s] \in {"none", "nil"}
    OBVIOUS
<1>11. Typed'
    BY <1>1, <1>8 DEF Typed, OriginTyped, ReplicaTyped
<1>12. Conversation'
    <2>1. InOrder(O') /\ InOrder(R')
        <3> HIDE DEF O, R
        <3> QED
            BY <1>2, <1>3, InOrderWithin
    <2>2. \A m : Truthful(m)' = Truthful(m)
        BY <1>8 DEF Truthful
    <2> QED
        BY <1>1, <1>5, <2>1, <2>2 DEF Conversation
<1>13. Turns'
    <2>1. /\ Has(O', {"ORIGIN_ERROR"}) => ret'["origin"] \notin {"none", "nil"}
          /\ Has(R', {"REPLICA_ERROR"}) => ret'["replica"] \notin {"none", "nil"}
        BY <1>1, <1>4, <1>10 DEF Turns, Sides
    <2>2. \A k \in DOMAIN O' :
            IF rs["origin"].commCheck THEN O'[k].type \in {"ORIGIN_MSG", "ORIGIN_END"}
            ELSE O'[k].type # "ORIGIN_MSG"
        BY <1>1, <1>5 DEF Turns
    <2>3. \A k \in DOMAIN R' :
            R'[k].type \in {"REPLICA_MSG", "REPLICA_END"} <=> rs["replica"].commCheck
        BY <1>1, <1>5 DEF Turns
    <2>4. O = <<[type |-> "ORIGIN_ERROR"]>> => O' = <<>> \/ O' = O
        <3>1. O = <<[type |-> "ORIGIN_ERROR"]>> => Len(O) = 1
            OBVIOUS
        <3> HIDE DEF O
        <3> QED
            BY <1>2, <1>3, <1>5, <3>1
    <2>5. R = <<[type |-> "REPLICA_ERROR"]>> => R' = <<>> \/ R' = R
        <3>1. R = <<[type |-> "REPLICA_ERROR"]>> => Len(R) = 1
            OBVIOUS
        <3> HIDE DEF R
        <3> QED
            BY <1>2, <1>3, <1>5, <3>1
    <2> QED
        BY <1>1, <1>6, <1>7, <1>8, <2>1, <2>2, <2>3, <2>4, <2>5 DEF Turns
<1>14. Stages'
    <2>1. NothingHashed => NothingHashed'
        BY <1>4, <1>8 DEF NothingHashed
    <2>2. Agreed' = Agreed
        BY <1>8 DEF Agreed
    <2> QED
        BY <1>1, <1>4, <1>6, <1>7, <1>8, <1>9, <1>10, <2>1, <2>2 DEF Stages, Sides
<1>15. OneByOne'
    BY <1>1, <1>4, <1>8, <1>9 DEF OneByOne
<1>16. Exchanging'
    <2>1. TransactionOpen' => TransactionOpen
        BY <1>8 DEF TransactionOpen, Sides
    <2>2. Has(R', {"REPLICA_READY"}) => R' = R
        <3>1. R' = SubSeq(R, 1, j) /\ j \in 0 .. Len(R) /\ \A t : ~Precedes("REPLICA_READY", t)
            BY LastWords
        <3> HIDE DEF R
        <3> QED
            BY <1>2, <3>1, LastWord
    <2> QED
        BY <1>1, <1>4, <1>8, <1>9, <1>10, <2>1, <2>2 DEF Exchanging, Sides
<1>17. Committing'
    <2>1. Has(O', {"ORIGIN_END"}) => O' = O
        <3>1. O' = SubSeq(O, 1, i) /\ i \in 0 .. Len(O) /\ \A t : ~Precedes("ORIGIN_END", t)
            BY LastWords
        <3> HIDE DEF O
        <3> QED
            BY <1>2, <3>1, LastWord
    <2> QED
        BY <1>1, <1>7, <1>8, <1>9, <1>10, <2>1 DEF Committing, Sides
<1>18. CountersNameRanges'
    <2>1. R' \in Seq(ReplicaMessages)
        BY <1>2, <1>3, <1>5
    <2>2. <<iHash, nHash>> \in Nat \X Nat
        BY <1>1, RsyncAssumption DEF OriginTyped
    <2>3. Len(R') <= Len(R) /\ \A k \in 1 .. Len(R') : R'[k] = R[k]
        BY <1>2, <1>3
    <2> HIDE DEF R
    <2>4. NamesRanges(R, <<iHash, nHash>>, work) => NamesRanges(R', <<iHash, nHash>>, work)
        BY <1>2, <2>1, <2>2, <2>3, PrefixNamesRanges
    <2> QED
        BY <1>1, <1>8, <1>10, <2>4 DEF CountersNameRanges, R, Sides
<1>19. Tallies'
    <2>1. Cardinality(HashesIn(R')) <= Cardinality(HashesIn(R))
        <3> HIDE DEF R
        <3> QED
            BY <1>2, <1>3, HashesWithin
    <2>2. Cardinality(HashesIn(R')) \in Nat /\ Cardinality(HashesIn(R)) \in Nat
        <3> HIDE DEF R
        <3> QED
            BY <1>2, <1>3, HashesFinite
    <2>3. rs["origin"].hashMessages \in Nat /\ rs["replica"].hashMessages \in Nat
        BY <1>1 DEF Typed, Structs, Sides
    <2>4. ret'["replica"] \in {"none", "nil"} =>
            rs["origin"].hashMessages + Cardinality(HashesIn(R')) <= rs["replica"].hashMessages
        BY <1>1, <1>10, <2>1, <2>2, <2>3 DEF Tallies, Sides
    <2>5. \A k \in DOMAIN O' : O'[k].type = "ORIGIN_TXN" =>
            rs["origin"].pageUpdates = rs["replica"].pageUpdates + (k - 1)
        BY <1>1, <1>5 DEF Tallies
    <2> QED
        BY <1>1, <1>4, <1>8, <1>9, <2>4, <2>5 DEF Tallies
<1>20. WalChecked'
    BY <1>1, <1>8 DEF WalChecked, Sides
<1> QED
    BY <1>11, <1>12, <1>13, <1>14, <1>15, <1>16, <1>17, <1>18, <1>19, <1>20 DEF SyncInductive

\* What either side has in flight is cut at its end.
Cut == \A x \in Sides : \E n \in 0 .. Len(InFlight(x)) :
            InFlight(x)' = SubSeq(InFlight(x), 1, n)

LEMMA SubSeqPrefix ==
    ASSUME NEW T, NEW s \in Seq(T), NEW t \in Seq(T), NEW i \in 0 .. Len(s)
    PROVE  /\ i \in 0 .. Len(s \o t) /\ SubSeq(s, 1, i) = SubSeq(s \o t, 1, i)
           /\ SubSeq(s, 1, Len(s)) = s
<1> DEFINE u == s \o t
           a == SubSeq(s, 1, i)
           b == SubSeq(u, 1, i)
<1>1. /\ u \in Seq(T) /\ Len(u) = Len(s) + Len(t)
      /\ \A k \in 1 .. Len(s) + Len(t) : u[k] = IF k <= Len(s) THEN s[k] ELSE t[k - Len(s)]
    BY ConcatProperties
<1>2. Len(s) \in Nat /\ Len(t) \in Nat /\ i \in 0 .. Len(u)
    BY <1>1
<1> HIDE DEF u
<1>3. /\ a \in Seq(T) /\ Len(a) = i /\ \A k \in 1 .. i : a[k] = s[k]
    OBVIOUS
<1>4. /\ b \in Seq(T) /\ Len(b) = i /\ \A k \in 1 .. i : b[k] = u[k]
    BY <1>1, <1>2
<1> HIDE DEF a, b
<1>5. a = b
    <2>1. \A k \in 1 .. i : a[k] = b[k]
        BY <1>1, <1>2, <1>3, <1>4
    <2> QED
        BY <1>3, <1>4, <2>1, SeqEqual
<1>6. SubSeq(s, 1, Len(s)) = s
    BY SubSeqFull
<1> QED
    BY <1>2, <1>5, <1>6 DEF u, a, b

LEMMA NothingCut ==
    ASSUME WireTyped, \A x \in Sides : InFlight(x)' = InFlight(x)
    PROVE  Cut
<1> SUFFICES ASSUME NEW x \in Sides
             PROVE  \E n \in 0 .. Len(InFlight(x)) : InFlight(x)' = SubSeq(InFlight(x), 1, n)
    BY DEF Cut
<1>1. InFlight(x) \in Seq(Message)
    BY InFlightIs
<1>2. Len(InFlight(x)) \in 0 .. Len(InFlight(x))
    BY <1>1
<1>3. SubSeq(InFlight(x), 1, Len(InFlight(x))) = InFlight(x)
    BY <1>1, SubSeqFull
<1> QED
    BY <1>2, <1>3

\* A side that fails to write loses what it has not handed to the stream.
LEMMA BufferLost ==
    ASSUME WireTyped, NEW s \in Sides, out' = [out EXCEPT ![s] = <<>>],
           chan' = chan, linkUp' = linkUp
    PROVE  Cut
<1> SUFFICES ASSUME NEW x \in Sides
             PROVE  \E n \in 0 .. Len(InFlight(x)) : InFlight(x)' = SubSeq(InFlight(x), 1, n)
    BY DEF Cut
<1>1. InFlight(x) \in Seq(Message) /\ chan[x] \in Seq(Message) /\ out[x] \in Seq(Message)
    BY InFlightIs DEF WireTyped
<1>2. InFlight(x)' = InFlight(x) \/ InFlight(x)' = chan[x]
    <2>1. out'[x] = out[x] \/ out'[x] = <<>>
        BY DEF WireTyped
    <2>2. chan[x] \o <<>> = chan[x]
        BY <1>1, ConcatEmptySeq
    <2>3. InFlight(x)' = IF linkUp THEN chan[x] \o out'[x] ELSE chan[x]
        BY DEF InFlight
    <2>4. InFlight(x) = IF linkUp THEN chan[x] \o out[x] ELSE chan[x]
        BY DEF InFlight
    <2> HIDE DEF InFlight
    <2> QED
        BY <2>1, <2>2, <2>3, <2>4
<1>3. InFlight(x) = chan[x] \o out[x] \/ InFlight(x) = chan[x]
    BY DEF InFlight
<1>4. /\ Len(chan[x]) \in 0 .. Len(chan[x] \o out[x]) /\ Len(chan[x]) \in 0 .. Len(chan[x])
      /\ SubSeq(chan[x] \o out[x], 1, Len(chan[x])) = chan[x]
      /\ SubSeq(chan[x], 1, Len(chan[x])) = chan[x]
    <2>1. Len(chan[x]) \in 0 .. Len(chan[x])
        BY <1>1
    <2> QED
        BY <1>1, <2>1, SubSeqPrefix
<1>5. Len(InFlight(x)) \in 0 .. Len(InFlight(x)) /\ SubSeq(InFlight(x), 1, Len(InFlight(x))) = InFlight(x)
    BY <1>1, SubSeqFull
<1> HIDE DEF InFlight
<1>6. CASE InFlight(x)' = InFlight(x)
    BY <1>5, <1>6
<1>7. CASE InFlight(x)' = chan[x]
    BY <1>3, <1>4, <1>7
<1> QED
    BY <1>2, <1>6, <1>7

LEMMA LinkLost ==
    ASSUME WireTyped, LinkBreaks
    PROVE  Cut /\ WireTyped'
<1>1. PICK i \in 0 .. Len(chan["origin"]), j \in 0 .. Len(chan["replica"]) :
        chan' = [origin  |-> SubSeq(chan["origin"], 1, i),
                 replica |-> SubSeq(chan["replica"], 1, j)]
    BY DEF LinkBreaks
<1>2. /\ chan["origin"] \in Seq(Message) /\ chan["replica"] \in Seq(Message)
      /\ out["origin"] \in Seq(Message) /\ out["replica"] \in Seq(Message)
    BY DEF WireTyped, Sides
<1>3. /\ chan'["origin"] = SubSeq(chan["origin"], 1, i)
      /\ chan'["replica"] = SubSeq(chan["replica"], 1, j)
      /\ DOMAIN chan' = Sides
    BY <1>1 DEF Sides
<1>4. /\ chan'["origin"] \in Seq(Message) /\ Len(chan'["origin"]) = i
      /\ chan'["replica"] \in Seq(Message) /\ Len(chan'["replica"]) = j
    BY <1>2, <1>3, PrefixWithin
<1>5. WireTyped'
    <2>1. chan' \in [Sides -> Seq(Message)]
        <3>1. chan' = [x \in Sides |-> chan'[x]]
            BY <1>1, <1>3
        <3>2. \A x \in Sides : chan'[x] \in Seq(Message)
            BY <1>4 DEF Sides
        <3> QED
            BY <3>1, <3>2
    <2>2. \A x \in Sides : Len(chan'[x]) <= Len(chan[x]) /\ Len(chan'[x]) \in Nat /\ Len(chan[x]) \in Nat
        BY <1>2, <1>4 DEF Sides
    <2>3. \A x \in Sides : Capacity > 0 => Len(chan'[x]) <= Capacity
        BY <2>2, CapacityAssumption DEF WireTyped
    <2> QED
        BY <2>1, <2>3 DEF WireTyped, LinkBreaks
<1>6. linkUp /\ ~linkUp'
    BY DEF LinkBreaks
<1>7. /\ InFlight("origin") = chan["origin"] \o out["origin"]
      /\ InFlight("origin")' = SubSeq(chan["origin"], 1, i)
      /\ InFlight("replica") = chan["replica"] \o out["replica"]
      /\ InFlight("replica")' = SubSeq(chan["replica"], 1, j)
    BY <1>3, <1>6 DEF InFlight
<1>8. /\ i \in 0 .. Len(InFlight("origin"))
      /\ InFlight("origin")' = SubSeq(InFlight("origin"), 1, i)
    <2>1. /\ i \in 0 .. Len(chan["origin"] \o out["origin"])
          /\ SubSeq(chan["origin"], 1, i) = SubSeq(chan["origin"] \o out["origin"], 1, i)
        BY <1>2, SubSeqPrefix, ZenonT(60)
    <2> QED
        BY <1>7, <2>1, Zenon
<1>9. /\ j \in 0 .. Len(InFlight("replica"))
      /\ InFlight("replica")' = SubSeq(InFlight("replica"), 1, j)
    <2>1. /\ j \in 0 .. Len(chan["replica"] \o out["replica"])
          /\ SubSeq(chan["replica"], 1, j) = SubSeq(chan["replica"] \o out["replica"], 1, j)
        BY <1>2, SubSeqPrefix, ZenonT(60)
    <2> QED
        BY <1>7, <2>1, Zenon
<1> QED
    BY <1>5, <1>8, <1>9 DEF Cut, Sides

\* The stream takes messages from a writer: none is lost.
LEMMA Transferring ==
    ASSUME WireTyped, NEW s \in Sides, Transfer(s)
    PROVE  (\A x \in Sides : InFlight(x)' = InFlight(x)) /\ WireTyped'
<1> DEFINE o == out[s]
           c == chan[s]
<1>1. PICK k \in 1 .. Len(o) :
        /\ k <= Room(s)
        /\ chan' = [chan EXCEPT ![s] = @ \o SubSeq(o, 1, k)]
        /\ out' = [out EXCEPT ![s] = SubSeq(@, k + 1, Len(@))]
    BY DEF Transfer
<1> DEFINE a == SubSeq(o, 1, k)
           b == SubSeq(o, k + 1, Len(o))
<1>2. o \in Seq(Message) /\ c \in Seq(Message)
    BY DEF WireTyped
<1>3. Len(o) \in Nat /\ Len(c) \in Nat
    BY <1>2
<1>4. a \in Seq(Message) /\ b \in Seq(Message) /\ Len(a) = k /\ a \o b = o
    <2> HIDE DEF o
    <2>1. a \in Seq(Message) /\ b \in Seq(Message) /\ Len(a) = k
        BY <1>2, <1>3
    <2>2. SubSeq(o, 1, k) \o SubSeq(o, k + 1, Len(o)) = SubSeq(o, 1, Len(o))
        BY <1>2, <1>3, ConcatAdjacentSubSeq
    <2>3. SubSeq(o, 1, Len(o)) = o
        BY <1>2, SubSeqFull
    <2> QED
        BY <2>1, <2>2, <2>3
<1>5. /\ chan' \in [Sides -> Seq(Message)] /\ chan'[s] = c \o a
      /\ \A x \in Sides \ {s} : chan'[x] = chan[x]
      /\ out' \in [Sides -> Seq(Message)] /\ out'[s] = b
      /\ \A x \in Sides \ {s} : out'[x] = out[x]
    <2>1. c \o a \in Seq(Message)
        BY <1>2, <1>4, ConcatProperties
    <2> HIDE DEF a, b
    <2>2. chan' = [chan EXCEPT ![s] = c \o a] /\ out' = [out EXCEPT ![s] = b]
        BY <1>1 DEF a, b
    <2> HIDE DEF c, o
    <2> QED
        BY <2>1, <2>2, <1>4 DEF WireTyped
<1>6. Len(c \o a) = Len(c) + k
    BY <1>2, <1>4, ConcatProperties
<1>7. Capacity > 0 => Len(c \o a) <= Capacity
    <2>1. Capacity > 0 => k <= Capacity - Len(c)
        BY <1>1 DEF Room
    <2> HIDE DEF c, a
    <2> QED
        BY <1>3, <1>6, <2>1, CapacityAssumption
<1>8. WireTyped'
    <2> HIDE DEF c, a
    <2> QED
        BY <1>5, <1>7 DEF WireTyped, Transfer
<1>9. InFlight(s)' = InFlight(s)
    <2>1. linkUp /\ linkUp'
        BY DEF Transfer
    <2>2. InFlight(s) = c \o o /\ InFlight(s)' = (c \o a) \o b
        BY <1>5, <2>1 DEF InFlight
    <2>3. (c \o a) \o b = c \o (a \o b)
        <3>1. a \in Seq(Message) /\ b \in Seq(Message)
            BY <1>4
        <3>2. c \in Seq(Message)
            BY <1>2
        <3>3. \A x, y, z \in Seq(Message) : (x \o y) \o z = x \o (y \o z)
            BY ConcatAssociative
        <3> HIDE DEF a, b, c, o
        <3> QED
            BY <3>1, <3>2, <3>3, Zenon
    <2> QED
        BY <1>4, <2>2, <2>3
<1>10. \A x \in Sides : InFlight(x)' = InFlight(x)
    <2> TAKE x \in Sides
    <2>1. CASE x = s
        BY <2>1, <1>9
    <2>2. CASE x # s
        BY <2>2, <1>5 DEF InFlight, Transfer
    <2> QED
        BY <2>1, <2>2
<1> QED
    BY <1>8, <1>10

\* What holds of a step that cuts what is in flight and changes no local.
LEMMA CutShrinks ==
    ASSUME SyncInductive, Cut, WireTyped', RolesInStep',
           UNCHANGED <<rs, originVars, replicaVars>>, faults' \in Nat, faults' = 0 => faults = 0,
           \A s \in Sides : /\ pc'[s] \in {"start", "sql"} => pc'[s] = pc[s]
                            /\ pc[s] = "done" => pc'[s] = "done"
                            /\ \/ ret'[s] = ret[s] \/ ret'[s] \notin {"none", "nil"}
                               \/ ret[s] = "none" /\ ret'[s] = "nil",
           FailuresTold'
    PROVE  SyncInductive'
<1>1. PICK i \in 0 .. Len(FromOrigin) : FromOrigin' = SubSeq(FromOrigin, 1, i)
    BY DEF Cut, Sides, FromOrigin
<1>2. PICK j \in 0 .. Len(FromReplica) : FromReplica' = SubSeq(FromReplica, 1, j)
    BY DEF Cut, Sides, FromReplica
<1> QED
    BY <1>1, <1>2, Shrinking

\* Nobody's result changes and nothing is lost.
LEMMA SameTold ==
    ASSUME FailuresTold, UNCHANGED <<rs, originVars, replicaVars>>,
           \A x \in Sides : InFlight(x)' = InFlight(x), ret' = ret, linkUp' = linkUp,
           pc["replica"] = "done" => pc'["replica"] = "done"
    PROVE  FailuresTold'
<1>1. FromOrigin' = FromOrigin /\ FromReplica' = FromReplica
    BY DEF FromOrigin, FromReplica, Sides
<1>2. HasCommitted' = HasCommitted /\ Regular' = Regular
    BY DEF HasCommitted, Rounds, replicaVars, txn, Regular
<1> QED
    BY <1>1, <1>2 DEF FailuresTold

LEMMA TransferKeeps ==
    ASSUME SyncInductive, NEW s \in Sides, Transfer(s),
           UNCHANGED <<rs, faults, originVars, replicaVars>>
    PROVE  SyncInductive'
<1>1. WireTyped /\ RolesInStep /\ FailuresTold /\ faults \in Nat
    BY DEF SyncInductive, Typed
<1>2. (\A x \in Sides : InFlight(x)' = InFlight(x)) /\ WireTyped'
    BY <1>1, Transferring
<1>3. pc' = pc /\ ret' = ret /\ linkUp' = linkUp /\ closed' = closed
    BY DEF Transfer
<1>4. RolesInStep'
    <2>1. pc[s] = "write" /\ \A x \in Sides \ {s} : out'[x] = out[x] /\ chan'[x] = chan[x]
        BY <1>1 DEF Transfer, WireTyped
    <2> QED
        BY <1>1, <1>3, <2>1 DEF RolesInStep
<1>5. FailuresTold' /\ Cut
    BY <1>1, <1>2, <1>3, SameTold, NothingCut
<1> QED
    BY <1>1, <1>2, <1>3, <1>4, <1>5, CutShrinks

LEMMA FlushedKeeps ==
    ASSUME SyncInductive, NEW s \in Sides, Flushed(s),
           UNCHANGED <<rs, faults, originVars, replicaVars>>
    PROVE  SyncInductive'
<1>1. WireTyped /\ RolesInStep /\ FailuresTold /\ faults \in Nat
    BY DEF SyncInductive, Typed
<1>2. out' = out /\ chan' = chan /\ ret' = ret /\ linkUp' = linkUp /\ closed' = closed
    BY DEF Flushed
<1>3. \A x \in Sides : InFlight(x)' = InFlight(x)
    BY <1>2 DEF InFlight
<1>4. /\ pc'[s] = IF ret[s] = "none" THEN "read" ELSE "done"
      /\ pc[s] = "write" /\ out[s] = <<>> /\ \A x \in Sides \ {s} : pc'[x] = pc[x]
    BY <1>1 DEF Flushed, WireTyped
<1>5. WireTyped'
    BY <1>1, <1>2 DEF WireTyped, Flushed
<1>6. RolesInStep'
    BY <1>1, <1>2, <1>4 DEF RolesInStep, Sides
<1>7. FailuresTold' /\ Cut
    BY <1>1, <1>2, <1>3, <1>4, SameTold, NothingCut DEF Sides
<1> QED
    BY <1>1, <1>2, <1>4, <1>5, <1>6, <1>7, CutShrinks

LEMMA WriteFailsKeeps ==
    ASSUME SyncInductive, NEW s \in Sides, WriteFails(s),
           UNCHANGED <<rs, faults, originVars, replicaVars>>
    PROVE  SyncInductive'
<1>1. WireTyped /\ RolesInStep /\ FailuresTold /\ faults \in Nat
    BY DEF SyncInductive, Typed
<1>2. /\ out' = [out EXCEPT ![s] = <<>>] /\ chan' = chan /\ linkUp' = linkUp /\ closed' = closed
      /\ pc[s] = "write" /\ out[s] # <<>> /\ (closed[Peer(s)] \/ ~linkUp)
    BY DEF WriteFails
<1>3. /\ pc'[s] = "done" /\ ret'[s] = "error"
      /\ \A x \in Sides \ {s} : pc'[x] = pc[x] /\ ret'[x] = ret[x]
    BY <1>1 DEF WriteFails, WireTyped
<1>4. Cut
    BY <1>1, <1>2, BufferLost
<1>5. WireTyped'
    BY <1>1 DEF WireTyped, WriteFails
<1>6. RolesInStep'
    BY <1>1, <1>2, <1>3 DEF RolesInStep, Sides, WireTyped
<1>7. FailuresTold'
    <2> SUFFICES ASSUME Regular' PROVE FailuresTold'
        BY DEF FailuresTold
    <2>1. Regular /\ linkUp
        BY <1>1, <1>2, <1>3 DEF Regular, RolesInStep, Sides
    <2>2. ret[s] \in {"none", "nil", "error"} /\ closed[Peer(s)] /\ Peer(s) \in Sides \ {s}
          /\ pc[Peer(s)] = "done" /\ ret[Peer(s)] \in {"nil", "error"}
        BY <1>1, <1>2, <2>1 DEF RolesInStep, Sides, Peer, WireTyped, Regular
    <2>3. s = "origin" => FromOrigin # <<>>
        <3>1. s = "origin" => FromOrigin = chan[s] \o out[s]
            BY <2>1 DEF FromOrigin, InFlight
        <3>2. chan[s] \in Seq(Message) /\ out[s] \in Seq(Message)
            BY <1>1 DEF WireTyped
        <3>3. chan[s] \o out[s] # <<>>
            BY <3>2, <1>2, ConcatNotEmpty
        <3> QED
            BY <3>1, <3>3
    <2>4. ret[Peer(s)] # "nil"
        BY <1>1, <1>2, <2>1, <2>3 DEF FailuresTold, Sides, Peer
    <2>5. \A x \in Sides : ret'[x] = "error"
        BY <1>3, <2>2, <2>4 DEF Sides, Peer
    <2> QED
        BY <2>5 DEF FailuresTold, Sides
<1> QED
    BY <1>1, <1>2, <1>3, <1>4, <1>5, <1>6, <1>7, CutShrinks

\* Nothing more is to come of a side whose stream is closed and read.
LEMMA StreamEndsKeeps ==
    ASSUME SyncInductive, NEW s \in Sides, StreamEnds(s),
           UNCHANGED <<rs, faults, originVars, replicaVars>>
    PROVE  SyncInductive'
<1>1. WireTyped /\ RolesInStep /\ FailuresTold /\ faults \in Nat
    BY DEF SyncInductive, Typed
<1>2. PICK r \in {"nil", "error"} :
        /\ Return(s, r) /\ chan' = chan /\ pc[s] = "read" /\ Incoming(s) = <<>>
        /\ linkUp => closed[Peer(s)]
        /\ linkUp /\ r = "error" => ret[Peer(s)] \in {"killed", "cancelled"}
    BY DEF StreamEnds
<1>3. /\ WireTyped'
      /\ pc'[s] = "done" /\ ret'[s] = r /\ closed' = closed /\ linkUp' = linkUp
      /\ out' = out /\ \A x \in Sides \ {s} : pc'[x] = pc[x] /\ ret'[x] = ret[x]
    <2>1. /\ chan' \in [Sides -> Seq(Message)]
          /\ \A x \in Sides : Capacity > 0 => Len(chan'[x]) <= Capacity
        BY <1>1, <1>2 DEF WireTyped
    <2> QED
        BY <1>1, <1>2, <2>1, Returned
<1>4. \A x \in Sides : InFlight(x)' = InFlight(x)
    BY <1>2, <1>3 DEF InFlight
<1>5. Cut
    BY <1>1, <1>4, NothingCut
<1>6. ret[s] = "none" /\ out[s] = <<>>
    BY <1>1, <1>2 DEF RolesInStep
<1>7. RolesInStep'
    BY <1>1, <1>2, <1>3, <1>6 DEF RolesInStep, Sides
<1>8. FailuresTold'
    <2> SUFFICES ASSUME Regular' PROVE FailuresTold'
        BY DEF FailuresTold
    <2>1. Peer(s) \in Sides \ {s} /\ linkUp /\ closed[Peer(s)] /\ Regular
        BY <1>2, <1>3, <1>6 DEF Regular, Sides, Peer
    <2>2. pc[Peer(s)] = "done" /\ out[Peer(s)] = <<>> /\ ret[Peer(s)] \in {"nil", "error"}
        BY <1>1, <2>1 DEF RolesInStep, WireTyped, Regular
    <2>3. r = "nil"
        BY <1>2, <2>1, <2>2
    <2>4. InFlight(Peer(s)) = <<>>
        BY <1>2, <2>1, <2>2, ConcatEmptySeq DEF InFlight, Incoming
    <2>5. HasCommitted' = HasCommitted
        BY DEF HasCommitted, Rounds, replicaVars, txn
    <2>6. CASE s = "origin"
        <3>1. FromReplica = <<>> /\ ~Has(FromReplica, {"REPLICA_ERROR"})
            BY <2>4, <2>6, HasNothing DEF FromReplica, Peer
        <3>2. ret["replica"] = "nil" /\ pc["replica"] = "done"
            BY <1>1, <1>6, <2>1, <2>2, <2>6, <3>1 DEF FailuresTold, Peer
        <3>3. HasCommitted /\ FromOrigin = <<>> /\ FromOrigin' = FromOrigin
            BY <1>1, <1>4, <2>1, <3>2 DEF FailuresTold, FromOrigin, Sides
        <3> QED
            BY <1>3, <2>3, <2>5, <2>6, <3>2, <3>3 DEF FailuresTold, Sides
    <2>7. CASE s = "replica"
        <3>1. FromOrigin = <<>> /\ ~Has(FromOrigin, {"ORIGIN_ERROR"})
            BY <2>4, <2>7, HasNothing DEF FromOrigin, Peer
        <3> QED
            BY <1>1, <1>2, <1>6, <2>1, <2>2, <2>7, <3>1 DEF FailuresTold, Peer
    <2> QED
        BY <2>6, <2>7 DEF Sides
<1> QED
    BY <1>1, <1>2, <1>3, <1>5, <1>6, <1>7, <1>8, CutShrinks

LEMMA CallerClosesKeeps ==
    ASSUME SyncInductive, NEW s \in Sides, CallerCloses(s),
           UNCHANGED <<rs, faults, originVars, replicaVars>>
    PROVE  SyncInductive'
<1>1. WireTyped /\ RolesInStep /\ FailuresTold /\ faults \in Nat
    BY DEF SyncInductive, Typed
<1>2. out' = out /\ chan' = chan /\ pc' = pc /\ ret' = ret /\ linkUp' = linkUp
    BY DEF CallerCloses
<1>3. \A x \in Sides : InFlight(x)' = InFlight(x)
    BY <1>2 DEF InFlight
<1>4. WireTyped'
    BY <1>1 DEF WireTyped, CallerCloses
<1>5. RolesInStep'
    BY <1>1, <1>2 DEF RolesInStep, Sides, CallerCloses, WireTyped
<1>6. FailuresTold' /\ Cut
    BY <1>1, <1>2, <1>3, SameTold, NothingCut
<1> QED
    BY <1>1, <1>2, <1>4, <1>5, <1>6, CutShrinks

LEMMA StreamKeeps ==
    ASSUME SyncInductive, NEW s \in Sides, StreamRuns(s)
    PROVE  SyncInductive'
    BY TransferKeeps, FlushedKeeps, WriteFailsKeeps, StreamEndsKeeps, CallerClosesKeeps
       DEF StreamRuns, StreamStep

(***************************************************************************)
(* Cancellation and faults: nothing needs to be told any more.             *)
(***************************************************************************)

LEMMA FaultCounts ==
    ASSUME Fault, faults \in Nat
    PROVE  faults' \in Nat /\ faults' # 0
    BY DEF Fault

LEMMA CancelKeeps ==
    ASSUME SyncInductive, NEW s \in Sides, Cancel(s)
    PROVE  SyncInductive'
<1>1. WireTyped /\ RolesInStep /\ FailuresTold /\ faults' \in Nat /\ faults' # 0
    BY FaultCounts DEF SyncInductive, Typed, Cancel
<1>2. /\ out' = out /\ chan' = chan /\ pc' = pc /\ ret' = ret /\ linkUp' = linkUp
      /\ closed' = closed /\ UNCHANGED <<rs, originVars, replicaVars>>
    BY DEF Cancels, Cancel
<1>3. \A x \in Sides : InFlight(x)' = InFlight(x)
    BY <1>2 DEF InFlight
<1>4. WireTyped' /\ RolesInStep'
    BY <1>1, <1>2 DEF WireTyped, RolesInStep
<1>5. FailuresTold' /\ Cut
    BY <1>1, <1>2, <1>3, SameTold, NothingCut
<1> QED
    BY <1>1, <1>2, <1>4, <1>5, CutShrinks

LEMMA CancelledKeeps ==
    ASSUME SyncInductive, NEW s \in Sides, Cancelled(s)
    PROVE  SyncInductive'
<1>1. WireTyped /\ RolesInStep /\ faults \in Nat
    BY DEF SyncInductive, Typed
<1>2. /\ chan' = chan /\ linkUp' = linkUp /\ closed' = closed
      /\ (out' = out \/ out' = [out EXCEPT ![s] = <<>>])
      /\ (pc[s] = "read" /\ out' = out) \/ out'[s] = <<>>
      /\ pc[s] \in {"read", "write"} /\ pc' = [pc EXCEPT ![s] = "done"]
      /\ ret' = [ret EXCEPT ![s] = "cancelled"]
      /\ UNCHANGED <<rs, faults, originVars, replicaVars>>
    BY <1>1 DEF Cancelled, CancelledRead, CancelledWrite, Return, WireTyped
<1>3. /\ pc'[s] = "done" /\ ret'[s] = "cancelled"
      /\ \A x \in Sides \ {s} : pc'[x] = pc[x] /\ ret'[x] = ret[x]
    BY <1>1, <1>2 DEF WireTyped
<1>4. Cut
    <2>1. CASE out' = out
        <3>1. \A x \in Sides : InFlight(x)' = InFlight(x)
            BY <2>1, <1>2 DEF InFlight
        <3> QED
            BY <3>1, <1>1, NothingCut
    <2>2. CASE out' = [out EXCEPT ![s] = <<>>]
        BY <2>2, <1>1, <1>2, BufferLost
    <2> QED
        BY <2>1, <2>2, <1>2
<1>5. WireTyped'
    <2>1. out' \in [Sides -> Seq(Message)]
        <3>1. out' = out \/ out' = [out EXCEPT ![s] = <<>>]
            BY <1>2
        <3>2. out \in [Sides -> Seq(Message)] /\ <<>> \in Seq(Message)
            BY <1>1 DEF WireTyped
        <3> QED
            BY <3>1, <3>2
    <2>2. /\ pc' \in [Sides -> {"start", "read", "write", "sql", "done"}]
          /\ ret' \in [Sides -> {"none", "nil", "error", "cancelled", "killed", "unregistered"}]
        BY <1>1, <1>2 DEF WireTyped
    <2>3. chan' = chan /\ linkUp' = linkUp /\ closed' = closed
        BY <1>2
    <2> QED
        BY <1>1, <2>1, <2>2, <2>3 DEF WireTyped
<1>6. RolesInStep'
    BY <1>1, <1>2, <1>3 DEF RolesInStep, Sides, WireTyped
<1>7. FailuresTold'
    BY <1>3 DEF FailuresTold, Regular
<1> QED
    BY <1>1, <1>2, <1>3, <1>4, <1>5, <1>6, <1>7, CutShrinks

LEMMA KillKeeps ==
    ASSUME SyncInductive, NEW s \in Sides, Kill(s)
    PROVE  SyncInductive'
<1>1. WireTyped /\ RolesInStep /\ faults' \in Nat /\ faults' # 0
    BY FaultCounts DEF SyncInductive, Typed, Kill
<1>2. /\ chan' = chan /\ linkUp' = linkUp /\ out' = [out EXCEPT ![s] = <<>>]
      /\ pc' = [pc EXCEPT ![s] = "done"] /\ ret' = [ret EXCEPT ![s] = "killed"]
      /\ closed' = [closed EXCEPT ![s] = TRUE]
      /\ UNCHANGED <<rs, originVars, replicaVars>>
    BY DEF Kill, Crashes
<1>3. /\ pc'[s] = "done" /\ ret'[s] = "killed" /\ out'[s] = <<>>
      /\ \A x \in Sides \ {s} : pc'[x] = pc[x] /\ ret'[x] = ret[x] /\ out'[x] = out[x]
                                /\ closed'[x] = closed[x]
    BY <1>1, <1>2 DEF WireTyped
<1>4. Cut
    BY <1>1, <1>2, BufferLost
<1>5. WireTyped'
    BY <1>1, <1>2 DEF WireTyped
<1>6. RolesInStep'
    BY <1>1, <1>2, <1>3 DEF RolesInStep, Sides
<1>7. FailuresTold'
    BY <1>3 DEF FailuresTold, Regular
<1> QED
    BY <1>1, <1>2, <1>3, <1>4, <1>5, <1>6, <1>7, CutShrinks

LEMMA LinkFaultKeeps ==
    ASSUME SyncInductive, LinkFault
    PROVE  SyncInductive'
<1>1. WireTyped /\ RolesInStep /\ faults' \in Nat /\ faults' # 0
    BY FaultCounts DEF SyncInductive, Typed, LinkFault
<1>2. /\ out' = out /\ pc' = pc /\ ret' = ret /\ closed' = closed /\ ~linkUp'
      /\ UNCHANGED <<rs, originVars, replicaVars>>
    BY DEF LinkFault, LinkBreaks
<1>3. Cut /\ WireTyped'
    BY <1>1, LinkLost DEF LinkFault
<1>4. \A x \in Sides : chan[x] = <<>> => chan'[x] = <<>>
    <2>1. PICK i \in 0 .. Len(chan["origin"]), j \in 0 .. Len(chan["replica"]) :
            chan' = [origin  |-> SubSeq(chan["origin"], 1, i),
                     replica |-> SubSeq(chan["replica"], 1, j)]
        BY DEF LinkFault, LinkBreaks
    <2>2. SubSeq(<<>>, 1, 0) = <<>>
        OBVIOUS
    <2>3. chan["origin"] = <<>> => i = 0
        OBVIOUS
    <2>4. chan["replica"] = <<>> => j = 0
        OBVIOUS
    <2> QED
        BY <2>1, <2>2, <2>3, <2>4 DEF Sides
<1>5. RolesInStep'
    BY <1>1, <1>2, <1>4 DEF RolesInStep, Sides
<1>6. FailuresTold'
    BY <1>2 DEF FailuresTold, Regular
<1> QED
    BY <1>1, <1>2, <1>3, <1>5, <1>6, CutShrinks

LEMMA UnregisteredKeeps ==
    ASSUME SyncInductive, NEW s \in Sides, Unregistered(s)
    PROVE  SyncInductive'
<1>1. WireTyped /\ RolesInStep /\ faults' \in Nat /\ faults' # 0
    BY FaultCounts DEF SyncInductive, Typed, Unregistered, RegisterFails
<1>2. /\ pc[s] = "start" /\ Return(s, "unregistered") /\ chan' = chan
      /\ UNCHANGED <<rs, originVars, replicaVars>>
    BY DEF Unregistered, RegisterFails
<1>3. /\ WireTyped'
      /\ pc'[s] = "done" /\ ret'[s] = "unregistered" /\ closed' = closed /\ linkUp' = linkUp
      /\ out' = out /\ \A x \in Sides \ {s} : pc'[x] = pc[x] /\ ret'[x] = ret[x]
    <2>1. /\ chan' \in [Sides -> Seq(Message)]
          /\ \A x \in Sides : Capacity > 0 => Len(chan'[x]) <= Capacity
        BY <1>1, <1>2 DEF WireTyped
    <2> QED
        BY <1>1, <1>2, <2>1, Returned
<1>4. \A x \in Sides : InFlight(x)' = InFlight(x)
    BY <1>2, <1>3 DEF InFlight
<1>5. Cut
    BY <1>1, <1>4, NothingCut
<1>6. RolesInStep'
    BY <1>1, <1>2, <1>3 DEF RolesInStep, Sides
<1>7. FailuresTold'
    BY <1>3 DEF FailuresTold, Regular
<1> QED
    BY <1>1, <1>2, <1>3, <1>5, <1>6, <1>7, CutShrinks

(***************************************************************************)
(* Steps that touch nothing the two have said.                             *)
(***************************************************************************)

\* Another program writes the origin's file: the run has its snapshot.
LEMMA OriginWriteKeeps ==
    ASSUME SyncInductive, OriginWrite, UNCHANGED replicaVars
    PROVE  SyncInductive'
<1>1. /\ out' = out /\ chan' = chan /\ pc' = pc /\ ret' = ret /\ linkUp' = linkUp
      /\ closed' = closed /\ rs' = rs /\ faults' = faults /\ snap' = snap
      /\ iHash' = iHash /\ nHash' = nHash /\ mxHash' = mxHash
      /\ badHash' = badHash /\ hashed' = hashed
      /\ file' = file /\ fileSize' = fileSize /\ nRPage' = nRPage /\ work' = work
      /\ sendHash' = sendHash /\ jMode' = jMode /\ pIns' = pIns
      /\ origin' \in OriginFiles
    BY DEF OriginWrite, wire, exchange, replicaVars, txn
<1>2. \A x \in Sides : InFlight(x)' = InFlight(x)
    BY <1>1 DEF InFlight
<1>3. FromOrigin' = FromOrigin /\ FromReplica' = FromReplica
    BY <1>2 DEF FromOrigin, FromReplica, Sides
<1>4. /\ Rounds' = Rounds /\ HasCommitted' = HasCommitted /\ TransactionOpen' = TransactionOpen
      /\ \A m : Truthful(m)' = Truthful(m)
    BY <1>1 DEF Rounds, HasCommitted, TransactionOpen, Truthful
<1>5. Typed' /\ RolesInStep'
    BY <1>1 DEF SyncInductive, Typed, WireTyped, OriginTyped, ReplicaTyped, RolesInStep
<1>6. Conversation' /\ Turns'
    BY <1>1, <1>3, <1>4 DEF SyncInductive, Conversation, Turns
<1>7. Stages' /\ OneByOne'
    BY <1>1, <1>3, <1>4 DEF SyncInductive, Stages, NothingHashed, Agreed, OneByOne
<1>8. Exchanging' /\ Committing'
    BY <1>1, <1>3, <1>4 DEF SyncInductive, Exchanging, Committing
<1>9. CountersNameRanges' /\ FailuresTold'
    BY <1>1, <1>3, <1>4 DEF SyncInductive, CountersNameRanges, FailuresTold, Regular
<1>10. Tallies' /\ WalChecked'
    BY <1>1, <1>3, <1>4 DEF SyncInductive, Tallies, WalChecked
<1> QED
    BY <1>5, <1>6, <1>7, <1>8, <1>9, <1>10 DEF SyncInductive

\* Another program writes the replica's file, which no transaction holds.
LEMMA ReplicaWriteKeeps ==
    ASSUME SyncInductive, ReplicaWrite, UNCHANGED originVars
    PROVE  SyncInductive'
<1>1. /\ out' = out /\ chan' = chan /\ pc' = pc /\ ret' = ret /\ linkUp' = linkUp
      /\ closed' = closed /\ rs' = rs /\ origin' = origin /\ snap' = snap
      /\ iHash' = iHash /\ nHash' = nHash /\ mxHash' = mxHash
      /\ badHash' = badHash /\ hashed' = hashed
      /\ nRPage' = nRPage /\ work' = work
      /\ sendHash' = sendHash /\ jMode' = jMode /\ pIns' = pIns
    BY DEF ReplicaWrite, wire, originVars, exchange, txn
<1>2. \A x \in Sides : InFlight(x)' = InFlight(x)
    BY <1>1 DEF InFlight
<1>3. FromOrigin' = FromOrigin /\ FromReplica' = FromReplica
    BY <1>2 DEF FromOrigin, FromReplica, Sides
<1>4. /\ Rounds' = Rounds /\ HasCommitted' = HasCommitted
      /\ ~TransactionOpen /\ ~TransactionOpen'
      /\ \A m : Truthful(m)' = Truthful(m)
    BY <1>1 DEF Rounds, HasCommitted, TransactionOpen, Truthful, ReplicaWrite
<1>5. faults' \in Nat /\ faults' # 0
    BY FaultCounts DEF ReplicaWrite, SyncInductive, Typed
<1>6. file' \in Seq(Image) /\ Len(file') <= Modulus - 2
    BY PagesAssumption, RsyncAssumption DEF ReplicaWrite, IsDatabase
<1>7. Typed' /\ RolesInStep'
    BY <1>1, <1>5, <1>6
       DEF SyncInductive, Typed, WireTyped, OriginTyped, ReplicaTyped, RolesInStep
<1>8. Conversation' /\ Turns'
    BY <1>1, <1>3, <1>4 DEF SyncInductive, Conversation, Turns
<1>9. Stages' /\ OneByOne'
    BY <1>1, <1>3, <1>4 DEF SyncInductive, Stages, NothingHashed, Agreed, OneByOne
<1>10. Exchanging' /\ Committing'
    BY <1>1, <1>3, <1>4 DEF SyncInductive, Exchanging, Committing
<1>11. CountersNameRanges' /\ FailuresTold'
    BY <1>1, <1>3, <1>4 DEF SyncInductive, CountersNameRanges, FailuresTold, Regular
<1>12. Tallies' /\ WalChecked'
    BY <1>1, <1>3, <1>4, <1>5 DEF SyncInductive, Tallies, WalChecked
<1> QED
    BY <1>7, <1>8, <1>9, <1>10, <1>11, <1>12 DEF SyncInductive

LEMMA NewStructsAre ==
    ASSUME NEW opts \in OptionPairs
    PROVE  /\ NewStructs(opts) \in [Sides -> Structs]
           /\ \A s \in Sides :
                LET r == NewStructs(opts)[s] IN
                /\ r.pageSize = 0 /\ r.pageCount = 0
                /\ r.hashMessages = 0 /\ r.hashRounds = 0 /\ r.pageUpdates = 0
<1>1. opts[1] \in Options /\ opts[2] \in Options
    BY OptionAssumption
<1>2. \A o \in Options : NewRsync(o) \in Structs
    BY DEF Options, NewRsync, Structs, ProtocolVersion
<1>3. NewStructs(opts)["origin"] = NewRsync(opts[1]) /\ NewStructs(opts)["replica"] = NewRsync(opts[2])
    BY DEF NewStructs
<1>4. NewStructs(opts) \in [Sides -> Structs]
    BY <1>1, <1>2 DEF NewStructs, Sides
<1> QED
    BY <1>3, <1>4 DEF Sides, NewRsync

\* What holds of a run that has not begun.
Fresh ==
    /\ WireInit
    /\ \E opts \in OptionPairs : rs = NewStructs(opts)
    /\ iHash = 1 /\ nHash = 1 /\ mxHash = 0 /\ badHash = {} /\ hashed = FALSE
    /\ nRPage = 0 /\ work = <<>> /\ sendHash = {} /\ jMode = 0 /\ pIns = FALSE
    /\ origin \in OriginFiles /\ snap \in OriginFiles \union {<<>>}
    /\ file \in Seq(Image) /\ Len(file) <= Modulus - 2 /\ faults \in Nat

LEMMA FreshIsInductive ==
    ASSUME Fresh
    PROVE  SyncInductive
<1>1. PICK opts \in OptionPairs : rs = NewStructs(opts)
    BY DEF Fresh
<1>2. /\ rs \in [Sides -> Structs]
      /\ \A s \in Sides : /\ rs[s].pageSize = 0 /\ rs[s].hashMessages = 0
                          /\ rs[s].hashRounds = 0 /\ rs[s].pageUpdates = 0
    BY <1>1, NewStructsAre
<1>3. /\ \A s \in Sides : /\ out[s] = <<>> /\ chan[s] = <<>> /\ pc[s] = "start"
                          /\ ret[s] = "none" /\ closed[s] = FALSE
      /\ linkUp
    BY DEF Fresh, WireInit
<1>4. FromOrigin = <<>> /\ FromReplica = <<>>
    BY <1>3, ConcatEmptySeq DEF FromOrigin, FromReplica, InFlight, Sides
<1>5. \A types : ~Has(FromOrigin, types) /\ ~Has(FromReplica, types)
    BY <1>4, HasNothing
<1>6. Rounds = 0 /\ ~HasCommitted /\ ~TransactionOpen
    BY <1>2 DEF Rounds, HasCommitted, TransactionOpen, Fresh, Sides
<1>7. HashesIn(FromReplica) = {} /\ Cardinality(HashesIn(FromReplica)) = 0
    <2>1. HashesIn(FromReplica) = {}
        BY <1>4 DEF HashesIn
    <2> QED
        BY <2>1, FS_EmptySet
<1>8. Typed
    <2>1. WireTyped
        BY <1>3, CapacityAssumption DEF WireTyped, Fresh, WireInit
    <2> USE DEF Fresh
    <2>2. OriginTyped
        <3>1. 1 \in 0 .. Modulus - 1 /\ 0 \in 0 .. Modulus - 1
            BY RsyncAssumption
        <3>2. origin \in OriginFiles /\ snap \in OriginFiles \union {<<>>}
            OBVIOUS
        <3> QED
            BY <3>1, <3>2 DEF OriginTyped
    <2>3. ReplicaTyped
        <3>1. <<>> \in Seq(Image) /\ Len(<<>>) <= Modulus - 2
            BY RsyncAssumption
        <3>2. IsFiniteSet(sendHash) /\ \A r \in sendHash : Bounded(r)
            BY FS_EmptySet
        <3>3. /\ file \in Seq(Image) /\ Len(file) <= Modulus - 2
              /\ work = <<>> /\ pIns \in BOOLEAN
            BY Zenon
        <3>4. nRPage \in Nat /\ jMode \in 0 .. 2
            OBVIOUS
        <3> QED
            BY <3>1, <3>2, <3>3, <3>4 DEF ReplicaTyped
    <2> QED
        BY <1>2, <2>1, <2>2, <2>3 DEF Typed, Fresh
<1>9. RolesInStep
    BY <1>3 DEF RolesInStep, Sides
<1>10. Conversation /\ Turns
    BY <1>4, <1>5 DEF Conversation, Turns, InOrder
<1>11. Stages /\ OneByOne
    BY <1>2, <1>3, <1>4, <1>5, <1>6 DEF Stages, NothingHashed, OneByOne, Sides, Fresh
<1>12. Exchanging /\ Committing
    BY <1>5, <1>6 DEF Exchanging, Committing, Fresh
<1>13. CountersNameRanges
    BY <1>7, NoHashNamesRanges DEF CountersNameRanges
<1>14. FailuresTold /\ Tallies
    BY <1>2, <1>3, <1>4, <1>5, <1>6, <1>7 DEF FailuresTold, Tallies, Sides
<1>15. WalChecked
    BY <1>3 DEF WalChecked, Fresh, Sides
<1> QED
    BY <1>8, <1>9, <1>10, <1>11, <1>12, <1>13, <1>14, <1>15 DEF SyncInductive

LEMMA InitIsInductive == Init => SyncInductive
<1> SUFFICES ASSUME Init PROVE SyncInductive
    OBVIOUS
<1>1. file \in Seq(Image) /\ Len(file) <= Modulus - 2
    BY PagesAssumption, RsyncAssumption DEF Init, ReplicaInit, IsDatabase
<1>2. Fresh
    BY <1>1 DEF Init, OriginInit, ReplicaInit, Fresh
<1> QED
    BY <1>2, FreshIsInductive

\* The next run starts over, whatever the last one has left in its files.
LEMMA NextRunKeeps ==
    ASSUME SyncInductive, NextRun
    PROVE  SyncInductive'
<1>1. Fresh'
    BY DEF SyncInductive, Typed, OriginTyped, ReplicaTyped, NextRun, NewStream,
           NewOriginLocals, NewReplicaLocals, Fresh, WireInit
<1> QED
    BY <1>1, FreshIsInductive, PTL

(***************************************************************************)
(* The last message a role reads.                                          *)
(***************************************************************************)

LEMMA OnlyWord ==
    ASSUME NEW msgs \in Seq(Message), InOrder(msgs), msgs # <<>>, NEW type,
           Head(msgs).type = type, \A t : ~Precedes(type, t)
    PROVE  /\ Tail(msgs) = <<>> /\ Tail(msgs) = SubSeq(msgs, 1, 0)
           /\ \A types : Has(msgs, types) <=> type \in types
<1>1. Tail(msgs) = <<>>
    BY NothingBehind
<1>2. <<>> = SubSeq(msgs, 1, 0)
    OBVIOUS
<1>3. \A types : Has(msgs, types) <=> type \in types
    BY <1>1, HasTail, HasNothing
<1> QED
    BY <1>1, <1>2, <1>3

LEMMA WholePrefix ==
    ASSUME NEW T, NEW msgs \in Seq(T)
    PROVE  Len(msgs) \in 0 .. Len(msgs) /\ msgs = SubSeq(msgs, 1, Len(msgs))
<1>1. Len(msgs) \in 0 .. Len(msgs)
    OBVIOUS
<1> QED
    BY <1>1, SubSeqFull

\* The replica's last message ends the origin's run.
LEMMA OriginEndsKeeps ==
    ASSUME SyncInductive, NEW type \in {"REPLICA_END", "REPLICA_ERROR"},
           NEW r \in {"nil", "error"}, type = "REPLICA_ERROR" => r = "error",
           EndsRun("origin", type, r), UNCHANGED <<originVars, replicaVars>>
    PROVE  SyncInductive'
<1>1. WireTyped /\ RolesInStep /\ Conversation /\ Turns /\ FailuresTold /\ faults \in Nat
    BY DEF SyncInductive, Typed
<1>2. /\ WireTyped' /\ RolesInStep'
      /\ pc["origin"] = "read" /\ ret["origin"] = "none"
      /\ FromReplica # <<>> /\ Head(FromReplica).type = type
      /\ FromReplica' = Tail(FromReplica) /\ FromOrigin' = FromOrigin
      /\ pc'["origin"] = "done" /\ pc'["replica"] = pc["replica"]
      /\ ret'["origin"] = r /\ ret'["replica"] = ret["replica"] /\ linkUp' = linkUp
    BY <1>1, OriginEnds
<1>3. /\ FromOrigin \in Seq(Message) /\ FromReplica \in Seq(Message) /\ InOrder(FromReplica)
    BY <1>1, Conversing
<1>4. \A t : ~Precedes(type, t)
    BY LastWords
<1>5. /\ Tail(FromReplica) = <<>> /\ Tail(FromReplica) = SubSeq(FromReplica, 1, 0)
      /\ \A types : Has(FromReplica, types) <=> type \in types
    BY <1>2, <1>3, <1>4, OnlyWord
<1>6. /\ 0 \in 0 .. Len(FromReplica) /\ FromReplica' = SubSeq(FromReplica, 1, 0)
      /\ Len(FromOrigin) \in 0 .. Len(FromOrigin)
      /\ FromOrigin' = SubSeq(FromOrigin, 1, Len(FromOrigin))
    <2>1. 0 \in 0 .. Len(FromReplica)
        BY <1>3
    <2> QED
        BY <1>2, <1>3, <1>5, <2>1, WholePrefix
<1>7. UNCHANGED <<rs, faults>>
    BY DEF EndsRun
<1>8. FailuresTold'
    <2> SUFFICES ASSUME Regular' PROVE FailuresTold'
        BY DEF FailuresTold
    <2>1. Regular
        BY <1>2, <1>7 DEF Regular, Sides
    <2>2. CASE type = "REPLICA_END"
        <3>1. 1 \in DOMAIN FromReplica /\ FromReplica[1].type = "REPLICA_END"
            BY <2>2, <1>2, <1>3, FirstWord
        <3>2. rs["replica"].commCheck
            BY <3>1, <1>1 DEF Turns
        <3> QED
            BY <3>2, <2>1 DEF Regular, Sides
    <2>3. CASE type = "REPLICA_ERROR"
        <3>1. ret["replica"] \notin {"none", "nil"}
            BY <2>3, <1>1, <1>5 DEF Turns
        <3>2. ret'["replica"] = "error" /\ ret'["origin"] = "error"
            BY <2>1, <2>3, <3>1, <1>1, <1>2 DEF Regular, WireTyped, Sides
        <3> QED
            BY <3>2 DEF FailuresTold
    <2> QED
        BY <2>2, <2>3
<1>9. \A s \in Sides : /\ pc'[s] \in {"start", "sql"} => pc'[s] = pc[s]
                       /\ pc[s] = "done" => pc'[s] = "done"
                       /\ \/ ret'[s] = ret[s] \/ ret'[s] \notin {"none", "nil"}
                          \/ ret[s] = "none" /\ ret'[s] = "nil"
    BY <1>2 DEF Sides
<1>10. faults' \in Nat /\ (faults' = 0 => faults = 0) /\ UNCHANGED <<rs, originVars, replicaVars>>
    BY <1>1, <1>7
<1> QED
    BY <1>2, <1>6, <1>8, <1>9, <1>10, Shrinking

\* The origin's last message ends the replica's run.
LEMMA ReplicaEndsKeeps ==
    ASSUME SyncInductive, NEW type \in {"ORIGIN_END", "ORIGIN_ERROR"},
           NEW r \in {"nil", "error"}, type = "ORIGIN_ERROR" <=> r = "error",
           EndsRun("replica", type, r), UNCHANGED <<originVars, replicaVars>>
    PROVE  SyncInductive'
<1>1. /\ WireTyped /\ RolesInStep /\ Conversation /\ Turns /\ FailuresTold /\ Committing
      /\ faults \in Nat
    BY DEF SyncInductive, Typed
<1>2. /\ WireTyped' /\ RolesInStep'
      /\ pc["replica"] = "read" /\ ret["replica"] = "none" /\ ~rs["replica"].commCheck
      /\ FromOrigin # <<>> /\ Head(FromOrigin).type = type
      /\ FromOrigin' = Tail(FromOrigin) /\ FromReplica' = FromReplica
      /\ pc'["replica"] = "done" /\ pc'["origin"] = pc["origin"]
      /\ ret'["replica"] = r /\ ret'["origin"] = ret["origin"] /\ linkUp' = linkUp
    BY <1>1, ReplicaEnds
<1>3. /\ FromOrigin \in Seq(Message) /\ FromReplica \in Seq(Message) /\ InOrder(FromOrigin)
    BY <1>1, Conversing
<1>4. \A t : ~Precedes(type, t)
    BY LastWords
<1>5. /\ Tail(FromOrigin) = <<>> /\ Tail(FromOrigin) = SubSeq(FromOrigin, 1, 0)
      /\ \A types : Has(FromOrigin, types) <=> type \in types
    BY <1>2, <1>3, <1>4, OnlyWord
<1>6. /\ 0 \in 0 .. Len(FromOrigin) /\ FromOrigin' = SubSeq(FromOrigin, 1, 0)
      /\ Len(FromReplica) \in 0 .. Len(FromReplica)
      /\ FromReplica' = SubSeq(FromReplica, 1, Len(FromReplica))
    <2>1. 0 \in 0 .. Len(FromOrigin)
        BY <1>3
    <2> QED
        BY <1>2, <1>3, <1>5, <2>1, WholePrefix
<1>7. UNCHANGED <<rs, faults>>
    BY DEF EndsRun
<1>8. FailuresTold'
    <2> SUFFICES ASSUME Regular' PROVE FailuresTold'
        BY DEF FailuresTold
    <2>1. Regular
        BY <1>2, <1>7 DEF Regular, Sides
    <2>2. CASE type = "ORIGIN_END"
        <3>1. HasCommitted' = HasCommitted
            BY <1>7 DEF HasCommitted, Rounds, replicaVars, txn
        <3>2. HasCommitted /\ r = "nil" /\ ret["origin"] # "error"
            BY <2>1, <2>2, <1>1, <1>2, <1>5 DEF Committing, FailuresTold, Regular, Sides
        <3> QED
            BY <1>2, <1>5, <3>1, <3>2 DEF FailuresTold
    <2>3. CASE type = "ORIGIN_ERROR"
        <3>1. ret["origin"] \notin {"none", "nil"}
            BY <2>3, <1>1, <1>5 DEF Turns
        <3>2. ret'["replica"] = "error" /\ ret'["origin"] = "error"
            BY <2>1, <2>3, <3>1, <1>1, <1>2 DEF Regular, WireTyped, Sides
        <3> QED
            BY <3>2 DEF FailuresTold
    <2> QED
        BY <2>2, <2>3
<1>9. \A s \in Sides : /\ pc'[s] \in {"start", "sql"} => pc'[s] = pc[s]
                       /\ pc[s] = "done" => pc'[s] = "done"
                       /\ \/ ret'[s] = ret[s] \/ ret'[s] \notin {"none", "nil"}
                          \/ ret[s] = "none" /\ ret'[s] = "nil"
    BY <1>2 DEF Sides
<1>10. faults' \in Nat /\ (faults' = 0 => faults = 0) /\ UNCHANGED <<rs, originVars, replicaVars>>
    BY <1>1, <1>7
<1> QED
    BY <1>2, <1>6, <1>8, <1>9, <1>10, Shrinking

(***************************************************************************)
(* Reading one message of several.                                         *)
(***************************************************************************)

\* What is left to read of what a side has said.
LEMMA Remaining ==
    ASSUME NEW T, T \in {OriginMessages, ReplicaMessages},
           NEW msgs \in Seq(T), msgs # <<>>, msgs \in Seq(Message), InOrder(msgs)
    PROVE  /\ Tail(msgs) \in Seq(T) /\ Tail(msgs) \in Seq(Message) /\ InOrder(Tail(msgs))
           /\ \A types : Has(msgs, types) <=> Head(msgs).type \in types \/ Has(Tail(msgs), types)
           /\ \A k \in DOMAIN Tail(msgs) : k + 1 \in DOMAIN msgs /\ Tail(msgs)[k] = msgs[k + 1]
           /\ Head(msgs) \in T /\ 1 \in DOMAIN msgs /\ Head(msgs) = msgs[1]
<1>1. /\ Tail(msgs) \in Seq(T) /\ Tail(msgs) \in Seq(Message)
      /\ \A k \in DOMAIN Tail(msgs) : k + 1 \in DOMAIN msgs /\ Tail(msgs)[k] = msgs[k + 1]
      /\ Head(msgs) \in T /\ 1 \in DOMAIN msgs /\ Head(msgs) = msgs[1]
    OBVIOUS
<1>2. InOrder(Tail(msgs))
    BY <1>1, TailWithin, InOrderWithin
<1>3. \A types : Has(msgs, types) <=> Head(msgs).type \in types \/ Has(Tail(msgs), types)
    BY HasTail
<1> QED
    BY <1>1, <1>2, <1>3

LEMMA WithinNothing ==
    ASSUME NEW a \in Seq(Message), NEW b \in Seq(Message), Within(a, b), b = <<>>
    PROVE  a = <<>>
<1>1. Len(a) \in Nat /\ Len(b) = 0
    OBVIOUS
<1>2. Len(a) <= 0
    BY <1>1 DEF Within
<1>3. Len(a) = 0
    BY <1>1, <1>2
<1> QED
    BY <1>3

\* REPLICA_MSG comes of a communication check only.
LEMMA OnReplicaMsgKeeps ==
    ASSUME SyncInductive, OnReplicaMsg, UNCHANGED replicaVars
    PROVE  SyncInductive'
<1>1. /\ Typed /\ WireTyped /\ OriginTyped /\ ReplicaTyped /\ RolesInStep
      /\ Conversation /\ Turns /\ Stages /\ OneByOne /\ Exchanging /\ Committing
      /\ CountersNameRanges /\ FailuresTold /\ Tallies /\ WalChecked
    BY DEF SyncInductive, Typed
<1>2. /\ Receives("origin", "REPLICA_MSG") /\ chan' = Consumed("origin") /\ ReadOn
      /\ rs' = rs /\ faults' = faults /\ origin' = origin /\ snap' = snap
      /\ iHash' = iHash /\ nHash' = nHash /\ mxHash' = mxHash
      /\ badHash' = badHash /\ hashed' = hashed
      /\ file' = file /\ fileSize' = fileSize /\ nRPage' = nRPage /\ work' = work
      /\ sendHash' = sendHash /\ jMode' = jMode /\ pIns' = pIns
    BY DEF OnReplicaMsg, Drop, originVars, exchange, replicaVars, txn
<1>3. pc' = pc /\ ret' = ret /\ linkUp' = linkUp /\ SameOptions
    BY <1>2 DEF ReadOn, SameOptions
<1>4. /\ WireTyped' /\ RolesInStep'
      /\ pc["origin"] = "read" /\ ret["origin"] = "none"
      /\ FromReplica # <<>> /\ Head(FromReplica).type = "REPLICA_MSG"
      /\ FromReplica' = Tail(FromReplica) /\ FromOrigin' = FromOrigin
    BY <1>1, <1>2, <1>3, OriginTakes
<1>5. /\ FromReplica \in Seq(Message) /\ FromReplica \in Seq(ReplicaMessages)
      /\ InOrder(FromReplica)
    BY <1>1, Conversing
<1>6. /\ FromReplica' \in Seq(ReplicaMessages) /\ FromReplica' \in Seq(Message)
      /\ InOrder(FromReplica')
      /\ \A types : Has(FromReplica', types) => Has(FromReplica, types)
      /\ \A k \in DOMAIN FromReplica' : k + 1 \in DOMAIN FromReplica
                                        /\ FromReplica'[k] = FromReplica[k + 1]
      /\ 1 \in DOMAIN FromReplica /\ FromReplica[1].type = "REPLICA_MSG"
    <2>1. ReplicaMessages \in {OriginMessages, ReplicaMessages}
        OBVIOUS
    <2> QED
        BY <1>4, <1>5, <2>1, Remaining
<1>7. rs["replica"].commCheck
    BY <1>1, <1>6 DEF Turns
<1>8. \A k \in DOMAIN FromReplica' : FromReplica'[k].type \in {"REPLICA_MSG", "REPLICA_END"}
    BY <1>1, <1>6, <1>7 DEF Turns
<1>9. ~Has(FromReplica', {"REPLICA_READY"}) /\ HashesIn(FromReplica') = {}
    BY <1>8 DEF Has, HashesIn
<1>10. Cardinality(HashesIn(FromReplica')) = 0
    BY <1>9, FS_EmptySet
<1>11. /\ Rounds' = Rounds /\ HasCommitted' = HasCommitted /\ TransactionOpen' = TransactionOpen
       /\ ~HasCommitted /\ \A m : Truthful(m)' = Truthful(m)
    BY <1>1, <1>2, <1>3, <1>4
       DEF Rounds, HasCommitted, TransactionOpen, Truthful, Committing
<1>12. Typed'
    BY <1>1, <1>2, <1>4 DEF Typed, OriginTyped, ReplicaTyped
<1>13. Conversation'
    BY <1>1, <1>4, <1>5, <1>6, <1>11 DEF Conversation
<1>14. Turns'
    BY <1>1, <1>2, <1>3, <1>4, <1>6, <1>7, <1>8 DEF Turns
<1>15. Stages' /\ OneByOne'
    BY <1>1, <1>2, <1>3, <1>4, <1>6, <1>7, <1>11 DEF Stages, NothingHashed, Agreed, OneByOne
<1>16. Exchanging' /\ Committing'
    BY <1>1, <1>2, <1>3, <1>4, <1>9, <1>11 DEF Exchanging, Committing
<1>17. CountersNameRanges'
    BY <1>9, NoHashNamesRanges DEF CountersNameRanges
<1>18. FailuresTold'
    BY <1>2, <1>7 DEF FailuresTold, Regular, Sides
<1>19. Tallies'
    <2>1. /\ rs["origin"].hashMessages \in Nat /\ Cardinality(HashesIn(FromReplica)) \in Nat
          /\ rs["replica"].hashMessages \in Nat
        BY <1>1, <1>5, HashesFinite DEF Typed, Structs, Sides
    <2> QED
        BY <1>1, <1>2, <1>3, <1>4, <1>9, <1>10, <1>11, <2>1 DEF Tallies
<1>20. WalChecked'
    BY <1>1, <1>2, <1>3 DEF WalChecked
<1> QED
    BY <1>4, <1>12, <1>13, <1>14, <1>15, <1>16, <1>17, <1>18, <1>19, <1>20 DEF SyncInductive

LEMMA OnOriginMsgKeeps ==
    ASSUME SyncInductive, OnOriginMsg, UNCHANGED originVars
    PROVE  SyncInductive'
<1>1. /\ Typed /\ WireTyped /\ OriginTyped /\ ReplicaTyped /\ RolesInStep
      /\ Conversation /\ Turns /\ Stages /\ OneByOne /\ Exchanging /\ Committing
      /\ CountersNameRanges /\ FailuresTold /\ Tallies /\ WalChecked
    BY DEF SyncInductive, Typed
<1>2. /\ Receives("replica", "ORIGIN_MSG") /\ chan' = Consumed("replica") /\ ReadOn
      /\ rs' = rs /\ faults' = faults /\ origin' = origin /\ snap' = snap
      /\ iHash' = iHash /\ nHash' = nHash /\ mxHash' = mxHash
      /\ badHash' = badHash /\ hashed' = hashed
      /\ file' = file /\ fileSize' = fileSize /\ nRPage' = nRPage /\ work' = work
      /\ sendHash' = sendHash /\ jMode' = jMode /\ pIns' = pIns
    BY DEF OnOriginMsg, Drop, originVars, exchange, replicaVars, txn
<1>3. pc' = pc /\ ret' = ret /\ linkUp' = linkUp /\ SameOptions
    BY <1>2 DEF ReadOn, SameOptions
<1>4. /\ WireTyped' /\ RolesInStep'
      /\ pc["replica"] = "read" /\ ret["replica"] = "none" /\ ~rs["replica"].commCheck
      /\ FromOrigin # <<>> /\ Head(FromOrigin).type = "ORIGIN_MSG"
      /\ FromOrigin' = Tail(FromOrigin) /\ FromReplica' = FromReplica
    BY <1>1, <1>2, <1>3, ReplicaTakes
<1>5. /\ FromOrigin \in Seq(Message) /\ FromOrigin \in Seq(OriginMessages)
      /\ InOrder(FromOrigin)
    BY <1>1, Conversing
<1>6. /\ FromOrigin' \in Seq(OriginMessages) /\ FromOrigin' \in Seq(Message)
      /\ InOrder(FromOrigin')
      /\ \A types : Has(FromOrigin', types) => Has(FromOrigin, types)
      /\ \A k \in DOMAIN FromOrigin' : k + 1 \in DOMAIN FromOrigin
                                        /\ FromOrigin'[k] = FromOrigin[k + 1]
      /\ 1 \in DOMAIN FromOrigin /\ FromOrigin[1].type = "ORIGIN_MSG"
    <2>1. OriginMessages \in {OriginMessages, ReplicaMessages}
        OBVIOUS
    <2> QED
        BY <1>4, <1>5, <2>1, Remaining
<1>7. rs["origin"].commCheck
    BY <1>1, <1>6 DEF Turns
<1>8. \A k \in DOMAIN FromOrigin' : FromOrigin'[k].type \in {"ORIGIN_MSG", "ORIGIN_END"}
    BY <1>1, <1>6, <1>7 DEF Turns
<1>9. /\ Rounds' = Rounds /\ HasCommitted' = HasCommitted /\ TransactionOpen' = TransactionOpen
      /\ \A m : Truthful(m)' = Truthful(m)
    BY <1>1, <1>2, <1>3, <1>4 DEF Rounds, HasCommitted, TransactionOpen, Truthful
<1>10. FromReplica = <<>>
    BY <1>1, <1>4, ReplicaSilent
<1>11. Typed'
    BY <1>1, <1>2, <1>4 DEF Typed, OriginTyped, ReplicaTyped
<1>12. Conversation'
    BY <1>1, <1>4, <1>5, <1>6, <1>9 DEF Conversation
<1>13. Turns'
    BY <1>1, <1>2, <1>3, <1>4, <1>6, <1>7, <1>8, <1>10 DEF Turns
<1>14. Stages' /\ OneByOne'
    BY <1>1, <1>2, <1>3, <1>4, <1>6, <1>9 DEF Stages, NothingHashed, Agreed, OneByOne
<1>15. Exchanging' /\ Committing'
    BY <1>1, <1>2, <1>3, <1>4, <1>6, <1>7, <1>9 DEF Exchanging, Committing
<1>16. CountersNameRanges'
    BY <1>1, <1>2, <1>3, <1>4 DEF CountersNameRanges
<1>17. FailuresTold'
    BY <1>2, <1>7 DEF FailuresTold, Regular, Sides
<1>18. Tallies'
    BY <1>1, <1>2, <1>3, <1>4, <1>6, <1>8, <1>9 DEF Tallies
<1>19. WalChecked'
    BY <1>1, <1>2, <1>3 DEF WalChecked
<1> QED
    BY <1>4, <1>11, <1>12, <1>13, <1>14, <1>15, <1>16, <1>17, <1>18, <1>19 DEF SyncInductive

(***************************************************************************)
(* The origin takes the hashes of a round.                                 *)
(***************************************************************************)

\* What is the same of a step that changes locals of the origin only.
SameReplica ==
    /\ file' = file /\ fileSize' = fileSize /\ nRPage' = nRPage /\ work' = work
    /\ sendHash' = sendHash /\ jMode' = jMode /\ pIns' = pIns
    /\ rs'["replica"] = rs["replica"]

LEMMA ReplicaTheSame ==
    ASSUME SameReplica, pc'["replica"] = pc["replica"]
    PROVE  /\ Rounds' = Rounds /\ HasCommitted' = HasCommitted
           /\ TransactionOpen' = TransactionOpen
    BY DEF SameReplica, Rounds, HasCommitted, TransactionOpen

LEMMA OnReplicaConfigKeeps ==
    ASSUME SyncInductive, OnReplicaConfig, UNCHANGED replicaVars
    PROVE  SyncInductive'
<1>1. /\ Typed /\ WireTyped /\ OriginTyped /\ ReplicaTyped /\ RolesInStep
      /\ Conversation /\ Turns /\ Stages /\ OneByOne /\ Exchanging /\ Committing
      /\ CountersNameRanges /\ FailuresTold /\ Tallies /\ WalChecked
    BY DEF SyncInductive, Typed
<1> DEFINE m == Head(Incoming("origin"))
<1>2. /\ Receives("origin", "REPLICA_CONFIG") /\ chan' = Consumed("origin") /\ ReadOn
      /\ rs' = rs /\ faults' = faults /\ origin' = origin /\ snap' = snap
      /\ iHash' = m.fpg /\ nHash' = m.npg /\ mxHash' = mxHash
      /\ badHash' = badHash /\ hashed' = hashed
      /\ file' = file /\ fileSize' = fileSize /\ nRPage' = nRPage /\ work' = work
      /\ sendHash' = sendHash /\ jMode' = jMode /\ pIns' = pIns
    BY DEF OnReplicaConfig, replicaVars, txn
<1>3. pc' = pc /\ ret' = ret /\ linkUp' = linkUp /\ SameOptions /\ SameReplica
    BY <1>2 DEF ReadOn, SameOptions, SameReplica
<1>4. /\ WireTyped' /\ RolesInStep'
      /\ pc["origin"] = "read" /\ ret["origin"] = "none"
      /\ FromReplica # <<>> /\ Head(FromReplica) = m
      /\ Head(FromReplica).type = "REPLICA_CONFIG"
      /\ FromReplica' = Tail(FromReplica) /\ FromOrigin' = FromOrigin
    BY <1>1, <1>2, <1>3, OriginTakes
<1> HIDE DEF m
<1>5. /\ FromReplica \in Seq(Message) /\ FromReplica \in Seq(ReplicaMessages)
      /\ InOrder(FromReplica)
    BY <1>1, Conversing
<1>6. /\ FromReplica' \in Seq(ReplicaMessages) /\ FromReplica' \in Seq(Message)
      /\ InOrder(FromReplica')
      /\ \A types : Has(FromReplica, types)
            <=> "REPLICA_CONFIG" \in types \/ Has(FromReplica', types)
      /\ \A k \in DOMAIN FromReplica' : k + 1 \in DOMAIN FromReplica
                                        /\ FromReplica'[k] = FromReplica[k + 1]
      /\ m \in ReplicaMessages
    <2>1. ReplicaMessages \in {OriginMessages, ReplicaMessages}
        OBVIOUS
    <2> QED
        BY <1>4, <1>5, <2>1, Remaining
<1>7. m.fpg \in 0 .. Modulus - 1 /\ m.npg \in Nat /\ m.type = "REPLICA_CONFIG"
    BY <1>4, <1>6 DEF ReplicaMessages
<1>8. FromOrigin = <<>> /\ FromOrigin' = <<>> /\ ~rs["replica"].commCheck
    BY <1>1, <1>4, OriginSilent
<1>9. /\ Rounds' = Rounds /\ HasCommitted' = HasCommitted /\ TransactionOpen' = TransactionOpen
      /\ ~HasCommitted /\ \A x : Truthful(x)' = Truthful(x)
    BY <1>1, <1>2, <1>3, <1>4, ReplicaTheSame DEF Truthful, Committing
<1>10. Has(FromReplica, {"REPLICA_CONFIG"}) /\ Has(FromReplica, {"REPLICA_CONFIG", "REPLICA_HASH"})
    BY <1>6
<1>11. Typed'
    BY <1>1, <1>2, <1>4, <1>7 DEF Typed, OriginTyped, ReplicaTyped
<1>12. Conversation'
    BY <1>1, <1>4, <1>5, <1>6, <1>8, <1>9 DEF Conversation
<1>13. Turns'
    BY <1>1, <1>2, <1>3, <1>4, <1>6, <1>8 DEF Turns
<1>14. Stages'
    <2>1. ~(Rounds = 0 /\ ret["replica"] = "none")
        BY <1>1, <1>10 DEF Stages, NothingHashed
    <2> QED
        BY <1>1, <1>2, <1>3, <1>4, <1>6, <1>8, <1>9, <2>1 DEF Stages, Agreed
<1>15. OneByOne'
    BY <1>1, <1>2, <1>3, <1>9, <1>10 DEF OneByOne
<1>16. Exchanging' /\ Committing'
    BY <1>1, <1>2, <1>3, <1>4, <1>6, <1>8, <1>9 DEF Exchanging, Committing
<1>17. CountersNameRanges'
    <2>1. <<iHash, nHash>> \in Nat \X Nat
        BY <1>1, RsyncAssumption DEF OriginTyped
    <2>2. NamesRanges(FromReplica, <<iHash, nHash>>, work)
        BY <1>1, <1>4 DEF CountersNameRanges
    <2>3. NamesRanges(Tail(FromReplica), Advanced(<<iHash, nHash>>, m), work)
        BY <1>4, <1>5, <2>1, <2>2, TailNamesRanges
    <2>4. Advanced(<<iHash, nHash>>, m) = <<m.fpg, m.npg>>
        BY <1>7 DEF Advanced
    <2> QED
        BY <1>2, <1>4, <2>3, <2>4 DEF CountersNameRanges
<1>18. FailuresTold'
    BY <1>1, <1>2, <1>3, <1>4, <1>6, <1>8, <1>9 DEF FailuresTold, Regular
<1>19. Tallies'
    <2>1. /\ rs["origin"].hashMessages \in Nat /\ rs["replica"].hashMessages \in Nat
          /\ Cardinality(HashesIn(FromReplica)) \in Nat
          /\ Cardinality(HashesIn(FromReplica')) \in Nat
        BY <1>1, <1>5, <1>6, HashesFinite DEF Typed, Structs, Sides
    <2>2. Cardinality(HashesIn(FromReplica')) <= Cardinality(HashesIn(FromReplica))
        BY <1>4, <1>5, <1>6, TailWithin, HashesWithin
    <2> QED
        BY <1>1, <1>2, <1>3, <1>4, <1>6, <1>8, <1>9, <2>1, <2>2 DEF Tallies
<1>20. WalChecked'
    BY <1>1, <1>2, <1>3 DEF WalChecked
<1> QED
    BY <1>4, <1>11, <1>12, <1>13, <1>14, <1>15, <1>16, <1>17, <1>18, <1>19, <1>20
       DEF SyncInductive

\* One more hash counted by the origin.
LEMMA HashCounted ==
    ASSUME rs \in [Sides -> Structs], rs' = [rs EXCEPT !["origin"].hashMessages = @ + 1]
    PROVE  /\ rs' \in [Sides -> Structs] /\ rs'["replica"] = rs["replica"]
           /\ rs'["origin"].hashMessages = rs["origin"].hashMessages + 1
           /\ rs'["origin"].protocol = rs["origin"].protocol
           /\ rs'["origin"].commCheck = rs["origin"].commCheck
           /\ rs'["origin"].pageSize = rs["origin"].pageSize
           /\ rs'["origin"].pageCount = rs["origin"].pageCount
           /\ rs'["origin"].hashRounds = rs["origin"].hashRounds
           /\ rs'["origin"].pageUpdates = rs["origin"].pageUpdates
<1> DEFINE o == rs["origin"]
           n == [o EXCEPT !.hashMessages = @ + 1]
<1>1. o \in Structs /\ rs' = [rs EXCEPT !["origin"] = n]
    BY DEF Sides
<1>2. /\ n \in Structs /\ n.hashMessages = o.hashMessages + 1
      /\ n.protocol = o.protocol /\ n.commCheck = o.commCheck /\ n.pageSize = o.pageSize
      /\ n.pageCount = o.pageCount /\ n.hashRounds = o.hashRounds
      /\ n.pageUpdates = o.pageUpdates
    BY <1>1 DEF Structs
<1> HIDE DEF o, n
<1>3. /\ rs' \in [Sides -> Structs] /\ rs'["origin"] = n /\ rs'["replica"] = rs["replica"]
    BY <1>1, <1>2 DEF Sides
<1> QED
    BY <1>2, <1>3 DEF o

LEMMA OnReplicaHashKeeps ==
    ASSUME SyncInductive, OnReplicaHash, UNCHANGED replicaVars
    PROVE  SyncInductive'
<1>1. /\ Typed /\ WireTyped /\ OriginTyped /\ ReplicaTyped /\ RolesInStep
      /\ Conversation /\ Turns /\ Stages /\ OneByOne /\ Exchanging /\ Committing
      /\ CountersNameRanges /\ FailuresTold /\ Tallies /\ WalChecked
    BY DEF SyncInductive, Typed
<1>2. /\ Receives("origin", "REPLICA_HASH") /\ chan' = Consumed("origin") /\ ReadOn
      /\ rs' = [rs EXCEPT !["origin"].hashMessages = @ + 1]
      /\ faults' = faults /\ origin' = origin /\ snap' = snap
      /\ iHash' = Plus(iHash, nHash) /\ nHash' = nHash
      /\ mxHash' = Larger(mxHash, Plus(iHash, nHash)) /\ hashed' = TRUE
      /\ badHash' = badHash \/ badHash' = badHash \union {<<iHash, nHash>>}
      /\ file' = file /\ fileSize' = fileSize /\ nRPage' = nRPage /\ work' = work
      /\ sendHash' = sendHash /\ jMode' = jMode /\ pIns' = pIns
    BY DEF OnReplicaHash, replicaVars, txn
<1>3. /\ rs' \in [Sides -> Structs] /\ rs'["replica"] = rs["replica"]
      /\ rs'["origin"].hashMessages = rs["origin"].hashMessages + 1
      /\ rs'["origin"].protocol = rs["origin"].protocol
      /\ rs'["origin"].commCheck = rs["origin"].commCheck
      /\ rs'["origin"].pageSize = rs["origin"].pageSize
      /\ rs'["origin"].pageCount = rs["origin"].pageCount
      /\ rs'["origin"].hashRounds = rs["origin"].hashRounds
      /\ rs'["origin"].pageUpdates = rs["origin"].pageUpdates
    BY <1>1, <1>2, HashCounted DEF Typed
<1>4. pc' = pc /\ ret' = ret /\ linkUp' = linkUp /\ SameOptions /\ SameReplica
    BY <1>2, <1>3 DEF ReadOn, SameOptions, SameReplica, Sides
<1>5. /\ WireTyped' /\ RolesInStep'
      /\ pc["origin"] = "read" /\ ret["origin"] = "none"
      /\ FromReplica # <<>> /\ Head(FromReplica).type = "REPLICA_HASH"
      /\ FromReplica' = Tail(FromReplica) /\ FromOrigin' = FromOrigin
    BY <1>1, <1>2, <1>4, OriginTakes
<1>6. /\ FromReplica \in Seq(Message) /\ FromReplica \in Seq(ReplicaMessages)
      /\ InOrder(FromReplica)
    BY <1>1, Conversing
<1>7. /\ FromReplica' \in Seq(ReplicaMessages) /\ FromReplica' \in Seq(Message)
      /\ InOrder(FromReplica')
      /\ \A types : Has(FromReplica, types)
            <=> "REPLICA_HASH" \in types \/ Has(FromReplica', types)
      /\ \A k \in DOMAIN FromReplica' : k + 1 \in DOMAIN FromReplica
                                        /\ FromReplica'[k] = FromReplica[k + 1]
    <2>1. ReplicaMessages \in {OriginMessages, ReplicaMessages}
        OBVIOUS
    <2> QED
        BY <1>5, <1>6, <2>1, Remaining
<1>8. FromOrigin = <<>> /\ FromOrigin' = <<>> /\ ~rs["replica"].commCheck
    BY <1>1, <1>5, OriginSilent
<1>9. /\ Rounds' = Rounds /\ HasCommitted' = HasCommitted /\ TransactionOpen' = TransactionOpen
      /\ ~HasCommitted
    BY <1>1, <1>2, <1>4, <1>5, ReplicaTheSame DEF Committing
<1>10. ~(Rounds = 0 /\ ret["replica"] = "none")
    <2>1. Has(FromReplica, {"REPLICA_CONFIG", "REPLICA_HASH"})
        BY <1>7
    <2> QED
        BY <1>1, <2>1 DEF Stages, NothingHashed
<1>11. /\ Bounded(<<iHash, nHash>>)
       /\ NamesRanges(FromReplica', <<Plus(iHash, nHash), nHash>>, work)
    <2>1. <<iHash, nHash>> \in Nat \X Nat
        BY <1>1, RsyncAssumption DEF OriginTyped
    <2>2. NamesRanges(FromReplica, <<iHash, nHash>>, work)
        BY <1>1, <1>5 DEF CountersNameRanges
    <2>3. /\ NamesRanges(Tail(FromReplica), Advanced(<<iHash, nHash>>, Head(FromReplica)), work)
          /\ Bounded(<<iHash, nHash>>)
        BY <1>5, <1>6, <2>1, <2>2, TailNamesRanges
    <2>4. Advanced(<<iHash, nHash>>, Head(FromReplica)) = <<Plus(iHash, nHash), nHash>>
        BY <1>5 DEF Advanced
    <2> QED
        BY <1>5, <2>3, <2>4
<1>12. Typed'
    <2>1. Plus(iHash, nHash) \in 0 .. Modulus - 1
        <3>1. iHash \in Nat /\ nHash \in Nat
            BY <1>1, RsyncAssumption DEF OriginTyped
        <3> QED
            BY <3>1, PlusIs
    <2>2. Larger(mxHash, Plus(iHash, nHash)) \in 0 .. Modulus - 1
        BY <1>1, <2>1 DEF OriginTyped, Larger
    <2>5. Larger(mxHash, Plus(iHash, nHash)) > 0
        <3>1. /\ iHash \in Nat \ {0} /\ nHash \in Nat \ {0} /\ iHash + nHash < Modulus
              /\ mxHash \in Nat
            BY <1>1, <1>11, RsyncAssumption DEF Bounded, PageRange, OriginTyped
        <3>2. Plus(iHash, nHash) = iHash + nHash
            BY <3>1, PlusIs
        <3> QED
            BY <3>1, <3>2 DEF Larger
    <2>3. \A r \in badHash' : Bounded(r)
        BY <1>1, <1>2, <1>11 DEF OriginTyped
    <2>4. OriginTyped'
        BY <1>1, <1>2, <2>1, <2>2, <2>3, <2>5 DEF OriginTyped
    <2> QED
        BY <1>1, <1>2, <1>3, <1>5, <2>4 DEF Typed, ReplicaTyped
<1>13. Conversation'
    BY <1>1, <1>5, <1>6, <1>7, <1>8 DEF Conversation
<1>14. Turns'
    BY <1>1, <1>3, <1>4, <1>5, <1>7, <1>8 DEF Turns
<1>15. Stages'
    BY <1>1, <1>2, <1>3, <1>4, <1>5, <1>7, <1>8, <1>9, <1>10 DEF Stages, Agreed
<1>16. OneByOne'
    BY <1>1, <1>2, <1>3, <1>4, <1>7, <1>8, <1>9 DEF OneByOne
<1>17. Exchanging' /\ Committing'
    BY <1>1, <1>2, <1>3, <1>4, <1>5, <1>7, <1>8, <1>9 DEF Exchanging, Committing
<1>18. CountersNameRanges'
    BY <1>2, <1>11 DEF CountersNameRanges
<1>19. FailuresTold'
    BY <1>1, <1>3, <1>4, <1>5, <1>7, <1>8, <1>9 DEF FailuresTold, Regular, Sides
<1>20. Tallies'
    <2> DEFINE a == Cardinality(HashesIn(FromReplica))
               b == Cardinality(HashesIn(FromReplica'))
    <2>1. /\ rs["origin"].hashMessages \in Nat /\ rs["replica"].hashMessages \in Nat
          /\ a \in Nat /\ b \in Nat
        BY <1>1, <1>6, <1>7, HashesFinite DEF Typed, Structs, Sides
    <2>2. b + 1 <= a
        BY <1>5, <1>6, HashesTail
    <2>3. ret["replica"] \in {"none", "nil"} =>
            rs["origin"].hashMessages + a <= rs["replica"].hashMessages
        BY <1>1 DEF Tallies
    <2> HIDE DEF a, b
    <2>4. ret["replica"] \in {"none", "nil"} =>
            rs["origin"].hashMessages + 1 + b <= rs["replica"].hashMessages
        BY <2>1, <2>2, <2>3
    <2> QED
        BY <1>1, <1>3, <1>4, <1>5, <1>7, <1>8, <1>9, <2>1, <2>4 DEF Tallies, Sides, b
<1>21. WalChecked'
    BY <1>1, <1>2, <1>3, <1>4 DEF WalChecked
<1> QED
    BY <1>5, <1>12, <1>13, <1>14, <1>15, <1>16, <1>17, <1>18, <1>19, <1>20, <1>21
       DEF SyncInductive

(***************************************************************************)
(* The origin fails before it has answered anything.                       *)
(***************************************************************************)

OriginErr == [type |-> "ORIGIN_ERROR"]
ReplicaErr == [type |-> "REPLICA_ERROR"]

LEMMA OneError ==
    ASSUME NEW e, e \in {OriginErr, ReplicaErr}
    PROVE  /\ Append(<<>>, e) = <<e>> /\ <<e>> # <<>>
           /\ InOrder(<<e>>) /\ DOMAIN <<e>> = {1} /\ <<e>>[1] = e
           /\ \A types : Has(<<e>>, types) <=> e.type \in types
           /\ HashesIn(<<e>>) = {} /\ <<e>> \in Seq({e})
    BY DEF OriginErr, ReplicaErr, InOrder, Has, HashesIn

\* What nothing but the roles' own steps on the origin's side leave.
SameOrigin ==
    /\ origin' = origin /\ snap' = snap /\ iHash' = iHash /\ nHash' = nHash
    /\ mxHash' = mxHash /\ badHash' = badHash /\ hashed' = hashed

\* The struct of the origin, but for its statistics.
SameTerms ==
    /\ rs'["origin"].protocol = rs["origin"].protocol
    /\ rs'["origin"].commCheck = rs["origin"].commCheck
    /\ rs'["origin"].pageSize = rs["origin"].pageSize
    /\ rs'["origin"].pageCount = rs["origin"].pageCount

LEMMA OriginFailsKeeps ==
    ASSUME SyncInductive, WireTyped', RolesInStep', SameOrigin, SameReplica, SameTerms,
           rs' \in [Sides -> Structs], faults' \in Nat, faults' = 0 => faults = 0,
           rs'["origin"].hashRounds = rs["origin"].hashRounds,
           rs'["origin"].pageUpdates = rs["origin"].pageUpdates,
           Rounds = 0 /\ ret["replica"] = "none"
             => rs'["origin"].hashMessages = rs["origin"].hashMessages,
           rs'["origin"].hashMessages + Cardinality(HashesIn(FromReplica'))
             <= rs["origin"].hashMessages + Cardinality(HashesIn(FromReplica)),
           ~rs["origin"].commCheck, ret["origin"] = "none",
           ret'["origin"] = "error", ret'["replica"] = ret["replica"],
           pc'["origin"] = "write", pc'["replica"] = pc["replica"], pc["replica"] # "sql",
           linkUp' = linkUp, ~HasCommitted,
           FromOrigin = <<>>, FromOrigin' = IF linkUp THEN <<OriginErr>> ELSE <<>>,
           FromReplica' \in Seq(Message), Within(FromReplica', FromReplica)
    PROVE  SyncInductive'
<1>1. /\ Typed /\ WireTyped /\ OriginTyped /\ ReplicaTyped /\ RolesInStep
      /\ Conversation /\ Turns /\ Stages /\ OneByOne /\ Exchanging /\ Committing
      /\ CountersNameRanges /\ FailuresTold /\ Tallies /\ WalChecked
    BY DEF SyncInductive, Typed
<1>2. /\ \A s \in Sides : rs'[s].commCheck = rs[s].commCheck
      /\ rs'["origin"].hashMessages \in Nat /\ rs["origin"].hashMessages \in Nat
      /\ rs["replica"].hashMessages \in Nat
    BY <1>1 DEF SameReplica, SameTerms, Sides, Typed, Structs
<1>3. /\ FromReplica \in Seq(Message) /\ FromReplica \in Seq(ReplicaMessages)
      /\ InOrder(FromReplica)
    BY <1>1, Conversing
<1>4. /\ InOrder(FromReplica')
      /\ \A types : Has(FromReplica', types) => Has(FromReplica, types)
      /\ \A k \in DOMAIN FromReplica' : \E j \in DOMAIN FromReplica : FromReplica'[k] = FromReplica[j]
    BY <1>3, InOrderWithin, HasWithin, ElementWithin
<1>5. /\ InOrder(FromOrigin')
      /\ \A types : Has(FromOrigin', types) => "ORIGIN_ERROR" \in types
      /\ linkUp => Has(FromOrigin', {"ORIGIN_ERROR"})
      /\ \A k \in DOMAIN FromOrigin' : FromOrigin'[k] = OriginErr
      /\ OriginErr.type = "ORIGIN_ERROR" /\ OriginErr \in OriginMessages
      /\ FromOrigin' # <<>> => FromOrigin' = <<[type |-> "ORIGIN_ERROR"]>>
    <2>1. OriginErr.type = "ORIGIN_ERROR" /\ OriginErr \in OriginMessages
        BY DEF OriginErr, OriginMessages
    <2>2. CASE linkUp
        BY <2>1, <2>2, OneError DEF OriginErr
    <2>3. CASE ~linkUp
        BY <2>1, <2>3, HasNothing DEF InOrder
    <2> QED
        BY <2>2, <2>3
<1>6. /\ Rounds' = Rounds /\ HasCommitted' = HasCommitted /\ TransactionOpen' = TransactionOpen
    BY ReplicaTheSame
<1>7. FromReplica = <<>> => FromReplica' = <<>>
    BY <1>3, WithinNothing
<1> USE DEF SameOrigin, SameReplica, SameTerms
<1>8. Typed'
    BY <1>1 DEF Typed, OriginTyped, ReplicaTyped
<1>9. Conversation'
    BY <1>1, <1>3, <1>4, <1>5 DEF Conversation, Truthful
<1>10. Turns'
    BY <1>1, <1>2, <1>4, <1>5 DEF Turns
<1>11. Stages'
    <2>1. NothingHashed /\ rs'["origin"].hashMessages = rs["origin"].hashMessages
            => NothingHashed'
        BY <1>4 DEF NothingHashed, Sides
    <2>2. Agreed' = Agreed
        BY DEF Agreed
    <2> QED
        BY <1>1, <1>4, <1>5, <1>6, <1>7, <2>1, <2>2 DEF Stages
<1>12. OneByOne'
    BY <1>1, <1>4, <1>5, <1>6 DEF OneByOne
<1>13. Exchanging' /\ Committing'
    BY <1>1, <1>4, <1>5, <1>6 DEF Exchanging, Committing
<1>14. CountersNameRanges'
    BY DEF CountersNameRanges
<1>15. FailuresTold'
    <2> SUFFICES ASSUME Regular' PROVE FailuresTold'
        BY DEF FailuresTold
    <2>1. Regular /\ linkUp
        BY <1>2 DEF Regular, Sides
    <2>2. ret["replica"] \in {"none", "error"}
        BY <1>1, <2>1 DEF FailuresTold, Regular, WireTyped, Sides
    <2> QED
        BY <1>5, <2>1, <2>2 DEF FailuresTold
<1>16. Tallies'
    <2>1. /\ Cardinality(HashesIn(FromReplica)) \in Nat
          /\ Cardinality(HashesIn(FromReplica')) \in Nat
        BY <1>3, HashesFinite
    <2>2. ret["replica"] \in {"none", "nil"} =>
            rs'["origin"].hashMessages + Cardinality(HashesIn(FromReplica'))
              <= rs["replica"].hashMessages
        <3> DEFINE a == Cardinality(HashesIn(FromReplica))
                   b == Cardinality(HashesIn(FromReplica'))
        <3>1. ret["replica"] \in {"none", "nil"} =>
                rs["origin"].hashMessages + a <= rs["replica"].hashMessages
            BY <1>1 DEF Tallies
        <3>2. /\ rs'["origin"].hashMessages + b <= rs["origin"].hashMessages + a
              /\ a \in Nat /\ b \in Nat
            BY <2>1
        <3> DEFINE x == rs["origin"].hashMessages
                   y == rs'["origin"].hashMessages
                   z == rs["replica"].hashMessages
        <3>3. x \in Nat /\ y \in Nat /\ z \in Nat
            BY <1>2
        <3> HIDE DEF a, b, x, y, z
        <3>4. x + a <= z /\ y + b <= x + a => y + b <= z
            BY <3>2, <3>3
        <3>5. ret["replica"] \in {"none", "nil"} => y + b <= z
            BY <3>1, <3>2, <3>4 DEF x, y, z
        <3> QED
            BY <3>5 DEF b, y, z
    <2>3. \A k \in DOMAIN FromOrigin' : FromOrigin'[k].type # "ORIGIN_TXN"
        BY <1>5
    <2> QED
        BY <1>1, <1>4, <1>5, <1>6, <2>2, <2>3 DEF Tallies, Sides
<1>17. WalChecked'
    BY <1>1 DEF WalChecked
<1> QED
    BY <1>8, <1>9, <1>10, <1>11, <1>12, <1>13, <1>14, <1>15, <1>16, <1>17 DEF SyncInductive

\* At the start of its run the origin has said nothing, and nobody has read
\* anything.
LEMMA OriginBeginning ==
    ASSUME WireTyped, RolesInStep, Stages, pc["origin"] = "start"
    PROVE  /\ FromOrigin = <<>> /\ ret["origin"] = "none" /\ out["origin"] = <<>>
           /\ Rounds = 0 /\ ~HasCommitted /\ pc["replica"] # "sql"
           /\ ~rs["replica"].commCheck => FromReplica = <<>>
<1>1. ret["origin"] = "none" /\ out["origin"] = <<>> /\ chan["origin"] = <<>>
    BY DEF RolesInStep, Sides
<1>2. FromOrigin = <<>>
    BY <1>1, ConcatEmptySeq DEF FromOrigin, InFlight
<1>3. Rounds = 0 /\ (~rs["replica"].commCheck => FromReplica = <<>> /\ pc["replica"] # "sql")
    BY DEF Stages
<1>4. pc["replica"] # "sql"
    BY <1>3 DEF RolesInStep, Sides
<1> QED
    BY <1>1, <1>2, <1>3, <1>4 DEF HasCommitted

\* What the origin says first.
LEMMA OriginOpens ==
    ASSUME WireTyped, RolesInStep, Stages, pc["origin"] = "start",
           NEW msgs \in Seq(OriginMessages), NEW r \in {"none", "nil", "error"},
           Push("origin", msgs, r), chan' = chan, SameOptions,
           rs["origin"].commCheck => r # "none"
    PROVE  /\ WireTyped' /\ RolesInStep'
           /\ FromOrigin' = (IF linkUp THEN msgs ELSE <<>>) /\ FromReplica' = FromReplica
           /\ pc'["origin"] = "write" /\ pc'["replica"] = pc["replica"]
           /\ ret'["origin"] = r /\ ret'["replica"] = ret["replica"]
           /\ linkUp' = linkUp /\ closed' = closed
<1>1. msgs \in Seq(Message) /\ "origin" \in Sides
    BY DEF Message, Sides
<1>2. FromOrigin = <<>> /\ out["origin"] = <<>>
    BY OriginBeginning
<1>3. /\ chan' \in [Sides -> Seq(Message)] /\ chan'["origin"] = chan["origin"]
      /\ \A x \in Sides : Capacity > 0 => Len(chan'[x]) <= Capacity
    BY DEF WireTyped
<1>4. FromOrigin' = IF linkUp THEN msgs ELSE <<>>
    BY <1>1, <1>2, <1>3, Writing DEF FromOrigin
<1>5. /\ WireTyped'
      /\ pc'["origin"] = "write" /\ ret'["origin"] = r /\ closed' = closed /\ linkUp' = linkUp
      /\ \A x \in Sides \ {"origin"} : out'[x] = out[x] /\ pc'[x] = pc[x] /\ ret'[x] = ret[x]
    BY <1>1, <1>3, Pushed
<1>6. pc'["replica"] = pc["replica"] /\ ret'["replica"] = ret["replica"] /\ out'["replica"] = out["replica"]
    BY <1>5 DEF Sides
<1>7. FromReplica' = FromReplica
    BY <1>5, <1>6 DEF FromReplica, InFlight
<1>8. RolesInStep'
    BY <1>5, <1>6 DEF RolesInStep, Sides, SameOptions
<1> QED
    BY <1>4, <1>5, <1>6, <1>7, <1>8

LEMMA OriginRefusesKeeps ==
    ASSUME SyncInductive, OriginRefuses, UNCHANGED replicaVars
    PROVE  SyncInductive'
<1>1. /\ WireTyped /\ RolesInStep /\ Stages /\ Conversation /\ faults \in Nat
      /\ rs \in [Sides -> Structs]
    BY DEF SyncInductive, Typed
<1>2. /\ pc["origin"] = "start" /\ ~rs["origin"].commCheck
      /\ Push("origin", <<OriginErr>>, "error") /\ chan' = chan /\ rs' = rs
      /\ SameOrigin /\ SameReplica
    BY OneError DEF OriginRefuses, OriginFails, FailAfter, OriginErr, originVars, exchange,
                    replicaVars, txn, SameOrigin, SameReplica
<1>3. faults' \in Nat /\ (faults' = 0 => faults = 0)
    BY <1>1 DEF OriginRefuses, Fault
<1>4. <<OriginErr>> \in Seq(OriginMessages)
    BY DEF OriginErr, OriginMessages
<1>5. /\ FromOrigin = <<>> /\ ret["origin"] = "none"
      /\ Rounds = 0 /\ ~HasCommitted /\ pc["replica"] # "sql"
    BY <1>1, <1>2, OriginBeginning
<1>6. SameOptions
    BY <1>2 DEF SameOptions
<1>7. /\ WireTyped' /\ RolesInStep'
      /\ FromOrigin' = (IF linkUp THEN <<OriginErr>> ELSE <<>>) /\ FromReplica' = FromReplica
      /\ pc'["origin"] = "write" /\ pc'["replica"] = pc["replica"]
      /\ ret'["origin"] = "error" /\ ret'["replica"] = ret["replica"]
      /\ linkUp' = linkUp /\ closed' = closed
    BY <1>1, <1>2, <1>4, <1>6, OriginOpens
<1>8. FromReplica \in Seq(Message) /\ Within(FromReplica, FromReplica)
    BY <1>1, Conversing, SameWithin
<1>9. /\ Cardinality(HashesIn(FromReplica)) \in Nat /\ rs["origin"].hashMessages \in Nat
    BY <1>1, <1>8, HashesFinite DEF Structs, Sides
<1>10. rs'["origin"].hashMessages + Cardinality(HashesIn(FromReplica'))
         <= rs["origin"].hashMessages + Cardinality(HashesIn(FromReplica))
    BY <1>2, <1>7, <1>9
<1>11. SameTerms
    BY <1>2 DEF SameTerms
<1> QED
    BY <1>1, <1>2, <1>3, <1>5, <1>7, <1>8, <1>10, <1>11, OriginFailsKeeps

LEMMA SnapIs ==
    ASSUME OriginTyped
    PROVE  snap \in Seq(Image) /\ Len(snap) <= Modulus - 2 /\ Len(snap) \in Nat
<1>1. CASE snap \in OriginFiles
    <2>1. snap \in Seq(Image) /\ Len(snap) <= Modulus - 2
        BY <1>1, PagesAssumption, RsyncAssumption DEF IsDatabase
    <2> QED
        BY <2>1
<1>2. CASE snap = <<>>
    <2>1. <<>> \in Seq(Image) /\ Len(<<>>) = 0
        OBVIOUS
    <2> QED
        BY <1>2, <2>1, RsyncAssumption
<1> QED
    BY <1>1, <1>2 DEF OriginTyped

\* What the origin answers a message with when it cannot go on.
LEMMA OriginGivesUp ==
    ASSUME SyncInductive, NEW type \in {"REPLICA_BEGIN", "REPLICA_HASH"},
           Receives("origin", type), chan' = Consumed("origin"), OriginFails(<<>>),
           SameOrigin, SameReplica, SameTerms, rs' \in [Sides -> Structs],
           faults' \in Nat, faults' = 0 => faults = 0,
           rs'["origin"].hashRounds = rs["origin"].hashRounds,
           rs'["origin"].pageUpdates = rs["origin"].pageUpdates,
           \/ rs'["origin"].hashMessages = rs["origin"].hashMessages
           \/ /\ rs'["origin"].hashMessages = rs["origin"].hashMessages + 1
              /\ type = "REPLICA_HASH"
    PROVE  SyncInductive'
<1>1. /\ WireTyped /\ RolesInStep /\ Stages /\ Conversation /\ Turns /\ Committing
      /\ rs \in [Sides -> Structs]
    BY DEF SyncInductive, Typed
<1>2. Push("origin", <<OriginErr>>, "error") /\ <<OriginErr>> \in Seq(OriginMessages)
    BY OneError DEF OriginFails, FailAfter, OriginErr, OriginMessages
<1>3. SameOptions
    BY DEF SameOptions, SameReplica, SameTerms, Sides
<1>4. /\ WireTyped' /\ RolesInStep'
      /\ pc["origin"] = "read" /\ ret["origin"] = "none"
      /\ FromReplica # <<>> /\ Head(FromReplica).type = type
      /\ FromReplica' = Tail(FromReplica)
      /\ FromOrigin = <<>> /\ FromOrigin' = (IF linkUp THEN <<OriginErr>> ELSE <<>>)
      /\ pc'["origin"] = "write" /\ pc'["replica"] = pc["replica"]
      /\ ret'["origin"] = "error" /\ ret'["replica"] = ret["replica"] /\ linkUp' = linkUp
    BY <1>1, <1>2, <1>3, OriginAnswers
<1>5. FromReplica \in Seq(Message) /\ FromReplica' \in Seq(Message) /\ Within(FromReplica', FromReplica)
    BY <1>1, <1>4, Conversing, TailWithin
<1>6. ~HasCommitted /\ pc["replica"] # "sql" /\ ~rs["origin"].commCheck
    BY <1>1, <1>4 DEF Committing, Stages, RolesInStep, Sides
<1>7. /\ Cardinality(HashesIn(FromReplica)) \in Nat /\ Cardinality(HashesIn(FromReplica')) \in Nat
      /\ rs["origin"].hashMessages \in Nat
    BY <1>1, <1>5, HashesFinite DEF Structs, Sides
<1>8. Cardinality(HashesIn(FromReplica')) <= Cardinality(HashesIn(FromReplica))
    BY <1>5, HashesWithin
<1>9. type = "REPLICA_HASH" =>
        /\ Cardinality(HashesIn(FromReplica')) + 1 <= Cardinality(HashesIn(FromReplica))
        /\ ~(Rounds = 0 /\ ret["replica"] = "none")
    <2> SUFFICES ASSUME type = "REPLICA_HASH"
                 PROVE  /\ Cardinality(HashesIn(FromReplica')) + 1 <= Cardinality(HashesIn(FromReplica))
                        /\ ~(Rounds = 0 /\ ret["replica"] = "none")
        OBVIOUS
    <2>1. Cardinality(HashesIn(FromReplica')) + 1 <= Cardinality(HashesIn(FromReplica))
        BY <1>4, <1>5, HashesTail
    <2>2. Has(FromReplica, {"REPLICA_CONFIG", "REPLICA_HASH"})
        BY <1>4, <1>5, HasTail
    <2> QED
        BY <1>1, <2>1, <2>2 DEF Stages, NothingHashed
<1>10. rs'["origin"].hashMessages + Cardinality(HashesIn(FromReplica'))
         <= rs["origin"].hashMessages + Cardinality(HashesIn(FromReplica))
    BY <1>7, <1>8, <1>9
<1>11. Rounds = 0 /\ ret["replica"] = "none"
        => rs'["origin"].hashMessages = rs["origin"].hashMessages
    BY <1>9
<1> QED
    BY <1>4, <1>5, <1>6, <1>10, <1>11, OriginFailsKeeps

LEMMA OnReplicaHashFailsKeeps ==
    ASSUME SyncInductive, OnReplicaHashFails, UNCHANGED replicaVars
    PROVE  SyncInductive'
<1>1. rs \in [Sides -> Structs] /\ faults \in Nat
    BY DEF SyncInductive, Typed
<1>2. /\ Receives("origin", "REPLICA_HASH") /\ chan' = Consumed("origin") /\ OriginFails(<<>>)
      /\ rs' = [rs EXCEPT !["origin"].hashMessages = @ + 1] /\ Fault
      /\ UNCHANGED <<originVars, replicaVars>>
    BY DEF OnReplicaHashFails
<1>3. /\ rs' \in [Sides -> Structs] /\ rs'["replica"] = rs["replica"] /\ SameTerms
      /\ rs'["origin"].hashMessages = rs["origin"].hashMessages + 1
      /\ rs'["origin"].hashRounds = rs["origin"].hashRounds
      /\ rs'["origin"].pageUpdates = rs["origin"].pageUpdates
    BY <1>1, <1>2, HashCounted DEF SameTerms
<1>4. SameOrigin /\ SameReplica
    BY <1>2, <1>3 DEF SameOrigin, SameReplica, originVars, exchange, replicaVars, txn
<1>5. faults' \in Nat /\ faults' # 0
    BY <1>1, <1>2, FaultCounts
<1> QED
    BY <1>2, <1>3, <1>4, <1>5, OriginGivesUp

\* REPLICA_BEGIN: the origin says hello again, in the older protocol.
LEMMA OnReplicaBeginKeeps ==
    ASSUME SyncInductive, OnReplicaBegin, UNCHANGED replicaVars
    PROVE  SyncInductive'
<1>1. /\ Typed /\ WireTyped /\ OriginTyped /\ ReplicaTyped /\ RolesInStep
      /\ Conversation /\ Turns /\ Stages /\ OneByOne /\ Exchanging /\ Committing
      /\ CountersNameRanges /\ FailuresTold /\ Tallies /\ WalChecked
    BY DEF SyncInductive, Typed
<1> DEFINE v == Head(Incoming("origin")).protocol
           hello == OriginBegin(v, snap)
<1>2. /\ Receives("origin", "REPLICA_BEGIN") /\ chan' = Consumed("origin") /\ faults' = faults
      /\ SameOrigin /\ file' = file /\ fileSize' = fileSize /\ nRPage' = nRPage /\ work' = work
      /\ sendHash' = sendHash /\ jMode' = jMode /\ pIns' = pIns
      /\ \/ rs' = [rs EXCEPT !["origin"].protocol = v] /\ Push("origin", <<hello>>, "none")
         \/ rs' = rs /\ OriginFails(<<>>)
    BY DEF OnReplicaBegin, Send, originVars, exchange, replicaVars, txn, SameOrigin
<1>3. CASE rs' = rs /\ OriginFails(<<>>)
    <2>1. SameReplica /\ SameTerms
        BY <1>2, <1>3 DEF SameReplica, SameTerms
    <2> QED
        BY <1>1, <1>2, <1>3, <2>1, OriginGivesUp DEF Typed
<1>4. CASE rs' = [rs EXCEPT !["origin"].protocol = v] /\ Push("origin", <<hello>>, "none")
    <2>1. /\ rs'["replica"] = rs["replica"] /\ rs'["origin"].protocol = v
          /\ rs'["origin"].commCheck = rs["origin"].commCheck
          /\ rs'["origin"].pageSize = rs["origin"].pageSize
          /\ rs'["origin"].pageCount = rs["origin"].pageCount
          /\ rs'["origin"].hashMessages = rs["origin"].hashMessages
          /\ rs'["origin"].hashRounds = rs["origin"].hashRounds
          /\ rs'["origin"].pageUpdates = rs["origin"].pageUpdates
        BY <1>1, <1>4 DEF Typed, Structs, Sides
    <2>2. SameReplica /\ SameOptions
        BY <1>2, <2>1 DEF SameReplica, SameOptions, Sides
    <2>3. Receives("origin", "REPLICA_BEGIN") /\ Head(Incoming("origin")) \in Message
          /\ Head(Incoming("origin")).type = "REPLICA_BEGIN"
        <3>1. Incoming("origin") \in Seq(Message) /\ Incoming("origin") # <<>>
            BY <1>1, <1>2 DEF Receives, Incoming, WireTyped, Sides, Peer
        <3> HIDE DEF Incoming
        <3>2. Head(Incoming("origin")) \in Message
            BY <3>1
        <3> QED
            BY <1>2, <3>2 DEF Receives
    <2>4. v \in 1 .. ProtocolVersion
        BY <2>3 DEF Message, OriginMessages, ReplicaMessages
    <2>5. snap \in Seq(Image)
        BY <1>1, SnapIs
    <2>6. /\ hello \in OriginMessages /\ hello.type = "ORIGIN_BEGIN" /\ hello.protocol = v
          /\ hello.pageSize = OriginPageSize /\ hello.pageCount = Len(snap)
        BY <2>4, <2>5, RsyncAssumption DEF OriginBegin, OriginMessages
    <2> HIDE DEF hello, v
    <2>7. /\ <<hello>> \in Seq(OriginMessages) /\ <<hello>> # <<>>
          /\ InOrder(<<hello>>) /\ DOMAIN <<hello>> = {1} /\ <<hello>>[1] = hello
          /\ \A types : Has(<<hello>>, types) <=> "ORIGIN_BEGIN" \in types
        BY <2>6 DEF InOrder, Has
    <2>8. /\ WireTyped' /\ RolesInStep'
          /\ pc["origin"] = "read" /\ ret["origin"] = "none"
          /\ FromReplica # <<>> /\ Head(FromReplica).type = "REPLICA_BEGIN"
          /\ FromReplica' = Tail(FromReplica)
          /\ FromOrigin = <<>> /\ FromOrigin' = (IF linkUp THEN <<hello>> ELSE <<>>)
          /\ pc'["origin"] = "write" /\ pc'["replica"] = pc["replica"]
          /\ ret'["origin"] = "none" /\ ret'["replica"] = ret["replica"] /\ linkUp' = linkUp
          /\ ~rs["replica"].commCheck
        BY <1>1, <1>2, <1>4, <2>2, <2>7, OriginAnswers
    <2>9. FromReplica \in Seq(Message) /\ InOrder(FromReplica)
        BY <1>1, Conversing
    <2>10. /\ FromReplica' = <<>> /\ \A types : Has(FromReplica, types) <=> "REPLICA_BEGIN" \in types
        BY <2>8, <2>9, LastWords, OnlyWord
    <2>11. \A types : ~Has(FromReplica', types)
        BY <2>10, HasNothing
    <2>12. /\ \A types : Has(FromOrigin', types) => "ORIGIN_BEGIN" \in types
           /\ InOrder(FromOrigin') /\ InOrder(FromReplica')
           /\ \A k \in DOMAIN FromOrigin' : FromOrigin'[k] = hello
           /\ DOMAIN FromReplica' = {}
        BY <2>7, <2>8, <2>10, HasNothing DEF InOrder
    <2>13. /\ Rounds' = Rounds /\ HasCommitted' = HasCommitted
           /\ TransactionOpen' = TransactionOpen
        BY <2>2, <2>8, ReplicaTheSame
    <2>14. Rounds = 0 /\ ~HasCommitted /\ pc["replica"] # "sql" /\ rs["origin"].pageSize # 0
           /\ ~rs["origin"].commCheck
        BY <1>1, <2>8, <2>10 DEF Stages, Committing, RolesInStep, Sides
    <2>15. rs' \in [Sides -> Structs]
        BY <1>1, <1>4, <2>4 DEF Typed, Structs
    <2> USE DEF SameOrigin, SameReplica
    <2>16. Typed'
        BY <1>1, <1>2, <2>2, <2>8, <2>15 DEF Typed, OriginTyped, ReplicaTyped
    <2>17. Conversation'
        BY <1>2, <2>1, <2>6, <2>12 DEF Conversation, Truthful
    <2>18. Turns'
        BY <2>1, <2>6, <2>10, <2>11, <2>12, <2>14 DEF Turns
    <2>19. Stages'
        BY <1>1, <1>2, <2>1, <2>2, <2>8, <2>11, <2>12, <2>13, <2>14 DEF Stages, NothingHashed, Sides
    <2>20. OneByOne' /\ Exchanging' /\ Committing'
        BY <1>1, <1>2, <2>2, <2>8, <2>11, <2>12, <2>13, <2>14
           DEF OneByOne, Exchanging, Committing
    <2>21. CountersNameRanges'
        <3>1. HashesIn(FromReplica') = {}
            BY <2>12 DEF HashesIn
        <3> QED
            BY <3>1, NoHashNamesRanges DEF CountersNameRanges
    <2>22. FailuresTold'
        BY <1>1, <2>1, <2>2, <2>8, <2>10, <2>13, <2>14 DEF FailuresTold, Regular, Sides
    <2>23. Tallies'
        <3>1. Cardinality(HashesIn(FromReplica)) = 0 /\ Cardinality(HashesIn(FromReplica')) = 0
            <4>1. ~Has(FromReplica, {"REPLICA_HASH"}) /\ FromReplica' \in Seq(Message)
                BY <2>10
            <4> QED
                BY <2>9, <2>11, <4>1, NoHashes
        <3>2. \A k \in DOMAIN FromOrigin' : FromOrigin'[k].type # "ORIGIN_TXN"
            BY <2>6, <2>12
        <3> QED
            BY <1>1, <2>1, <2>2, <2>8, <2>11, <2>12, <2>13, <2>14, <3>1, <3>2
               DEF Tallies, Sides
    <2>24. WalChecked'
        BY <1>1, <1>2, <2>2, <2>8 DEF WalChecked
    <2> QED
        BY <2>8, <2>16, <2>17, <2>18, <2>19, <2>20, <2>21, <2>22, <2>23, <2>24
           DEF SyncInductive
<1> QED
    BY <1>2, <1>3, <1>4

LEMMA OriginCommCheckKeeps ==
    ASSUME SyncInductive, OriginCommCheck, UNCHANGED replicaVars
    PROVE  SyncInductive'
<1>1. /\ Typed /\ WireTyped /\ OriginTyped /\ ReplicaTyped /\ RolesInStep
      /\ Conversation /\ Turns /\ Stages /\ OneByOne /\ Exchanging /\ Committing
      /\ CountersNameRanges /\ FailuresTold /\ Tallies /\ WalChecked
    BY DEF SyncInductive, Typed
<1> DEFINE msgs == <<[type |-> "ORIGIN_MSG"], [type |-> "ORIGIN_END"]>>
<1>2. /\ pc["origin"] = "start" /\ rs["origin"].commCheck
      /\ Push("origin", msgs, "nil") /\ chan' = chan /\ rs' = rs /\ faults' = faults
      /\ origin' = origin /\ snap' = snap
      /\ iHash' = iHash /\ nHash' = nHash /\ mxHash' = mxHash
      /\ badHash' = badHash /\ hashed' = hashed
      /\ file' = file /\ fileSize' = fileSize /\ nRPage' = nRPage /\ work' = work
      /\ sendHash' = sendHash /\ jMode' = jMode /\ pIns' = pIns
    BY DEF OriginCommCheck, originVars, exchange, replicaVars, txn
<1>3. /\ msgs \in Seq(OriginMessages) /\ InOrder(msgs)
      /\ \A k \in DOMAIN msgs : msgs[k].type \in {"ORIGIN_MSG", "ORIGIN_END"}
    BY DEF OriginMessages, InOrder, Precedes
<1> HIDE DEF msgs
<1>4. SameOptions /\ SameReplica
    BY <1>2 DEF SameOptions, SameReplica
<1>5. /\ WireTyped' /\ RolesInStep'
      /\ FromOrigin' = (IF linkUp THEN msgs ELSE <<>>) /\ FromReplica' = FromReplica
      /\ pc'["origin"] = "write" /\ pc'["replica"] = pc["replica"]
      /\ ret'["origin"] = "nil" /\ ret'["replica"] = ret["replica"]
      /\ linkUp' = linkUp /\ closed' = closed
    BY <1>1, <1>2, <1>3, <1>4, OriginOpens
<1>6. /\ FromOrigin = <<>> /\ Rounds = 0 /\ ~HasCommitted /\ pc["replica"] # "sql"
      /\ ~rs["replica"].commCheck => FromReplica = <<>>
    BY <1>1, <1>2, OriginBeginning
<1>7. /\ FromOrigin' \in Seq(OriginMessages) /\ InOrder(FromOrigin')
      /\ \A k \in DOMAIN FromOrigin' : FromOrigin'[k].type \in {"ORIGIN_MSG", "ORIGIN_END"}
      /\ \A k \in DOMAIN FromOrigin' : FromOrigin'[k] \in OriginMessages
    <2>1. CASE linkUp
        BY <2>1, <1>3, <1>5
    <2>2. CASE ~linkUp
        BY <2>2, <1>5 DEF InOrder
    <2> QED
        BY <2>1, <2>2
<1>8. ~Has(FromOrigin', {"ORIGIN_ERROR"}) /\ ~Has(FromOrigin', {"ORIGIN_BEGIN"})
      /\ ~Has(FromOrigin', {"ORIGIN_DETAIL", "ORIGIN_READY"})
      /\ ~Has(FromOrigin', {"ORIGIN_DETAIL", "ORIGIN_READY", "ORIGIN_PAGE", "ORIGIN_TXN"})
    BY <1>7 DEF Has
<1>9. /\ Rounds' = Rounds /\ HasCommitted' = HasCommitted
      /\ TransactionOpen' = TransactionOpen
    BY <1>4, <1>5, ReplicaTheSame
<1>10. Typed'
    BY <1>1, <1>2, <1>5 DEF Typed, OriginTyped, ReplicaTyped
<1>11. Conversation'
    BY <1>1, <1>5, <1>7 DEF Conversation, Truthful
<1>12. Turns'
    BY <1>1, <1>2, <1>5, <1>6, <1>7, <1>8 DEF Turns
<1>13. Stages'
    BY <1>1, <1>2, <1>5, <1>6, <1>8, <1>9 DEF Stages, NothingHashed
<1>14. OneByOne' /\ Exchanging' /\ Committing'
    BY <1>1, <1>2, <1>5, <1>6, <1>8, <1>9 DEF OneByOne, Exchanging, Committing
<1>15. CountersNameRanges'
    BY <1>5 DEF CountersNameRanges
<1>16. FailuresTold'
    BY <1>2 DEF FailuresTold, Regular, Sides
<1>17. Tallies'
    BY <1>1, <1>2, <1>5, <1>6, <1>7, <1>8, <1>9 DEF Tallies
<1>18. WalChecked'
    BY <1>1, <1>2, <1>5 DEF WalChecked
<1> QED
    BY <1>5, <1>10, <1>11, <1>12, <1>13, <1>14, <1>15, <1>16, <1>17, <1>18 DEF SyncInductive

\* The origin announces its file.
LEMMA OriginStartKeeps ==
    ASSUME SyncInductive, OriginStart, UNCHANGED replicaVars
    PROVE  SyncInductive'
<1>1. /\ Typed /\ WireTyped /\ OriginTyped /\ ReplicaTyped /\ RolesInStep
      /\ Conversation /\ Turns /\ Stages /\ OneByOne /\ Exchanging /\ Committing
      /\ CountersNameRanges /\ FailuresTold /\ Tallies /\ WalChecked
    BY DEF SyncInductive, Typed
<1> DEFINE hello == OriginBegin(rs["origin"].protocol, origin)
<1>2. /\ pc["origin"] = "start" /\ ~rs["origin"].commCheck
      /\ Push("origin", <<hello>>, "none") /\ chan' = chan /\ faults' = faults
      /\ rs' = [rs EXCEPT !["origin"].pageCount = Len(origin),
                          !["origin"].pageSize = OriginPageSize]
      /\ origin' = origin /\ snap' = origin
      /\ iHash' = iHash /\ nHash' = nHash /\ mxHash' = mxHash
      /\ badHash' = badHash /\ hashed' = hashed
      /\ file' = file /\ fileSize' = fileSize /\ nRPage' = nRPage /\ work' = work
      /\ sendHash' = sendHash /\ jMode' = jMode /\ pIns' = pIns
    BY DEF OriginStart, Send, Snapshot, exchange, replicaVars, txn
<1>3. origin \in Seq(Image) /\ Len(origin) \in Nat /\ OriginPageSize \in Nat \ {0}
    <2>1. origin \in Seq(Image)
        BY <1>1, PagesAssumption DEF OriginTyped, IsDatabase
    <2> QED
        BY <2>1, RsyncAssumption
<1>4. /\ rs'["replica"] = rs["replica"] /\ rs'["origin"].protocol = rs["origin"].protocol
      /\ rs'["origin"].commCheck = rs["origin"].commCheck
      /\ rs'["origin"].pageSize = OriginPageSize
      /\ rs'["origin"].pageCount = Len(origin)
      /\ rs'["origin"].hashMessages = rs["origin"].hashMessages
      /\ rs'["origin"].hashRounds = rs["origin"].hashRounds
      /\ rs'["origin"].pageUpdates = rs["origin"].pageUpdates
    BY <1>1, <1>2 DEF Typed, Structs, Sides
<1>5. rs' \in [Sides -> Structs]
    BY <1>1, <1>2, <1>3 DEF Typed, Structs
<1>6. /\ hello \in OriginMessages /\ hello.type = "ORIGIN_BEGIN"
      /\ hello.protocol = rs["origin"].protocol
      /\ hello.pageSize = OriginPageSize /\ hello.pageCount = Len(origin)
    <2>1. rs["origin"].protocol \in 1 .. ProtocolVersion
        BY <1>1 DEF Typed, Structs, Sides
    <2> QED
        BY <1>3, <2>1, SMTT(60) DEF OriginBegin, OriginMessages
<1> HIDE DEF hello
<1>7. /\ <<hello>> \in Seq(OriginMessages) /\ <<hello>> # <<>>
      /\ InOrder(<<hello>>) /\ DOMAIN <<hello>> = {1} /\ <<hello>>[1] = hello
      /\ \A types : Has(<<hello>>, types) <=> "ORIGIN_BEGIN" \in types
    BY <1>6 DEF InOrder, Has
<1>8. SameReplica /\ SameOptions
    BY <1>2, <1>4 DEF SameReplica, SameOptions, Sides
<1>9. /\ WireTyped' /\ RolesInStep'
      /\ FromOrigin' = (IF linkUp THEN <<hello>> ELSE <<>>) /\ FromReplica' = FromReplica
      /\ pc'["origin"] = "write" /\ pc'["replica"] = pc["replica"]
      /\ ret'["origin"] = "none" /\ ret'["replica"] = ret["replica"]
      /\ linkUp' = linkUp /\ closed' = closed
    BY <1>1, <1>2, <1>7, <1>8, OriginOpens
<1>10. /\ FromOrigin = <<>> /\ Rounds = 0 /\ ~HasCommitted /\ pc["replica"] # "sql"
       /\ ~rs["replica"].commCheck => FromReplica = <<>>
       /\ ret["origin"] = "none"
    BY <1>1, <1>2, OriginBeginning
<1>11. /\ \A types : Has(FromOrigin', types) => "ORIGIN_BEGIN" \in types
       /\ InOrder(FromOrigin') /\ \A k \in DOMAIN FromOrigin' : FromOrigin'[k] = hello
    BY <1>7, <1>9, HasNothing DEF InOrder
<1>12. /\ Rounds' = Rounds /\ HasCommitted' = HasCommitted
       /\ TransactionOpen' = TransactionOpen
    BY <1>8, <1>9, ReplicaTheSame
<1> USE DEF SameReplica
<1>13. Typed'
    BY <1>1, <1>2, <1>5, <1>8, <1>9 DEF Typed, OriginTyped, ReplicaTyped
<1>14. Conversation'
    BY <1>1, <1>2, <1>4, <1>6, <1>9, <1>11 DEF Conversation, Truthful
<1>15. Turns'
    BY <1>1, <1>2, <1>4, <1>6, <1>8, <1>9, <1>10, <1>11 DEF Turns
<1>16. Stages'
    BY <1>1, <1>2, <1>3, <1>4, <1>8, <1>9, <1>10, <1>11, <1>12
       DEF Stages, NothingHashed, Sides
<1>17. OneByOne' /\ Exchanging' /\ Committing'
    BY <1>1, <1>2, <1>4, <1>8, <1>9, <1>10, <1>11, <1>12
       DEF OneByOne, Exchanging, Committing
<1>18. CountersNameRanges'
    BY <1>1, <1>2, <1>8, <1>9, <1>10 DEF CountersNameRanges
<1>19. FailuresTold'
    BY <1>1, <1>4, <1>8, <1>9, <1>10, <1>12 DEF FailuresTold, Regular, Sides
<1>20. Tallies'
    <2>1. \A k \in DOMAIN FromOrigin' : FromOrigin'[k].type # "ORIGIN_TXN"
        BY <1>6, <1>11
    <2> QED
        BY <1>1, <1>4, <1>8, <1>9, <1>10, <1>11, <1>12, <2>1 DEF Tallies, Sides
<1>21. WalChecked'
    BY <1>1, <1>2, <1>8, <1>9 DEF WalChecked
<1> QED
    BY <1>9, <1>13, <1>14, <1>15, <1>16, <1>17, <1>18, <1>19, <1>20, <1>21 DEF SyncInductive

(***************************************************************************)
(* The origin answers a round: details, pages, or part of them.            *)
(***************************************************************************)

LEMMA OnReplicaReadyKeeps ==
    ASSUME SyncInductive, Receives("origin", "REPLICA_READY"), chan' = Consumed("origin"),
           NEW msgs \in Seq(OriginMessages), NEW r \in {"none", "error"}, Push("origin", msgs, r),
           UNCHANGED replicaVars, faults' \in Nat, faults' = 0 => faults = 0,
           NEW n \in Nat, CountRound(n),
           origin' = origin, snap' = snap, iHash' = iHash, nHash' = nHash,
           mxHash' = mxHash, hashed' = hashed,
           \A x \in badHash' : Bounded(x),
           (\A x \in badHash : x[2] = 1) => \A x \in badHash' : x[2] = 1,
           InOrder(msgs),
           \A k \in DOMAIN msgs :
              /\ Truthful(msgs[k])
              /\ msgs[k].type \in {"ORIGIN_DETAIL", "ORIGIN_READY", "ORIGIN_PAGE",
                                   "ORIGIN_TXN", "ORIGIN_END", "ORIGIN_ERROR"}
              /\ msgs[k].type \in {"ORIGIN_DETAIL", "ORIGIN_READY"}
                    => n = 0 /\ ~(\A x \in badHash : x[2] = 1)
              /\ msgs[k].type = "ORIGIN_TXN" => n = k - 1,
           Has(msgs, {"ORIGIN_ERROR"}) <=> r = "error",
           Has(msgs, {"ORIGIN_END"}) => Has(msgs, {"ORIGIN_TXN"})
    PROVE  SyncInductive'
<1>1. /\ Typed /\ WireTyped /\ OriginTyped /\ ReplicaTyped /\ RolesInStep
      /\ Conversation /\ Turns /\ Stages /\ OneByOne /\ Exchanging /\ Committing
      /\ CountersNameRanges /\ FailuresTold /\ Tallies /\ WalChecked
    BY DEF SyncInductive, Typed
<1>2. /\ file' = file /\ fileSize' = fileSize /\ nRPage' = nRPage /\ work' = work
      /\ sendHash' = sendHash /\ jMode' = jMode /\ pIns' = pIns
    BY DEF replicaVars, txn
<1>3. /\ rs' \in [Sides -> Structs] /\ rs'["replica"] = rs["replica"]
      /\ rs'["origin"].protocol = rs["origin"].protocol
      /\ rs'["origin"].commCheck = rs["origin"].commCheck
      /\ rs'["origin"].pageSize = rs["origin"].pageSize
      /\ rs'["origin"].pageCount = rs["origin"].pageCount
      /\ rs'["origin"].hashMessages = rs["origin"].hashMessages
      /\ rs'["origin"].hashRounds = rs["origin"].hashRounds + 1
      /\ rs'["origin"].pageUpdates = rs["origin"].pageUpdates + n
      /\ rs["origin"].hashRounds \in Nat
    <2>1. rs \in [Sides -> Structs]
        BY <1>1 DEF Typed
    <2>2. /\ rs["origin"] \in Structs
          /\ rs["origin"].hashRounds \in Nat /\ rs["origin"].pageUpdates \in Nat
        BY <2>1 DEF Structs, Sides
    <2> DEFINE o == [rs["origin"] EXCEPT !.hashRounds = @ + 1, !.pageUpdates = @ + n]
    <2>3. o \in Structs
        <3>1. rs["origin"].hashRounds + 1 \in Nat /\ rs["origin"].pageUpdates + n \in Nat
            BY <2>2
        <3> QED
            BY <2>2, <3>1 DEF Structs
    <2>4. /\ o.protocol = rs["origin"].protocol /\ o.commCheck = rs["origin"].commCheck
          /\ o.pageSize = rs["origin"].pageSize /\ o.pageCount = rs["origin"].pageCount
          /\ o.hashMessages = rs["origin"].hashMessages
          /\ o.hashRounds = rs["origin"].hashRounds + 1
          /\ o.pageUpdates = rs["origin"].pageUpdates + n
        BY <2>2 DEF Structs
    <2>5. rs' = [rs EXCEPT !["origin"] = o]
        BY <2>1 DEF CountRound, Sides
    <2> HIDE DEF o
    <2> QED
        BY <2>1, <2>2, <2>3, <2>4, <2>5 DEF Sides
<1>4. SameReplica /\ SameOptions
    BY <1>2, <1>3 DEF SameReplica, SameOptions, Sides
<1>5. /\ WireTyped' /\ RolesInStep'
      /\ pc["origin"] = "read" /\ ret["origin"] = "none"
      /\ FromReplica # <<>> /\ Head(FromReplica).type = "REPLICA_READY"
      /\ FromReplica' = Tail(FromReplica)
      /\ FromOrigin = <<>> /\ FromOrigin' = (IF linkUp THEN msgs ELSE <<>>)
      /\ pc'["origin"] = "write" /\ pc'["replica"] = pc["replica"]
      /\ ret'["origin"] = r /\ ret'["replica"] = ret["replica"] /\ linkUp' = linkUp
      /\ ~rs["replica"].commCheck
    BY <1>1, <1>4, OriginAnswers
<1>6. FromReplica \in Seq(Message) /\ InOrder(FromReplica)
    BY <1>1, Conversing
<1>7. /\ FromReplica' = <<>> /\ \A types : Has(FromReplica, types) <=> "REPLICA_READY" \in types
    BY <1>5, <1>6, LastWords, OnlyWord
<1>8. /\ \A types : ~Has(FromReplica', types)
      /\ DOMAIN FromReplica' = {} /\ InOrder(FromReplica')
    BY <1>7, HasNothing DEF InOrder
<1>9. /\ InOrder(FromOrigin')
      /\ \A types : Has(FromOrigin', types) => Has(msgs, types)
      /\ linkUp => FromOrigin' = msgs
      /\ \A k \in DOMAIN FromOrigin' : k \in DOMAIN msgs /\ FromOrigin'[k] = msgs[k]
    BY <1>5, HasNothing DEF InOrder
<1>10. /\ Rounds' = Rounds /\ HasCommitted' = HasCommitted
       /\ TransactionOpen' = TransactionOpen
    BY <1>4, <1>5, ReplicaTheSame
<1>11. /\ Rounds > 0 /\ work # <<>> /\ hashed /\ ~HasCommitted /\ pc["replica"] # "sql"
       /\ pc["replica"] # "start"
       /\ ~rs["origin"].commCheck /\ Rounds = rs["origin"].hashRounds + 1
       /\ \A s \in Sides : rs[s].pageUpdates = 0
    <2>1. Has(FromReplica, {"REPLICA_READY"}) /\ ~Has(FromReplica, {"REPLICA_HASH"})
        BY <1>7
    <2>2. Rounds > 0 /\ work # <<>> /\ hashed
        BY <1>1, <1>5, <2>1 DEF Exchanging
    <2>3. ~rs["origin"].commCheck /\ Rounds = rs["origin"].hashRounds + 1
          /\ \A s \in Sides : rs[s].pageUpdates = 0
        BY <1>1, <1>5, <2>1 DEF RolesInStep, Tallies, Sides
    <2>4. pc["replica"] # "sql" /\ pc["replica"] # "start"
        BY <1>1, <2>2 DEF Stages
    <2> QED
        BY <2>2, <2>3, <2>4 DEF HasCommitted
<1>12. \A k \in DOMAIN msgs : Truthful(msgs[k])' /\ msgs[k] \in OriginMessages
    BY <1>3 DEF Truthful
<1>13. /\ ~Has(FromOrigin', {"ORIGIN_BEGIN"})
       /\ Has(FromOrigin', {"ORIGIN_DETAIL", "ORIGIN_READY"}) =>
            n = 0 /\ ~(\A x \in badHash : x[2] = 1)
    BY <1>9 DEF Has
<1>14. Typed'
    BY <1>1, <1>2, <1>3, <1>5 DEF Typed, OriginTyped, ReplicaTyped
<1>15. Conversation'
    BY <1>8, <1>9, <1>12 DEF Conversation
<1>16. Turns'
    BY <1>3, <1>5, <1>7, <1>8, <1>9, <1>11 DEF Turns
<1>17. Stages'
    BY <1>1, <1>3, <1>5, <1>8, <1>10, <1>11, <1>13 DEF Stages, Agreed
<1>18. OneByOne'
    <2>1. Rounds > 0 /\ rs["replica"].protocol = 1 => \A x \in badHash : x[2] = 1
        BY <1>1 DEF OneByOne
    <2> QED
        BY <1>1, <1>2, <1>3, <1>8, <1>10, <1>13, <2>1 DEF OneByOne
<1>19. Exchanging' /\ Committing'
    <2>1. Committing'
        BY <1>1, <1>3, <1>5, <1>7, <1>9, <1>10, <1>11 DEF Committing
    <2> QED
        BY <1>1, <1>2, <1>8, <1>10, <1>11, <2>1 DEF Exchanging
<1>20. CountersNameRanges'
    <2>1. HashesIn(FromReplica') = {}
        BY <1>8 DEF HashesIn
    <2> QED
        BY <2>1, NoHashNamesRanges DEF CountersNameRanges
<1>21. FailuresTold'
    <2> SUFFICES ASSUME Regular' PROVE FailuresTold'
        BY DEF FailuresTold
    <2>1. Regular /\ linkUp
        BY <1>3, <1>5 DEF Regular, Sides
    <2>2. ret["replica"] = "none"
        BY <1>1, <1>5, <1>7, <1>11, <2>1 DEF FailuresTold, Regular, WireTyped, Sides
    <2> QED
        BY <1>5, <1>9, <2>1, <2>2 DEF FailuresTold
<1>22. Tallies'
    <2>1. Cardinality(HashesIn(FromReplica)) = 0 /\ Cardinality(HashesIn(FromReplica')) = 0
        <3>1. ~Has(FromReplica, {"REPLICA_HASH"}) /\ FromReplica' \in Seq(Message)
            BY <1>7
        <3> QED
            BY <1>6, <1>8, <3>1, NoHashes
    <2>2. \A k \in DOMAIN FromOrigin' : FromOrigin'[k].type = "ORIGIN_TXN" =>
            rs'["origin"].pageUpdates = rs'["replica"].pageUpdates + (k - 1)
        BY <1>3, <1>9, <1>11 DEF Sides
    <2>3. Has(FromOrigin', {"ORIGIN_DETAIL", "ORIGIN_READY"})
            => \A s \in Sides : rs'[s].pageUpdates = 0
        BY <1>3, <1>11, <1>13 DEF Sides
    <2> QED
        BY <1>1, <1>3, <1>5, <1>8, <1>10, <1>11, <2>1, <2>2, <2>3 DEF Tallies
<1>23. WalChecked'
    BY <1>1, <1>2, <1>3, <1>5 DEF WalChecked
<1> QED
    BY <1>5, <1>14, <1>15, <1>16, <1>17, <1>18, <1>19, <1>20, <1>21, <1>22, <1>23
       DEF SyncInductive

LEMMA AlikeThen ==
    ASSUME NEW type \in {"ORIGIN_DETAIL", "ORIGIN_PAGE"}, NEW msgs \in Seq(OriginMessages),
           \A k \in DOMAIN msgs : msgs[k].type = type,
           NEW m \in OriginMessages, Precedes(type, m.type)
    PROVE  /\ Append(msgs, m) \in Seq(OriginMessages) /\ InOrder(Append(msgs, m))
           /\ \A k \in DOMAIN Append(msgs, m) :
                Append(msgs, m)[k] = m \/ (k \in DOMAIN msgs /\ Append(msgs, m)[k] = msgs[k])
           /\ \A types : Has(Append(msgs, m), types) => m.type \in types \/ type \in types
           /\ \A types : m.type \in types => Has(Append(msgs, m), types)
<1>1. msgs \in Seq(Message) /\ m \in Message
    <2>1. OriginMessages \subseteq Message
        BY DEF Message
    <2> QED
        BY <2>1
<1>2. InOrder(msgs)
    <2>1. Precedes(type, type)
        BY DEF Precedes
    <2> QED
        BY <2>1 DEF InOrder
<1>3. InOrder(Append(msgs, m))
    BY <1>1, <1>2, InOrderAppend
<1> DEFINE b == Append(msgs, m)
<1>4. /\ b \in Seq(OriginMessages) /\ Len(msgs) + 1 \in DOMAIN b /\ b[Len(msgs) + 1] = m
      /\ \A k \in DOMAIN b : b[k] = m \/ (k \in DOMAIN msgs /\ b[k] = msgs[k])
    OBVIOUS
<1> HIDE DEF b
<1>5. /\ \A types : Has(b, types) => m.type \in types \/ type \in types
      /\ \A types : m.type \in types => Has(b, types)
    BY <1>4 DEF Has
<1> QED
    BY <1>3, <1>4, <1>5 DEF b

LEMMA OnReplicaReadyDetailKeeps ==
    ASSUME SyncInductive, OnReplicaReadyDetail, UNCHANGED replicaVars
    PROVE  SyncInductive'
<1> DEFINE m == [type |-> "ORIGIN_READY"]
           msgs == Append(Details, m)
<1>1. OriginTyped /\ Typed
    BY DEF SyncInductive, Typed
<1>2. /\ Details \in Seq(OriginMessages)
      /\ \A k \in DOMAIN Details :
            /\ Details[k].type = "ORIGIN_DETAIL"
            /\ Bounded(<<Details[k].fpg, Details[k].npg>>)
    <2>1. (\A r \in badHash : Bounded(r)) /\ mxHash \in Nat
        BY <1>1, RsyncAssumption DEF OriginTyped
    <2> QED
        BY <2>1, DetailsIs
<1>3. m \in OriginMessages /\ Precedes("ORIGIN_DETAIL", m.type) /\ m.type = "ORIGIN_READY"
    BY DEF OriginMessages, Precedes
<1> HIDE DEF m
<1>4. /\ msgs \in Seq(OriginMessages) /\ InOrder(msgs)
      /\ \A k \in DOMAIN msgs : msgs[k] = m \/ (k \in DOMAIN Details /\ msgs[k] = Details[k])
      /\ \A types : Has(msgs, types) => m.type \in types \/ "ORIGIN_DETAIL" \in types
    BY <1>2, <1>3, AlikeThen
<1> HIDE DEF msgs
<1>5. PICK x \in badHash : x[2] > 1
    BY DEF OnReplicaReadyDetail, BadGroups
<1>6. ~(\A y \in badHash : y[2] = 1)
    BY <1>5
<1>7. \A k \in DOMAIN msgs :
        /\ Truthful(msgs[k]) /\ msgs[k].type \in {"ORIGIN_DETAIL", "ORIGIN_READY"}
    <2> TAKE k \in DOMAIN msgs
    <2>1. CASE msgs[k] = m
        BY <1>3, <2>1 DEF Truthful
    <2>2. CASE k \in DOMAIN Details /\ msgs[k] = Details[k]
        BY <1>2, <2>2 DEF Truthful
    <2> QED
        BY <1>4, <2>1, <2>2
<1>8. \A y \in badHash' : y \in badHash /\ Bounded(y)
    BY <1>1 DEF OnReplicaReadyDetail, OriginTyped
<1>9. /\ ~Has(msgs, {"ORIGIN_ERROR"}) /\ ~Has(msgs, {"ORIGIN_END"})
    BY <1>3, <1>4
<1>10. /\ Receives("origin", "REPLICA_READY") /\ chan' = Consumed("origin")
       /\ Push("origin", msgs, "none") /\ CountRound(0)
       /\ origin' = origin /\ snap' = snap /\ iHash' = iHash /\ nHash' = nHash
       /\ mxHash' = mxHash /\ hashed' = hashed
       /\ faults' \in Nat /\ (faults' = 0 => faults = 0)
    BY <1>1 DEF OnReplicaReadyDetail, msgs, m, Send, Typed
<1>11. /\ InOrder(msgs)
       /\ \A k \in DOMAIN msgs :
            /\ Truthful(msgs[k])
            /\ msgs[k].type \in {"ORIGIN_DETAIL", "ORIGIN_READY", "ORIGIN_PAGE",
                                 "ORIGIN_TXN", "ORIGIN_END", "ORIGIN_ERROR"}
            /\ msgs[k].type \in {"ORIGIN_DETAIL", "ORIGIN_READY"}
                  => 0 = 0 /\ ~(\A y \in badHash : y[2] = 1)
            /\ msgs[k].type = "ORIGIN_TXN" => 0 = k - 1
    BY <1>4, <1>6, <1>7
<1>12. /\ \A y \in badHash' : Bounded(y)
       /\ (\A y \in badHash : y[2] = 1) => \A y \in badHash' : y[2] = 1
    BY <1>6, <1>8
<1>13. /\ Has(msgs, {"ORIGIN_ERROR"}) <=> "none" = "error"
       /\ Has(msgs, {"ORIGIN_END"}) => Has(msgs, {"ORIGIN_TXN"})
    BY <1>9
<1> QED
    BY <1>4, <1>10, <1>11, <1>12, <1>13, OnReplicaReadyKeeps

LEMMA OnReplicaReadyPagesKeeps ==
    ASSUME SyncInductive, OnReplicaReadyPages, UNCHANGED replicaVars
    PROVE  SyncInductive'
<1> DEFINE d == [type |-> "ORIGIN_TXN", pageCount |-> Len(snap)]
           e == [type |-> "ORIGIN_END"]
           msgs == PageStream \o <<d, e>>
           n == Len(PageStream)
<1>1. OriginTyped /\ Typed
    BY DEF SyncInductive, Typed
<1>2. snap \in Seq(Image) /\ Len(snap) <= Modulus - 2 /\ Len(snap) \in Nat
    BY <1>1, SnapIs
<1>3. /\ PageStream \in Seq(OriginMessages)
      /\ \A k \in DOMAIN PageStream :
            /\ PageStream[k].type = "ORIGIN_PAGE"
            /\ PageStream[k].pgno \in 1 .. Len(snap)
            /\ PageStream[k].data = snap[PageStream[k].pgno]
    BY <1>2, PageStreamIs
<1>4. /\ d \in OriginMessages /\ e \in OriginMessages
      /\ d.type = "ORIGIN_TXN" /\ d.pageCount = Len(snap) /\ e.type = "ORIGIN_END"
    BY <1>2 DEF OriginMessages
<1> HIDE DEF d, e
<1>5. /\ msgs \in Seq(OriginMessages) /\ Len(msgs) = n + 2 /\ n \in Nat
      /\ \A i \in 1 .. n : msgs[i] = PageStream[i]
      /\ msgs[n + 1] = d /\ msgs[n + 2] = e
    BY <1>3, <1>4, ConcatPair
<1>6. DOMAIN PageStream = 1 .. n
    BY <1>3
<1> HIDE DEF msgs, n
<1>7. \A k \in DOMAIN msgs : k \in Nat /\ (k \in 1 .. n \/ k = n + 1 \/ k = n + 2)
    BY <1>5
<1>8. /\ \A k \in 1 .. n : msgs[k].type = "ORIGIN_PAGE" /\ Truthful(msgs[k])
      /\ Truthful(d) /\ Truthful(e)
    BY <1>3, <1>4, <1>5, <1>6 DEF Truthful
<1>9. InOrder(msgs)
    <2> SUFFICES ASSUME NEW j \in DOMAIN msgs, NEW k \in DOMAIN msgs, j < k
                 PROVE  Precedes(msgs[j].type, msgs[k].type)
        BY DEF InOrder
    <2>1. /\ Precedes("ORIGIN_PAGE", "ORIGIN_PAGE") /\ Precedes("ORIGIN_PAGE", "ORIGIN_TXN")
          /\ Precedes("ORIGIN_PAGE", "ORIGIN_END") /\ Precedes("ORIGIN_TXN", "ORIGIN_END")
        BY DEF Precedes
    <2>2. msgs[k].type \in {"ORIGIN_PAGE", "ORIGIN_TXN", "ORIGIN_END"}
        BY <1>4, <1>5, <1>7, <1>8
    <2>3. CASE j \in 1 .. n
        BY <1>8, <2>1, <2>2, <2>3
    <2>4. CASE j = n + 1
        <3>1. k = n + 2
            BY <1>5, <1>7, <2>4
        <3> QED
            BY <1>4, <1>5, <2>1, <2>4, <3>1
    <2>5. CASE j = n + 2
        BY <1>5, <1>7, <2>5
    <2> QED
        BY <1>7, <2>3, <2>4, <2>5
<1>10. \A k \in DOMAIN msgs :
            /\ Truthful(msgs[k])
            /\ msgs[k].type \in {"ORIGIN_PAGE", "ORIGIN_TXN", "ORIGIN_END"}
            /\ msgs[k].type = "ORIGIN_TXN" => n = k - 1
    <2> TAKE k \in DOMAIN msgs
    <2>1. CASE k \in 1 .. n
        BY <1>8, <2>1
    <2>2. CASE k = n + 1
        BY <1>4, <1>5, <1>8, <2>2
    <2>3. CASE k = n + 2
        BY <1>4, <1>5, <1>8, <2>3
    <2> QED
        BY <1>7, <2>1, <2>2, <2>3
<1>11. ~Has(msgs, {"ORIGIN_ERROR"}) /\ Has(msgs, {"ORIGIN_TXN"})
    <2>1. n + 1 \in DOMAIN msgs
        BY <1>5
    <2> QED
        BY <1>4, <1>5, <1>10, <2>1 DEF Has
<1>12. ASSUME NEW x \in Filled
       PROVE  Bounded(x) /\ (x \in badHash \/ x[2] = 1)
    <2>1. mxHash > 0 /\ mxHash \in Nat /\ \A r \in badHash : Bounded(r)
        BY <1>1, RsyncAssumption DEF OriginTyped, OnReplicaReadyPages
    <2>2. CASE x \in badHash
        BY <2>1, <2>2
    <2>3. CASE x \notin badHash
        <3>1. PICK p \in mxHash .. Len(snap) : x = <<p, 1>>
            BY <1>12, <2>3 DEF Filled
        <3>2. p \in Nat \ {0} /\ p + 1 < Modulus /\ x[1] = p /\ x[2] = 1
            BY <1>2, <2>1, <3>1, RsyncAssumption
        <3> QED
            BY <3>1, <3>2 DEF Bounded, PageRange
    <2> QED
        BY <2>2, <2>3
<1>13. /\ \A y \in badHash' : Bounded(y)
       /\ (\A y \in badHash : y[2] = 1) => \A y \in badHash' : y[2] = 1
    BY <1>12 DEF OnReplicaReadyPages
<1>14. /\ Receives("origin", "REPLICA_READY") /\ chan' = Consumed("origin")
       /\ Push("origin", msgs, "none") /\ CountRound(n)
       /\ origin' = origin /\ snap' = snap /\ iHash' = iHash /\ nHash' = nHash
       /\ mxHash' = mxHash /\ hashed' = hashed
       /\ faults' \in Nat /\ (faults' = 0 => faults = 0)
    BY <1>1 DEF OnReplicaReadyPages, msgs, n, d, e, Goodbye, Send, Typed
<1>15. \A k \in DOMAIN msgs :
            /\ Truthful(msgs[k])
            /\ msgs[k].type \in {"ORIGIN_DETAIL", "ORIGIN_READY", "ORIGIN_PAGE",
                                 "ORIGIN_TXN", "ORIGIN_END", "ORIGIN_ERROR"}
            /\ msgs[k].type \in {"ORIGIN_DETAIL", "ORIGIN_READY"}
                  => n = 0 /\ ~(\A y \in badHash : y[2] = 1)
            /\ msgs[k].type = "ORIGIN_TXN" => n = k - 1
    BY <1>10
<1>16. /\ Has(msgs, {"ORIGIN_ERROR"}) <=> "none" = "error"
       /\ Has(msgs, {"ORIGIN_END"}) => Has(msgs, {"ORIGIN_TXN"})
    BY <1>11
<1> QED
    BY <1>5, <1>9, <1>13, <1>14, <1>15, <1>16, OnReplicaReadyKeeps

LEMMA OnReplicaReadyFailsKeeps ==
    ASSUME SyncInductive, OnReplicaReadyFails, UNCHANGED replicaVars
    PROVE  SyncInductive'
<1>1. /\ Typed /\ WireTyped /\ OriginTyped /\ RolesInStep /\ Conversation /\ Exchanging
    BY DEF SyncInductive, Typed
<1>2. hashed
    <2>1. /\ FromReplica \in Seq(Message) /\ InOrder(FromReplica) /\ FromReplica # <<>>
          /\ Head(FromReplica).type = "REPLICA_READY" /\ ret["origin"] = "none"
        <3>1. Receives("origin", "REPLICA_READY")
            BY DEF OnReplicaReadyFails
        <3>2. ret["origin"] = "none"
            BY <1>1, <3>1 DEF RolesInStep, Receives, Sides
        <3>3. FromReplica \in Seq(Message) /\ InOrder(FromReplica)
            BY <1>1, Conversing
        <3>4. FromReplica # <<>> /\ Head(FromReplica).type = "REPLICA_READY"
            <4> DEFINE c == chan["replica"]
                       o == out["replica"]
            <4>1. /\ c \in Seq(Message) /\ o \in Seq(Message)
                  /\ c # <<>> /\ Head(c).type = "REPLICA_READY"
                BY <1>1, <3>1 DEF WireTyped, Receives, Incoming, Peer, Sides
            <4>2. FromReplica = c \o o \/ FromReplica = c
                BY DEF FromReplica, InFlight
            <4> HIDE DEF c, o
            <4>3. c \o o # <<>> /\ Head(c \o o) = Head(c)
                BY <4>1, ConcatHeadTail
            <4> QED
                BY <4>1, <4>2, <4>3
        <3> QED
            BY <3>2, <3>3, <3>4
    <2>2. \A types : Has(FromReplica, types) <=> "REPLICA_READY" \in types
        BY <2>1, LastWords, OnlyWord
    <2>3. Has(FromReplica, {"REPLICA_READY"}) /\ ~Has(FromReplica, {"REPLICA_HASH"})
        BY <2>2
    <2> QED
        BY <1>1, <2>1, <2>3 DEF Exchanging
<1> DEFINE n(msgs) == IF BadGroups # {} THEN 0 ELSE Len(msgs)
<1>3. PICK part \in IF BadGroups # {} THEN Prefixes(Details) ELSE Prefixes(PageStream) :
        OriginFails(part) /\ CountRound(n(part))
    BY <1>2 DEF OnReplicaReadyFails
<1>4. \E type \in {"ORIGIN_DETAIL", "ORIGIN_PAGE"} :
        /\ part \in Seq(OriginMessages)
        /\ \A k \in DOMAIN part : part[k].type = type /\ Truthful(part[k])
        /\ type = "ORIGIN_DETAIL" => n(part) = 0 /\ ~(\A y \in badHash : y[2] = 1)
    <2>1. CASE BadGroups # {}
        <3>1. (\A r \in badHash : Bounded(r)) /\ mxHash \in Nat
            BY <1>1, RsyncAssumption DEF OriginTyped
        <3>2. /\ Details \in Seq(OriginMessages)
              /\ \A k \in DOMAIN Details :
                    /\ Details[k].type = "ORIGIN_DETAIL"
                    /\ Bounded(<<Details[k].fpg, Details[k].npg>>)
            BY <3>1, DetailsIs
        <3>3. PICK l \in 0 .. Len(Details) : part = SubSeq(Details, 1, l)
            BY <1>3, <2>1 DEF Prefixes
        <3>4. /\ part \in Seq(OriginMessages)
              /\ \A k \in DOMAIN part : k \in DOMAIN Details /\ part[k] = Details[k]
            BY <3>2, <3>3
        <3>5. PICK x \in badHash : x[2] > 1
            BY <2>1 DEF BadGroups
        <3>6. ~(\A y \in badHash : y[2] = 1)
            BY <3>5
        <3> QED
            BY <2>1, <3>2, <3>4, <3>6 DEF Truthful
    <2>2. CASE BadGroups = {}
        <3>1. snap \in Seq(Image)
            BY <1>1, SnapIs
        <3>2. /\ PageStream \in Seq(OriginMessages)
              /\ \A k \in DOMAIN PageStream :
                    /\ PageStream[k].type = "ORIGIN_PAGE"
                    /\ PageStream[k].pgno \in 1 .. Len(snap)
                    /\ PageStream[k].data = snap[PageStream[k].pgno]
            BY <3>1, PageStreamIs
        <3>3. PICK l \in 0 .. Len(PageStream) : part = SubSeq(PageStream, 1, l)
            BY <1>3, <2>2 DEF Prefixes
        <3>4. /\ part \in Seq(OriginMessages)
              /\ \A k \in DOMAIN part : k \in DOMAIN PageStream /\ part[k] = PageStream[k]
            BY <3>2, <3>3
        <3> QED
            BY <3>2, <3>4 DEF Truthful
    <2> QED
        BY <2>1, <2>2
<1>5. PICK type \in {"ORIGIN_DETAIL", "ORIGIN_PAGE"} :
        /\ part \in Seq(OriginMessages)
        /\ \A k \in DOMAIN part : part[k].type = type /\ Truthful(part[k])
        /\ type = "ORIGIN_DETAIL" => n(part) = 0 /\ ~(\A y \in badHash : y[2] = 1)
    BY <1>4
<1> DEFINE m == OriginErr
           msgs == Append(part, m)
           c == n(part)
<1>6. c \in Nat
    BY <1>5
<1>7. /\ m \in OriginMessages /\ Precedes(type, m.type) /\ m.type = "ORIGIN_ERROR"
      /\ Truthful(m)
    BY DEF OriginMessages, Precedes, OriginErr, Truthful
<1>8. /\ Push("origin", msgs, "error") /\ CountRound(c)
    BY <1>3 DEF OriginFails, FailAfter, OriginErr
<1> HIDE DEF m, n, c
<1>9. /\ msgs \in Seq(OriginMessages) /\ InOrder(msgs)
      /\ \A k \in DOMAIN msgs : msgs[k] = m \/ (k \in DOMAIN part /\ msgs[k] = part[k])
      /\ \A types : Has(msgs, types) => m.type \in types \/ type \in types
      /\ \A types : m.type \in types => Has(msgs, types)
    BY <1>5, <1>7, AlikeThen
<1> HIDE DEF msgs
<1>10. \A k \in DOMAIN msgs :
        /\ Truthful(msgs[k])
        /\ msgs[k].type \in {"ORIGIN_DETAIL", "ORIGIN_READY", "ORIGIN_PAGE",
                             "ORIGIN_TXN", "ORIGIN_END", "ORIGIN_ERROR"}
        /\ msgs[k].type \in {"ORIGIN_DETAIL", "ORIGIN_READY"}
              => c = 0 /\ ~(\A y \in badHash : y[2] = 1)
        /\ msgs[k].type = "ORIGIN_TXN" => c = k - 1
    <2> TAKE k \in DOMAIN msgs
    <2>1. CASE msgs[k] = m
        BY <1>7, <2>1
    <2>2. CASE k \in DOMAIN part /\ msgs[k] = part[k]
        <3>1. msgs[k].type = type /\ Truthful(msgs[k])
            BY <1>5, <2>2
        <3> QED
            BY <1>5, <3>1 DEF c
    <2> QED
        BY <1>9, <2>1, <2>2
<1>11. /\ Has(msgs, {"ORIGIN_ERROR"}) <=> "error" = "error"
       /\ Has(msgs, {"ORIGIN_END"}) => Has(msgs, {"ORIGIN_TXN"})
    BY <1>7, <1>9
<1>12. /\ Receives("origin", "REPLICA_READY") /\ chan' = Consumed("origin")
       /\ origin' = origin /\ snap' = snap /\ iHash' = iHash /\ nHash' = nHash
       /\ mxHash' = mxHash /\ hashed' = hashed /\ badHash' = badHash
    BY DEF OnReplicaReadyFails, originVars, exchange
<1>13. faults' \in Nat /\ (faults' = 0 => faults = 0)
    <2>1. Fault
        BY <1>2 DEF OnReplicaReadyFails
    <2> QED
        BY <1>1, <2>1, FaultCounts DEF Typed
<1>14. /\ \A y \in badHash' : Bounded(y)
       /\ (\A y \in badHash : y[2] = 1) => \A y \in badHash' : y[2] = 1
    BY <1>1, <1>12 DEF OriginTyped
<1> QED
    BY <1>6, <1>8, <1>9, <1>10, <1>11, <1>12, <1>13, <1>14, OnReplicaReadyKeeps

(***************************************************************************)
(* Every step of the origin.                                               *)
(***************************************************************************)

LEMMA OriginKeeps ==
    ASSUME SyncInductive, OriginRuns
    PROVE  SyncInductive'
<1> USE DEF OriginRuns
<1>1. ASSUME OriginCommCheck PROVE SyncInductive'
    BY <1>1, OriginCommCheckKeeps
<1>2. ASSUME OriginStart PROVE SyncInductive'
    BY <1>2, OriginStartKeeps
<1>3. ASSUME OriginRefuses PROVE SyncInductive'
    BY <1>3, OriginRefusesKeeps
<1>4. ASSUME OnReplicaMsg PROVE SyncInductive'
    BY <1>4, OnReplicaMsgKeeps
<1>5. ASSUME OnReplicaEnd PROVE SyncInductive'
    BY <1>5, OriginEndsKeeps DEF OnReplicaEnd
<1>6. ASSUME OnReplicaError PROVE SyncInductive'
    BY <1>6, OriginEndsKeeps DEF OnReplicaError
<1>7. ASSUME OnReplicaBegin PROVE SyncInductive'
    BY <1>7, OnReplicaBeginKeeps
<1>8. ASSUME OnReplicaConfig PROVE SyncInductive'
    BY <1>8, OnReplicaConfigKeeps
<1>9. ASSUME OnReplicaHash PROVE SyncInductive'
    BY <1>9, OnReplicaHashKeeps
<1>10. ASSUME OnReplicaHashFails PROVE SyncInductive'
    BY <1>10, OnReplicaHashFailsKeeps
<1>11. ASSUME OnReplicaReadyDetail PROVE SyncInductive'
    BY <1>11, OnReplicaReadyDetailKeeps
<1>12. ASSUME OnReplicaReadyPages PROVE SyncInductive'
    BY <1>12, OnReplicaReadyPagesKeeps
<1>13. ASSUME OnReplicaReadyFails PROVE SyncInductive'
    BY <1>13, OnReplicaReadyFailsKeeps
<1> QED
    BY <1>1, <1>2, <1>3, <1>4, <1>5, <1>6, <1>7, <1>8, <1>9, <1>10, <1>11, <1>12, <1>13
       DEF OriginStep

(***************************************************************************)
(* The replica: what it sends, and what its failures leave behind.         *)
(***************************************************************************)

\* The struct of the replica, but for its statistics.
SameReplicaTerms ==
    /\ rs'["origin"] = rs["origin"]
    /\ rs'["replica"].protocol = rs["replica"].protocol
    /\ rs'["replica"].walOnly = rs["replica"].walOnly
    /\ rs'["replica"].commCheck = rs["replica"].commCheck
    /\ rs'["replica"].pageSize = rs["replica"].pageSize
    /\ rs'["replica"].pageCount = rs["replica"].pageCount

LEMMA CountedIs ==
    ASSUME rs \in [Sides -> Structs], NEW c \in Nat, NEW k \in Nat, rs' = Counted(c, k)
    PROVE  /\ rs' \in [Sides -> Structs] /\ SameReplicaTerms
           /\ rs'["replica"].hashMessages = rs["replica"].hashMessages + c
           /\ rs'["replica"].hashRounds = rs["replica"].hashRounds + k
           /\ rs'["replica"].pageUpdates = rs["replica"].pageUpdates
           /\ rs["replica"].hashMessages \in Nat /\ rs["replica"].hashRounds \in Nat
<1>1. /\ rs["replica"] \in Structs
      /\ rs["replica"].hashMessages \in Nat /\ rs["replica"].hashRounds \in Nat
    BY DEF Structs, Sides
<1> DEFINE o == [rs["replica"] EXCEPT !.hashMessages = @ + c, !.hashRounds = @ + k]
<1>2. o \in Structs
    <2>1. rs["replica"].hashMessages + c \in Nat /\ rs["replica"].hashRounds + k \in Nat
        BY <1>1
    <2> QED
        BY <1>1, <2>1 DEF Structs
<1>3. /\ o.protocol = rs["replica"].protocol /\ o.walOnly = rs["replica"].walOnly
      /\ o.commCheck = rs["replica"].commCheck /\ o.pageSize = rs["replica"].pageSize
      /\ o.pageCount = rs["replica"].pageCount
      /\ o.hashMessages = rs["replica"].hashMessages + c
      /\ o.hashRounds = rs["replica"].hashRounds + k
      /\ o.pageUpdates = rs["replica"].pageUpdates
    BY <1>1 DEF Structs
<1>4. rs' = [rs EXCEPT !["replica"] = o]
    BY DEF Counted, Sides
<1> HIDE DEF o
<1> QED
    BY <1>1, <1>2, <1>3, <1>4 DEF Sides, SameReplicaTerms

\* What a round is when it reaches the stream.
RoundMessages(msgs, from, db) ==
    /\ msgs \in Seq(ReplicaMessages)
    /\ \A k \in DOMAIN msgs : msgs[k].type \in {"REPLICA_CONFIG", "REPLICA_HASH"}
    /\ NamesRanges(msgs, from, db)

LEMMA RoundThen ==
    ASSUME NEW msgs, NEW from \in Nat \X Nat, NEW db, RoundMessages(msgs, from, db),
           NEW m \in ReplicaMessages, m.type \in {"REPLICA_READY", "REPLICA_ERROR"}
    PROVE  /\ Append(msgs, m) \in Seq(ReplicaMessages) /\ Append(msgs, m) \in Seq(Message)
           /\ InOrder(Append(msgs, m))
           /\ \A k \in DOMAIN Append(msgs, m) :
                Append(msgs, m)[k].type \in {"REPLICA_CONFIG", "REPLICA_HASH", m.type}
           /\ \A types : Has(Append(msgs, m), types) <=> m.type \in types \/ Has(msgs, types)
           /\ NamesRanges(Append(msgs, m), from, db)
           /\ Cardinality(HashesIn(Append(msgs, m))) = Cardinality(HashesIn(msgs))
<1>1. /\ msgs \in Seq(ReplicaMessages)
      /\ \A k \in DOMAIN msgs : msgs[k].type \in {"REPLICA_CONFIG", "REPLICA_HASH"}
      /\ NamesRanges(msgs, from, db)
    BY DEF RoundMessages
<1>2. msgs \in Seq(Message) /\ m \in Message
    <2>1. ReplicaMessages \subseteq Message
        BY DEF Message
    <2> QED
        BY <1>1, <2>1
<1>3. InOrder(msgs)
    BY <1>1 DEF InOrder, Precedes
<1>4. InOrder(Append(msgs, m))
    <2>1. \A k \in DOMAIN msgs : Precedes(msgs[k].type, m.type)
        BY <1>1 DEF Precedes
    <2> QED
        BY <1>2, <1>3, <2>1, InOrderAppend
<1>5. NamesRanges(Append(msgs, m), from, db)
    BY <1>1, AppendNamesRanges
<1>6. Cardinality(HashesIn(Append(msgs, m))) = Cardinality(HashesIn(msgs))
    <2>1. Cardinality(HashesIn(msgs)) \in Nat
        BY <1>2, HashesFinite
    <2>2. Cardinality(HashesIn(Append(msgs, m))) = Cardinality(HashesIn(msgs)) + 0
        BY <1>2, HashesAppend
    <2> QED
        BY <2>1, <2>2
<1> DEFINE b == Append(msgs, m)
<1>7. /\ b \in Seq(ReplicaMessages) /\ b \in Seq(Message)
      /\ Len(msgs) + 1 \in DOMAIN b /\ b[Len(msgs) + 1] = m
      /\ \A k \in DOMAIN b : b[k] = m \/ (k \in DOMAIN msgs /\ b[k] = msgs[k])
      /\ \A k \in DOMAIN msgs : k \in DOMAIN b /\ b[k] = msgs[k]
    BY <1>1, <1>2
<1> HIDE DEF b
<1>8. /\ \A k \in DOMAIN b : b[k].type \in {"REPLICA_CONFIG", "REPLICA_HASH", m.type}
      /\ \A types : Has(b, types) <=> m.type \in types \/ Has(msgs, types)
    BY <1>1, <1>7 DEF Has
<1> QED
    BY <1>4, <1>5, <1>6, <1>7, <1>8 DEF b

LEMMA HashingFailsIs ==
    ASSUME NEW db \in Seq(Image), NEW S, IsFiniteSet(S), \A r \in S : Bounded(r),
           NEW i \in Nat, NEW n \in Nat, NEW from \in Nat \X Nat,
           from = <<i, n>> \/ i = 0, HashingFails(db, S, i, n)
    PROVE  \E msgs, c : /\ RoundMessages(msgs, from, db)
                        /\ c \in Nat /\ rs' = Counted(c, 0)
                        /\ ReplicaFails(msgs)
<1>1. PICK c \in 0 .. Cardinality(S) :
        \E sent \in SUBSET S :
            ReplicaFails(HashMessages(db, sent, i, n)) /\ rs' = Counted(c, 0)
    <2>1. PICK c \in 0 .. Cardinality(S) :
            LET firsts == Ascending({r[1] : r \in S}, Len(db))
                sent == {r \in S : \E k \in 1 .. c : r[1] = firsts[k]}
            IN  /\ ReplicaFails(HashMessages(db, sent, i, n))
                /\ rs' = Counted(c, 0)
        BY DEF HashingFails
    <2> DEFINE sent == {r \in S : \E k \in 1 .. c :
                                    r[1] = Ascending({q[1] : q \in S}, Len(db))[k]}
    <2>2. sent \in SUBSET S
        OBVIOUS
    <2>3. ReplicaFails(HashMessages(db, sent, i, n)) /\ rs' = Counted(c, 0)
        BY <2>1
    <2> HIDE DEF sent
    <2> QED
        BY <2>2, <2>3
<1>2. PICK sent \in SUBSET S :
        ReplicaFails(HashMessages(db, sent, i, n)) /\ rs' = Counted(c, 0)
    BY <1>1
<1>3. IsFiniteSet(sent) /\ \A r \in sent : Bounded(r)
    BY <1>2, FS_Subset
<1> DEFINE msgs == HashMessages(db, sent, i, n)
<1>4. /\ msgs \in Seq(ReplicaMessages)
      /\ \A k \in DOMAIN msgs : msgs[k].type \in {"REPLICA_CONFIG", "REPLICA_HASH"}
      /\ NamesRanges(msgs, from, db)
    BY <1>3, RoundIs
<1>5. Cardinality(S) \in Nat
    BY FS_CardinalityType
<1>6. c \in Nat
    BY <1>5
<1> HIDE DEF msgs
<1>7. RoundMessages(msgs, from, db)
    BY <1>4 DEF RoundMessages
<1>8. ReplicaFails(msgs)
    BY <1>2 DEF msgs
<1> QED
    BY <1>2, <1>6, <1>7, <1>8

LEMMA ReplicaFailsKeeps ==
    ASSUME SyncInductive, WireTyped', RolesInStep', SameOrigin, SameReplicaTerms,
           file' = file, fileSize' = fileSize, nRPage' = nRPage, work' = work,
           sendHash' = sendHash, jMode' = jMode, pIns' = pIns,
           rs' \in [Sides -> Structs], faults' \in Nat, faults' = 0 => faults = 0,
           rs'["replica"].hashRounds = rs["replica"].hashRounds,
           Has(FromOrigin', {"ORIGIN_DETAIL", "ORIGIN_READY"})
             => rs'["replica"].pageUpdates = rs["replica"].pageUpdates,
           \A k \in DOMAIN FromOrigin' : FromOrigin'[k].type = "ORIGIN_TXN" =>
              rs'["origin"].pageUpdates = rs'["replica"].pageUpdates + (k - 1),
           ~rs["replica"].commCheck, ret["replica"] = "none", pc["replica"] \in {"read", "sql"},
           ret'["replica"] = "error", ret'["origin"] = ret["origin"],
           pc'["replica"] = "write", pc'["origin"] = pc["origin"], pc["origin"] # "start",
           linkUp' = linkUp, ~HasCommitted, FromReplica = <<>>,
           FromOrigin' \in Seq(Message), Within(FromOrigin', FromOrigin),
           NEW msgs, RoundMessages(msgs, <<iHash, nHash>>, work),
           FromReplica' = IF linkUp THEN Append(msgs, ReplicaErr) ELSE <<>>,
           msgs = <<>> \/ FromOrigin' = <<>>,
           Rounds > 0 /\ rs["replica"].protocol = 1 => ~Has(msgs, {"REPLICA_CONFIG"})
    PROVE  SyncInductive'
<1>1. /\ Typed /\ WireTyped /\ OriginTyped /\ ReplicaTyped /\ RolesInStep
      /\ Conversation /\ Turns /\ Stages /\ OneByOne /\ Exchanging /\ Committing
      /\ CountersNameRanges /\ FailuresTold /\ Tallies /\ WalChecked
    BY DEF SyncInductive, Typed
<1>2. /\ FromOrigin \in Seq(Message) /\ FromOrigin \in Seq(OriginMessages)
      /\ InOrder(FromOrigin)
    BY <1>1, Conversing
<1>3. /\ InOrder(FromOrigin')
      /\ \A types : Has(FromOrigin', types) => Has(FromOrigin, types)
      /\ \A k \in DOMAIN FromOrigin' : \E j \in DOMAIN FromOrigin : FromOrigin'[k] = FromOrigin[j]
    BY <1>2, InOrderWithin, HasWithin, ElementWithin
<1> DEFINE said == Append(msgs, ReplicaErr)
           e == ReplicaErr
           from == <<iHash, nHash>>
<1>4. /\ from \in Nat \X Nat /\ e \in ReplicaMessages /\ e.type = "REPLICA_ERROR"
      /\ said = Append(msgs, e) /\ RoundMessages(msgs, from, work)
    BY <1>1, RsyncAssumption DEF OriginTyped, ReplicaErr, ReplicaMessages
<1> HIDE DEF e, from, said
<1>5. /\ said \in Seq(ReplicaMessages) /\ said \in Seq(Message) /\ InOrder(said)
      /\ \A k \in DOMAIN said :
            said[k].type \in {"REPLICA_CONFIG", "REPLICA_HASH", "REPLICA_ERROR"}
      /\ \A types : Has(said, types) <=> "REPLICA_ERROR" \in types \/ Has(msgs, types)
      /\ NamesRanges(said, <<iHash, nHash>>, work)
    <2>1. /\ said \in Seq(ReplicaMessages) /\ said \in Seq(Message) /\ InOrder(said)
          /\ \A k \in DOMAIN said : said[k].type \in {"REPLICA_CONFIG", "REPLICA_HASH", e.type}
          /\ \A types : Has(said, types) <=> e.type \in types \/ Has(msgs, types)
          /\ NamesRanges(said, from, work)
        BY <1>4, RoundThen, Zenon
    <2>2. NamesRanges(said, <<iHash, nHash>>, work)
        BY <2>1 DEF from
    <2> QED
        BY <1>4, <2>1, <2>2
<1> USE DEF said
<1>6. msgs = <<>> => said = <<ReplicaErr>>
    BY OneError
<1> HIDE DEF said
<1>7. /\ linkUp => FromReplica' = said
      /\ ~linkUp => FromReplica' = <<>>
    BY DEF said
<1>8. /\ InOrder(FromReplica')
      /\ \A types : Has(FromReplica', types) => "REPLICA_ERROR" \in types \/ Has(msgs, types)
      /\ \A k \in DOMAIN FromReplica' :
            /\ FromReplica'[k] \in ReplicaMessages
            /\ FromReplica'[k].type \in {"REPLICA_CONFIG", "REPLICA_HASH", "REPLICA_ERROR"}
      /\ NamesRanges(FromReplica', <<iHash, nHash>>, work)
      /\ linkUp => Has(FromReplica', {"REPLICA_ERROR"})
    <2>1. CASE linkUp
        <3>1. FromReplica' = said /\ \A k \in DOMAIN said : said[k] \in ReplicaMessages
            BY <1>5, <1>7, <2>1
        <3>2. Has(said, {"REPLICA_ERROR"})
            BY <1>5
        <3> QED
            BY <1>5, <3>1, <3>2
    <2>2. CASE ~linkUp
        <3>1. /\ DOMAIN FromReplica' = {} /\ \A types : ~Has(FromReplica', types)
              /\ HashesIn(FromReplica') = {}
            BY <1>7, <2>2, HasNothing DEF HashesIn
        <3> QED
            BY <2>2, <3>1, NoHashNamesRanges DEF InOrder
    <2> QED
        BY <2>1, <2>2
<1>9. ~Has(FromReplica', {"REPLICA_BEGIN"}) /\ ~Has(FromReplica', {"REPLICA_READY"})
    BY <1>8 DEF Has
<1>10. /\ \A s \in Sides : rs'[s].commCheck = rs[s].commCheck
       /\ Rounds' = Rounds /\ ~HasCommitted' /\ (TransactionOpen' <=> TransactionOpen)
    <2>1. \A s \in Sides : rs'[s].commCheck = rs[s].commCheck
        BY DEF SameReplicaTerms, Sides
    <2>2. Rounds' = Rounds
        BY DEF Rounds
    <2>3. ~HasCommitted'
        BY <2>2 DEF HasCommitted
    <2>4. TransactionOpen' <=> TransactionOpen
        BY DEF TransactionOpen
    <2> QED
        BY <2>1, <2>2, <2>3, <2>4
<1> USE DEF SameOrigin, SameReplicaTerms
<1>11. Typed'
    BY <1>1 DEF Typed, OriginTyped, ReplicaTyped
<1>12. Conversation'
    BY <1>1, <1>3, <1>8 DEF Conversation, Truthful
<1>13. Turns'
    <2>1. FromReplica' # <<>> /\ FromOrigin' # <<>> => FromReplica' = <<ReplicaErr>>
        BY <1>6, <1>7
    <2>2. \A k \in DOMAIN FromOrigin' :
            IF rs'["origin"].commCheck THEN FromOrigin'[k].type \in {"ORIGIN_MSG", "ORIGIN_END"}
            ELSE FromOrigin'[k].type # "ORIGIN_MSG"
        BY <1>1, <1>3, <1>10 DEF Turns
    <2> QED
        BY <1>1, <1>3, <1>8, <1>10, <2>1, <2>2 DEF Turns, ReplicaErr, Sides
<1>14. Stages'
    BY <1>1, <1>3, <1>9, <1>10 DEF Stages, Agreed
<1>15. OneByOne'
    BY <1>1, <1>3, <1>8, <1>10 DEF OneByOne
<1>16. Exchanging' /\ Committing'
    <2>1. Exchanging'
        BY <1>1, <1>3, <1>9, <1>10 DEF Exchanging
    <2> QED
        BY <2>1, <1>10 DEF Committing
<1>17. CountersNameRanges'
    BY <1>8 DEF CountersNameRanges
<1>18. FailuresTold'
    <2> SUFFICES ASSUME Regular' PROVE FailuresTold'
        BY DEF FailuresTold
    <2>1. Regular /\ linkUp
        BY <1>10 DEF Regular, Sides
    <2>2. ret["origin"] # "nil"
        BY <1>1, <2>1 DEF FailuresTold
    <2>3. ret["origin"] \in {"none", "error"}
        BY <1>1, <2>1, <2>2 DEF Regular, WireTyped, Sides
    <2> QED
        BY <1>8, <2>1, <2>3 DEF FailuresTold
<1>19. Tallies'
    BY <1>1, <1>3, <1>9, <1>10 DEF Tallies, Sides
<1>20. WalChecked'
    BY <1>1, <1>10 DEF WalChecked
<1> QED
    BY <1>11, <1>12, <1>13, <1>14, <1>15, <1>16, <1>17, <1>18, <1>19, <1>20
       DEF SyncInductive

LEMMA NothingSaid ==
    ASSUME NEW from, NEW db
    PROVE  RoundMessages(<<>>, from, db)
<1>1. HashesIn(<<>>) = {}
    BY DEF HashesIn
<1>2. NamesRanges(<<>>, from, db)
    BY <1>1, NoHashNamesRanges
<1>3. <<>> \in Seq(ReplicaMessages) /\ DOMAIN <<>> = {}
    OBVIOUS
<1> QED
    BY <1>2, <1>3 DEF RoundMessages

\* A page cannot be written, or the commit fails.
LEMMA ReplicaGivesUp ==
    ASSUME SyncInductive, NEW type \in {"ORIGIN_PAGE", "ORIGIN_TXN"},
           Receives("replica", type), chan' = Consumed("replica"), ReplicaFails(<<>>),
           UNCHANGED <<originVars, replicaVars>>, SameReplicaTerms,
           rs' \in [Sides -> Structs], faults' \in Nat, faults' = 0 => faults = 0,
           rs'["replica"].hashRounds = rs["replica"].hashRounds,
           \/ /\ type = "ORIGIN_TXN"
              /\ rs'["replica"].pageUpdates = rs["replica"].pageUpdates
           \/ /\ type = "ORIGIN_PAGE"
              /\ rs'["replica"].pageUpdates = rs["replica"].pageUpdates + 1
    PROVE  SyncInductive'
<1>1. /\ Typed /\ WireTyped /\ RolesInStep /\ Conversation /\ Turns /\ Stages /\ Exchanging
      /\ Tallies /\ rs \in [Sides -> Structs]
    BY DEF SyncInductive, Typed
<1>2. <<ReplicaErr>> \in Seq(ReplicaMessages)
    BY OneError DEF ReplicaErr, ReplicaMessages
<1>3. Push("replica", <<ReplicaErr>>, "error") /\ SameOptions
      /\ <<ReplicaErr>> = Append(<<>>, ReplicaErr)
    BY OneError DEF ReplicaFails, FailAfter, ReplicaErr, SameOptions, SameReplicaTerms, Sides
<1>4. /\ WireTyped' /\ RolesInStep'
      /\ pc["replica"] = "read" /\ ret["replica"] = "none" /\ ~rs["replica"].commCheck
      /\ FromOrigin # <<>> /\ Head(FromOrigin).type = type /\ FromOrigin' = Tail(FromOrigin)
      /\ FromReplica = <<>> /\ FromReplica' = (IF linkUp THEN <<ReplicaErr>> ELSE <<>>)
      /\ pc'["replica"] = "write" /\ pc'["origin"] = pc["origin"]
      /\ ret'["replica"] = "error" /\ ret'["origin"] = ret["origin"] /\ linkUp' = linkUp
    BY <1>1, <1>2, <1>3, ReplicaAnswers
<1>5. /\ FromOrigin \in Seq(Message) /\ FromOrigin \in Seq(OriginMessages) /\ InOrder(FromOrigin)
    BY <1>1, Conversing
<1>6. /\ FromOrigin' \in Seq(Message) /\ Within(FromOrigin', FromOrigin)
      /\ \A k \in DOMAIN FromOrigin' : k + 1 \in DOMAIN FromOrigin
                                       /\ FromOrigin'[k] = FromOrigin[k + 1] /\ k \in Nat
      /\ 1 \in DOMAIN FromOrigin /\ FromOrigin[1].type = type
    <2>1. FromOrigin' \in Seq(Message) /\ Within(FromOrigin', FromOrigin)
        BY <1>4, <1>5, TailWithin, FirstWord
    <2>2. \A k \in DOMAIN Tail(FromOrigin) :
            k + 1 \in DOMAIN FromOrigin /\ Tail(FromOrigin)[k] = FromOrigin[k + 1] /\ k \in Nat
        BY <1>4, <1>5
    <2>3. 1 \in DOMAIN FromOrigin /\ FromOrigin[1] = Head(FromOrigin)
        BY <1>4, <1>5, FirstWord
    <2> QED
        BY <1>4, <2>1, <2>2, <2>3
<1>7. Has(FromOrigin, {type})
    BY <1>6 DEF Has
<1>8. \A k \in DOMAIN FromOrigin' :
        /\ Precedes(type, FromOrigin'[k].type) /\ 1 < k + 1
        /\ FromOrigin'[k].type \notin {"ORIGIN_DETAIL", "ORIGIN_READY"}
        /\ FromOrigin'[k].type = "ORIGIN_TXN" => type = "ORIGIN_PAGE"
    <2> TAKE k \in DOMAIN FromOrigin'
    <2>1. k + 1 \in DOMAIN FromOrigin /\ FromOrigin'[k] = FromOrigin[k + 1] /\ 1 < k + 1
        BY <1>6
    <2>2. Precedes(type, FromOrigin'[k].type)
        BY <1>5, <1>6, <2>1 DEF InOrder
    <2> QED
        BY <2>1, <2>2 DEF Precedes
<1>9. ~Has(FromOrigin', {"ORIGIN_DETAIL", "ORIGIN_READY"})
    BY <1>8 DEF Has
<1>10. /\ rs'["origin"] = rs["origin"]
       /\ rs["origin"].pageUpdates \in Nat /\ rs["replica"].pageUpdates \in Nat
    BY <1>1 DEF SameReplicaTerms, Structs, Sides
<1>11. \A k \in DOMAIN FromOrigin' : FromOrigin'[k].type = "ORIGIN_TXN" =>
        rs'["origin"].pageUpdates = rs'["replica"].pageUpdates + (k - 1)
    <2> SUFFICES ASSUME NEW k \in DOMAIN FromOrigin', FromOrigin'[k].type = "ORIGIN_TXN"
                 PROVE  rs'["origin"].pageUpdates = rs'["replica"].pageUpdates + (k - 1)
        OBVIOUS
    <2>1. rs["origin"].pageUpdates = rs["replica"].pageUpdates + ((k + 1) - 1) /\ k \in Nat
        BY <1>1, <1>6 DEF Tallies
    <2>2. rs'["replica"].pageUpdates = rs["replica"].pageUpdates + 1
        BY <1>8
    <2> QED
        BY <1>10, <2>1, <2>2
<1>12. Rounds > 0 /\ work # <<>> /\ ~HasCommitted /\ pc["origin"] # "start"
    <2>1. Has(FromOrigin, {"ORIGIN_DETAIL", "ORIGIN_READY", "ORIGIN_PAGE", "ORIGIN_TXN"})
        BY <1>7 DEF Has
    <2> QED
        BY <1>1, <2>1 DEF Exchanging, HasCommitted, Stages
<1>13. RoundMessages(<<>>, <<iHash, nHash>>, work) /\ ~Has(<<>>, {"REPLICA_CONFIG"})
    BY NothingSaid, HasNothing
<1>14. /\ SameOrigin /\ file' = file /\ fileSize' = fileSize /\ nRPage' = nRPage /\ work' = work
       /\ sendHash' = sendHash /\ jMode' = jMode /\ pIns' = pIns
    BY DEF SameOrigin, originVars, exchange, replicaVars, txn
<1>15. FromReplica' = IF linkUp THEN Append(<<>>, ReplicaErr) ELSE <<>>
    BY <1>3, <1>4
<1> QED
    BY <1>4, <1>6, <1>9, <1>11, <1>12, <1>13, <1>14, <1>15, ReplicaFailsKeeps

LEMMA OnOriginPageFailsKeeps ==
    ASSUME SyncInductive, OnOriginPageFails, UNCHANGED originVars
    PROVE  SyncInductive'
<1>1. rs \in [Sides -> Structs] /\ faults \in Nat
    BY DEF SyncInductive, Typed
<1>2. rs["replica"] \in Structs /\ rs["replica"].pageUpdates \in Nat
    BY <1>1 DEF Structs, Sides
<1> DEFINE o == [rs["replica"] EXCEPT !.pageUpdates = @ + 1]
<1>3. o \in Structs
    BY <1>2 DEF Structs
<1>4. /\ o.protocol = rs["replica"].protocol /\ o.walOnly = rs["replica"].walOnly
      /\ o.commCheck = rs["replica"].commCheck /\ o.pageSize = rs["replica"].pageSize
      /\ o.pageCount = rs["replica"].pageCount /\ o.hashRounds = rs["replica"].hashRounds
      /\ o.pageUpdates = rs["replica"].pageUpdates + 1
    BY <1>2 DEF Structs
<1>5. rs' = [rs EXCEPT !["replica"] = o]
    BY <1>1 DEF OnOriginPageFails, Sides
<1> HIDE DEF o
<1>6. /\ rs' \in [Sides -> Structs] /\ SameReplicaTerms
      /\ rs'["replica"].hashRounds = rs["replica"].hashRounds
      /\ rs'["replica"].pageUpdates = rs["replica"].pageUpdates + 1
    BY <1>1, <1>3, <1>4, <1>5 DEF Sides, SameReplicaTerms
<1>7. /\ Receives("replica", "ORIGIN_PAGE") /\ chan' = Consumed("replica")
      /\ ReplicaFails(<<>>) /\ UNCHANGED <<originVars, replicaVars>>
      /\ faults' \in Nat /\ faults' # 0
    BY <1>1, FaultCounts DEF OnOriginPageFails
<1> QED
    BY <1>6, <1>7, ReplicaGivesUp

LEMMA OnOriginTxnFailsKeeps ==
    ASSUME SyncInductive, OnOriginTxnFails, UNCHANGED originVars
    PROVE  SyncInductive'
<1>1. rs \in [Sides -> Structs] /\ faults \in Nat
    BY DEF SyncInductive, Typed
<1>2. /\ Receives("replica", "ORIGIN_TXN") /\ chan' = Consumed("replica")
      /\ ReplicaFails(<<>>) /\ UNCHANGED <<originVars, replicaVars>>
      /\ faults' \in Nat /\ faults' # 0 /\ rs' = rs
    BY <1>1, FaultCounts DEF OnOriginTxnFails
<1>3. rs' \in [Sides -> Structs] /\ SameReplicaTerms
    BY <1>1, <1>2 DEF SameReplicaTerms
<1> QED
    BY <1>2, <1>3, ReplicaGivesUp

\* ORIGIN_READY finds the two in step, with nothing else in flight.
LEMMA AskedForRound ==
    ASSUME SyncInductive, Receives("replica", "ORIGIN_READY"), chan' = Consumed("replica"),
           NEW msgs \in Seq(ReplicaMessages), NEW r \in {"none", "error"},
           Push("replica", msgs, r), SameOptions
    PROVE  /\ WireTyped' /\ RolesInStep'
           /\ pc["replica"] = "read" /\ ret["replica"] = "none" /\ ~rs["replica"].commCheck
           /\ FromOrigin' = <<>> /\ FromReplica = <<>>
           /\ FromReplica' = IF linkUp THEN msgs ELSE <<>>
           /\ pc'["replica"] = "write" /\ pc'["origin"] = pc["origin"] /\ pc["origin"] # "start"
           /\ ret'["replica"] = r /\ ret'["origin"] = ret["origin"] /\ linkUp' = linkUp
           /\ Rounds > 0 /\ work # <<>> /\ hashed /\ rs["replica"].protocol # 1
           /\ Rounds = rs["origin"].hashRounds /\ \A s \in Sides : rs[s].pageUpdates = 0
           /\ ~Has(FromOrigin, {"ORIGIN_ERROR"})
<1>1. /\ Typed /\ WireTyped /\ RolesInStep /\ Conversation /\ Turns /\ Stages /\ OneByOne
      /\ Exchanging /\ Tallies
    BY DEF SyncInductive, Typed
<1>2. /\ WireTyped' /\ RolesInStep'
      /\ pc["replica"] = "read" /\ ret["replica"] = "none" /\ ~rs["replica"].commCheck
      /\ FromOrigin # <<>> /\ Head(FromOrigin).type = "ORIGIN_READY"
      /\ FromOrigin' = Tail(FromOrigin)
      /\ FromReplica = <<>> /\ FromReplica' = (IF linkUp THEN msgs ELSE <<>>)
      /\ pc'["replica"] = "write" /\ pc'["origin"] = pc["origin"]
      /\ ret'["replica"] = r /\ ret'["origin"] = ret["origin"] /\ linkUp' = linkUp
    BY <1>1, ReplicaAnswers
<1>3. FromOrigin \in Seq(Message) /\ InOrder(FromOrigin)
    BY <1>1, Conversing
<1>4. /\ FromOrigin' = <<>> /\ \A types : Has(FromOrigin, types) <=> "ORIGIN_READY" \in types
    BY <1>2, <1>3, LastWords, OnlyWord
<1>5. /\ Has(FromOrigin, {"ORIGIN_DETAIL", "ORIGIN_READY", "ORIGIN_PAGE", "ORIGIN_TXN"})
      /\ Has(FromOrigin, {"ORIGIN_DETAIL", "ORIGIN_READY"})
      /\ ~Has(FromOrigin, {"ORIGIN_ERROR"})
    BY <1>4
<1>6. Rounds > 0 /\ work # <<>> /\ hashed
    BY <1>1, <1>5 DEF Exchanging
<1>7. rs["replica"].protocol # 1 /\ pc["origin"] # "start"
    BY <1>1, <1>5, <1>6 DEF OneByOne, Stages
<1>8. Rounds = rs["origin"].hashRounds /\ \A s \in Sides : rs[s].pageUpdates = 0
    BY <1>1, <1>5 DEF Tallies
<1> QED
    BY <1>2, <1>4, <1>5, <1>6, <1>7, <1>8

LEMMA OnOriginReadyFailsKeeps ==
    ASSUME SyncInductive, OnOriginReadyFails, UNCHANGED originVars
    PROVE  SyncInductive'
<1> DEFINE from == <<iHash, nHash>>
<1>1. /\ Typed /\ OriginTyped /\ ReplicaTyped /\ rs \in [Sides -> Structs] /\ faults \in Nat
    BY DEF SyncInductive, Typed
<1>2. from \in Nat \X Nat
    BY <1>1, RsyncAssumption DEF OriginTyped
<1> HIDE DEF from
<1>3. PICK msgs, c : /\ RoundMessages(msgs, from, work)
                     /\ c \in Nat /\ rs' = Counted(c, 0)
                     /\ ReplicaFails(msgs)
    <2>1. /\ work \in Seq(Image) /\ IsFiniteSet(sendHash) /\ \A r \in sendHash : Bounded(r)
          /\ HashingFails(work, sendHash, 0, 0) /\ 0 \in Nat
        BY <1>1 DEF ReplicaTyped, OnOriginReadyFails
    <2> QED
        BY <1>2, <2>1, HashingFailsIs, Zenon
<1>4. /\ rs' \in [Sides -> Structs] /\ SameReplicaTerms
      /\ rs'["replica"].hashRounds = rs["replica"].hashRounds
      /\ rs'["replica"].pageUpdates = rs["replica"].pageUpdates
    <2>1. /\ rs' \in [Sides -> Structs] /\ SameReplicaTerms
          /\ rs'["replica"].hashRounds = rs["replica"].hashRounds + 0
          /\ rs'["replica"].pageUpdates = rs["replica"].pageUpdates
          /\ rs["replica"].hashRounds \in Nat
        BY <1>1, <1>3, CountedIs
    <2> QED
        BY <2>1
<1> DEFINE said == Append(msgs, ReplicaErr)
<1>5. /\ said \in Seq(ReplicaMessages)
      /\ Push("replica", said, "error") /\ SameOptions
    <2>1. ReplicaErr \in ReplicaMessages /\ ReplicaErr.type = "REPLICA_ERROR"
        BY DEF ReplicaErr, ReplicaMessages
    <2>2. said \in Seq(ReplicaMessages)
        BY <1>3, <2>1 DEF RoundMessages
    <2> QED
        BY <1>3, <1>4, <2>2 DEF ReplicaFails, FailAfter, ReplicaErr, SameOptions, SameReplicaTerms, Sides
<1>6. Receives("replica", "ORIGIN_READY") /\ chan' = Consumed("replica")
    BY DEF OnOriginReadyFails
<1> HIDE DEF said
<1>7. /\ WireTyped' /\ RolesInStep'
      /\ pc["replica"] = "read" /\ ret["replica"] = "none" /\ ~rs["replica"].commCheck
      /\ FromOrigin' = <<>> /\ FromReplica = <<>>
      /\ FromReplica' = (IF linkUp THEN said ELSE <<>>)
      /\ pc'["replica"] = "write" /\ pc'["origin"] = pc["origin"] /\ pc["origin"] # "start"
      /\ ret'["replica"] = "error" /\ ret'["origin"] = ret["origin"] /\ linkUp' = linkUp
      /\ Rounds > 0 /\ work # <<>> /\ rs["replica"].protocol # 1
    BY <1>5, <1>6, AskedForRound
<1>8. /\ ~HasCommitted /\ FromOrigin' \in Seq(Message) /\ Within(FromOrigin', FromOrigin)
      /\ ~Has(FromOrigin', {"ORIGIN_DETAIL", "ORIGIN_READY"}) /\ DOMAIN FromOrigin' = {}
    <2>1. FromOrigin \in Seq(Message)
        BY Conversing DEF SyncInductive, Typed
    <2>2. Within(<<>>, FromOrigin)
        <3>1. Len(<<>>) = 0 /\ Len(FromOrigin) \in Nat
            BY <2>1
        <3> QED
            BY <3>1 DEF Within
    <2> QED
        BY <1>7, <2>2, HasNothing DEF HasCommitted
<1>9. /\ SameOrigin /\ file' = file /\ fileSize' = fileSize /\ nRPage' = nRPage /\ work' = work
      /\ sendHash' = sendHash /\ jMode' = jMode /\ pIns' = pIns
      /\ faults' \in Nat /\ faults' # 0
    BY <1>1, FaultCounts DEF OnOriginReadyFails, SameOrigin, originVars, exchange, replicaVars, txn
<1>10. /\ RoundMessages(msgs, <<iHash, nHash>>, work)
       /\ FromReplica' = IF linkUp THEN Append(msgs, ReplicaErr) ELSE <<>>
    BY <1>3, <1>7 DEF from, said
<1> QED
    BY <1>4, <1>7, <1>8, <1>9, <1>10, ReplicaFailsKeeps

\* What BEGIN IMMEDIATE finds.
LEMMA ReplicaOpens ==
    ASSUME SyncInductive, pc["replica"] = "sql", chan' = chan,
           NEW msgs \in Seq(ReplicaMessages), NEW r \in {"none", "error"},
           Push("replica", msgs, r), SameOptions
    PROVE  /\ WireTyped' /\ RolesInStep'
           /\ ret["replica"] = "none" /\ ~rs["replica"].commCheck
           /\ FromOrigin = <<>> /\ FromOrigin' = <<>> /\ FromReplica = <<>>
           /\ FromReplica' = IF linkUp THEN msgs ELSE <<>>
           /\ pc'["replica"] = "write" /\ pc'["origin"] = pc["origin"] /\ pc["origin"] # "start"
           /\ ret'["replica"] = r /\ ret'["origin"] = ret["origin"] /\ linkUp' = linkUp
           /\ Rounds = 0 /\ work = <<>> /\ ~HasCommitted /\ NothingHashed /\ Agreed
<1>1. /\ Typed /\ WireTyped /\ RolesInStep /\ Stages
    BY DEF SyncInductive, Typed
<1>2. msgs \in Seq(Message) /\ "replica" \in Sides
    BY DEF Message, Sides
<1>3. /\ ret["replica"] = "none" /\ out["replica"] = <<>> /\ ~rs["replica"].commCheck
    BY <1>1, <1>2 DEF RolesInStep
<1>4. /\ FromOrigin = <<>> /\ FromReplica = <<>> /\ pc["origin"] # "start"
      /\ Rounds = 0 /\ NothingHashed /\ Agreed
    BY <1>1, <1>3 DEF Stages
<1>5. work = <<>> /\ ~HasCommitted
    BY <1>4 DEF NothingHashed, HasCommitted
<1>6. /\ chan' \in [Sides -> Seq(Message)] /\ chan'["replica"] = chan["replica"]
      /\ \A x \in Sides : Capacity > 0 => Len(chan'[x]) <= Capacity
    BY <1>1 DEF WireTyped
<1>7. FromReplica' = IF linkUp THEN msgs ELSE <<>>
    BY <1>1, <1>2, <1>3, <1>4, <1>6, Writing DEF FromReplica
<1>8. /\ WireTyped'
      /\ pc'["replica"] = "write" /\ ret'["replica"] = r /\ closed' = closed /\ linkUp' = linkUp
      /\ \A x \in Sides \ {"replica"} : out'[x] = out[x] /\ pc'[x] = pc[x] /\ ret'[x] = ret[x]
    BY <1>1, <1>2, <1>6, Pushed
<1>9. /\ pc'["origin"] = pc["origin"] /\ ret'["origin"] = ret["origin"]
      /\ out'["origin"] = out["origin"]
    BY <1>8 DEF Sides
<1>10. FromOrigin' = FromOrigin
    BY <1>8, <1>9 DEF FromOrigin, InFlight
<1>11. RolesInStep'
    BY <1>1, <1>3, <1>8, <1>9 DEF RolesInStep, Sides, SameOptions
<1> QED
    BY <1>3, <1>4, <1>5, <1>7, <1>8, <1>9, <1>10, <1>11

LEMMA FirstRound ==
    ASSUME SyncInductive
    PROVE  LET db == Opened(file)
               S == FirstRanges(rs["replica"].protocol, Len(db))
           IN  /\ db \in Seq(Image) /\ db # <<>> /\ Len(db) <= Modulus - 2
               /\ IsFiniteSet(S) /\ \A r \in S : Bounded(r)
               /\ \E r \in S : r[1] <= Len(db)
               /\ rs["replica"].protocol = 1 => S = {<<p, 1>> : p \in 1 .. Len(db)}
<1> DEFINE db == Opened(file)
           n == Len(db)
           v == rs["replica"].protocol
           S == FirstRanges(v, n)
<1>1. file \in Seq(Image) /\ Len(file) <= Modulus - 2 /\ rs \in [Sides -> Structs]
    BY DEF SyncInductive, Typed, ReplicaTyped
<1>2. /\ db \in Seq(Image) /\ n \in Nat \ {0}
      /\ file # <<>> => db = file
    BY <1>1, OpenedIs
<1>3. n <= Modulus - 2 /\ db # <<>>
    <2>1. CASE file # <<>>
        BY <1>1, <1>2, <2>1
    <2>2. CASE file = <<>>
        <3>1. db = <<EmptyImage>>
            BY <2>2 DEF Opened
        <3>2. n = 1
            BY <3>1
        <3> QED
            BY <3>1, <3>2, RsyncAssumption
    <2> QED
        BY <2>1, <2>2
<1>4. v \in {1, 2}
    <2>1. v \in 1 .. ProtocolVersion
        BY <1>1 DEF Structs, Sides
    <2> QED
        BY <2>1 DEF ProtocolVersion
<1> HIDE DEF db, n, v
<1>5. /\ IsFiniteSet(S) /\ \A r \in S : Bounded(r)
      /\ \E r \in S : r[1] <= n
    BY <1>2, <1>3, <1>4, FirstRangesBounded DEF Positive
<1>6. v = 1 => S = {<<p, 1>> : p \in 1 .. n}
    BY <1>2 DEF FirstRanges
<1> QED
    BY <1>2, <1>3, <1>5, <1>6 DEF db, n, v

LEMMA OpenTransactionFailsKeeps ==
    ASSUME SyncInductive, OpenTransactionFails, UNCHANGED originVars
    PROVE  SyncInductive'
<1> DEFINE db == Opened(file)
           S == FirstRanges(rs["replica"].protocol, Len(db))
           from == <<1, 1>>
<1>1. /\ Typed /\ rs \in [Sides -> Structs] /\ faults \in Nat
    BY DEF SyncInductive, Typed
<1>2. \E msgs :
        /\ RoundMessages(msgs, from, <<>>) /\ ReplicaFails(msgs)
        /\ rs' \in [Sides -> Structs] /\ SameReplicaTerms
        /\ rs'["replica"].hashRounds = rs["replica"].hashRounds
        /\ rs'["replica"].pageUpdates = rs["replica"].pageUpdates
        /\ faults' \in Nat /\ (faults' = 0 => faults = 0)
    <2>1. CASE ReplicaAccepts
        <3>1. Fault /\ HashingFails(db, S, 1, 1)
            BY <2>1 DEF OpenTransactionFails
        <3>2. db \in Seq(Image) /\ IsFiniteSet(S) /\ \A r \in S : Bounded(r)
            BY FirstRound
        <3>3. 1 \in Nat /\ from \in Nat \X Nat /\ from = <<1, 1>>
            OBVIOUS
        <3> HIDE DEF db, S, from
        <3>4. PICK msgs, c : /\ RoundMessages(msgs, from, db)
                             /\ c \in Nat /\ rs' = Counted(c, 0)
                             /\ ReplicaFails(msgs)
            BY <3>1, <3>2, <3>3, HashingFailsIs, Zenon
        <3>5. /\ rs' \in [Sides -> Structs] /\ SameReplicaTerms
              /\ rs'["replica"].hashRounds = rs["replica"].hashRounds + 0
              /\ rs'["replica"].pageUpdates = rs["replica"].pageUpdates
              /\ rs["replica"].hashRounds \in Nat
            BY <1>1, <3>4, CountedIs
        <3>6. RoundMessages(msgs, from, <<>>)
            BY <3>4, ForgetDatabase DEF RoundMessages
        <3>7. faults' \in Nat /\ faults' # 0
            BY <1>1, <3>1, FaultCounts
        <3> QED
            BY <3>4, <3>5, <3>6, <3>7
    <2>2. CASE ~ReplicaAccepts
        <3>1. rs' = rs /\ faults' = faults /\ ReplicaFails(<<>>)
            BY <2>2 DEF OpenTransactionFails
        <3>2. RoundMessages(<<>>, from, <<>>)
            BY NothingSaid
        <3>3. SameReplicaTerms
            BY <3>1 DEF SameReplicaTerms
        <3> QED
            BY <1>1, <3>1, <3>2, <3>3
    <2> QED
        BY <2>1, <2>2
<1> HIDE DEF from
<1>3. PICK msgs :
        /\ RoundMessages(msgs, from, <<>>) /\ ReplicaFails(msgs)
        /\ rs' \in [Sides -> Structs] /\ SameReplicaTerms
        /\ rs'["replica"].hashRounds = rs["replica"].hashRounds
        /\ rs'["replica"].pageUpdates = rs["replica"].pageUpdates
        /\ faults' \in Nat /\ (faults' = 0 => faults = 0)
    BY <1>2
<1> DEFINE said == Append(msgs, ReplicaErr)
<1>4. /\ said \in Seq(ReplicaMessages)
      /\ Push("replica", said, "error") /\ SameOptions
    <2>1. ReplicaErr \in ReplicaMessages /\ ReplicaErr.type = "REPLICA_ERROR"
        BY DEF ReplicaErr, ReplicaMessages
    <2>2. said \in Seq(ReplicaMessages)
        BY <1>3, <2>1 DEF RoundMessages
    <2> QED
        BY <1>3, <2>2 DEF ReplicaFails, FailAfter, ReplicaErr, SameOptions, SameReplicaTerms, Sides
<1> HIDE DEF said
<1>5. pc["replica"] = "sql" /\ chan' = chan
    BY DEF OpenTransactionFails
<1>6. /\ WireTyped' /\ RolesInStep'
      /\ ret["replica"] = "none" /\ ~rs["replica"].commCheck
      /\ FromOrigin = <<>> /\ FromOrigin' = <<>> /\ FromReplica = <<>>
      /\ FromReplica' = (IF linkUp THEN said ELSE <<>>)
      /\ pc'["replica"] = "write" /\ pc'["origin"] = pc["origin"] /\ pc["origin"] # "start"
      /\ ret'["replica"] = "error" /\ ret'["origin"] = ret["origin"] /\ linkUp' = linkUp
      /\ Rounds = 0 /\ work = <<>> /\ ~HasCommitted /\ NothingHashed
    BY <1>4, <1>5, ReplicaOpens
<1>7. /\ FromOrigin' \in Seq(Message) /\ Within(FromOrigin', FromOrigin)
      /\ ~Has(FromOrigin', {"ORIGIN_DETAIL", "ORIGIN_READY"}) /\ DOMAIN FromOrigin' = {}
    <2>1. <<>> \in Seq(Message) /\ DOMAIN <<>> = {}
        OBVIOUS
    <2>2. Within(<<>>, <<>>)
        BY <2>1, SameWithin
    <2> QED
        BY <1>6, <2>1, <2>2, HasNothing
<1>8. /\ SameOrigin /\ file' = file /\ fileSize' = fileSize /\ nRPage' = nRPage /\ work' = work
      /\ sendHash' = sendHash /\ jMode' = jMode /\ pIns' = pIns
    BY DEF OpenTransactionFails, SameOrigin, originVars, exchange, replicaVars, txn
<1>9. /\ RoundMessages(msgs, <<iHash, nHash>>, work)
      /\ FromReplica' = IF linkUp THEN Append(msgs, ReplicaErr) ELSE <<>>
    BY <1>3, <1>6 DEF from, said, NothingHashed
<1>10. ~(Rounds > 0)
    BY <1>6
<1> QED
    BY <1>3, <1>5, <1>6, <1>7, <1>8, <1>9, <1>10, ReplicaFailsKeeps

(***************************************************************************)
(* A round reaches the stream.                                             *)
(***************************************************************************)

LEMMA RoundKeeps ==
    ASSUME SyncInductive, WireTyped', RolesInStep', SameOrigin, Agreed,
           file' = file, fileSize' = fileSize, nRPage' = nRPage, pIns' = pIns, faults' = faults,
           sendHash' = {}, jMode' \in 0 .. 2,
           work' \in Seq(Image), Len(work') <= Modulus - 2, work' # <<>>,
           file # <<>> => fileSize = OriginPageSize,
           faults = 0 /\ rs["replica"].walOnly => file = <<>> \/ InWal(file),
           NEW c \in Nat, rs' = Counted(c, 1),
           NEW msgs, RoundMessages(msgs, <<iHash, nHash>>, work'),
           Cardinality(HashesIn(msgs)) <= c,
           hashed \/ Has(msgs, {"REPLICA_HASH"}),
           rs["replica"].protocol = 1
             => /\ ~Has(msgs, {"REPLICA_CONFIG"})
                /\ nHash = 1 /\ \A r \in badHash : r[2] = 1,
           FromOrigin' = <<>>, FromReplica = <<>>,
           FromReplica' = IF linkUp THEN Append(msgs, [type |-> "REPLICA_READY"]) ELSE <<>>,
           Rounds = rs["origin"].hashRounds, \A s \in Sides : rs[s].pageUpdates = 0,
           ~Has(FromOrigin, {"ORIGIN_ERROR"}), pc["replica"] # "done",
           ~rs["replica"].commCheck, ret["replica"] = "none",
           ret'["replica"] = "none", ret'["origin"] = ret["origin"],
           pc'["replica"] = "write", pc'["origin"] = pc["origin"], pc["origin"] # "start",
           linkUp' = linkUp
    PROVE  SyncInductive'
<1>1. /\ Typed /\ WireTyped /\ OriginTyped /\ ReplicaTyped /\ RolesInStep
      /\ Conversation /\ Turns /\ Stages /\ OneByOne /\ Exchanging /\ Committing
      /\ CountersNameRanges /\ FailuresTold /\ Tallies /\ WalChecked
      /\ rs \in [Sides -> Structs]
    BY DEF SyncInductive, Typed
<1>2. /\ rs' \in [Sides -> Structs] /\ SameReplicaTerms
      /\ rs'["replica"].hashMessages = rs["replica"].hashMessages + c
      /\ rs'["replica"].hashRounds = rs["replica"].hashRounds + 1
      /\ rs'["replica"].pageUpdates = rs["replica"].pageUpdates
      /\ rs["replica"].hashMessages \in Nat /\ rs["replica"].hashRounds \in Nat
    <2>1. 1 \in Nat
        OBVIOUS
    <2> QED
        BY <1>1, <2>1, CountedIs
<1>3. /\ Rounds' = Rounds + 1 /\ Rounds' > 0 /\ ~HasCommitted'
      /\ \A s \in Sides : rs'[s].commCheck = rs[s].commCheck
    <2>1. Rounds' = Rounds + 1 /\ Rounds' > 0
        BY <1>2 DEF Rounds
    <2>2. ~HasCommitted'
        BY DEF HasCommitted
    <2> QED
        BY <1>2, <2>1, <2>2 DEF SameReplicaTerms, Sides
<1> DEFINE e == [type |-> "REPLICA_READY"]
           from == <<iHash, nHash>>
           said == Append(msgs, e)
<1>4. /\ from \in Nat \X Nat /\ e \in ReplicaMessages /\ e.type = "REPLICA_READY"
      /\ RoundMessages(msgs, from, work')
    BY <1>1, RsyncAssumption DEF OriginTyped, ReplicaMessages
<1> HIDE DEF e, from
<1>5. /\ said \in Seq(ReplicaMessages) /\ said \in Seq(Message) /\ InOrder(said)
      /\ \A k \in DOMAIN said : said[k].type \in {"REPLICA_CONFIG", "REPLICA_HASH", e.type}
      /\ \A types : Has(said, types) <=> e.type \in types \/ Has(msgs, types)
      /\ NamesRanges(said, from, work')
      /\ Cardinality(HashesIn(said)) = Cardinality(HashesIn(msgs))
    BY <1>4, RoundThen, Zenon
<1>6. msgs \in Seq(Message) /\ Cardinality(HashesIn(msgs)) \in Nat
    <2>1. ReplicaMessages \subseteq Message
        BY DEF Message
    <2>2. msgs \in Seq(Message)
        BY <1>4, <2>1 DEF RoundMessages
    <2> QED
        BY <2>2, HashesFinite
<1>7. /\ linkUp => FromReplica' = said
      /\ ~linkUp => FromReplica' = <<>>
    BY DEF said, e
<1> HIDE DEF said
<1>8. /\ InOrder(FromReplica')
      /\ \A types : Has(FromReplica', types) => "REPLICA_READY" \in types \/ Has(msgs, types)
      /\ linkUp => \A types : Has(msgs, types) => Has(FromReplica', types)
      /\ \A k \in DOMAIN FromReplica' :
            /\ FromReplica'[k] \in ReplicaMessages
            /\ FromReplica'[k].type \in {"REPLICA_CONFIG", "REPLICA_HASH", "REPLICA_READY"}
      /\ NamesRanges(FromReplica', <<iHash, nHash>>, work')
      /\ Cardinality(HashesIn(FromReplica')) <= c /\ Cardinality(HashesIn(FromReplica')) \in Nat
      /\ Has(FromReplica', {"REPLICA_READY"}) => linkUp
    <2>1. CASE linkUp
        <3>1. FromReplica' = said /\ \A k \in DOMAIN said : said[k] \in ReplicaMessages
            BY <1>5, <1>7, <2>1
        <3>2. NamesRanges(said, <<iHash, nHash>>, work')
            BY <1>5 DEF from
        <3> QED
            BY <1>4, <1>5, <1>6, <2>1, <3>1, <3>2
    <2>2. CASE ~linkUp
        <3>1. /\ DOMAIN FromReplica' = {} /\ \A types : ~Has(FromReplica', types)
              /\ HashesIn(FromReplica') = {}
            BY <1>7, <2>2, HasNothing DEF HashesIn
        <3>2. Cardinality(HashesIn(FromReplica')) = 0
            BY <3>1, FS_EmptySet
        <3> QED
            BY <2>2, <3>1, <3>2, NoHashNamesRanges DEF InOrder
    <2> QED
        BY <2>1, <2>2
<1>9. /\ ~Has(FromReplica', {"REPLICA_BEGIN"}) /\ ~Has(FromReplica', {"REPLICA_ERROR"})
      /\ DOMAIN FromOrigin' = {} /\ InOrder(FromOrigin')
      /\ \A types : ~Has(FromOrigin', types)
      /\ Has(FromReplica', {"REPLICA_CONFIG"}) => Has(msgs, {"REPLICA_CONFIG"})
    <2>1. ~Has(FromReplica', {"REPLICA_BEGIN"}) /\ ~Has(FromReplica', {"REPLICA_ERROR"})
        BY <1>8 DEF Has
    <2>2. Has(FromReplica', {"REPLICA_CONFIG"}) => Has(msgs, {"REPLICA_CONFIG"})
        BY <1>8
    <2>3. DOMAIN FromOrigin' = {} /\ \A types : ~Has(FromOrigin', types)
        BY HasNothing
    <2> QED
        BY <2>1, <2>2, <2>3 DEF InOrder
<1> USE DEF SameOrigin, SameReplicaTerms
<1>10. Typed'
    <2>1. ReplicaTyped'
        <3>1. IsFiniteSet({})
            BY FS_EmptySet
        <3> QED
            BY <1>1, <3>1 DEF ReplicaTyped
    <2> QED
        BY <1>1, <1>2, <2>1 DEF Typed, OriginTyped
<1>11. Conversation'
    BY <1>1, <1>8, <1>9 DEF Conversation
<1>12. Turns'
    BY <1>3, <1>8, <1>9 DEF Turns, Sides
<1>13. Agreed'
    BY <1>2 DEF Agreed
<1>14. Stages'
    BY <1>1, <1>2, <1>3, <1>9, <1>13 DEF Stages
<1>15. OneByOne'
    BY <1>2, <1>9 DEF OneByOne
<1>16. Exchanging' /\ Committing'
    <2>1. Has(FromReplica', {"REPLICA_READY"}) =>
            hashed \/ Has(FromReplica', {"REPLICA_HASH"})
        BY <1>8
    <2>2. Exchanging'
        BY <1>3, <1>9, <2>1 DEF Exchanging
    <2> QED
        BY <2>2, <1>3, <1>9 DEF Committing
<1>17. CountersNameRanges'
    BY <1>8 DEF CountersNameRanges
<1>18. FailuresTold'
    <2> SUFFICES ASSUME Regular' PROVE FailuresTold'
        BY DEF FailuresTold
    <2>1. Regular
        BY <1>3 DEF Regular, Sides
    <2>2. ret["origin"] # "error" /\ ret["origin"] # "nil"
        BY <1>1, <2>1 DEF FailuresTold
    <2> QED
        BY <2>1, <2>2 DEF FailuresTold
<1>19. Tallies'
    <2>1. rs["origin"].hashMessages + 0 <= rs["replica"].hashMessages
        <3>1. HashesIn(FromReplica) = {} /\ Cardinality(HashesIn(FromReplica)) = 0
            BY FS_EmptySet DEF HashesIn
        <3> QED
            BY <1>1, <3>1 DEF Tallies
    <2>2. rs["origin"].hashMessages \in Nat
        BY <1>1 DEF Structs, Sides
    <2> DEFINE h == Cardinality(HashesIn(FromReplica'))
               o == rs["origin"].hashMessages
               n == rs["replica"].hashMessages
    <2>3. rs'["origin"].hashMessages + h <= rs'["replica"].hashMessages
        <3>1. h <= c /\ h \in Nat
            BY <1>8
        <3>2. rs'["origin"].hashMessages = o /\ rs'["replica"].hashMessages = n + c
            BY <1>2
        <3>3. o \in Nat /\ n \in Nat /\ o + 0 <= n
            BY <1>2, <2>1, <2>2
        <3> HIDE DEF h, o, n
        <3>4. o + h <= n + c
            BY <3>1, <3>3
        <3> QED
            BY <3>2, <3>4
    <2>4. \A s \in Sides : rs'[s].pageUpdates = 0
        BY <1>2 DEF Sides
    <2> QED
        BY <1>2, <1>3, <1>9, <2>3, <2>4 DEF Tallies
<1>20. WalChecked'
    BY <1>1, <1>2 DEF WalChecked
<1> QED
    BY <1>10, <1>11, <1>12, <1>14, <1>15, <1>16, <1>17, <1>18, <1>19, <1>20
       DEF SyncInductive

LEMMA OnOriginReadyKeeps ==
    ASSUME SyncInductive, OnOriginReady, UNCHANGED originVars
    PROVE  SyncInductive'
<1> DEFINE from == <<iHash, nHash>>
           msgs == HashMessages(work, sendHash, 0, 0)
           said == Append(msgs, [type |-> "REPLICA_READY"])
           c == Cardinality(sendHash)
<1>1. /\ Typed /\ OriginTyped /\ ReplicaTyped /\ rs \in [Sides -> Structs] /\ Stages
      /\ Exchanging /\ WalChecked
    BY DEF SyncInductive, Typed
<1>2. /\ work \in Seq(Image) /\ IsFiniteSet(sendHash) /\ \A r \in sendHash : Bounded(r)
      /\ 0 \in Nat /\ from \in Nat \X Nat /\ c \in Nat
    BY <1>1, FS_CardinalityType, RsyncAssumption DEF ReplicaTyped, OriginTyped
<1> HIDE DEF from, c
<1>3. /\ msgs \in Seq(ReplicaMessages)
      /\ \A k \in DOMAIN msgs : msgs[k].type \in {"REPLICA_CONFIG", "REPLICA_HASH"}
      /\ NamesRanges(msgs, from, work)
      /\ Cardinality(HashesIn(msgs)) <= c
    BY <1>2, RoundIs DEF c
<1>4. /\ Receives("replica", "ORIGIN_READY") /\ chan' = Consumed("replica")
      /\ Push("replica", said, "none") /\ sendHash' = {} /\ rs' = Counted(c, 1)
      /\ SameOrigin /\ file' = file /\ fileSize' = fileSize /\ nRPage' = nRPage /\ work' = work
      /\ jMode' = jMode /\ pIns' = pIns /\ faults' = faults
    BY DEF OnOriginReady, SendHashMessages, Send, c, SameOrigin, originVars, exchange
<1> HIDE DEF msgs
<1>5. SameOptions
    <2>1. 1 \in Nat
        OBVIOUS
    <2>2. SameReplicaTerms
        BY <1>1, <1>2, <1>4, <2>1, CountedIs
    <2> QED
        BY <2>2 DEF SameReplicaTerms, SameOptions, Sides
<1>6. said \in Seq(ReplicaMessages)
    <2>1. [type |-> "REPLICA_READY"] \in ReplicaMessages
        BY DEF ReplicaMessages
    <2> QED
        BY <1>3, <2>1
<1> HIDE DEF said
<1>7. /\ WireTyped' /\ RolesInStep'
      /\ pc["replica"] = "read" /\ ret["replica"] = "none" /\ ~rs["replica"].commCheck
      /\ FromOrigin' = <<>> /\ FromReplica = <<>>
      /\ FromReplica' = (IF linkUp THEN said ELSE <<>>)
      /\ pc'["replica"] = "write" /\ pc'["origin"] = pc["origin"] /\ pc["origin"] # "start"
      /\ ret'["replica"] = "none" /\ ret'["origin"] = ret["origin"] /\ linkUp' = linkUp
      /\ Rounds > 0 /\ work # <<>> /\ hashed /\ rs["replica"].protocol # 1
      /\ Rounds = rs["origin"].hashRounds /\ \A s \in Sides : rs[s].pageUpdates = 0
      /\ ~Has(FromOrigin, {"ORIGIN_ERROR"})
    BY <1>4, <1>5, <1>6, AskedForRound
<1>8. /\ Agreed
      /\ file # <<>> => fileSize = OriginPageSize
      /\ faults = 0 /\ rs["replica"].walOnly => file = <<>> \/ InWal(file)
    BY <1>1, <1>7 DEF Stages, Exchanging, WalChecked, TransactionOpen
<1>9. /\ work' \in Seq(Image) /\ Len(work') <= Modulus - 2 /\ work' # <<>> /\ jMode' \in 0 .. 2
    BY <1>1, <1>4, <1>7 DEF ReplicaTyped
<1>10. /\ RoundMessages(msgs, <<iHash, nHash>>, work')
       /\ FromReplica' = IF linkUp THEN Append(msgs, [type |-> "REPLICA_READY"]) ELSE <<>>
    BY <1>3, <1>4, <1>7 DEF RoundMessages, from, said
<1> QED
    BY <1>2, <1>3, <1>4, <1>7, <1>8, <1>9, <1>10, RoundKeeps

LEMMA OpenTransactionKeeps ==
    ASSUME SyncInductive, OpenTransaction, UNCHANGED originVars
    PROVE  SyncInductive'
<1> DEFINE db == Opened(file)
           S == FirstRanges(rs["replica"].protocol, Len(db))
           from == <<1, 1>>
           msgs == HashMessages(db, S, 1, 1)
           said == Append(msgs, [type |-> "REPLICA_READY"])
           c == Cardinality(S)
<1>1. /\ Typed /\ OriginTyped /\ ReplicaTyped /\ rs \in [Sides -> Structs]
      /\ WalChecked
    BY DEF SyncInductive, Typed
<1>2. /\ db \in Seq(Image) /\ db # <<>> /\ Len(db) <= Modulus - 2
      /\ IsFiniteSet(S) /\ \A r \in S : Bounded(r)
      /\ \E r \in S : r[1] <= Len(db)
      /\ rs["replica"].protocol = 1 => S = {<<p, 1>> : p \in 1 .. Len(db)}
    BY FirstRound
<1>3. /\ work' = db /\ Push("replica", said, "none") /\ sendHash' = {}
      /\ rs' = Counted(c, 1) /\ jMode' \in 0 .. 2
    <2>1. work' = db
        BY DEF OpenTransaction
    <2>2. /\ Push("replica", Append(HashMessages(work',
                 FirstRanges(rs["replica"].protocol, Len(work')), 1, 1),
                 [type |-> "REPLICA_READY"]), "none")
          /\ sendHash' = {}
          /\ rs' = Counted(Cardinality(FirstRanges(rs["replica"].protocol, Len(work'))), 1)
          /\ jMode' \in 0 .. 2
        BY DEF OpenTransaction, SendHashMessages, Send, JournalMode
    <2> QED
        BY <2>1, <2>2
<1> HIDE DEF db, S, from
<1>4. c \in Nat /\ 1 \in Nat /\ from \in Nat \X Nat /\ from = <<1, 1>>
    BY <1>2, FS_CardinalityType DEF from
<1> HIDE DEF c
<1>5. /\ msgs \in Seq(ReplicaMessages)
      /\ \A k \in DOMAIN msgs : msgs[k].type \in {"REPLICA_CONFIG", "REPLICA_HASH"}
      /\ NamesRanges(msgs, from, db)
      /\ Cardinality(HashesIn(msgs)) <= Cardinality(S)
      /\ (\E r \in S : r[1] <= Len(db)) => Has(msgs, {"REPLICA_HASH"})
      /\ Len(db) < Modulus /\ S = {<<p, 1>> : p \in 1 .. Len(db)}
         => ~Has(msgs, {"REPLICA_CONFIG"})
    BY <1>2, <1>4, RoundIs
<1> HIDE DEF msgs
<1>6. /\ Cardinality(HashesIn(msgs)) <= c /\ Has(msgs, {"REPLICA_HASH"})
      /\ rs["replica"].protocol = 1 => ~Has(msgs, {"REPLICA_CONFIG"})
      /\ RoundMessages(msgs, from, db)
    <2>1. Len(db) < Modulus
        BY <1>2, RsyncAssumption
    <2> QED
        BY <1>2, <1>5, <2>1 DEF c, RoundMessages
<1>7. /\ pc["replica"] = "sql" /\ chan' = chan /\ ReplicaAccepts
      /\ SameOrigin /\ file' = file /\ fileSize' = fileSize /\ nRPage' = nRPage
      /\ pIns' = pIns /\ faults' = faults
    BY DEF OpenTransaction, SameOrigin, originVars, exchange
<1>8. SameOptions /\ rs'["origin"] = rs["origin"]
    <2>1. SameReplicaTerms
        BY <1>1, <1>3, <1>4, CountedIs
    <2> QED
        BY <2>1 DEF SameReplicaTerms, SameOptions, Sides
<1>9. said \in Seq(ReplicaMessages)
    <2>1. [type |-> "REPLICA_READY"] \in ReplicaMessages
        BY DEF ReplicaMessages
    <2> QED
        BY <1>5, <2>1
<1> HIDE DEF said
<1>10. /\ WireTyped' /\ RolesInStep'
       /\ ret["replica"] = "none" /\ ~rs["replica"].commCheck
       /\ FromOrigin = <<>> /\ FromOrigin' = <<>> /\ FromReplica = <<>>
       /\ FromReplica' = (IF linkUp THEN said ELSE <<>>)
       /\ pc'["replica"] = "write" /\ pc'["origin"] = pc["origin"] /\ pc["origin"] # "start"
       /\ ret'["replica"] = "none" /\ ret'["origin"] = ret["origin"] /\ linkUp' = linkUp
       /\ Rounds = 0 /\ NothingHashed /\ Agreed
    BY <1>3, <1>7, <1>8, <1>9, ReplicaOpens
<1>11. /\ iHash = 1 /\ nHash = 1 /\ badHash = {}
       /\ Rounds = rs["origin"].hashRounds /\ \A s \in Sides : rs[s].pageUpdates = 0
    BY <1>10 DEF NothingHashed
<1>12. file # <<>> => fileSize = OriginPageSize
    BY <1>7, <1>10 DEF ReplicaAccepts, PageSizeInUse, Agreed
<1>13. faults = 0 /\ rs["replica"].walOnly => file = <<>> \/ InWal(file)
    <2>1. file \in Seq(Image)
        BY <1>1 DEF ReplicaTyped
    <2>2. Len(file) = 0 => file = <<>>
        BY <2>1
    <2> QED
        BY <1>1, <1>7, <2>2 DEF WalChecked, ReplicaAccepts
<1>14. ~Has(FromOrigin, {"ORIGIN_ERROR"})
    BY <1>10, HasNothing
<1>15. /\ RoundMessages(msgs, <<iHash, nHash>>, work')
       /\ FromReplica' = IF linkUp THEN Append(msgs, [type |-> "REPLICA_READY"]) ELSE <<>>
    BY <1>3, <1>6, <1>10, <1>11 DEF from, said
<1>16. rs["replica"].protocol = 1
         => /\ ~Has(msgs, {"REPLICA_CONFIG"})
            /\ nHash = 1 /\ \A r \in badHash : r[2] = 1
    BY <1>6, <1>11
<1>17. work' \in Seq(Image) /\ Len(work') <= Modulus - 2 /\ work' # <<>>
    BY <1>2, <1>3
<1> QED
    BY <1>3, <1>4, <1>6, <1>7, <1>10, <1>11, <1>12, <1>13, <1>14, <1>15, <1>16, <1>17,
       RoundKeeps

(***************************************************************************)
(* The replica's other steps.                                              *)
(***************************************************************************)

LEMMA ReplicaStartKeeps ==
    ASSUME SyncInductive, ReplicaStart, UNCHANGED originVars
    PROVE  SyncInductive'
<1>1. WireTyped /\ RolesInStep /\ FailuresTold /\ faults \in Nat
    BY DEF SyncInductive, Typed
<1>2. /\ out' = out /\ chan' = chan /\ ret' = ret /\ linkUp' = linkUp /\ closed' = closed
      /\ UNCHANGED <<rs, faults, originVars, replicaVars>>
      /\ pc["replica"] = "start" /\ ~rs["replica"].commCheck
    BY DEF ReplicaStart
<1>3. \A x \in Sides : InFlight(x)' = InFlight(x)
    BY <1>2 DEF InFlight
<1>4. /\ pc'["replica"] = "read" /\ \A x \in Sides \ {"replica"} : pc'[x] = pc[x]
      /\ WireTyped'
    BY <1>1, <1>2 DEF ReplicaStart, WireTyped, Sides
<1>5. RolesInStep'
    BY <1>1, <1>2, <1>4 DEF RolesInStep, Sides
<1>6. FailuresTold' /\ Cut
    BY <1>1, <1>2, <1>3, <1>4, SameTold, NothingCut DEF Sides
<1>7. \A s \in Sides : /\ pc'[s] \in {"start", "sql"} => pc'[s] = pc[s]
                       /\ pc[s] = "done" => pc'[s] = "done"
    BY <1>2, <1>4 DEF Sides
<1> QED
    BY <1>1, <1>2, <1>4, <1>5, <1>6, <1>7, CutShrinks

LEMMA ReplicaCommCheckKeeps ==
    ASSUME SyncInductive, ReplicaCommCheck, UNCHANGED originVars
    PROVE  SyncInductive'
<1>1. /\ Typed /\ WireTyped /\ OriginTyped /\ ReplicaTyped /\ RolesInStep
      /\ Conversation /\ Turns /\ Stages /\ OneByOne /\ Exchanging /\ Committing
      /\ CountersNameRanges /\ FailuresTold /\ Tallies /\ WalChecked
    BY DEF SyncInductive, Typed
<1> DEFINE msgs == <<[type |-> "REPLICA_MSG"], [type |-> "REPLICA_END"]>>
<1>2. /\ pc["replica"] = "start" /\ rs["replica"].commCheck
      /\ Push("replica", msgs, "nil") /\ chan' = chan /\ rs' = rs /\ faults' = faults
      /\ origin' = origin /\ snap' = snap
      /\ iHash' = iHash /\ nHash' = nHash /\ mxHash' = mxHash
      /\ badHash' = badHash /\ hashed' = hashed
      /\ file' = file /\ fileSize' = fileSize /\ nRPage' = nRPage /\ work' = work
      /\ sendHash' = sendHash /\ jMode' = jMode /\ pIns' = pIns
    BY DEF ReplicaCommCheck, originVars, exchange, replicaVars, txn
<1>3. /\ msgs \in Seq(ReplicaMessages) /\ msgs \in Seq(Message) /\ InOrder(msgs)
      /\ \A k \in DOMAIN msgs : msgs[k].type \in {"REPLICA_MSG", "REPLICA_END"}
    BY DEF Message, ReplicaMessages, InOrder, Precedes
<1> HIDE DEF msgs
<1>4. "replica" \in Sides /\ out["replica"] = <<>> /\ chan["replica"] = <<>>
      /\ ret["replica"] = "none"
    BY <1>1, <1>2 DEF RolesInStep, Sides
<1>5. FromReplica = <<>> /\ Rounds = 0 /\ ~HasCommitted
    BY <1>1, <1>2, <1>4 DEF FromReplica, InFlight, Stages, HasCommitted
<1>6. /\ chan' \in [Sides -> Seq(Message)] /\ chan'["replica"] = chan["replica"]
      /\ \A x \in Sides : Capacity > 0 => Len(chan'[x]) <= Capacity
    BY <1>1, <1>2 DEF WireTyped
<1>7. FromReplica' = IF linkUp THEN msgs ELSE <<>>
    BY <1>1, <1>2, <1>3, <1>4, <1>5, <1>6, Writing DEF FromReplica
<1>8. /\ WireTyped'
      /\ pc'["replica"] = "write" /\ ret'["replica"] = "nil" /\ closed' = closed /\ linkUp' = linkUp
      /\ \A x \in Sides \ {"replica"} : out'[x] = out[x] /\ pc'[x] = pc[x] /\ ret'[x] = ret[x]
    BY <1>1, <1>2, <1>3, <1>4, <1>6, Pushed
<1>9. /\ pc'["origin"] = pc["origin"] /\ ret'["origin"] = ret["origin"]
      /\ out'["origin"] = out["origin"]
    BY <1>8 DEF Sides
<1>10. FromOrigin' = FromOrigin
    BY <1>2, <1>8, <1>9 DEF FromOrigin, InFlight
<1>11. RolesInStep'
    BY <1>1, <1>2, <1>8, <1>9 DEF RolesInStep, Sides
<1>12. /\ InOrder(FromReplica')
       /\ \A k \in DOMAIN FromReplica' :
            FromReplica'[k] \in ReplicaMessages
            /\ FromReplica'[k].type \in {"REPLICA_MSG", "REPLICA_END"}
       /\ FromReplica' \in Seq(Message)
    <2>1. CASE linkUp
        BY <2>1, <1>3, <1>7
    <2>2. CASE ~linkUp
        BY <2>2, <1>7 DEF InOrder
    <2> QED
        BY <2>1, <2>2
<1>13. /\ ~Has(FromReplica', {"REPLICA_ERROR"}) /\ ~Has(FromReplica', {"REPLICA_BEGIN"})
       /\ ~Has(FromReplica', {"REPLICA_READY"}) /\ ~Has(FromReplica', {"REPLICA_HASH"})
    BY <1>12 DEF Has
<1>14. Rounds' = Rounds /\ ~HasCommitted' /\ (TransactionOpen' <=> TransactionOpen)
    BY <1>2, <1>5, <1>8 DEF Rounds, HasCommitted, TransactionOpen
<1>15. Typed'
    BY <1>1, <1>2, <1>8 DEF Typed, OriginTyped, ReplicaTyped
<1>16. Conversation'
    BY <1>1, <1>2, <1>10, <1>12 DEF Conversation, Truthful
<1>17. Turns'
    BY <1>1, <1>2, <1>9, <1>10, <1>12, <1>13 DEF Turns
<1>18. Stages'
    <2>1. Agreed' = Agreed
        BY <1>2 DEF Agreed
    <2> QED
        BY <1>1, <1>2, <1>5, <1>8, <1>9, <1>10, <1>13, <1>14, <2>1 DEF Stages
<1>19. OneByOne' /\ Exchanging' /\ Committing'
    <2>1. Exchanging'
        BY <1>1, <1>2, <1>8, <1>9, <1>10, <1>13, <1>14 DEF Exchanging
    <2> QED
        BY <2>1, <1>5, <1>8, <1>14 DEF OneByOne, Committing
<1>20. HashesIn(FromReplica') = {} /\ Cardinality(HashesIn(FromReplica')) = 0
    BY <1>12, <1>13, NoHashes
<1>21. CountersNameRanges'
    BY <1>20, NoHashNamesRanges DEF CountersNameRanges
<1>22. FailuresTold'
    BY <1>2 DEF FailuresTold, Regular, Sides
<1>23. Tallies'
    <2>1. Cardinality(HashesIn(FromReplica)) = 0
        BY <1>5, FS_EmptySet DEF HashesIn
    <2> QED
        BY <1>1, <1>2, <1>4, <1>5, <1>10, <1>13, <1>14, <1>20, <2>1 DEF Tallies
<1>24. WalChecked'
    BY <1>1, <1>2, <1>8 DEF WalChecked
<1> QED
    BY <1>11, <1>15, <1>16, <1>17, <1>18, <1>19, <1>21, <1>22, <1>23, <1>24 DEF SyncInductive

\* What the replica knows of the message it takes.
LEMMA ReplicaHears ==
    ASSUME SyncInductive, FromOrigin # <<>>, pc["replica"] = "read",
           Head(FromOrigin).type # "ORIGIN_ERROR", FromOrigin' = Tail(FromOrigin)
    PROVE  /\ FromReplica = <<>> /\ FromOrigin \in Seq(Message) /\ InOrder(FromOrigin)
           /\ Head(FromOrigin) \in OriginMessages /\ Truthful(Head(FromOrigin))
           /\ FromOrigin' \in Seq(Message) /\ InOrder(FromOrigin')
           /\ \A types : Has(FromOrigin, types)
                            <=> Head(FromOrigin).type \in types \/ Has(FromOrigin', types)
           /\ \A k \in DOMAIN FromOrigin' :
                /\ k \in Nat /\ k + 1 \in DOMAIN FromOrigin /\ FromOrigin'[k] = FromOrigin[k + 1]
                /\ FromOrigin'[k] \in OriginMessages /\ Truthful(FromOrigin'[k])
                /\ Precedes(Head(FromOrigin).type, FromOrigin'[k].type)
           /\ 1 \in DOMAIN FromOrigin /\ FromOrigin[1] = Head(FromOrigin)
<1>1. /\ WireTyped /\ RolesInStep /\ Conversation /\ Turns
    BY DEF SyncInductive, Typed
<1>2. FromReplica = <<>>
    BY <1>1, ReplicaSilent
<1>3. /\ FromOrigin \in Seq(Message) /\ FromOrigin \in Seq(OriginMessages) /\ InOrder(FromOrigin)
    BY <1>1, Conversing
<1>4. /\ FromOrigin' \in Seq(OriginMessages) /\ FromOrigin' \in Seq(Message)
      /\ InOrder(FromOrigin')
      /\ \A types : Has(FromOrigin, types)
                       <=> Head(FromOrigin).type \in types \/ Has(FromOrigin', types)
      /\ \A k \in DOMAIN FromOrigin' :
            k + 1 \in DOMAIN FromOrigin /\ FromOrigin'[k] = FromOrigin[k + 1]
      /\ Head(FromOrigin) \in OriginMessages /\ 1 \in DOMAIN FromOrigin
      /\ Head(FromOrigin) = FromOrigin[1]
    <2> DEFINE msgs == FromOrigin
    <2>1. /\ msgs \in Seq(OriginMessages) /\ msgs \in Seq(Message) /\ msgs # <<>>
          /\ InOrder(msgs) /\ FromOrigin' = Tail(msgs)
        BY <1>3
    <2> HIDE DEF msgs
    <2>2. /\ Tail(msgs) \in Seq(OriginMessages) /\ Tail(msgs) \in Seq(Message)
          /\ InOrder(Tail(msgs))
          /\ \A types : Has(msgs, types) <=> Head(msgs).type \in types \/ Has(Tail(msgs), types)
          /\ \A k \in DOMAIN Tail(msgs) : k + 1 \in DOMAIN msgs /\ Tail(msgs)[k] = msgs[k + 1]
          /\ Head(msgs) \in OriginMessages /\ 1 \in DOMAIN msgs /\ Head(msgs) = msgs[1]
        BY <2>1, Remaining
    <2> QED
        BY <2>1, <2>2 DEF msgs
<1>5. \A k \in DOMAIN FromOrigin' :
        /\ k \in Nat /\ FromOrigin'[k] \in OriginMessages /\ Truthful(FromOrigin'[k])
        /\ Precedes(Head(FromOrigin).type, FromOrigin'[k].type)
    <2> TAKE k \in DOMAIN FromOrigin'
    <2>1. k \in Nat /\ k > 0
        BY <1>4
    <2>2. /\ k + 1 \in DOMAIN FromOrigin /\ FromOrigin'[k] = FromOrigin[k + 1]
          /\ 1 \in DOMAIN FromOrigin /\ 1 < k + 1 /\ Head(FromOrigin) = FromOrigin[1]
        BY <1>4, <2>1
    <2>3. Precedes(Head(FromOrigin).type, FromOrigin'[k].type)
        BY <1>3, <2>2 DEF InOrder
    <2> QED
        BY <1>1, <2>1, <2>2, <2>3 DEF Conversation
<1>6. Truthful(Head(FromOrigin))
    BY <1>1, <1>4 DEF Conversation
<1> QED
    BY <1>2, <1>3, <1>4, <1>5, <1>6

\* ORIGIN_BEGIN finds nothing begun, and nothing else in flight.
LEMMA Announced ==
    ASSUME SyncInductive, FromOrigin # <<>>, pc["replica"] = "read",
           Head(FromOrigin).type = "ORIGIN_BEGIN", FromOrigin' = Tail(FromOrigin)
    PROVE  /\ FromOrigin' = <<>> /\ FromReplica = <<>>
           /\ \A types : Has(FromOrigin, types) <=> "ORIGIN_BEGIN" \in types
           /\ Head(FromOrigin) \in OriginMessages /\ Truthful(Head(FromOrigin))
           /\ Rounds = 0 /\ work = <<>> /\ ~HasCommitted
           /\ rs["origin"].pageSize # 0 /\ pc["origin"] # "start"
<1>1. /\ Stages /\ Exchanging
    BY DEF SyncInductive
<1>2. /\ FromReplica = <<>> /\ FromOrigin \in Seq(Message) /\ InOrder(FromOrigin)
      /\ Head(FromOrigin) \in OriginMessages /\ Truthful(Head(FromOrigin))
    BY ReplicaHears
<1>3. /\ FromOrigin' = <<>> /\ \A types : Has(FromOrigin, types) <=> "ORIGIN_BEGIN" \in types
    BY <1>2, LastWords, OnlyWord
<1>4. Has(FromOrigin, {"ORIGIN_BEGIN"})
    BY <1>3
<1>5. Rounds = 0 /\ rs["origin"].pageSize # 0 /\ pc["origin"] # "start"
    BY <1>1, <1>4 DEF Stages
<1>6. work = <<>> /\ ~HasCommitted
    BY <1>1, <1>5 DEF Exchanging, HasCommitted
<1> QED
    BY <1>2, <1>3, <1>5, <1>6

LEMMA OnOriginBeginTooNewKeeps ==
    ASSUME SyncInductive, OnOriginBeginTooNew, UNCHANGED originVars
    PROVE  SyncInductive'
<1>1. /\ Typed /\ WireTyped /\ OriginTyped /\ ReplicaTyped /\ RolesInStep
      /\ Conversation /\ Turns /\ Stages /\ OneByOne /\ Exchanging /\ Committing
      /\ CountersNameRanges /\ FailuresTold /\ Tallies /\ WalChecked
      /\ rs \in [Sides -> Structs]
    BY DEF SyncInductive, Typed
<1> DEFINE m == [type |-> "REPLICA_BEGIN", protocol |-> rs["replica"].protocol]
           msgs == <<m>>
<1>2. /\ Receives("replica", "ORIGIN_BEGIN") /\ chan' = Consumed("replica")
      /\ Push("replica", msgs, "none") /\ rs' = rs /\ faults' = faults
      /\ origin' = origin /\ snap' = snap
      /\ iHash' = iHash /\ nHash' = nHash /\ mxHash' = mxHash
      /\ badHash' = badHash /\ hashed' = hashed
      /\ file' = file /\ fileSize' = fileSize /\ nRPage' = nRPage /\ work' = work
      /\ sendHash' = sendHash /\ jMode' = jMode /\ pIns' = FALSE
    BY DEF OnOriginBeginTooNew, Send, originVars, exchange
<1>3. /\ m \in ReplicaMessages /\ m \in Message /\ m.type = "REPLICA_BEGIN"
    BY <1>1 DEF Message, ReplicaMessages, Structs, Sides
<1> HIDE DEF m
<1>4. /\ msgs \in Seq(ReplicaMessages) /\ msgs \in Seq(Message) /\ InOrder(msgs)
      /\ DOMAIN msgs = {1} /\ msgs[1] = m
    BY <1>3, InOrderOne
<1> HIDE DEF msgs
<1>5. SameOptions
    BY <1>2 DEF SameOptions
<1>6. /\ WireTyped' /\ RolesInStep'
      /\ pc["replica"] = "read" /\ ret["replica"] = "none" /\ ~rs["replica"].commCheck
      /\ FromOrigin # <<>> /\ Head(FromOrigin).type = "ORIGIN_BEGIN"
      /\ FromOrigin' = Tail(FromOrigin)
      /\ FromReplica = <<>> /\ FromReplica' = (IF linkUp THEN msgs ELSE <<>>)
      /\ pc'["replica"] = "write" /\ pc'["origin"] = pc["origin"]
      /\ ret'["replica"] = "none" /\ ret'["origin"] = ret["origin"]
      /\ linkUp' = linkUp
    BY <1>1, <1>2, <1>4, <1>5, ReplicaAnswers
<1>7. /\ FromOrigin' = <<>> /\ \A types : Has(FromOrigin, types) <=> "ORIGIN_BEGIN" \in types
      /\ Rounds = 0 /\ work = <<>> /\ ~HasCommitted
      /\ rs["origin"].pageSize # 0 /\ pc["origin"] # "start"
    BY <1>6, Announced
<1>8. /\ DOMAIN FromOrigin' = {} /\ InOrder(FromOrigin') /\ \A types : ~Has(FromOrigin', types)
    BY <1>7, HasNothing DEF InOrder
<1>9. /\ InOrder(FromReplica') /\ FromReplica' \in Seq(Message)
      /\ \A k \in DOMAIN FromReplica' :
            FromReplica'[k] \in ReplicaMessages /\ FromReplica'[k].type = "REPLICA_BEGIN"
    <2>1. CASE linkUp
        BY <2>1, <1>3, <1>4, <1>6
    <2>2. CASE ~linkUp
        BY <2>2, <1>6 DEF InOrder
    <2> QED
        BY <2>1, <2>2
<1>10. /\ ~Has(FromReplica', {"REPLICA_ERROR"}) /\ ~Has(FromReplica', {"REPLICA_READY"})
       /\ ~Has(FromReplica', {"REPLICA_CONFIG", "REPLICA_HASH"})
       /\ ~Has(FromReplica', {"REPLICA_CONFIG"}) /\ ~Has(FromReplica', {"REPLICA_HASH"})
    BY <1>9 DEF Has
<1>11. Rounds' = Rounds /\ ~HasCommitted' /\ ~TransactionOpen'
    BY <1>2, <1>7 DEF Rounds, HasCommitted, TransactionOpen
<1>12. Typed'
    BY <1>1, <1>2, <1>6 DEF Typed, OriginTyped, ReplicaTyped
<1>13. Conversation'
    BY <1>8, <1>9 DEF Conversation
<1>14. Turns'
    BY <1>2, <1>6, <1>8, <1>9, <1>10 DEF Turns
<1>15. Stages'
    <2>1. NothingHashed'
        BY <1>1, <1>2, <1>6, <1>7, <1>10 DEF Stages, NothingHashed
    <2> QED
        BY <1>1, <1>2, <1>6, <1>7, <1>8, <1>11, <2>1 DEF Stages
<1>16. OneByOne' /\ Exchanging' /\ Committing'
    BY <1>2, <1>7, <1>8, <1>10, <1>11 DEF OneByOne, Exchanging, Committing
<1>17. HashesIn(FromReplica') = {} /\ Cardinality(HashesIn(FromReplica')) = 0
    BY <1>9, <1>10, NoHashes
<1>18. CountersNameRanges'
    BY <1>17, NoHashNamesRanges DEF CountersNameRanges
<1>19. FailuresTold'
    <2> SUFFICES ASSUME Regular' PROVE FailuresTold'
        BY DEF FailuresTold
    <2>1. Regular
        BY <1>2, <1>6 DEF Regular, Sides
    <2>2. ~Has(FromOrigin, {"ORIGIN_ERROR"})
        BY <1>7
    <2>3. ret["origin"] # "error" /\ ret["origin"] # "nil"
        BY <1>1, <1>6, <2>1, <2>2 DEF FailuresTold
    <2> QED
        BY <1>6, <2>3 DEF FailuresTold
<1>20. Tallies'
    <2>1. Cardinality(HashesIn(FromReplica)) = 0
        BY <1>6, FS_EmptySet DEF HashesIn
    <2> QED
        BY <1>1, <1>2, <1>6, <1>8, <1>10, <1>11, <1>17, <2>1 DEF Tallies
<1>21. WalChecked'
    BY <1>2, <1>6, <1>7 DEF WalChecked
<1> QED
    BY <1>6, <1>12, <1>13, <1>14, <1>15, <1>16, <1>18, <1>19, <1>20, <1>21 DEF SyncInductive

LEMMA OnOriginBeginKeeps ==
    ASSUME SyncInductive, OnOriginBegin, UNCHANGED originVars
    PROVE  SyncInductive'
<1>1. /\ Typed /\ WireTyped /\ OriginTyped /\ ReplicaTyped /\ RolesInStep
      /\ Conversation /\ Turns /\ Stages /\ OneByOne /\ Exchanging /\ Committing
      /\ CountersNameRanges /\ FailuresTold /\ Tallies /\ WalChecked
      /\ rs \in [Sides -> Structs]
    BY DEF SyncInductive, Typed
<1> DEFINE m == Head(Incoming("replica"))
<1>2. /\ Receives("replica", "ORIGIN_BEGIN") /\ chan' = Consumed("replica")
      /\ out' = out /\ ret' = ret /\ closed' = closed /\ linkUp' = linkUp
      /\ pc' = [pc EXCEPT !["replica"] = "sql"] /\ faults' = faults
      /\ origin' = origin /\ snap' = snap
      /\ iHash' = iHash /\ nHash' = nHash /\ mxHash' = mxHash
      /\ badHash' = badHash /\ hashed' = hashed
      /\ file' = file /\ fileSize' = fileSize /\ nRPage' = Len(file) /\ work' = work
      /\ sendHash' = sendHash /\ jMode' = jMode /\ pIns' = FALSE
      /\ rs' = [rs EXCEPT !["replica"].protocol = m.protocol,
                          !["replica"].pageCount = m.pageCount,
                          !["replica"].pageSize = m.pageSize]
    BY DEF OnOriginBegin, originVars, exchange
<1>3. /\ pc["replica"] = "read"
      /\ FromOrigin # <<>> /\ Head(FromOrigin) = m /\ m.type = "ORIGIN_BEGIN"
      /\ FromOrigin' = Tail(FromOrigin)
      /\ chan' \in [Sides -> Seq(Message)] /\ chan'["replica"] = chan["replica"]
      /\ \A x \in Sides : Capacity > 0 => Len(chan'[x]) <= Capacity
    <2>1. "replica" \in Sides /\ Peer("replica") = "origin"
        BY DEF Sides, Peer
    <2>2. LET f == InFlight(Peer("replica")) IN
           /\ pc["replica"] = "read"
           /\ f # <<>> /\ Head(f) = Head(Incoming("replica")) /\ Head(f).type = "ORIGIN_BEGIN"
           /\ InFlight(Peer("replica"))' = Tail(f)
           /\ chan' \in [Sides -> Seq(Message)] /\ chan'["replica"] = chan["replica"]
           /\ \A x \in Sides : Capacity > 0 => Len(chan'[x]) <= Capacity
        BY <1>1, <1>2, <2>1, Reading
    <2> QED
        BY <2>1, <2>2 DEF FromOrigin
<1> HIDE DEF m
<1>4. /\ FromOrigin' = <<>> /\ FromReplica = <<>>
      /\ \A types : Has(FromOrigin, types) <=> "ORIGIN_BEGIN" \in types
      /\ m \in OriginMessages /\ Truthful(m)
      /\ Rounds = 0 /\ work = <<>> /\ ~HasCommitted
      /\ rs["origin"].pageSize # 0 /\ pc["origin"] # "start"
    BY <1>3, Announced
<1>5. /\ m.protocol \in 1 .. ProtocolVersion /\ m.pageSize \in Nat /\ m.pageCount \in Nat
      /\ m.protocol = rs["origin"].protocol
      /\ m.pageSize = OriginPageSize /\ m.pageCount = Len(snap)
    <2>1. m.protocol \in 1 .. ProtocolVersion /\ m.pageSize \in Nat /\ m.pageCount \in Nat
        BY <1>3, <1>4 DEF OriginMessages
    <2> QED
        BY <1>3, <1>4, <2>1 DEF Truthful
<1>6. /\ rs' \in [Sides -> Structs] /\ rs'["origin"] = rs["origin"]
      /\ rs'["replica"].protocol = rs["origin"].protocol
      /\ rs'["replica"].pageSize = OriginPageSize /\ rs'["replica"].pageCount = Len(snap)
      /\ rs'["replica"].walOnly = rs["replica"].walOnly
      /\ rs'["replica"].commCheck = rs["replica"].commCheck
      /\ rs'["replica"].hashMessages = rs["replica"].hashMessages
      /\ rs'["replica"].hashRounds = rs["replica"].hashRounds
      /\ rs'["replica"].pageUpdates = rs["replica"].pageUpdates
    <2> DEFINE o == [rs["replica"] EXCEPT !.protocol = m.protocol,
                        !.pageCount = m.pageCount, !.pageSize = m.pageSize]
    <2>1. rs["replica"] \in Structs
        BY <1>1 DEF Sides
    <2>2. o \in Structs
        BY <1>5, <2>1 DEF Structs
    <2>3. /\ o.protocol = m.protocol /\ o.pageSize = m.pageSize /\ o.pageCount = m.pageCount
          /\ o.walOnly = rs["replica"].walOnly /\ o.commCheck = rs["replica"].commCheck
          /\ o.hashMessages = rs["replica"].hashMessages
          /\ o.hashRounds = rs["replica"].hashRounds
          /\ o.pageUpdates = rs["replica"].pageUpdates
        BY <2>1 DEF Structs
    <2>4. rs' = [rs EXCEPT !["replica"] = o]
        BY <1>1, <1>2 DEF Sides
    <2> HIDE DEF o
    <2> QED
        BY <1>1, <1>5, <2>2, <2>3, <2>4 DEF Sides
<1>7. /\ pc'["replica"] = "sql" /\ pc'["origin"] = pc["origin"]
      /\ ret["replica"] = "none" /\ out["replica"] = <<>> /\ ~rs["replica"].commCheck
      /\ WireTyped'
    BY <1>1, <1>2, <1>3 DEF WireTyped, RolesInStep, Sides
<1>8. \A s \in Sides : rs'[s].commCheck = rs[s].commCheck
    BY <1>6 DEF Sides
<1>9. RolesInStep'
    <2>1. chan'["origin"] = Tail(chan["origin"]) /\ chan["origin"] # <<>>
        BY <1>1, <1>2 DEF Receives, Incoming, Consumed, Peer, WireTyped, Sides
    <2> QED
        BY <1>1, <1>2, <1>3, <1>7, <1>8, <2>1 DEF RolesInStep, Sides
<1>10. FromReplica' = <<>>
    BY <1>2, <1>3, <1>4 DEF FromReplica, InFlight
<1>11. /\ DOMAIN FromOrigin' = {} /\ InOrder(FromOrigin') /\ \A types : ~Has(FromOrigin', types)
       /\ DOMAIN FromReplica' = {} /\ InOrder(FromReplica')
       /\ \A types : ~Has(FromReplica', types)
       /\ HashesIn(FromReplica') = {} /\ Cardinality(HashesIn(FromReplica')) = 0
    BY <1>4, <1>10, HasNothing, FS_EmptySet DEF InOrder, HashesIn
<1>12. Rounds' = Rounds /\ ~HasCommitted' /\ ~TransactionOpen'
    BY <1>2, <1>4, <1>6 DEF Rounds, HasCommitted, TransactionOpen
<1>13. Typed'
    <2>1. OriginTyped'
        BY <1>1, <1>2 DEF OriginTyped
    <2>2. Len(file) \in Nat
        BY <1>1 DEF ReplicaTyped
    <2>3. ReplicaTyped'
        BY <1>1, <1>2, <2>2 DEF ReplicaTyped
    <2>4. faults' \in Nat
        BY <1>1, <1>2 DEF Typed
    <2> QED
        BY <1>6, <1>7, <2>1, <2>3, <2>4 DEF Typed
<1>14. Conversation' /\ Turns'
    BY <1>11 DEF Conversation, Turns
<1>15. Stages'
    <2>1. NothingHashed'
        BY <1>1, <1>2, <1>4, <1>6, <1>7, <1>11 DEF Stages, NothingHashed, Sides
    <2>2. Agreed'
        BY <1>2, <1>4, <1>6 DEF Agreed
    <2> QED
        BY <1>1, <1>2, <1>4, <1>6, <1>7, <1>10, <1>11, <1>12, <2>1, <2>2 DEF Stages
<1>16. OneByOne' /\ Exchanging' /\ Committing'
    BY <1>2, <1>4, <1>11, <1>12 DEF OneByOne, Exchanging, Committing
<1>17. CountersNameRanges'
    BY <1>11, NoHashNamesRanges DEF CountersNameRanges
<1>18. FailuresTold'
    <2> SUFFICES ASSUME Regular' PROVE FailuresTold'
        BY DEF FailuresTold
    <2>1. Regular
        BY <1>2, <1>8 DEF Regular, Sides
    <2>2. ~Has(FromOrigin, {"ORIGIN_ERROR"})
        BY <1>4
    <2>3. ret["origin"] # "error" /\ ret["origin"] # "nil"
        BY <1>1, <1>3, <1>7, <2>1, <2>2 DEF FailuresTold
    <2> QED
        BY <1>2, <1>7, <2>3 DEF FailuresTold
<1>19. Tallies'
    <2>1. Cardinality(HashesIn(FromReplica)) = 0
        BY <1>4, FS_EmptySet DEF HashesIn
    <2> QED
        BY <1>1, <1>2, <1>6, <1>11, <1>12, <2>1 DEF Tallies
<1>20. WalChecked'
    BY <1>2, <1>4 DEF WalChecked
<1> QED
    BY <1>9, <1>13, <1>14, <1>15, <1>16, <1>17, <1>18, <1>19, <1>20 DEF SyncInductive

LEMMA OnOriginDetailKeeps ==
    ASSUME SyncInductive, OnOriginDetail, UNCHANGED originVars
    PROVE  SyncInductive'
<1>1. /\ Typed /\ WireTyped /\ OriginTyped /\ ReplicaTyped /\ RolesInStep
      /\ Conversation /\ Turns /\ Stages /\ OneByOne /\ Exchanging /\ Committing
      /\ CountersNameRanges /\ FailuresTold /\ Tallies /\ WalChecked
    BY DEF SyncInductive, Typed
<1> DEFINE m == Head(Incoming("replica"))
           rows == Subdivide(m.fpg, m.npg)
<1>2. /\ Receives("replica", "ORIGIN_DETAIL") /\ chan' = Consumed("replica") /\ ReadOn
      /\ rs' = rs /\ faults' = faults
      /\ origin' = origin /\ snap' = snap
      /\ iHash' = iHash /\ nHash' = nHash /\ mxHash' = mxHash
      /\ badHash' = badHash /\ hashed' = hashed
      /\ file' = file /\ fileSize' = fileSize /\ nRPage' = nRPage /\ work' = work
      /\ sendHash' = ReplaceInto(sendHash, rows) /\ jMode' = jMode /\ pIns' = pIns
      /\ pc' = pc /\ ret' = ret /\ linkUp' = linkUp
    BY DEF OnOriginDetail, originVars, exchange, ReadOn
<1>3. SameOptions
    BY <1>2 DEF SameOptions
<1>4. /\ WireTyped' /\ RolesInStep'
      /\ pc["replica"] = "read" /\ ret["replica"] = "none" /\ ~rs["replica"].commCheck
      /\ FromOrigin # <<>> /\ Head(FromOrigin) = m
      /\ m.type = "ORIGIN_DETAIL" /\ FromOrigin' = Tail(FromOrigin)
      /\ FromReplica' = FromReplica
    BY <1>1, <1>2, <1>3, ReplicaTakes
<1> HIDE DEF m
<1>5. /\ FromReplica = <<>>
      /\ m \in OriginMessages /\ Truthful(m)
      /\ InOrder(FromOrigin')
      /\ \A types : Has(FromOrigin, types) <=> "ORIGIN_DETAIL" \in types \/ Has(FromOrigin', types)
      /\ \A k \in DOMAIN FromOrigin' :
            /\ k + 1 \in DOMAIN FromOrigin /\ FromOrigin'[k] = FromOrigin[k + 1]
            /\ FromOrigin'[k] \in OriginMessages /\ Truthful(FromOrigin'[k])
            /\ Precedes("ORIGIN_DETAIL", FromOrigin'[k].type)
    BY <1>4, ReplicaHears
<1>6. /\ Has(FromOrigin, {"ORIGIN_DETAIL", "ORIGIN_READY", "ORIGIN_PAGE", "ORIGIN_TXN"})
      /\ Has(FromOrigin, {"ORIGIN_DETAIL", "ORIGIN_READY"})
    BY <1>5
<1>7. /\ Rounds > 0 /\ work # <<>> /\ pc["origin"] # "start" /\ rs["replica"].protocol # 1
    BY <1>1, <1>6 DEF Exchanging, Stages, OneByOne
<1>8. /\ Rounds' = Rounds /\ ~HasCommitted' /\ ~HasCommitted
      /\ (TransactionOpen' <=> TransactionOpen)
    BY <1>2, <1>7 DEF Rounds, HasCommitted, TransactionOpen
<1>9. /\ IsFiniteSet(sendHash') /\ \A r \in sendHash' : Bounded(r)
    <2>1. Bounded(<<m.fpg, m.npg>>)
        BY <1>4, <1>5 DEF Truthful
    <2>2. IsFiniteSet(rows) /\ \A q \in rows : Bounded(q)
        <3> DEFINE r == <<m.fpg, m.npg>>
        <3>1. Bounded(r) /\ r[1] = m.fpg /\ r[2] = m.npg
            BY <2>1
        <3> HIDE DEF r
        <3> QED
            BY <3>1, SubdivideBounded
    <2>3. IsFiniteSet(sendHash) /\ \A q \in sendHash : Bounded(q)
        BY <1>1 DEF ReplicaTyped
    <2> HIDE DEF rows
    <2>4. /\ IsFiniteSet(ReplaceInto(sendHash, rows))
          /\ \A q \in ReplaceInto(sendHash, rows) : Bounded(q)
        BY <2>2, <2>3, ReplaceIntoBounded
    <2> QED
        BY <1>2, <2>4
<1>10. Typed'
    BY <1>1, <1>2, <1>4, <1>9 DEF Typed, OriginTyped, ReplicaTyped
<1>11. Conversation'
    <2>1. DOMAIN FromReplica' = {} /\ InOrder(FromReplica')
        BY <1>4, <1>5 DEF InOrder
    <2> QED
        BY <1>2, <1>5, <2>1 DEF Conversation, Truthful
<1>12. Turns'
    <2>1. Has(FromOrigin', {"ORIGIN_ERROR"}) => ret'["origin"] \notin {"none", "nil"}
        BY <1>1, <1>2, <1>5 DEF Turns
    <2>2. \A k \in DOMAIN FromOrigin' :
            IF rs'["origin"].commCheck THEN FromOrigin'[k].type \in {"ORIGIN_MSG", "ORIGIN_END"}
            ELSE FromOrigin'[k].type # "ORIGIN_MSG"
        BY <1>1, <1>2, <1>5 DEF Turns
    <2>3. DOMAIN FromReplica' = {} /\ ~Has(FromReplica', {"REPLICA_ERROR"})
        BY <1>4, <1>5, HasNothing
    <2> QED
        BY <1>4, <1>5, <2>1, <2>2, <2>3 DEF Turns
<1>13. Agreed' /\ Stages'
    <2>1. Agreed'
        BY <1>1, <1>2, <1>7 DEF Stages, Agreed
    <2>2. ~Has(FromOrigin', {"ORIGIN_BEGIN"})
        BY <1>5 DEF Has, Precedes
    <2>3. ~Has(FromReplica', {"REPLICA_BEGIN"})
        BY <1>4, <1>5, HasNothing
    <2> QED
        BY <1>1, <1>2, <1>4, <1>7, <1>8, <2>1, <2>2, <2>3 DEF Stages
<1>14. OneByOne'
    BY <1>2, <1>7 DEF OneByOne
<1>15. Exchanging' /\ Committing'
    <2>1. Exchanging'
        BY <1>1, <1>2, <1>4, <1>5, <1>7, <1>8 DEF Exchanging
    <2>2. ~Has(FromOrigin', {"ORIGIN_END"})
        BY <1>5 DEF Has, Precedes
    <2> QED
        BY <1>8, <2>1, <2>2 DEF Committing
<1>16. CountersNameRanges'
    BY <1>1, <1>2, <1>4 DEF CountersNameRanges
<1>17. FailuresTold'
    <2> SUFFICES ASSUME Regular' PROVE FailuresTold'
        BY DEF FailuresTold
    <2>1. Regular
        BY <1>2 DEF Regular, Sides
    <2> QED
        BY <1>1, <1>2, <1>4, <1>5, <2>1 DEF FailuresTold
<1>18. Tallies'
    <2>1. \A k \in DOMAIN FromOrigin' : FromOrigin'[k].type # "ORIGIN_TXN"
        BY <1>5 DEF Precedes
    <2> QED
        BY <1>1, <1>2, <1>4, <1>5, <1>8, <2>1 DEF Tallies
<1>19. WalChecked'
    BY <1>1, <1>2 DEF WalChecked
<1> QED
    BY <1>4, <1>10, <1>11, <1>12, <1>13, <1>14, <1>15, <1>16, <1>17, <1>18, <1>19
       DEF SyncInductive

LEMMA OnOriginPageKeeps ==
    ASSUME SyncInductive, OnOriginPage, UNCHANGED originVars
    PROVE  SyncInductive'
<1>1. /\ Typed /\ WireTyped /\ OriginTyped /\ ReplicaTyped /\ RolesInStep
      /\ Conversation /\ Turns /\ Stages /\ OneByOne /\ Exchanging /\ Committing
      /\ CountersNameRanges /\ FailuresTold /\ Tallies /\ WalChecked
      /\ rs \in [Sides -> Structs]
    BY DEF SyncInductive, Typed
<1> DEFINE m == Head(Incoming("replica"))
           image == ForReplica(m.pgno, m.data, jMode = 2)
<1>2. /\ Receives("replica", "ORIGIN_PAGE") /\ chan' = Consumed("replica") /\ ReadOn
      /\ rs' = [rs EXCEPT !["replica"].pageUpdates = @ + 1] /\ faults' = faults
      /\ origin' = origin /\ snap' = snap
      /\ iHash' = iHash /\ nHash' = nHash /\ mxHash' = mxHash
      /\ badHash' = badHash /\ hashed' = hashed
      /\ file' = file /\ fileSize' = fileSize /\ nRPage' = nRPage
      /\ work' = InsertPage(work, m.pgno, image)
      /\ sendHash' = sendHash /\ jMode' = jMode /\ pIns' = TRUE
      /\ pc' = pc /\ ret' = ret /\ linkUp' = linkUp
    BY DEF OnOriginPage, originVars, exchange, ReadOn
<1> HIDE DEF m
<1>3. /\ rs' \in [Sides -> Structs] /\ rs'["origin"] = rs["origin"]
      /\ rs'["replica"].protocol = rs["replica"].protocol
      /\ rs'["replica"].walOnly = rs["replica"].walOnly
      /\ rs'["replica"].commCheck = rs["replica"].commCheck
      /\ rs'["replica"].pageSize = rs["replica"].pageSize
      /\ rs'["replica"].pageCount = rs["replica"].pageCount
      /\ rs'["replica"].hashMessages = rs["replica"].hashMessages
      /\ rs'["replica"].hashRounds = rs["replica"].hashRounds
      /\ rs'["replica"].pageUpdates = rs["replica"].pageUpdates + 1
      /\ rs["replica"].pageUpdates \in Nat /\ rs["origin"].pageUpdates \in Nat
    <2>1. rs["replica"] \in Structs /\ rs["origin"] \in Structs
        BY <1>1 DEF Sides
    <2>2. rs["replica"].pageUpdates \in Nat /\ rs["origin"].pageUpdates \in Nat
        BY <2>1 DEF Structs
    <2> DEFINE o == [rs["replica"] EXCEPT !.pageUpdates = @ + 1]
    <2>3. o \in Structs
        BY <2>1, <2>2 DEF Structs
    <2>4. /\ o.protocol = rs["replica"].protocol /\ o.walOnly = rs["replica"].walOnly
          /\ o.commCheck = rs["replica"].commCheck /\ o.pageSize = rs["replica"].pageSize
          /\ o.pageCount = rs["replica"].pageCount
          /\ o.hashMessages = rs["replica"].hashMessages
          /\ o.hashRounds = rs["replica"].hashRounds
          /\ o.pageUpdates = rs["replica"].pageUpdates + 1
        BY <2>1 DEF Structs
    <2>5. rs' = [rs EXCEPT !["replica"] = o]
        BY <1>1, <1>2 DEF Sides
    <2> HIDE DEF o
    <2> QED
        BY <1>1, <2>2, <2>3, <2>4, <2>5 DEF Sides
<1>4. /\ SameOptions /\ \A s \in Sides : rs'[s].commCheck = rs[s].commCheck
    BY <1>3 DEF SameOptions, Sides
<1>5. /\ WireTyped' /\ RolesInStep'
      /\ pc["replica"] = "read" /\ ret["replica"] = "none" /\ ~rs["replica"].commCheck
      /\ FromOrigin # <<>> /\ Head(FromOrigin) = m
      /\ m.type = "ORIGIN_PAGE" /\ FromOrigin' = Tail(FromOrigin)
      /\ FromReplica' = FromReplica
    BY <1>1, <1>2, <1>4, ReplicaTakes DEF m
<1>6. /\ FromReplica = <<>>
      /\ m \in OriginMessages /\ Truthful(m)
      /\ InOrder(FromOrigin')
      /\ \A types : Has(FromOrigin, types) <=> "ORIGIN_PAGE" \in types \/ Has(FromOrigin', types)
      /\ \A k \in DOMAIN FromOrigin' :
            /\ k \in Nat /\ k + 1 \in DOMAIN FromOrigin /\ FromOrigin'[k] = FromOrigin[k + 1]
            /\ FromOrigin'[k] \in OriginMessages /\ Truthful(FromOrigin'[k])
            /\ Precedes("ORIGIN_PAGE", FromOrigin'[k].type)
    BY <1>5, ReplicaHears
<1>7. Has(FromOrigin, {"ORIGIN_DETAIL", "ORIGIN_READY", "ORIGIN_PAGE", "ORIGIN_TXN"})
    BY <1>6
<1>8. Rounds > 0 /\ work # <<>> /\ pc["origin"] # "start"
    BY <1>1, <1>7 DEF Exchanging, Stages
<1>9. /\ work' \in Seq(Image) /\ Len(work') <= Modulus - 2 /\ work' # <<>>
    <2>1. /\ m.pgno \in 1 .. Len(snap) /\ m.data = snap[m.pgno]
        BY <1>5, <1>6 DEF Truthful
    <2>2. snap \in Seq(Image) /\ Len(snap) <= Modulus - 2 /\ Len(snap) \in Nat
        BY <1>1, SnapIs
    <2>3. /\ work \in Seq(Image) /\ Len(work) <= Modulus - 2
          /\ m.pgno \in Nat \ {0} /\ m.pgno <= Modulus - 2 /\ m.data \in Image
        BY <1>1, <2>1, <2>2, RsyncAssumption DEF ReplicaTyped
    <2>4. image \in Image
        <3>1. (jMode = 2) \in BOOLEAN
            OBVIOUS
        <3> QED
            BY <2>3, <3>1, ForReplicaIs
    <2> HIDE DEF image
    <2>5. IsInsertion(InsertPage(work, m.pgno, image), work, m.pgno, image)
        BY <2>3, <2>4, InsertPageIs
    <2>6. work' \in Seq(Image) /\ Len(work') = Larger(Len(work), m.pgno)
        BY <1>2, <2>5 DEF IsInsertion
    <2>7. Len(work') <= Modulus - 2 /\ Len(work') # 0
        BY <2>3, <2>6, RsyncAssumption DEF Larger
    <2> QED
        BY <2>6, <2>7
<1>10. /\ Rounds' = Rounds /\ ~HasCommitted' /\ ~HasCommitted
       /\ (TransactionOpen' <=> TransactionOpen)
    BY <1>2, <1>3, <1>8, <1>9 DEF Rounds, HasCommitted, TransactionOpen
<1>11. /\ DOMAIN FromReplica' = {} /\ InOrder(FromReplica')
       /\ \A types : ~Has(FromReplica', types)
       /\ HashesIn(FromReplica') = {} /\ FromReplica' = <<>>
    BY <1>5, <1>6, HasNothing DEF InOrder, HashesIn
<1>12. /\ ~Has(FromOrigin', {"ORIGIN_BEGIN"})
       /\ ~Has(FromOrigin', {"ORIGIN_DETAIL", "ORIGIN_READY"})
    BY <1>6 DEF Has, Precedes
<1>13. Typed'
    <2>1. ReplicaTyped'
        BY <1>1, <1>2, <1>9 DEF ReplicaTyped
    <2>2. OriginTyped' /\ faults' \in Nat
        BY <1>1, <1>2 DEF OriginTyped, Typed
    <2> QED
        BY <1>3, <1>5, <2>1, <2>2 DEF Typed
<1>14. Conversation'
    BY <1>2, <1>3, <1>6, <1>11 DEF Conversation, Truthful
<1>15. Turns'
    <2>1. Has(FromOrigin', {"ORIGIN_ERROR"}) => ret'["origin"] \notin {"none", "nil"}
        BY <1>1, <1>2, <1>6 DEF Turns
    <2>2. \A k \in DOMAIN FromOrigin' :
            IF rs'["origin"].commCheck THEN FromOrigin'[k].type \in {"ORIGIN_MSG", "ORIGIN_END"}
            ELSE FromOrigin'[k].type # "ORIGIN_MSG"
        BY <1>1, <1>3, <1>6 DEF Turns
    <2> QED
        BY <1>11, <2>1, <2>2 DEF Turns
<1>16. Agreed' /\ Stages'
    <2>1. Agreed'
        BY <1>1, <1>2, <1>3, <1>8 DEF Stages, Agreed
    <2> QED
        BY <1>1, <1>2, <1>3, <1>5, <1>8, <1>10, <1>11, <1>12, <2>1 DEF Stages
<1>17. OneByOne'
    BY <1>1, <1>2, <1>3, <1>10, <1>11, <1>12 DEF OneByOne
<1>18. Exchanging' /\ Committing'
    <2>1. Exchanging'
        BY <1>1, <1>2, <1>9, <1>10, <1>8, <1>11, <1>12 DEF Exchanging
    <2>2. Has(FromOrigin', {"ORIGIN_END"}) /\ ~rs["origin"].commCheck
            => Has(FromOrigin', {"ORIGIN_TXN"})
        BY <1>1, <1>5, <1>6, <1>10 DEF Committing
    <2> QED
        BY <1>3, <1>10, <2>1, <2>2 DEF Committing
<1>19. CountersNameRanges'
    BY <1>11, NoHashNamesRanges DEF CountersNameRanges
<1>20. FailuresTold'
    <2> SUFFICES ASSUME Regular' PROVE FailuresTold'
        BY DEF FailuresTold
    <2>1. Regular
        BY <1>2, <1>4 DEF Regular, Sides
    <2> QED
        BY <1>1, <1>2, <1>5, <1>6, <2>1 DEF FailuresTold
<1>21. Tallies'
    <2>1. \A k \in DOMAIN FromOrigin' : FromOrigin'[k].type = "ORIGIN_TXN" =>
            rs'["origin"].pageUpdates = rs'["replica"].pageUpdates + (k - 1)
        <3> SUFFICES ASSUME NEW k \in DOMAIN FromOrigin', FromOrigin'[k].type = "ORIGIN_TXN"
                     PROVE  rs'["origin"].pageUpdates = rs'["replica"].pageUpdates + (k - 1)
            OBVIOUS
        <3>1. k \in Nat /\ rs["origin"].pageUpdates = rs["replica"].pageUpdates + ((k + 1) - 1)
            BY <1>1, <1>6 DEF Tallies
        <3> QED
            BY <1>3, <3>1
    <2>2. Rounds = rs["origin"].hashRounds
        BY <1>1, <1>7 DEF Tallies
    <2>3. rs'["origin"].hashMessages + Cardinality(HashesIn(FromReplica'))
            <= rs'["replica"].hashMessages
        BY <1>1, <1>3, <1>5 DEF Tallies
    <2> QED
        BY <1>3, <1>10, <1>11, <1>12, <2>1, <2>2, <2>3 DEF Tallies
<1>22. WalChecked'
    BY <1>1, <1>2, <1>3, <1>5, <1>8 DEF WalChecked
<1> QED
    BY <1>5, <1>13, <1>14, <1>15, <1>16, <1>17, <1>18, <1>19, <1>20, <1>21, <1>22
       DEF SyncInductive

\* The commit: the truncated and stamped file is still one whose pages a
\* counter can number.
LEMMA CommittedIs ==
    ASSUME ReplicaTyped, NEW n \in Nat, NEW c \in Nat
    PROVE  /\ Committed(file, work, pIns, n, c) \in Seq(Image)
           /\ Len(Committed(file, work, pIns, n, c)) <= Modulus - 2
<1>1. work \in Seq(Image) /\ Len(work) <= Modulus - 2 /\ Len(work) \in Nat
    BY DEF ReplicaTyped
<1>2. CASE pIns
    <2> DEFINE cut == Truncate(work, n)
    <2>1. cut \in Seq(Image) /\ Len(cut) = Smaller(n, Len(work))
        BY <1>1, TruncateIs
    <2>2. Len(cut) <= Len(work) /\ Len(cut) \in Nat
        BY <1>1, <2>1 DEF Smaller
    <2> HIDE DEF cut
    <2>3. Stamp(cut, c) \in Seq(Image) /\ Len(Stamp(cut, c)) = Len(cut)
        BY <2>1, StampIs
    <2>4. Committed(file, work, pIns, n, c) = Stamp(cut, c)
        BY <1>2 DEF Committed, cut
    <2> QED
        BY <1>1, <2>2, <2>3, <2>4, RsyncAssumption
<1>3. CASE ~pIns
    <2>1. Stamp(work, c) \in Seq(Image) /\ Len(Stamp(work, c)) = Len(work)
        BY <1>1, StampIs
    <2> QED
        BY <1>1, <1>3, <2>1 DEF Committed
<1> QED
    BY <1>2, <1>3

LEMMA OnOriginTxnKeeps ==
    ASSUME SyncInductive, OnOriginTxn, UNCHANGED originVars
    PROVE  SyncInductive'
<1>1. /\ Typed /\ WireTyped /\ OriginTyped /\ ReplicaTyped /\ RolesInStep
      /\ Conversation /\ Turns /\ Stages /\ OneByOne /\ Exchanging /\ Committing
      /\ CountersNameRanges /\ FailuresTold /\ Tallies /\ WalChecked
      /\ rs \in [Sides -> Structs]
    BY DEF SyncInductive, Typed
<1> DEFINE m == Head(Incoming("replica"))
<1>2. /\ Receives("replica", "ORIGIN_TXN") /\ chan' = Consumed("replica") /\ ReadOn
      /\ \E c \in Counters : file' = Committed(file, work, pIns, m.pageCount, c)
      /\ rs' = IF pIns THEN [rs EXCEPT !["replica"].pageCount = m.pageCount] ELSE rs
      /\ faults' = faults /\ origin' = origin /\ snap' = snap
      /\ iHash' = iHash /\ nHash' = nHash /\ mxHash' = mxHash
      /\ badHash' = badHash /\ hashed' = hashed
      /\ nRPage' = nRPage /\ work' = <<>>
      /\ sendHash' = sendHash /\ jMode' = jMode /\ pIns' = pIns
      /\ pc' = pc /\ ret' = ret /\ linkUp' = linkUp
    BY DEF OnOriginTxn, originVars, exchange, ReadOn
<1> HIDE DEF m
<1>3. rs'["origin"] = rs["origin"]
      /\ rs'["replica"].protocol = rs["replica"].protocol
      /\ rs'["replica"].walOnly = rs["replica"].walOnly
      /\ rs'["replica"].commCheck = rs["replica"].commCheck
      /\ rs'["replica"].pageSize = rs["replica"].pageSize
      /\ rs'["replica"].hashMessages = rs["replica"].hashMessages
      /\ rs'["replica"].hashRounds = rs["replica"].hashRounds
      /\ rs'["replica"].pageUpdates = rs["replica"].pageUpdates
      /\ rs'["replica"].pageCount \in {rs["replica"].pageCount, m.pageCount}
      /\ (m.pageCount \in Nat => rs' \in [Sides -> Structs])
    <2>1. CASE ~pIns
        BY <1>1, <1>2, <2>1
    <2>2. CASE pIns
        <3>1. rs["replica"] \in Structs
            BY <1>1 DEF Sides
        <3> DEFINE o == [rs["replica"] EXCEPT !.pageCount = m.pageCount]
        <3>2. m.pageCount \in Nat => o \in Structs
            BY <3>1 DEF Structs
        <3>3. /\ o.protocol = rs["replica"].protocol /\ o.walOnly = rs["replica"].walOnly
              /\ o.commCheck = rs["replica"].commCheck /\ o.pageSize = rs["replica"].pageSize
              /\ o.pageCount = m.pageCount
              /\ o.hashMessages = rs["replica"].hashMessages
              /\ o.hashRounds = rs["replica"].hashRounds
              /\ o.pageUpdates = rs["replica"].pageUpdates
            BY <3>1 DEF Structs
        <3>4. rs' = [rs EXCEPT !["replica"] = o]
            BY <1>1, <1>2, <2>2 DEF Sides
        <3> HIDE DEF o
        <3> QED
            BY <1>1, <3>2, <3>3, <3>4 DEF Sides
    <2> QED
        BY <2>1, <2>2
<1>4. /\ SameOptions /\ \A s \in Sides : rs'[s].commCheck = rs[s].commCheck
    BY <1>3 DEF SameOptions, Sides
<1>5. /\ WireTyped' /\ RolesInStep'
      /\ pc["replica"] = "read" /\ ret["replica"] = "none" /\ ~rs["replica"].commCheck
      /\ FromOrigin # <<>> /\ Head(FromOrigin) = m
      /\ m.type = "ORIGIN_TXN" /\ FromOrigin' = Tail(FromOrigin)
      /\ FromReplica' = FromReplica
    BY <1>1, <1>2, <1>4, ReplicaTakes DEF m
<1>6. /\ FromReplica = <<>>
      /\ m \in OriginMessages /\ Truthful(m)
      /\ InOrder(FromOrigin')
      /\ \A types : Has(FromOrigin, types) <=> "ORIGIN_TXN" \in types \/ Has(FromOrigin', types)
      /\ \A k \in DOMAIN FromOrigin' :
            /\ k \in Nat /\ k + 1 \in DOMAIN FromOrigin /\ FromOrigin'[k] = FromOrigin[k + 1]
            /\ FromOrigin'[k] \in OriginMessages /\ Truthful(FromOrigin'[k])
            /\ Precedes("ORIGIN_TXN", FromOrigin'[k].type)
      /\ 1 \in DOMAIN FromOrigin /\ FromOrigin[1] = m
    BY <1>5, ReplicaHears
<1>7. /\ \A k \in DOMAIN FromOrigin' : FromOrigin'[k].type = "ORIGIN_END"
      /\ \A types : Has(FromOrigin', types) => "ORIGIN_END" \in types
    BY <1>6 DEF Precedes, Has
<1>8. Rounds > 0 /\ work # <<>> /\ pc["origin"] # "start"
    <2>1. Has(FromOrigin, {"ORIGIN_DETAIL", "ORIGIN_READY", "ORIGIN_PAGE", "ORIGIN_TXN"})
        BY <1>6
    <2> QED
        BY <1>1, <2>1 DEF Exchanging, Stages
<1>9. m.pageCount = Len(snap) /\ Len(snap) \in Nat
    BY <1>1, <1>5, <1>6, SnapIs DEF Truthful
<1>10. /\ rs' \in [Sides -> Structs] /\ Rounds' = Rounds /\ HasCommitted' /\ ~HasCommitted
       /\ ~TransactionOpen'
    BY <1>2, <1>3, <1>8, <1>9 DEF Rounds, HasCommitted, TransactionOpen
<1>11. /\ DOMAIN FromReplica' = {} /\ InOrder(FromReplica')
       /\ \A types : ~Has(FromReplica', types)
       /\ HashesIn(FromReplica') = {} /\ FromReplica' = <<>>
    BY <1>5, <1>6, HasNothing DEF InOrder, HashesIn
<1>12. Typed'
    <2>1. file' \in Seq(Image) /\ Len(file') <= Modulus - 2
        BY <1>1, <1>2, <1>9, CommittedIs, PagesAssumption
    <2>2. work' \in Seq(Image) /\ Len(work') <= Modulus - 2
        BY <1>2, RsyncAssumption
    <2>3. ReplicaTyped'
        BY <1>1, <1>2, <2>1, <2>2 DEF ReplicaTyped
    <2>4. OriginTyped' /\ faults' \in Nat
        BY <1>1, <1>2 DEF OriginTyped, Typed
    <2> QED
        BY <1>5, <1>10, <2>3, <2>4 DEF Typed
<1>13. Conversation'
    BY <1>2, <1>3, <1>6, <1>11 DEF Conversation, Truthful
<1>14. Turns'
    <2>1. \A k \in DOMAIN FromOrigin' :
            IF rs'["origin"].commCheck THEN FromOrigin'[k].type \in {"ORIGIN_MSG", "ORIGIN_END"}
            ELSE FromOrigin'[k].type # "ORIGIN_MSG"
        BY <1>7
    <2> QED
        BY <1>7, <1>11, <2>1 DEF Turns
<1>15. Agreed' /\ Stages'
    <2>1. Agreed
        BY <1>1, <1>8 DEF Stages
    <2>2. Agreed'
        BY <1>2, <1>3, <1>9, <2>1 DEF Agreed
    <2> QED
        BY <1>1, <1>2, <1>3, <1>5, <1>7, <1>8, <1>10, <1>11, <2>2 DEF Stages
<1>16. OneByOne'
    BY <1>1, <1>2, <1>3, <1>7, <1>10, <1>11 DEF OneByOne
<1>17. Exchanging' /\ Committing'
    BY <1>2, <1>7, <1>10, <1>11 DEF Exchanging, Committing
<1>18. CountersNameRanges'
    BY <1>11, NoHashNamesRanges DEF CountersNameRanges
<1>19. FailuresTold'
    <2> SUFFICES ASSUME Regular' PROVE FailuresTold'
        BY DEF FailuresTold
    <2>1. Regular
        BY <1>2, <1>4 DEF Regular, Sides
    <2>2. ~Has(FromOrigin, {"ORIGIN_ERROR"})
        BY <1>6, <1>7
    <2> QED
        BY <1>1, <1>2, <1>5, <2>1, <2>2 DEF FailuresTold
<1>20. Tallies'
    <2>1. rs["origin"].pageUpdates = rs["replica"].pageUpdates + (1 - 1)
        BY <1>1, <1>5, <1>6 DEF Tallies
    <2>2. rs["replica"].pageUpdates \in Nat
        BY <1>1 DEF Structs, Sides
    <2>3. rs'["origin"].pageUpdates = rs'["replica"].pageUpdates
        BY <1>3, <2>1, <2>2
    <2>4. Rounds = rs["origin"].hashRounds
        BY <1>1, <1>6 DEF Tallies
    <2>5. rs'["origin"].hashMessages + Cardinality(HashesIn(FromReplica'))
            <= rs'["replica"].hashMessages
        BY <1>1, <1>3, <1>5 DEF Tallies
    <2> QED
        BY <1>3, <1>7, <1>10, <1>11, <2>3, <2>4, <2>5 DEF Tallies
<1>21. WalChecked'
    BY <1>2, <1>5 DEF WalChecked
<1> QED
    BY <1>5, <1>12, <1>13, <1>14, <1>15, <1>16, <1>17, <1>18, <1>19, <1>20, <1>21
       DEF SyncInductive

(***************************************************************************)
(* Every step of the replica.                                              *)
(***************************************************************************)

LEMMA ReplicaKeeps ==
    ASSUME SyncInductive, ReplicaRuns
    PROVE  SyncInductive'
<1> USE DEF ReplicaRuns
<1>1. ASSUME ReplicaCommCheck PROVE SyncInductive'
    BY <1>1, ReplicaCommCheckKeeps
<1>2. ASSUME ReplicaStart PROVE SyncInductive'
    BY <1>2, ReplicaStartKeeps
<1>3. ASSUME OnOriginMsg PROVE SyncInductive'
    BY <1>3, OnOriginMsgKeeps
<1>4. ASSUME OnOriginEnd PROVE SyncInductive'
    BY <1>4, ReplicaEndsKeeps DEF OnOriginEnd
<1>5. ASSUME OnOriginError PROVE SyncInductive'
    BY <1>5, ReplicaEndsKeeps DEF OnOriginError
<1>6. ASSUME OnOriginBeginTooNew PROVE SyncInductive'
    BY <1>6, OnOriginBeginTooNewKeeps
<1>7. ASSUME OnOriginBegin PROVE SyncInductive'
    BY <1>7, OnOriginBeginKeeps
<1>8. ASSUME OpenTransaction PROVE SyncInductive'
    BY <1>8, OpenTransactionKeeps
<1>9. ASSUME OpenTransactionFails PROVE SyncInductive'
    BY <1>9, OpenTransactionFailsKeeps
<1>10. ASSUME OnOriginDetail PROVE SyncInductive'
    BY <1>10, OnOriginDetailKeeps
<1>11. ASSUME OnOriginReady PROVE SyncInductive'
    BY <1>11, OnOriginReadyKeeps
<1>12. ASSUME OnOriginReadyFails PROVE SyncInductive'
    BY <1>12, OnOriginReadyFailsKeeps
<1>13. ASSUME OnOriginPage PROVE SyncInductive'
    BY <1>13, OnOriginPageKeeps
<1>14. ASSUME OnOriginPageFails PROVE SyncInductive'
    BY <1>14, OnOriginPageFailsKeeps
<1>15. ASSUME OnOriginTxn PROVE SyncInductive'
    BY <1>15, OnOriginTxnKeeps
<1>16. ASSUME OnOriginTxnFails PROVE SyncInductive'
    BY <1>16, OnOriginTxnFailsKeeps
<1> QED
    BY <1>1, <1>2, <1>3, <1>4, <1>5, <1>6, <1>7, <1>8, <1>9, <1>10, <1>11, <1>12, <1>13,
       <1>14, <1>15, <1>16
       DEF ReplicaStep

-----------------------------------------------------------------------------

(***************************************************************************)
(* The invariant.                                                          *)
(***************************************************************************)

LEMMA StutterKeeps ==
    ASSUME SyncInductive, UNCHANGED vars
    PROVE  SyncInductive'
<1>1. /\ out' = out /\ chan' = chan /\ pc' = pc /\ ret' = ret /\ linkUp' = linkUp
      /\ closed' = closed /\ rs' = rs /\ faults' = faults
      /\ UNCHANGED <<rs, originVars, replicaVars>>
    BY DEF vars, wire
<1>2. /\ WireTyped /\ RolesInStep /\ FailuresTold /\ faults \in Nat
    BY DEF SyncInductive, Typed
<1>3. \A x \in Sides : InFlight(x)' = InFlight(x)
    BY <1>1 DEF InFlight
<1>4. WireTyped' /\ RolesInStep'
    BY <1>1, <1>2 DEF WireTyped, RolesInStep
<1>5. FailuresTold' /\ Cut
    BY <1>1, <1>2, <1>3, SameTold, NothingCut
<1> QED
    BY <1>1, <1>2, <1>4, <1>5, CutShrinks

\* What a step of a run and a step of a sequence of runs have in common.
LEMMA StepKeeps ==
    ASSUME SyncInductive,
           \/ OriginRuns \/ ReplicaRuns
           \/ \E s \in Sides :
               StreamRuns(s) \/ Kill(s) \/ Cancel(s) \/ Cancelled(s) \/ Unregistered(s)
           \/ LinkFault
           \/ OriginWrite /\ UNCHANGED replicaVars
           \/ ReplicaWrite /\ UNCHANGED originVars
    PROVE  SyncInductive'
<1>1. CASE \E s \in Sides :
            StreamRuns(s) \/ Kill(s) \/ Cancel(s) \/ Cancelled(s) \/ Unregistered(s)
    BY <1>1, StreamKeeps, KillKeeps, CancelKeeps, CancelledKeeps, UnregisteredKeeps
<1>2. CASE OriginWrite /\ UNCHANGED replicaVars
    BY <1>2, OriginWriteKeeps
<1>3. CASE ReplicaWrite /\ UNCHANGED originVars
    BY <1>3, ReplicaWriteKeeps
<1> QED
    BY <1>1, <1>2, <1>3, OriginKeeps, ReplicaKeeps, LinkFaultKeeps

LEMMA NextKeeps == SyncInductive /\ [Next]_vars => SyncInductive'
    BY StepKeeps, StutterKeeps DEF Next

LEMMA ResyncsKeep == SyncInductive /\ [Resyncs]_vars => SyncInductive'
    BY StepKeeps, StutterKeeps, NextRunKeeps DEF Resyncs, NextVersion

\* The inductive invariant of a run: who may be saying what to whom, and what
\* each side's state owes to what the other has still to read.
THEOREM RunIsInductive == Spec => []SyncInductive
    BY InitIsInductive, NextKeeps, PTL DEF Spec

\* The same of one run after another over the same two files.
THEOREM ResyncIsInductive == ResyncSpec => []SyncInductive
    BY InitIsInductive, ResyncsKeep, PTL DEF ResyncSpec

(***************************************************************************)
(* What the invariant says of every state.                                 *)
(***************************************************************************)

LEMMA WellTyped == SyncInductive => TypeOK
<1> SUFFICES ASSUME SyncInductive PROVE TypeOK
    OBVIOUS
<1>1. WireTyped /\ OriginTyped /\ ReplicaTyped /\ RolesInStep /\ rs \in [Sides -> Structs]
    BY DEF SyncInductive, Typed
<1>2. ASSUME NEW s \in Sides
      PROVE  /\ pc[s] \in {"start", "read", "write", "sql", "done"}
             /\ ret[s] \in {"none", "nil", "error", "cancelled", "killed", "unregistered"}
             /\ pc[s] = "done" => ret[s] # "none"
             /\ rs[s].protocol \in 1 .. ProtocolVersion
             /\ Capacity > 0 => Len(chan[s]) <= Capacity
    BY <1>1 DEF WireTyped, RolesInStep, Structs
<1>3. iHash \in 0 .. Modulus - 1 /\ mxHash \in 0 .. Modulus - 1 /\ jMode \in 0 .. 2
    BY <1>1 DEF OriginTyped, ReplicaTyped
<1>4. /\ badHash \subseteq (Nat \ {0}) \X (Nat \ {0})
      /\ sendHash \subseteq (Nat \ {0}) \X (Nat \ {0})
    BY <1>1 DEF OriginTyped, ReplicaTyped, Bounded, PageRange
<1> QED
    BY <1>2, <1>3, <1>4 DEF TypeOK

LEMMA CountersName == SyncInductive => HashesNameTheirRange
<1> SUFFICES ASSUME SyncInductive, TransactionOpen, ret["origin"] = "none",
                    NEW d \in Decoded(FromReplica)
             PROVE  d.hash = HashOf(work, d.range[1], d.range[2])
    BY DEF HashesNameTheirRange, FromReplica
<1> DEFINE at == Positions(FromReplica, <<iHash, nHash>>)
<1>1. PICK k \in HashesIn(FromReplica) : d = [range |-> at[k - 1], hash |-> FromReplica[k].hash]
    BY DEF Decoded
<1>2. NamesRanges(FromReplica, <<iHash, nHash>>, work) /\ work # <<>>
    BY DEF SyncInductive, CountersNameRanges, TransactionOpen
<1>3. FromReplica[k].hash = HashOf(work, at[k - 1][1], at[k - 1][2])
    BY <1>2 DEF NamesRanges
<1> QED
    BY <1>1, <1>3

\* What a role reads next is the first word of its peer in flight.
LEMMA Heard ==
    ASSUME WireTyped, NEW s \in Sides, NEW type, Receives(s, type)
    PROVE  LET msgs == InFlight(Peer(s)) IN
           msgs # <<>> /\ Head(msgs).type = type /\ Has(msgs, {type})
<1> DEFINE c == chan[Peer(s)]
           o == out[Peer(s)]
           both == c \o o
<1>1. c \in Seq(Message) /\ o \in Seq(Message) /\ c # <<>> /\ Head(c).type = type
    BY DEF WireTyped, Receives, Incoming, Sides, Peer
<1>2. InFlight(Peer(s)) = both \/ InFlight(Peer(s)) = c
    BY DEF InFlight
<1> HIDE DEF c, o
<1>3. both \in Seq(Message) /\ both # <<>> /\ Head(both) = Head(c)
    BY <1>1, ConcatHeadTail
<1> HIDE DEF both
<1>4. ASSUME NEW m \in Seq(Message), m # <<>>, Head(m).type = type
      PROVE  Has(m, {type})
    BY <1>4, HasTail
<1> QED
    BY <1>1, <1>2, <1>3, <1>4

LEMMA HashesPrecedeReady == SyncInductive => ReadyAfterHash
<1> SUFFICES ASSUME SyncInductive, Receives("origin", "REPLICA_READY") PROVE hashed
    BY DEF ReadyAfterHash
<1>1. WireTyped /\ RolesInStep /\ Conversation /\ Exchanging
    BY DEF SyncInductive, Typed
<1>2. "origin" \in Sides /\ Peer("origin") = "replica"
    BY DEF Sides, Peer
<1>3. /\ ret["origin"] = "none"
      /\ FromReplica # <<>> /\ Head(FromReplica).type = "REPLICA_READY"
    BY <1>1, <1>2, Heard DEF FromReplica, Receives, RolesInStep
<1>4. FromReplica \in Seq(Message) /\ InOrder(FromReplica)
    BY <1>1, Conversing
<1>5. \A types : Has(FromReplica, types) <=> "REPLICA_READY" \in types
    <2>1. \A t : ~Precedes("REPLICA_READY", t)
        BY LastWords
    <2> DEFINE msgs == FromReplica
    <2>2. /\ msgs \in Seq(Message) /\ InOrder(msgs) /\ msgs # <<>>
          /\ Head(msgs).type = "REPLICA_READY"
        BY <1>3, <1>4
    <2> HIDE DEF msgs
    <2>3. \A types : Has(msgs, types) <=> "REPLICA_READY" \in types
        BY <2>1, <2>2, OnlyWord
    <2> QED
        BY <2>3 DEF msgs
<1> QED
    BY <1>1, <1>3, <1>5 DEF Exchanging

LEMMA ProtocolsAgree == SyncInductive => OlderProtocolWins
<1> SUFFICES ASSUME SyncInductive, TransactionOpen
             PROVE  /\ rs["origin"].protocol = rs["replica"].protocol
                    /\ rs["replica"].protocol = 1 =>
                         /\ ~Has(FromReplica, {"REPLICA_CONFIG"})
                         /\ ~Has(FromOrigin, {"ORIGIN_DETAIL", "ORIGIN_READY"})
    BY DEF OlderProtocolWins, FromReplica, FromOrigin
<1>1. Rounds > 0
    BY DEF SyncInductive, Exchanging, TransactionOpen
<1> QED
    BY <1>1 DEF SyncInductive, Stages, Agreed, OneByOne

LEMMA TalliesMeet == SyncInductive => StatsAgree
<1> SUFFICES ASSUME SyncInductive, BothReturned("nil"), HasCommitted
             PROVE  /\ rs["origin"].hashRounds = rs["replica"].hashRounds
                    /\ rs["origin"].pageUpdates = rs["replica"].pageUpdates
                    /\ rs["origin"].hashMessages <= rs["replica"].hashMessages
                    /\ rs["replica"].pageCount = rs["origin"].pageCount
    BY DEF StatsAgree
<1>1. Typed /\ WireTyped /\ Stages /\ Tallies /\ Conversation
    BY DEF SyncInductive, Typed
<1>2. Rounds > 0 /\ ret["replica"] = "nil"
    BY DEF HasCommitted, BothReturned, Sides
<1>3. Agreed /\ rs["origin"].pageCount = Len(snap)
    BY <1>1, <1>2 DEF Stages, Agreed
<1>4. rs["origin"].hashMessages <= rs["replica"].hashMessages
    <2>1. FromReplica \in Seq(Message)
        BY <1>1, Conversing
    <2> DEFINE n == Cardinality(HashesIn(FromReplica))
    <2>2. n \in Nat
        BY <2>1, HashesFinite
    <2>3. rs["origin"].hashMessages + n <= rs["replica"].hashMessages
        BY <1>1, <1>2 DEF Tallies
    <2>4. rs["origin"].hashMessages \in Nat /\ rs["replica"].hashMessages \in Nat
        BY <1>1 DEF Typed, Structs, Sides
    <2> HIDE DEF n
    <2> QED
        BY <2>2, <2>3, <2>4
<1> QED
    BY <1>1, <1>3, <1>4 DEF Tallies, Agreed, Rounds

LEMMA FailuresMeet == SyncInductive => NoOneSidedFailure
<1> SUFFICES ASSUME SyncInductive, linkUp,
                    \A s \in Sides :
                        /\ pc[s] = "done" /\ ~rs[s].commCheck
                        /\ ret[s] \notin {"killed", "cancelled", "unregistered"}
             PROVE  (ret["origin"] = "nil") = (ret["replica"] = "nil")
    BY DEF NoOneSidedFailure
<1>1. Regular
    BY DEF Regular
<1>2. \A s \in Sides : ret[s] \in {"nil", "error"}
    BY DEF SyncInductive, Typed, WireTyped, RolesInStep
<1> QED
    BY <1>1, <1>2 DEF SyncInductive, FailuresTold, Sides

LEMMA CommittedFirst == SyncInductive => SuccessIsCommit
<1> SUFFICES ASSUME SyncInductive, linkUp, BothReturned("nil"), \A s \in Sides : ~rs[s].commCheck
             PROVE  HasCommitted
    BY DEF SuccessIsCommit
<1>1. Regular
    BY DEF Regular, BothReturned
<1> QED
    BY <1>1 DEF SyncInductive, FailuresTold, BothReturned, Sides

(***************************************************************************)
(* What the invariant says of every step.                                  *)
(***************************************************************************)

\* While the transaction is open, only its commit changes the file.
LEMMA OnlyTheCommit ==
    ASSUME SyncInductive, [Next]_vars \/ [Resyncs]_vars, TransactionOpen, file' # file
    PROVE  OnOriginTxn
<1>1. CASE ReplicaRuns
    BY <1>1 DEF ReplicaRuns, ReplicaStep, replicaVars, ReplicaCommCheck, ReplicaStart,
                OnOriginMsg, OnOriginEnd, OnOriginError, OnOriginBeginTooNew, OnOriginBegin,
                OpenTransaction, OpenTransactionFails, OnOriginDetail, OnOriginReady,
                OnOriginReadyFails, OnOriginPage, OnOriginPageFails, OnOriginTxnFails
<1>2. ~(UNCHANGED replicaVars) /\ ~(UNCHANGED vars) /\ ~ReplicaWrite /\ ~NextRun
    BY DEF vars, replicaVars, ReplicaWrite, NextRun
<1>3. ReplicaRuns
    <2>1. UNCHANGED vars => UNCHANGED replicaVars
        BY DEF vars
    <2>2. \A s \in Sides : ~(\/ StreamRuns(s) \/ Kill(s) \/ Cancel(s)
                             \/ Cancelled(s) \/ Unregistered(s))
        BY <1>2 DEF StreamRuns, Kill, Cancel, Cancelled, Unregistered
    <2>3. ~OriginRuns /\ ~LinkFault /\ ~NextVersion
        BY <1>2 DEF OriginRuns, LinkFault, NextVersion
    <2> QED
        BY <1>2, <2>1, <2>2, <2>3 DEF Next, Resyncs
<1> QED
    BY <1>1, <1>3

LEMMA PageSizeStays ==
    ASSUME SyncInductive, [Next]_vars \/ [Resyncs]_vars, TransactionOpen, file' # file
    PROVE  fileSize' = OriginPageSize /\ (file # <<>> => fileSize' = fileSize)
<1>1. OnOriginTxn
    BY OnlyTheCommit
<1>2. Rounds > 0
    BY DEF SyncInductive, Exchanging, TransactionOpen
<1>3. rs["replica"].pageSize = OriginPageSize /\ (file # <<>> => fileSize = OriginPageSize)
    BY <1>2 DEF SyncInductive, Stages, Agreed, Exchanging
<1> QED
    BY <1>1, <1>3 DEF OnOriginTxn, PageSizeInUse

\* A file of another page size is never written.
THEOREM RunKeepsPageSize == Spec => PageSizeKept
<1>1. SyncInductive /\ [Next]_vars
        => (TransactionOpen /\ file' # file
              => fileSize' = OriginPageSize /\ (file # <<>> => fileSize' = fileSize))
    BY PageSizeStays
<1> QED
    BY <1>1, RunIsInductive, PTL DEF Spec, PageSizeKept

(***************************************************************************)
(* walOnly, when no other program writes the replica's file.               *)
(***************************************************************************)

\* A run with any faults, but nobody else writes the replica's file.
Undisturbed == Init /\ [][Next /\ ~ReplicaWrite]_vars

\* The check was made on the file the transaction is open on, or will be.
CheckedFile ==
    /\ pc["replica"] = "sql" => nRPage = Len(file)
    /\ work # <<>> /\ rs["replica"].walOnly => file = <<>> \/ InWal(file)

LEMMA CheckStands ==
    ASSUME CheckedFile, file' = file, nRPage' = nRPage,
           work' # <<>> => work # <<>>,
           rs'["replica"].walOnly = rs["replica"].walOnly,
           pc'["replica"] = "sql" => pc["replica"] = "sql"
    PROVE  CheckedFile'
    BY DEF CheckedFile

LEMMA OriginLeavesReplica ==
    ASSUME SyncInductive, OriginRuns
    PROVE  rs'["replica"] = rs["replica"] /\ pc'["replica"] = pc["replica"]
<1>1. rs \in [Sides -> Structs] /\ DOMAIN pc = Sides /\ DOMAIN rs = Sides
    BY DEF SyncInductive, Typed, WireTyped
<1>2. "replica" \in Sides /\ "replica" # "origin"
    BY DEF Sides
<1> USE <1>1, <1>2 DEF OriginRuns
<1>3. CASE OriginCommCheck \/ OriginStart \/ OriginRefuses
    BY <1>3 DEF OriginCommCheck, OriginStart, OriginRefuses, OriginFails, FailAfter, Send, Push
<1>4. CASE OnReplicaMsg \/ OnReplicaEnd \/ OnReplicaError
    BY <1>4 DEF OnReplicaMsg, OnReplicaEnd, OnReplicaError, Drop, EndsRun, ReadOn, Return
<1>5. CASE OnReplicaBegin
    BY <1>5 DEF OnReplicaBegin, OriginFails, FailAfter, Send, Push
<1>6. CASE OnReplicaConfig \/ OnReplicaHash \/ OnReplicaHashFails
    BY <1>6 DEF OnReplicaConfig, OnReplicaHash, OnReplicaHashFails, OriginFails, FailAfter,
                Push, ReadOn
<1>7. CASE OnReplicaReadyDetail \/ OnReplicaReadyPages \/ OnReplicaReadyFails
    BY <1>7 DEF OnReplicaReadyDetail, OnReplicaReadyPages, OnReplicaReadyFails, CountRound,
                OriginFails, FailAfter, Send, Push
<1> QED
    BY <1>3, <1>4, <1>5, <1>6, <1>7 DEF OriginStep

LEMMA StreamLeavesRoles ==
    ASSUME SyncInductive, NEW s \in Sides,
           StreamRuns(s) \/ Kill(s) \/ Cancel(s) \/ Cancelled(s) \/ Unregistered(s)
    PROVE  UNCHANGED <<rs, replicaVars>> /\ (pc'["replica"] = "sql" => pc["replica"] = "sql")
<1>1. DOMAIN pc = Sides /\ "replica" \in Sides
    BY DEF SyncInductive, Typed, WireTyped, Sides
<1>2. pc' = pc \/ \E at \in {"read", "done"} : pc' = [pc EXCEPT ![s] = at]
    BY DEF StreamRuns, StreamStep, Transfer, Flushed, WriteFails, StreamEnds, CallerCloses,
           Kill, Crashes, Cancel, Cancels, Cancelled, CancelledRead, CancelledWrite,
           Unregistered, RegisterFails, Return
<1>3. UNCHANGED <<rs, replicaVars>>
    BY DEF StreamRuns, Kill, Cancel, Cancelled, Unregistered, RegisterFails
<1> QED
    BY <1>1, <1>2, <1>3

LEMMA ReplicaKeepsCheck ==
    ASSUME SyncInductive, CheckedFile, ReplicaRuns
    PROVE  CheckedFile'
<1>1. /\ rs \in [Sides -> Structs] /\ DOMAIN pc = Sides /\ DOMAIN rs = Sides
      /\ "replica" \in Sides /\ rs["replica"] \in Structs
    BY DEF SyncInductive, Typed, WireTyped, Sides
<1>2. CASE OnOriginBegin
    <2>1. /\ nRPage' = Len(file) /\ file' = file /\ work' = work
          /\ rs'["replica"].walOnly = rs["replica"].walOnly
        BY <1>1, <1>2 DEF OnOriginBegin, Structs
    <2> QED
        BY <2>1 DEF CheckedFile
<1>3. CASE OpenTransaction
    <2>1. /\ file' = file /\ pc'["replica"] = "write"
          /\ rs'["replica"].walOnly = rs["replica"].walOnly
        BY <1>1, <1>3 DEF OpenTransaction, SendHashMessages, Send, Push, Counted, Structs
    <2>2. rs["replica"].walOnly => file = <<>> \/ InWal(file)
        <3>1. nRPage = Len(file) /\ file \in Seq(Image)
            BY <1>3 DEF OpenTransaction, CheckedFile, SyncInductive, Typed, ReplicaTyped
        <3> QED
            BY <1>3, <3>1 DEF OpenTransaction, ReplicaAccepts
    <2> QED
        BY <2>1, <2>2 DEF CheckedFile, InWal
<1>4. CASE OnOriginTxn
    <2>1. work' = <<>> /\ pc'["replica"] = "read"
        BY <1>4 DEF OnOriginTxn, Receives, ReadOn
    <2> QED
        BY <2>1 DEF CheckedFile
<1>5. CASE OnOriginPage
    <2>1. work # <<>>
        <3>1. Has(FromOrigin, {"ORIGIN_PAGE"})
            BY <1>1, <1>5, Heard DEF OnOriginPage, SyncInductive, Typed, FromOrigin, Peer
        <3> QED
            BY <3>1 DEF SyncInductive, Exchanging, Has
    <2>2. /\ file' = file /\ nRPage' = nRPage /\ pc' = pc
          /\ rs'["replica"].walOnly = rs["replica"].walOnly
        BY <1>1, <1>5 DEF OnOriginPage, ReadOn, Structs
    <2> QED
        BY <2>1, <2>2, CheckStands
<1>6. CASE \/ ReplicaCommCheck \/ ReplicaStart \/ OnOriginMsg \/ OnOriginEnd \/ OnOriginError
           \/ OnOriginBeginTooNew \/ OnOriginDetail
    <2>1. /\ file' = file /\ nRPage' = nRPage /\ work' = work /\ rs' = rs
          /\ pc'["replica"] = "sql" => pc["replica"] = "sql"
        BY <1>1, <1>6 DEF ReplicaCommCheck, ReplicaStart, OnOriginMsg, OnOriginEnd,
              OnOriginError, Drop, EndsRun, OnOriginBeginTooNew, OnOriginDetail,
              replicaVars, txn, Send, Push, ReadOn, Return
    <2> QED
        BY <2>1, CheckStands
<1>7. CASE OnOriginReady \/ OnOriginReadyFails \/ OpenTransactionFails
           \/ OnOriginPageFails \/ OnOriginTxnFails
    <2>1. /\ file' = file /\ nRPage' = nRPage /\ work' = work
          /\ pc'["replica"] = "write"
        BY <1>1, <1>7 DEF OnOriginReady, OnOriginReadyFails, OpenTransactionFails,
              OnOriginPageFails, OnOriginTxnFails, SendHashMessages, HashingFails,
              ReplicaFails, FailAfter, replicaVars, txn, Send, Push
    <2>2. rs'["replica"].walOnly = rs["replica"].walOnly
        <3>1. \A n, round : Counted(n, round)["replica"].walOnly = rs["replica"].walOnly
            BY <1>1 DEF Counted, Structs
        <3>2. \/ \E n, round : rs' = Counted(n, round)
              \/ \E n : rs' = [rs EXCEPT !["replica"].pageUpdates = n]
              \/ rs' = rs
            BY <1>7 DEF OnOriginReady, OnOriginReadyFails, OpenTransactionFails,
                  OnOriginPageFails, OnOriginTxnFails, HashingFails
        <3> QED
            BY <1>1, <3>1, <3>2 DEF Structs
    <2> QED
        BY <2>1, <2>2, CheckStands
<1> QED
    BY <1>2, <1>3, <1>4, <1>5, <1>6, <1>7 DEF ReplicaRuns, ReplicaStep

LEMMA CheckKept ==
    ASSUME SyncInductive, CheckedFile, [Next /\ ~ReplicaWrite]_vars
    PROVE  CheckedFile'
<1>1. CASE OriginRuns
    <2>1. rs'["replica"] = rs["replica"] /\ pc'["replica"] = pc["replica"]
        BY <1>1, OriginLeavesReplica
    <2> QED
        BY <1>1, <2>1, CheckStands DEF OriginRuns, replicaVars, txn
<1>2. ASSUME NEW s \in Sides,
             StreamRuns(s) \/ Kill(s) \/ Cancel(s) \/ Cancelled(s) \/ Unregistered(s)
      PROVE  CheckedFile'
    <2>1. UNCHANGED <<rs, replicaVars>> /\ (pc'["replica"] = "sql" => pc["replica"] = "sql")
        BY <1>2, StreamLeavesRoles
    <2> QED
        BY <2>1, CheckStands DEF replicaVars, txn
<1>3. CASE \/ LinkFault \/ UNCHANGED vars
           \/ OriginWrite /\ UNCHANGED replicaVars
    <2>1. UNCHANGED <<rs, pc, replicaVars>>
        BY <1>3 DEF LinkFault, LinkBreaks, OriginWrite, vars, wire
    <2> QED
        BY <2>1, CheckStands DEF replicaVars, txn
<1> QED
    BY <1>1, <1>2, <1>3, ReplicaKeepsCheck DEF Next

\* With walOnly, only a replica in WAL mode, or of no pages, is written:
\* whatever fails or is lost, unless another program writes the file between
\* the check and BEGIN IMMEDIATE.
THEOREM UndisturbedKeepsWal == Undisturbed => WalOnlyEnforced
<1>1. Init => CheckedFile
    BY DEF Init, ReplicaInit, WireInit, CheckedFile, Sides
<1>2. SyncInductive /\ [Next /\ ~ReplicaWrite]_vars => SyncInductive'
    BY NextKeeps
<1>3. SyncInductive /\ CheckedFile /\ [Next /\ ~ReplicaWrite]_vars => CheckedFile'
    BY CheckKept
<1>4. SyncInductive /\ CheckedFile /\ [Next /\ ~ReplicaWrite]_vars
        => (TransactionOpen /\ file' # file /\ rs["replica"].walOnly
              => file = <<>> \/ InWal(file))
    BY DEF CheckedFile, TransactionOpen
<1> QED
    BY <1>1, <1>2, <1>3, <1>4, InitIsInductive, PTL DEF Undisturbed, WalOnlyEnforced

(***************************************************************************)
(* The properties of a run.                                                *)
(***************************************************************************)

\* Every variable of a run keeps to its type: the counters of the origin stay
\* within a uint32, and the tables hold ranges of pages.
THEOREM RunTyped == Spec => []TypeOK
    BY RunIsInductive, WellTyped, PTL

\* The counters of the origin name the range of every hash it will read.
THEOREM RunCountersName == Spec => []HashesNameTheirRange
    BY RunIsInductive, CountersName, PTL

\* The badHash table exists whenever REPLICA_READY is read.
THEOREM RunHashesFirst == Spec => []ReadyAfterHash
    BY RunIsInductive, HashesPrecedeReady, PTL

\* Both sides run the older protocol.
THEOREM RunProtocolsAgree == Spec => []OlderProtocolWins
    BY RunIsInductive, ProtocolsAgree, PTL

\* The statistics of a successful run agree.
THEOREM RunTalliesMeet == Spec => []StatsAgree
    BY RunIsInductive, TalliesMeet, PTL

\* No failure stays on one side while the link holds.
THEOREM RunFailuresMeet == Spec => []NoOneSidedFailure
    BY RunIsInductive, FailuresMeet, PTL

\* Two successes are a commit.
THEOREM RunCommitsFirst == Spec => []SuccessIsCommit
    BY RunIsInductive, CommittedFirst, PTL

\* All of it holds of every run of a sequence of runs too, each of which
\* starts from what the last one left in the files.
THEOREM ResyncIsSafe ==
    ResyncSpec =>
        /\ []TypeOK /\ []HashesNameTheirRange /\ []ReadyAfterHash /\ []OlderProtocolWins
        /\ []StatsAgree /\ []NoOneSidedFailure /\ []SuccessIsCommit
        /\ PageSizeKept
<1>1. SyncInductive /\ [Resyncs]_vars
        => (TransactionOpen /\ file' # file
              => fileSize' = OriginPageSize /\ (file # <<>> => fileSize' = fileSize))
    BY PageSizeStays
<1>2. ResyncSpec => []SyncInductive /\ PageSizeKept
    BY <1>1, ResyncIsInductive, PTL DEF ResyncSpec, PageSizeKept
<1> QED
    BY <1>2, WellTyped, CountersName, HashesPrecedeReady, ProtocolsAgree, TalliesMeet,
       FailuresMeet, CommittedFirst, PTL
=============================================================================
