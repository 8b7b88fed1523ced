------------------------- MODULE HashFunctionsProof -------------------------
(***************************************************************************)
(* Registration is safe for any number of roles in the process, whatever   *)
(* other libraries register and when: no role runs on a foreign function,  *)
(* and all of them get the same verdict.  And the functions hash: however  *)
(* long the blocks are and wherever the rows end in one, every value is    *)
(* the digest of the bytes of the rows, padded, and tells them.            *)
(***************************************************************************)
EXTENDS HashFunctions, Induction, SequenceTheorems, TLAPS

\* The roles that have been let in.
In(r) == pc[r] \in {"ready", "open", "closed"}

\* Both functions are this library's.
BothOwn == registered["hash"] = "own" /\ registered["agghash"] = "own"

RegistrationTypes ==
    /\ registered \in [Names -> {"none", "own", "foreign"}]
    /\ once \in {"fresh", "hash", "agghash", "done"}
    /\ verdict \in {"nil", "error"}
    /\ pc \in [Roles -> {"start", "registering", "ready", "refused", "open", "closed"}]
    /\ conn \in [Roles -> [Names -> {"none", "own", "foreign"}]]

\* The verdict is what the registered functions say, it is fixed before the
\* first role is let in or refused, and a connection has what was registered.
Registration ==
    /\ once = "agghash" => registered["hash"] = "own"
    /\ once = "done" /\ verdict = "nil" => BothOwn
    /\ \A r \in Roles :
        /\ In(r) => once = "done" /\ verdict = "nil"
        /\ pc[r] = "refused" => once = "done" /\ verdict = "error"
        /\ pc[r] \in {"open", "closed"} => \A f \in Names : conn[r][f] = "own"

RegistrationInvariant == RegistrationTypes /\ Registration

-----------------------------------------------------------------------------
\* Nothing is registered at the start.
LEMMA InitRegistration == Init => RegistrationInvariant
    BY DEF Init, RegistrationInvariant, RegistrationTypes, Registration, In, Names

\* Somebody else takes a name: only one that nobody had.
LEMMA ForeignKeeps ==
    ASSUME RegistrationInvariant, NEW g \in Names, ForeignRegisters(g)
    PROVE  RegistrationInvariant'
<1>1. /\ registered[g] = "none"
      /\ registered' = [registered EXCEPT ![g] = "foreign"]
      /\ UNCHANGED <<once, verdict, pc, conn>>
    BY DEF ForeignRegisters
<1>2. RegistrationTypes'
    BY <1>1 DEF RegistrationInvariant, RegistrationTypes
<1>3. \A f \in Names : registered[f] = "own" => registered'[f] = "own"
    BY <1>1 DEF RegistrationInvariant, RegistrationTypes
<1>4. Registration'
    BY <1>1, <1>3 DEF RegistrationInvariant, Registration, In, BothOwn, Names
<1>5. QED
    BY <1>2, <1>4 DEF RegistrationInvariant

\* One function is registered, or found taken, before anybody has a verdict.
LEMMA RegisterNextKeeps ==
    ASSUME RegistrationInvariant, RegisterNext
    PROVE  RegistrationInvariant'
<1>1. once \in Names /\ UNCHANGED <<pc, conn>>
    BY DEF RegisterNext, aggregate
<1>2. \A r \in Roles : ~In(r) /\ pc[r] # "refused"
    BY <1>1 DEF RegistrationInvariant, Registration, Names
<1>3. CASE registered[once] = "none"
  <2>1. /\ registered' = [registered EXCEPT ![once] = "own"]
        /\ verdict' = "nil"
        /\ once' = IF once = "hash" THEN "agghash" ELSE "done"
      BY <1>3 DEF RegisterNext
  <2>2. RegistrationTypes'
      BY <1>1, <2>1 DEF RegistrationInvariant, RegistrationTypes, Names
  <2>3. once = "agghash" => registered["hash"] = "own"
      BY DEF RegistrationInvariant, Registration
  <2>4. once' = "agghash" => registered'["hash"] = "own"
      BY <1>1, <2>1 DEF RegistrationInvariant, RegistrationTypes, Names
  <2>5. once' = "done" => BothOwn'
      BY <1>1, <2>1, <2>3 DEF RegistrationInvariant, RegistrationTypes, Names, BothOwn
  <2>6. QED
      BY <1>1, <1>2, <2>2, <2>4, <2>5 DEF RegistrationInvariant, Registration, In
<1>4. CASE registered[once] # "none"
  <2>1. registered' = registered /\ verdict' = "error" /\ once' = "done"
      BY <1>4 DEF RegisterNext, AfterFailure
  <2>2. RegistrationTypes'
      BY <1>1, <2>1 DEF RegistrationInvariant, RegistrationTypes
  <2>3. QED
      BY <1>1, <1>2, <2>1, <2>2 DEF RegistrationInvariant, Registration, In
<1>5. QED
    BY <1>3, <1>4

\* What a role does: it is let in or refused by the verdict, and opens its
\* connection when both functions are there.
LEMMA RoleKeeps ==
    ASSUME RegistrationInvariant, NEW q \in Roles, RoleStep(q)
    PROVE  RegistrationInvariant'
<1> USE DEF RegistrationInvariant
<1>1. CASE CallRegister(q)
  <2>1. /\ pc[q] = "start" /\ pc' = [pc EXCEPT ![q] = "registering"]
        /\ once' = IF once = "fresh" THEN "hash" ELSE once
        /\ UNCHANGED <<registered, verdict, conn>>
      BY <1>1 DEF CallRegister
  <2>2. RegistrationTypes'
      BY <2>1 DEF RegistrationTypes
  <2>3. Registration'
      BY <2>1 DEF RegistrationTypes, Registration, In, BothOwn
  <2>4. QED
      BY <2>2, <2>3
<1>2. CASE RegisterReturns(q)
  <2>1. /\ pc[q] = "registering" /\ once = "done"
        /\ pc' = [pc EXCEPT ![q] = IF verdict = "nil" THEN "ready" ELSE "refused"]
        /\ UNCHANGED <<registered, once, verdict, conn>>
      BY <1>2 DEF RegisterReturns, MayReturn, registration
  <2>2. RegistrationTypes'
      BY <2>1 DEF RegistrationTypes
  <2>3. Registration'
      BY <2>1 DEF RegistrationTypes, Registration, In, BothOwn
  <2>4. QED
      BY <2>2, <2>3
<1>3. CASE OpenConnection(q)
  <2>1. /\ pc[q] = "ready" /\ pc' = [pc EXCEPT ![q] = "open"]
        /\ conn' = [conn EXCEPT ![q] = registered]
        /\ UNCHANGED <<registered, once, verdict>>
      BY <1>3 DEF OpenConnection, registration
  <2>2. \A f \in Names : registered[f] = "own"
      BY <2>1 DEF Registration, In, BothOwn, Names
  <2>3. RegistrationTypes'
      BY <2>1 DEF RegistrationTypes
  <2>4. Registration'
      BY <2>1, <2>2 DEF RegistrationTypes, Registration, In, BothOwn
  <2>5. QED
      BY <2>3, <2>4
<1>4. ASSUME WindowValue(q) \/ \E row \in Rows : AggStep(q, row) \/ ScalarCall(q, row)
      PROVE  RegistrationInvariant'
  <2>1. /\ pc[q] = "open" /\ (pc' = pc \/ pc' = [pc EXCEPT ![q] = "closed"])
        /\ UNCHANGED <<registered, once, verdict, conn>>
      BY <1>4 DEF WindowValue, AggStep, ScalarCall, registration
  <2>2. RegistrationTypes'
      BY <2>1 DEF RegistrationTypes
  <2>3. Registration'
      BY <2>1 DEF RegistrationTypes, Registration, In, BothOwn
  <2>4. QED
      BY <2>2, <2>3
<1>5. QED
    BY <1>1, <1>2, <1>3, <1>4 DEF RoleStep

-----------------------------------------------------------------------------
\* The registration of every reachable state is in order.
THEOREM RegistrationIsSafe == Spec => []RegistrationInvariant
<1>1. RegistrationInvariant /\ [Next]_vars => RegistrationInvariant'
  <2> SUFFICES ASSUME RegistrationInvariant, [Next]_vars
               PROVE  RegistrationInvariant'
      OBVIOUS
  <2>1. CASE UNCHANGED vars
      BY <2>1 DEF vars, registration, RegistrationInvariant, RegistrationTypes,
          Registration, In, BothOwn
  <2>2. CASE Next
      BY <2>2, ForeignKeeps, RegisterNextKeeps, RoleKeeps DEF Next
  <2>3. QED
      BY <2>1, <2>2
<1>2. QED
    BY InitRegistration, <1>1, PTL DEF Spec

\* No connection of a role carries a foreign hash or agghash (hash/sql.go,
\* Register).
THEOREM NoForeignFunction == Spec => []OnlyOwnFunctions
<1>1. RegistrationInvariant => OnlyOwnFunctions
    BY DEF RegistrationInvariant, Registration, OnlyOwnFunctions
<1>2. QED
    BY <1>1, RegistrationIsSafe, PTL

\* The roles of a process are all let in or all refused (hash/sql.go, Register).
THEOREM OneVerdict == Spec => []SameVerdict
<1>1. RegistrationInvariant => SameVerdict
    BY DEF RegistrationInvariant, Registration, In, SameVerdict
<1>2. QED
    BY <1>1, RegistrationIsSafe, PTL

-----------------------------------------------------------------------------
(* The sponge holds what it absorbed.                                      *)

\* A context as HashUpdate leaves it.
Contexts == [blocks : Seq(Seq(Bytes)), block : Seq(Bytes)]

\* The context c has absorbed the bytes: the full blocks and the rest.
Holds(c, bytes) ==
    /\ c \in Contexts /\ bytes \in Seq(Bytes)
    /\ Len(c.block) < Rate
    /\ Len(bytes) = Len(c.blocks) * Rate + Len(c.block)
    /\ \A k \in 1 .. Len(c.blocks) :
        /\ Len(c.blocks[k]) = Rate
        /\ \A i \in 1 .. Rate : c.blocks[k][i] = bytes[(k - 1) * Rate + i]
    /\ \A i \in 1 .. Len(c.block) : c.block[i] = bytes[Len(c.blocks) * Rate + i]

\* A block has room for more than one byte.
LEMMA RateIsPositive == Rate \in Nat /\ Rate > 1
    BY HashFunctionsAssumption

\* The bytes of a full block lie before those of the rest.
LEMMA BlocksBefore ==
    ASSUME NEW R \in Nat, NEW n \in Nat, NEW k \in 1 .. n, NEW i \in 1 .. R
    PROVE  (k - 1) * R + i \in 1 .. n * R
<1>1. \A a, b \in Nat : a < b => a * R + R <= b * R
    BY SMT
<1>2. k - 1 \in Nat /\ k - 1 < n /\ i <= R /\ i >= 1
    OBVIOUS
<1>3. (k - 1) * R + R <= n * R /\ (k - 1) * R \in Nat /\ n * R \in Nat
    BY <1>1, <1>2
<1> QED
    BY <1>2, <1>3

\* A fresh context holds no byte.
LEMMA NothingHeld == Holds(HashInit, <<>>)
<1>1. HashInit \in Contexts
    BY DEF HashInit, Contexts
<1>2. Len(HashInit.blocks) = 0 /\ Len(HashInit.block) = 0
    BY DEF HashInit
<1>3. 0 * Rate + 0 = 0
    BY RateIsPositive
<1>4. Len(<<>>) = 0 /\ <<>> \in Seq(Bytes)
    OBVIOUS
<1> QED
    BY <1>1, <1>2, <1>3, <1>4, RateIsPositive DEF Holds

\* One byte more.
LEMMA AbsorbHolds ==
    ASSUME NEW c, NEW b, Holds(c, b), NEW x \in Bytes
    PROVE  Holds(Absorb(c, x), Append(b, x))
<1> DEFINE n == Len(c.blocks)
           t == Len(c.block)
           N == n * Rate
           full == Append(c.block, x)
           d == Append(b, x)
<1>1. /\ c \in Contexts /\ b \in Seq(Bytes) /\ t < Rate /\ Len(b) = N + t
      /\ n \in Nat /\ t \in Nat /\ N \in Nat
    BY RateIsPositive DEF Holds, Contexts
<1>2. /\ c.blocks \in Seq(Seq(Bytes)) /\ c.block \in Seq(Bytes)
    BY <1>1 DEF Contexts
<1>3. /\ d \in Seq(Bytes) /\ Len(d) = N + t + 1
      /\ \A i \in 1 .. N + t : d[i] = b[i]
      /\ d[N + t + 1] = x
    <2> HIDE DEF N, n, t
    <2> QED
        BY <1>1, AppendProperties
<1>4. /\ full \in Seq(Bytes) /\ Len(full) = t + 1
      /\ \A i \in 1 .. t : full[i] = c.block[i]
      /\ full[t + 1] = x
    BY <1>2, AppendProperties
<1>5. \A k \in 1 .. n : \A i \in 1 .. Rate :
          c.blocks[k][i] = d[(k - 1) * Rate + i]
    <2> TAKE k \in 1 .. n
    <2> TAKE i \in 1 .. Rate
    <2>1. c.blocks[k][i] = b[(k - 1) * Rate + i]
        BY DEF Holds
    <2>2. (k - 1) * Rate + i \in 1 .. N
        BY <1>1, RateIsPositive, BlocksBefore
    <2> HIDE DEF N
    <2>3. (k - 1) * Rate + i \in 1 .. N + t
        BY <1>1, <2>2
    <2> QED
        BY <2>1, <2>3, <1>3
<1>6. \A i \in 1 .. t : c.block[i] = d[N + i]
    <2> TAKE i \in 1 .. t
    <2>1. c.block[i] = b[N + i]
        BY DEF Holds
    <2> HIDE DEF N, t
    <2>2. N + i \in 1 .. N + t
        BY <1>1
    <2> QED
        BY <2>1, <2>2, <1>3
<1>7. \A k \in 1 .. n : Len(c.blocks[k]) = Rate
    BY DEF Holds
<1>8. CASE t + 1 = Rate
    <2> DEFINE e == [blocks |-> Append(c.blocks, full), block |-> <<>>]
    <2>1. Absorb(c, x) = e
        BY <1>8 DEF Absorb
    <2>2. /\ e.blocks \in Seq(Seq(Bytes)) /\ Len(e.blocks) = n + 1
          /\ \A k \in 1 .. n : e.blocks[k] = c.blocks[k]
          /\ e.blocks[n + 1] = full
        BY <1>2, <1>4, AppendProperties
    <2>3. e.block = <<>> /\ Len(e.block) = 0 /\ e.block \in Seq(Bytes)
        OBVIOUS
    <2>4. e \in Contexts
        BY <2>2, <2>3 DEF Contexts
    <2>5. (n + 1) * Rate = N + Rate /\ ((n + 1) - 1) * Rate = N
        BY <1>1, RateIsPositive
    <2> HIDE DEF e, d, full, N, n, t
    <2>6. Len(d) = Len(e.blocks) * Rate + Len(e.block)
        BY <2>2, <2>3, <2>5, <1>1, <1>3, <1>8, RateIsPositive
    <2>7. \A i \in 1 .. Rate : full[i] = d[N + i]
        <3> TAKE i \in 1 .. Rate
        <3>1. CASE i <= t
            <4>1. i \in 1 .. t
                BY <3>1, <1>1
            <4> QED
                BY <4>1, <1>4, <1>6
        <3>2. CASE i > t
            <4>1. i = t + 1 /\ N + i = N + t + 1
                BY <3>2, <1>1, <1>8
            <4> QED
                BY <4>1, <1>3, <1>4
        <3> QED
            BY <3>1, <3>2, <1>1
    <2>8. ASSUME NEW k \in 1 .. n + 1
          PROVE  /\ Len(e.blocks[k]) = Rate
                 /\ \A i \in 1 .. Rate : e.blocks[k][i] = d[(k - 1) * Rate + i]
        <3>1. CASE k \in 1 .. n
            BY <3>1, <2>2, <1>5, <1>7
        <3>2. CASE k = n + 1
            BY <3>2, <2>2, <2>5, <2>7, <1>4, <1>8
        <3> QED
            BY <3>1, <3>2, <1>1
    <2>9. Len(e.block) < Rate /\ \A i \in 1 .. Len(e.block) : FALSE
        BY <2>3, RateIsPositive
    <2>10. \A k \in 1 .. Len(e.blocks) :
              /\ Len(e.blocks[k]) = Rate
              /\ \A i \in 1 .. Rate : e.blocks[k][i] = d[(k - 1) * Rate + i]
        BY <2>2, <2>8
    <2>11. Holds(e, d)
        BY <2>4, <2>6, <2>9, <2>10, <1>3, Zenon DEF Holds
    <2> QED
        BY <2>1, <2>11 DEF d
<1>9. CASE t + 1 # Rate
    <2> DEFINE e == [c EXCEPT !.block = full]
    <2>1. Absorb(c, x) = e
        BY <1>9, <1>1 DEF Absorb, Contexts
    <2>2. e \in Contexts /\ e.blocks = c.blocks /\ e.block = full
        BY <1>1, <1>4 DEF Contexts
    <2> HIDE DEF e, d, full, N
    <2>3. t + 1 < Rate
        BY <1>1, <1>9, RateIsPositive
    <2>4. Len(d) = N + Len(e.block)
        <3> HIDE DEF t, n
        <3> QED
            BY <1>1, <1>3, <1>4, <2>2
    <2>5. \A i \in 1 .. t + 1 : full[i] = d[N + i]
        <3> HIDE DEF t, n
        <3> TAKE i \in 1 .. t + 1
        <3>1. CASE i \in 1 .. t
            BY <3>1, <1>4, <1>6
        <3>2. CASE i = t + 1
            <4>1. N + i = N + t + 1
                BY <3>2, <1>1
            <4> QED
                BY <3>2, <4>1, <1>3, <1>4
        <3> QED
            BY <3>1, <3>2, <1>1
    <2>6. /\ Len(e.block) < Rate
          /\ Len(d) = Len(e.blocks) * Rate + Len(e.block)
          /\ \A i \in 1 .. Len(e.block) : e.block[i] = d[Len(e.blocks) * Rate + i]
        BY <2>2, <2>3, <2>4, <2>5, <1>4 DEF N
    <2>7. \A k \in 1 .. Len(e.blocks) :
              /\ Len(e.blocks[k]) = Rate
              /\ \A i \in 1 .. Rate : e.blocks[k][i] = d[(k - 1) * Rate + i]
        BY <2>2, <1>5, <1>7
    <2>8. Holds(e, d)
        BY <2>2, <2>6, <2>7, <1>3, Zenon DEF Holds
    <2> QED
        BY <2>1, <2>8 DEF d
<1> QED
    BY <1>8, <1>9

\* A context stays one.
LEMMA AbsorbTypes ==
    ASSUME NEW c \in Contexts, NEW x \in Bytes
    PROVE  Absorb(c, x) \in Contexts
<1>1. c.blocks \in Seq(Seq(Bytes)) /\ c.block \in Seq(Bytes)
    BY DEF Contexts
<1>2. Append(c.block, x) \in Seq(Bytes)
    BY <1>1, AppendProperties
<1>3. Append(c.blocks, Append(c.block, x)) \in Seq(Seq(Bytes))
    BY <1>1, <1>2, AppendProperties
<1>4. <<>> \in Seq(Bytes)
    OBVIOUS
<1> QED
    BY <1>1, <1>2, <1>3, <1>4 DEF Absorb, Contexts

\* f goes from the context before the data to the context after it.
Feeds(f, c, data) ==
    /\ f \in [0 .. Len(data) -> Contexts]
    /\ f[0] = c
    /\ \A k \in 1 .. Len(data) : f[k] = Absorb(f[k - 1], data[k])

\* HashUpdate is one Absorb after another.
LEMMA UpdateUnfold ==
    ASSUME NEW c \in Contexts, NEW data \in Seq(Bytes)
    PROVE  \E f : Feeds(f, c, data) /\ HashUpdate(c, data) = f[Len(data)]
<1> DEFINE n == Len(data)
           Body(u) == [k \in 0 .. n |-> IF k = 0 THEN c ELSE Absorb(u[k - 1], data[k])]
           g == [x \in (1 .. n) \X Contexts |-> Absorb(x[2], data[x[1]])]
           after == CHOOSE u : u = Body(u)
<1>1. n \in Nat /\ \A k \in 1 .. n : data[k] \in Bytes
    OBVIOUS
<1>2. g \in Steps(n, Contexts)
    <2> SUFFICES ASSUME NEW x \in (1 .. n) \X Contexts
                 PROVE  Absorb(x[2], data[x[1]]) \in Contexts
        BY DEF Steps
    <2>1. x[2] \in Contexts /\ data[x[1]] \in Bytes
        BY <1>1
    <2> QED
        BY <2>1, AbsorbTypes
<1>3. PICK f : /\ f \in [0 .. n -> Contexts] /\ f[0] = c
               /\ \A k \in 1 .. n : f[k] = g[<<k, f[k - 1]>>]
    <2>1. \E f : Iterates(f, c, g, n, Contexts)
        <3> HIDE DEF g, n
        <3> QED
            BY <1>1, <1>2, PrimitiveRecursion
    <2> HIDE DEF g, n
    <2> QED
        BY <2>1 DEF Iterates
<1>4. \A k \in 1 .. n : f[k] = Absorb(f[k - 1], data[k])
    <2> TAKE k \in 1 .. n
    <2>1. f[k - 1] \in Contexts
        <3>1. k - 1 \in 0 .. n
            BY <1>1
        <3> HIDE DEF g, n
        <3> QED
            BY <3>1, <1>3
    <2>2. g[<<k, f[k - 1]>>] = Absorb(f[k - 1], data[k])
        BY <2>1
    <2> QED
        BY <1>3, <2>2
<1> HIDE DEF g
<1>5. f = Body(f)
    <2>1. \A k \in 0 .. n : f[k] = Body(f)[k]
        BY <1>1, <1>3, <1>4
    <2>2. DOMAIN f = 0 .. n /\ f = [k \in DOMAIN f |-> f[k]]
        BY <1>3
    <2> QED
        BY <2>1, <2>2
<1>6. after = Body(after)
    <2> HIDE DEF Body
    <2> QED
        BY <1>5
<1>7. HashUpdate(c, data) = after[n]
    BY DEF HashUpdate
<1> HIDE DEF after
<1>8. after[0] = c
    BY <1>1, <1>6
<1>9. ASSUME NEW k \in 1 .. n
      PROVE  after[k] = Absorb(after[k - 1], data[k])
    <2>1. k \in 0 .. n /\ k # 0
        OBVIOUS
    <2> QED
        BY <1>6, <2>1, Zenon
<1>10. \A k \in 0 .. n : after[k] \in Contexts
    <2> DEFINE C == {k \in 0 .. n : after[k] \in Contexts}
    <2> HIDE DEF n
    <2>1. 0 \in C
        BY <1>1, <1>8
    <2>2. ASSUME NEW k \in 0 .. n, k # n, k \in C
          PROVE  k + 1 \in C
        <3>1. k + 1 \in 1 .. n /\ (k + 1) - 1 = k /\ k + 1 \in 0 .. n
            BY <2>2, <1>1
        <3>2. after[k + 1] = Absorb(after[k], data[k + 1])
            BY <3>1, <1>9
        <3>3. after[k] \in Contexts /\ data[k + 1] \in Bytes
            BY <2>2, <3>1, <1>1
        <3> QED
            BY <3>1, <3>2, <3>3, AbsorbTypes
    <2>3. \A k \in 0 .. n : k \in C
        <3> HIDE DEF C
        <3> QED
            BY <1>1, <2>1, <2>2, InductionTo
    <2> QED
        BY <2>3
<1>11. DOMAIN after = 0 .. n
    BY <1>6
<1>12. after \in [0 .. n -> Contexts]
    <2>1. after = [k \in 0 .. n |-> after[k]]
        BY <1>6, <1>11, Zenon
    <2> HIDE DEF n
    <2> QED
        BY <2>1, <1>10
<1> QED
    BY <1>7, <1>8, <1>9, <1>12 DEF Feeds

\* A byte more at the end of the second part.
LEMMA AppendAfter ==
    ASSUME NEW S, NEW b \in Seq(S), NEW s \in Seq(S), NEW x \in S
    PROVE  b \o Append(s, x) = Append(b \o s, x)
<1>1. <<x>> \in Seq(S) /\ Append(s, x) = s \o <<x>>
    BY AppendIsConcat
<1>2. b \o (s \o <<x>>) = (b \o s) \o <<x>>
    BY <1>1, ConcatAssociative
<1>3. b \o s \in Seq(S)
    BY ConcatProperties
<1> QED
    BY <1>1, <1>2, <1>3, AppendIsConcat

\* The first k + 1 elements are the first k and one more.
LEMMA OneMore ==
    ASSUME NEW S, NEW s \in Seq(S), NEW k \in 0 .. Len(s), k # Len(s)
    PROVE  /\ SubSeq(s, 1, k) \in Seq(S)
           /\ SubSeq(s, 1, k + 1) = Append(SubSeq(s, 1, k), s[k + 1])
<1> DEFINE p == SubSeq(s, 1, k)
           q == SubSeq(s, 1, k + 1)
<1>1. /\ k \in Nat /\ k + 1 \in Nat /\ Len(s) \in Nat /\ k + 1 <= Len(s)
      /\ \A i \in 1 .. Len(s) : s[i] \in S
    OBVIOUS
<1>2. p \in Seq(S) /\ Len(p) = k /\ \A i \in 1 .. k : p[i] = s[i]
    BY <1>1, SubSeqProperties
<1>3. q \in Seq(S) /\ Len(q) = k + 1 /\ \A i \in 1 .. k + 1 : q[i] = s[i]
    BY <1>1, SubSeqProperties
<1>4. s[k + 1] \in S
    BY <1>1
<1> DEFINE r == Append(p, s[k + 1])
<1>5. /\ r \in Seq(S) /\ Len(r) = k + 1
      /\ \A i \in 1 .. k : r[i] = p[i]
      /\ r[k + 1] = s[k + 1]
    BY <1>2, <1>4, AppendProperties
<1> HIDE DEF p, q, r
<1>6. \A i \in 1 .. k + 1 : q[i] = r[i]
    <2> TAKE i \in 1 .. k + 1
    <2>1. i \in 1 .. k \/ i = k + 1
        BY <1>1
    <2> QED
        BY <2>1, <1>2, <1>3, <1>5
<1>7. q = r
    BY <1>3, <1>5, <1>6, SeqEqual
<1> QED
    BY <1>2, <1>7 DEF p, q, r

\* HashUpdate absorbs its argument after what was absorbed before.
LEMMA UpdateHolds ==
    ASSUME NEW c, NEW b, Holds(c, b), NEW data \in Seq(Bytes)
    PROVE  Holds(HashUpdate(c, data), b \o data)
<1> DEFINE n == Len(data)
           first(k) == SubSeq(data, 1, k)
<1>1. c \in Contexts /\ b \in Seq(Bytes) /\ n \in Nat
    BY DEF Holds
<1>2. PICK f : Feeds(f, c, data) /\ HashUpdate(c, data) = f[n]
    BY <1>1, UpdateUnfold
<1> DEFINE C == {k \in 0 .. n : Holds(f[k], b \o first(k))}
<1>3. 0 \in C
    <2>1. first(0) = <<>>
        BY SubSeqEmpty
    <2>2. b \o first(0) = b
        BY <2>1, <1>1, ConcatEmptySeq
    <2>3. f[0] = c
        BY <1>2 DEF Feeds
    <2>4. Holds(f[0], b \o first(0))
        BY <2>2, <2>3
    <2>5. 0 \in 0 .. n
        BY <1>1
    <2> HIDE DEF first
    <2> QED
        BY <2>4, <2>5
<1>4. ASSUME NEW k \in 0 .. n, k # n, k \in C
      PROVE  k + 1 \in C
    <2>1. /\ k + 1 \in 1 .. n /\ (k + 1) - 1 = k /\ k + 1 \in 0 .. n
          /\ data[k + 1] \in Bytes
        BY <1>1, <1>4
    <2>2. f[k + 1] = Absorb(f[k], data[k + 1])
        BY <2>1, <1>2 DEF Feeds
    <2>3. first(k) \in Seq(Bytes) /\ first(k + 1) = Append(first(k), data[k + 1])
        BY <1>4, OneMore
    <2>4. b \o first(k + 1) = Append(b \o first(k), data[k + 1])
        BY <2>1, <2>3, <1>1, AppendAfter
    <2>5. Holds(f[k], b \o first(k))
        BY <1>4
    <2> HIDE DEF first
    <2> QED
        BY <2>1, <2>2, <2>4, <2>5, AbsorbHolds
<1>5. \A k \in 0 .. n : k \in C
    <2> HIDE DEF C, n
    <2> QED
        BY <1>1, <1>3, <1>4, InductionTo
<1>6. n \in 0 .. n
    BY <1>1
<1>7. first(n) = data
    BY SubSeqFull
<1> QED
    BY <1>2, <1>5, <1>6, <1>7

-----------------------------------------------------------------------------
(* The padding.                                                            *)

Zeros(n) == [i \in 1 .. n |-> 0]

LEMMA ZerosAreBytes ==
    ASSUME NEW n \in Nat
    PROVE  Zeros(n) \in Seq(Bytes) /\ Len(Zeros(n)) = n
    BY DEF Zeros, Bytes

\* Skipping to the last byte of a block absorbs zeros.
LEMMA LoadedHolds ==
    ASSUME NEW c, NEW b, Holds(c, b)
    PROVE  Holds(LoadedToLast(c), b \o Zeros(Rate - 1 - Len(c.block)))
<1> DEFINE n == Len(c.blocks)
           t == Len(c.block)
           N == n * Rate
           z == Rate - 1 - t
           e == LoadedToLast(c)
           d == b \o Zeros(z)
<1>1. /\ c \in Contexts /\ b \in Seq(Bytes) /\ t < Rate /\ Len(b) = N + t
      /\ n \in Nat /\ t \in Nat /\ N \in Nat /\ z \in Nat
    BY RateIsPositive DEF Holds, Contexts
<1>2. c.blocks \in Seq(Seq(Bytes)) /\ c.block \in Seq(Bytes)
    BY <1>1 DEF Contexts
<1>3. Zeros(z) \in Seq(Bytes) /\ Len(Zeros(z)) = z
    BY <1>1, ZerosAreBytes
<1>4. e.blocks = c.blocks /\ e.block = c.block \o Zeros(z) /\ e \in Contexts
    <2>1. c.block \o Zeros(z) \in Seq(Bytes)
        BY <1>2, <1>3, ConcatProperties
    <2>2. e = [c EXCEPT !.block = c.block \o Zeros(z)]
        BY DEF LoadedToLast, Zeros
    <2> HIDE DEF e
    <2> QED
        BY <1>1, <2>1, <2>2 DEF Contexts
<1> HIDE DEF e, z
<1>5. /\ Len(e.block) = t + z
      /\ \A i \in 1 .. t + z : e.block[i] = IF i <= t THEN c.block[i] ELSE Zeros(z)[i - t]
    <2> DEFINE w == Zeros(z)
    <2> HIDE DEF w
    <2>1. w \in Seq(Bytes) /\ Len(w) = z
        BY <1>3 DEF w
    <2>2. /\ Len(c.block \o w) = t + z
          /\ \A i \in 1 .. t + z : (c.block \o w)[i] =
                 IF i <= t THEN c.block[i] ELSE w[i - t]
        BY <1>2, <2>1, ConcatProperties
    <2> QED
        BY <2>2, <1>4, Zenon DEF w
<1>6. /\ d \in Seq(Bytes) /\ Len(d) = Len(b) + z
      /\ \A i \in 1 .. Len(b) + z :
            d[i] = IF i <= Len(b) THEN b[i] ELSE Zeros(z)[i - Len(b)]
    <2> DEFINE w == Zeros(z)
    <2> HIDE DEF w
    <2>1. w \in Seq(Bytes) /\ Len(w) = z /\ b \in Seq(Bytes)
        BY <1>1, <1>3 DEF w
    <2>2. /\ b \o w \in Seq(Bytes) /\ Len(b \o w) = Len(b) + z
          /\ \A i \in 1 .. Len(b) + z : (b \o w)[i] =
                 IF i <= Len(b) THEN b[i] ELSE w[i - Len(b)]
        BY <2>1, ConcatProperties
    <2> QED
        BY <2>2, Zenon DEF w
<1>7. \A k \in 1 .. n :
          /\ Len(c.blocks[k]) = Rate
          /\ \A i \in 1 .. Rate : c.blocks[k][i] = d[(k - 1) * Rate + i]
    <2> TAKE k \in 1 .. n
    <2>1. Len(c.blocks[k]) = Rate
        BY DEF Holds
    <2>2. ASSUME NEW i \in 1 .. Rate
          PROVE  c.blocks[k][i] = d[(k - 1) * Rate + i]
        <3>1. c.blocks[k][i] = b[(k - 1) * Rate + i]
            BY DEF Holds
        <3>2. (k - 1) * Rate + i \in 1 .. N
            BY <1>1, RateIsPositive, BlocksBefore
        <3> HIDE DEF N, d
        <3>3. (k - 1) * Rate + i \in 1 .. Len(b) + z /\ (k - 1) * Rate + i <= Len(b)
            BY <1>1, <3>2
        <3> QED
            BY <3>1, <3>3, <1>6
    <2> QED
        BY <2>1, <2>2
<1>8. \A i \in 1 .. t + z : e.block[i] = d[N + i]
    <2> TAKE i \in 1 .. t + z
    <2>1. i <= t => c.block[i] = b[N + i]
        BY <1>1 DEF Holds
    <2> HIDE DEF N, d, t
    <2>2. /\ N + i \in 1 .. Len(b) + z
          /\ ((N + i <= Len(b)) <=> (i <= t))
          /\ (N + i) - Len(b) = i - t
        BY <1>1
    <2>3. e.block[i] = IF i <= t THEN c.block[i] ELSE Zeros(z)[i - t]
        BY <1>5
    <2>4. PICK j \in 1 .. Len(b) + z :
              j = N + i /\ ((j <= Len(b)) <=> (i <= t)) /\ j - Len(b) = i - t
        BY <2>2
    <2>5. d[j] = IF j <= Len(b) THEN b[j] ELSE Zeros(z)[j - Len(b)]
        BY <1>6
    <2>6. CASE i <= t
        <3>1. d[j] = b[j] /\ e.block[i] = c.block[i]
            BY <2>3, <2>4, <2>5, <2>6
        <3> QED
            BY <3>1, <2>1, <2>4, <2>6
    <2>7. CASE ~ (i <= t)
        <3>1. d[j] = Zeros(z)[i - t] /\ e.block[i] = Zeros(z)[i - t]
            BY <2>3, <2>4, <2>5, <2>7
        <3> QED
            BY <3>1, <2>4
    <2> QED
        BY <2>6, <2>7
<1> HIDE DEF d
<1>9. Len(e.block) < Rate /\ Len(d) = Len(e.blocks) * Rate + Len(e.block)
    <2>1. t + z < Rate
        BY <1>1, RateIsPositive DEF z
    <2>2. Len(d) = N + (t + z)
        <3> HIDE DEF N, t
        <3> QED
            BY <1>1, <1>6
    <2> QED
        BY <2>1, <2>2, <1>4, <1>5
<1>10. \A k \in 1 .. Len(e.blocks) :
          /\ Len(e.blocks[k]) = Rate
          /\ \A i \in 1 .. Rate : e.blocks[k][i] = d[(k - 1) * Rate + i]
    BY <1>4, <1>7
<1>11. \A i \in 1 .. Len(e.block) : e.block[i] = d[Len(e.blocks) * Rate + i]
    BY <1>4, <1>5, <1>8
<1>12. Holds(e, d)
    BY <1>4, <1>6, <1>9, <1>10, <1>11, Zenon DEF Holds
<1> QED
    BY <1>12 DEF e, d, z

\* What HashFinal adds to the input.
Padding(n) ==
    [k \in 1 .. n |-> (IF k = 1 THEN 6 ELSE 0) + (IF k = n THEN 128 ELSE 0)]

LEMMA PaddingIsBytes ==
    ASSUME NEW n \in Nat
    PROVE  Padding(n) \in Seq(Bytes) /\ Len(Padding(n)) = n
<1>1. \A k \in 1 .. n : (IF k = 1 THEN 6 ELSE 0) + (IF k = n THEN 128 ELSE 0) \in Bytes
    BY DEF Bytes
<1> QED
    BY <1>1 DEF Padding

\* The bytes of the rest are those beyond the full blocks.
LEMMA RestOfBytes ==
    ASSUME NEW c, NEW b, Holds(c, b)
    PROVE  /\ Len(b) % Rate = Len(c.block)
           /\ Padded(b) = b \o Padding(Rate - Len(c.block))
<1>1. \A R \in Nat \ {0} : \A q, t \in Nat : t < R => (q * R + t) % R = t
    BY SMT
<1>2. /\ Len(c.blocks) \in Nat /\ Len(c.block) \in Nat /\ Len(c.block) < Rate
      /\ Len(b) = Len(c.blocks) * Rate + Len(c.block)
    BY DEF Holds, Contexts
<1>3. Rate \in Nat \ {0}
    BY RateIsPositive
<1>4. Len(b) % Rate = Len(c.block)
    BY <1>1, <1>2, <1>3
<1> QED
    BY <1>4 DEF Padded, Padding

\* The padding brings the input to the end of a block.
LEMMA FinalHolds ==
    ASSUME NEW c, NEW b, Holds(c, b)
    PROVE  Holds(HashFinal(c), Padded(b))
<1> DEFINE t == Len(c.block)
<1>1. /\ c \in Contexts /\ b \in Seq(Bytes) /\ t \in Nat /\ t < Rate
      /\ Rate \in Nat /\ Rate > 1
    BY RateIsPositive DEF Holds, Contexts
<1>2. Padded(b) = b \o Padding(Rate - t)
    BY RestOfBytes
<1>3. <<134>> \in Seq(Bytes) /\ <<6>> \in Seq(Bytes) /\ <<128>> \in Seq(Bytes)
    BY DEF Bytes
<1>4. CASE t = Rate - 1
    <2>1. HashFinal(c) = HashUpdate(c, <<134>>)
        BY <1>4 DEF HashFinal
    <2>2. Holds(HashFinal(c), b \o <<134>>)
        <3> DEFINE s == <<134>>
        <3>1. s \in Seq(Bytes)
            BY <1>3
        <3> HIDE DEF s
        <3>2. Holds(HashUpdate(c, s), b \o s)
            BY <3>1, UpdateHolds
        <3> QED
            BY <2>1, <3>2 DEF s
    <2>3. Padding(Rate - t) = <<134>>
        <3>1. Rate - t = 1
            BY <1>1, <1>4
        <3>2. Padding(1) \in Seq(Bytes) /\ Len(Padding(1)) = 1 /\ Padding(1)[1] = 134
            BY PaddingIsBytes DEF Padding
        <3>3. Len(<<134>>) = 1 /\ \A i \in 1 .. 1 : Padding(1)[i] = <<134>>[i]
            BY <3>2
        <3>4. Padding(1) = <<134>>
            BY <3>2, <3>3, <1>3, SeqEqual
        <3> QED
            BY <3>1, <3>4
    <2> QED
        BY <2>2, <2>3, <1>2
<1>5. CASE t # Rate - 1
    <2> DEFINE c1 == HashUpdate(c, <<6>>)
               b1 == b \o <<6>>
               z == Rate - 1 - (t + 1)
               c2 == LoadedToLast(c1)
               b2 == b1 \o Zeros(z)
    <2>1. HashFinal(c) = HashUpdate(c2, <<128>>)
        BY <1>5 DEF HashFinal
    <2>2. Holds(c1, b1)
        BY <1>3, UpdateHolds
    <2>3. Len(c1.block) = t + 1
        <3>1. Len(b1) = Len(b) + 1
            BY <1>1, <1>3, ConcatProperties
        <3>2. Len(b1) % Rate = Len(c1.block) /\ Len(b) % Rate = t
            BY <2>2, RestOfBytes
        <3>3. /\ Len(c.blocks) \in Nat /\ Len(b) = Len(c.blocks) * Rate + t
            BY <1>1 DEF Holds, Contexts
        <3>4. \A R \in Nat \ {0} : \A q, s \in Nat :
                  s + 1 < R => (q * R + s + 1) % R = s + 1
            BY SMT
        <3>5. t + 1 < Rate /\ Rate \in Nat \ {0}
            BY <1>1, <1>5
        <3> DEFINE n == Len(c.blocks)
        <3> HIDE DEF t, c1, b1, n
        <3>6. n \in Nat /\ Len(b) = n * Rate + t
            BY <3>3 DEF n
        <3>7. (n * Rate + t + 1) % Rate = t + 1
            BY <3>4, <3>5, <3>6, <1>1
        <3> QED
            BY <3>1, <3>2, <3>6, <3>7
    <2>4. z \in Nat
        BY <1>1, <1>5
    <2>5. Holds(c2, b2)
        BY <2>2, <2>3, LoadedHolds
    <2>6. Holds(HashUpdate(c2, <<128>>), b2 \o <<128>>)
        BY <2>5, <1>3, UpdateHolds
    <2>7. b2 \o <<128>> = b \o Padding(Rate - t)
        <3> DEFINE p == <<6>> \o (Zeros(z) \o <<128>>)
                   q == Padding(Rate - t)
        <3>1. Zeros(z) \in Seq(Bytes) /\ Len(Zeros(z)) = z
            BY <2>4, ZerosAreBytes
        <3>2. Rate - t \in Nat /\ Rate - t = z + 2
            BY <1>1
        <3> HIDE DEF z
        <3>3. /\ Zeros(z) \o <<128>> \in Seq(Bytes)
              /\ Len(Zeros(z) \o <<128>>) = z + 1
              /\ \A i \in 1 .. z + 1 : (Zeros(z) \o <<128>>)[i] =
                     IF i <= z THEN Zeros(z)[i] ELSE <<128>>[i - z]
            BY <3>1, <1>3, ConcatProperties
        <3>4. /\ p \in Seq(Bytes) /\ Len(p) = 1 + (z + 1)
              /\ \A i \in 1 .. 1 + (z + 1) : p[i] =
                     IF i <= 1 THEN <<6>>[i] ELSE (Zeros(z) \o <<128>>)[i - 1]
            BY <3>3, <1>3, ConcatProperties
        <3>5. q \in Seq(Bytes) /\ Len(q) = z + 2
            BY <3>2, PaddingIsBytes
        <3>6. \A i \in 1 .. z + 2 : q[i] =
                  (IF i = 1 THEN 6 ELSE 0) + (IF i = z + 2 THEN 128 ELSE 0)
            BY <3>2 DEF Padding
        <3>7. \A i \in 1 .. z : Zeros(z)[i] = 0
            BY DEF Zeros
        <3> HIDE DEF p, q
        <3>8. ASSUME NEW i \in 1 .. z + 2
              PROVE  p[i] = q[i]
            <4>1. CASE i = 1
                BY <4>1, <3>4, <3>6, <2>4
            <4>2. CASE i # 1 /\ i # z + 2
                <5>1. i - 1 \in 1 .. z /\ i - 1 \in 1 .. z + 1 /\ i \in 1 .. 1 + (z + 1)
                    BY <4>2, <2>4
                <5>2. ~ (i <= 1) /\ i - 1 <= z
                    BY <4>2, <2>4
                <5>3. p[i] = (Zeros(z) \o <<128>>)[i - 1]
                    BY <5>1, <5>2, <3>4
                <5>4. (Zeros(z) \o <<128>>)[i - 1] = 0
                    BY <5>1, <5>2, <3>3, <3>7
                <5>5. q[i] = (IF i = 1 THEN 6 ELSE 0) + (IF i = z + 2 THEN 128 ELSE 0)
                    BY <3>6
                <5>6. q[i] = 0
                    BY <5>5, <4>2
                <5> QED
                    BY <5>3, <5>4, <5>6
            <4>3. CASE i = z + 2
                <5>1. i - 1 = z + 1 /\ i - 1 \in 1 .. z + 1 /\ i \in 1 .. 1 + (z + 1)
                      /\ ~ (i <= 1) /\ ~ (z + 1 <= z) /\ (z + 1) - z = 1
                    BY <4>3, <2>4
                <5>2. p[i] = 128
                    BY <5>1, <3>3, <3>4
                <5>3. i # 1
                    BY <4>3, <2>4
                <5>4. q[i] = (IF i = 1 THEN 6 ELSE 0) + (IF i = z + 2 THEN 128 ELSE 0)
                    BY <3>6
                <5>5. q[i] = 128
                    BY <5>3, <5>4, <4>3
                <5> QED
                    BY <5>2, <5>5
            <4> QED
                BY <4>1, <4>2, <4>3
        <3>9. p = q
            <4>1. Len(p) = Len(q)
                BY <3>4, <3>5, <2>4
            <4> QED
                BY <4>1, <3>4, <3>5, <3>8, SeqEqual
        <3>10. b2 \o <<128>> = b1 \o (Zeros(z) \o <<128>>)
            <4>1. b1 \in Seq(Bytes)
                BY <1>1, <1>3, ConcatProperties
            <4> DEFINE w == Zeros(z)
                       l == <<128>>
            <4>2. w \in Seq(Bytes) /\ l \in Seq(Bytes)
                BY <3>1, <1>3
            <4> HIDE DEF b1, w, l
            <4>3. (b1 \o w) \o l = b1 \o (w \o l)
                BY <4>1, <4>2, ConcatAssociative
            <4> QED
                BY <4>3 DEF w, l
        <3>11. b1 \o (Zeros(z) \o <<128>>) = b \o p
            BY <1>1, <1>3, <3>3, ConcatAssociative DEF p
        <3> QED
            BY <3>9, <3>10, <3>11 DEF q
    <2> QED
        BY <2>1, <2>6, <2>7, <1>2
<1> QED
    BY <1>4, <1>5

-----------------------------------------------------------------------------
(* Digests tell inputs.                                                    *)

\* The blocks of an input that ends where a block ends.
LEMMA BlocksOf ==
    ASSUME NEW p \in Seq(Bytes), NEW m \in Nat, Len(p) = m * Rate
    PROVE  /\ Blocks(p) \in Seq(Seq(Bytes)) /\ Len(Blocks(p)) = m
           /\ \A k \in 1 .. m :
                /\ Len(Blocks(p)[k]) = Rate
                /\ \A i \in 1 .. Rate : Blocks(p)[k][i] = p[(k - 1) * Rate + i]
<1> DEFINE block(k) == SubSeq(p, (k - 1) * Rate + 1, k * Rate)
<1>1. Len(p) \div Rate = m
    <2>1. \A R \in Nat \ {0} : \A q \in Nat : (q * R) \div R = q
        BY SMT
    <2> QED
        BY <2>1, RateIsPositive
<1>2. Blocks(p) = [k \in 1 .. m |-> block(k)]
    BY <1>1 DEF Blocks
<1>3. ASSUME NEW k \in 1 .. m
      PROVE  /\ block(k) \in Seq(Bytes) /\ Len(block(k)) = Rate
             /\ \A i \in 1 .. Rate : block(k)[i] = p[(k - 1) * Rate + i]
    <2> DEFINE from == (k - 1) * Rate + 1
               to == k * Rate
    <2>1. from \in Nat /\ to \in Nat /\ to = (k - 1) * Rate + Rate
        BY RateIsPositive
    <2>2. \A i \in 1 .. Rate : (k - 1) * Rate + i \in 1 .. Len(p)
        BY BlocksBefore, RateIsPositive
    <2>3. (k - 1) * Rate \in Nat
        BY RateIsPositive
    <2> DEFINE B == (k - 1) * Rate
    <2> HIDE DEF B
    <2>4. from = B + 1 /\ to = B + Rate /\ B \in Nat
        BY <2>1, <2>3 DEF B
    <2> HIDE DEF from, to
    <2>5. \A i \in from .. to : p[i] \in Bytes
        <3> TAKE i \in from .. to
        <3>1. i - B \in 1 .. Rate /\ B + (i - B) = i
            BY <2>1, <2>4, RateIsPositive
        <3>2. B + (i - B) \in 1 .. Len(p)
            BY <2>2, <3>1 DEF B
        <3> QED
            BY <3>1, <3>2
    <2>6. /\ SubSeq(p, from, to) \in Seq(Bytes)
          /\ Len(SubSeq(p, from, to)) = IF from <= to THEN to - from + 1 ELSE 0
          /\ \A i \in 1 .. (to - from) + 1 : SubSeq(p, from, to)[i] = p[(from + i) - 1]
        BY <2>1, <2>5, SubSeqProperties
    <2>7. from <= to /\ (to - from) + 1 = Rate /\ \A i \in 1 .. Rate : (from + i) - 1 = B + i
        BY <2>4, RateIsPositive
    <2>8. /\ SubSeq(p, from, to) \in Seq(Bytes) /\ Len(SubSeq(p, from, to)) = Rate
          /\ \A i \in 1 .. Rate : SubSeq(p, from, to)[i] = p[B + i]
        BY <2>6, <2>7
    <2> QED
        BY <2>8 DEF B, from, to
<1> HIDE DEF block
<1> QED
    BY <1>2, <1>3

\* A context that ends where a block ends has the blocks of its input.
LEMMA HoldsBlocks ==
    ASSUME NEW c, NEW p, Holds(c, p), Len(c.block) = 0
    PROVE  c.blocks = Blocks(p)
<1> DEFINE m == Len(c.blocks)
<1>1. /\ c.blocks \in Seq(Seq(Bytes)) /\ p \in Seq(Bytes) /\ m \in Nat
      /\ Len(p) = m * Rate
    BY RateIsPositive DEF Holds, Contexts
<1>2. /\ Blocks(p) \in Seq(Seq(Bytes)) /\ Len(Blocks(p)) = m
      /\ \A k \in 1 .. m :
            /\ Len(Blocks(p)[k]) = Rate
            /\ \A i \in 1 .. Rate : Blocks(p)[k][i] = p[(k - 1) * Rate + i]
    BY <1>1, BlocksOf
<1>3. ASSUME NEW k \in 1 .. m
      PROVE  c.blocks[k] = Blocks(p)[k]
    <2>1. c.blocks[k] \in Seq(Bytes) /\ Blocks(p)[k] \in Seq(Bytes)
        BY <1>1, <1>2
    <2>2. /\ Len(c.blocks[k]) = Rate
          /\ \A i \in 1 .. Rate : c.blocks[k][i] = p[(k - 1) * Rate + i]
        BY DEF Holds
    <2>3. Len(c.blocks[k]) = Len(Blocks(p)[k])
        BY <1>2, <2>2
    <2>4. \A i \in 1 .. Len(c.blocks[k]) : c.blocks[k][i] = Blocks(p)[k][i]
        BY <1>2, <2>2
    <2> QED
        BY <2>1, <2>3, <2>4, SeqEqual
<1> QED
    BY <1>1, <1>2, <1>3, SeqEqual

\* The padded input ends where a block ends.
LEMMA PaddedIsWhole ==
    ASSUME NEW b \in Seq(Bytes)
    PROVE  /\ Padded(b) \in Seq(Bytes)
           /\ \E m \in Nat : Len(Padded(b)) = m * Rate
           /\ \E n \in 1 .. Rate :
                /\ Len(Padded(b)) = Len(b) + n
                /\ Padded(b) = b \o Padding(n)
<1>1. \A R \in Nat \ {0} : \A l \in Nat :
          l = (l \div R) * R + (l % R) /\ l \div R \in Nat /\ l % R \in 0 .. R - 1
    BY SMT
<1> DEFINE L == Len(b)
           q == L \div Rate
           t == L % Rate
           n == Rate - t
<1>2. Rate \in Nat \ {0} /\ L \in Nat
    BY RateIsPositive
<1>3. L = q * Rate + t /\ q \in Nat /\ t \in 0 .. Rate - 1
    BY <1>1, <1>2
<1>4. Padded(b) = b \o Padding(n)
    BY DEF Padded, Padding
<1> HIDE DEF q, t, L
<1>5. n \in 1 .. Rate
    BY <1>2, <1>3
<1>6. Padding(n) \in Seq(Bytes) /\ Len(Padding(n)) = n
    BY <1>5, PaddingIsBytes
<1>7. Padded(b) \in Seq(Bytes) /\ Len(Padded(b)) = L + n
    BY <1>4, <1>6, ConcatProperties DEF L
<1>8. L + n = (q + 1) * Rate
    BY <1>2, <1>3
<1>9. \E m \in Nat : Len(Padded(b)) = m * Rate
    <2>1. q + 1 \in Nat /\ Len(Padded(b)) = (q + 1) * Rate
        BY <1>3, <1>7, <1>8
    <2> QED
        BY <2>1
<1> HIDE DEF n
<1>10. \E k \in 1 .. Rate :
          /\ Len(Padded(b)) = Len(b) + k
          /\ Padded(b) = b \o Padding(k)
    BY <1>4, <1>5, <1>7 DEF L
<1> QED
    BY <1>7, <1>9, <1>10

\* The digest is the blocks of the padded input.
LEMMA DigestIsBlocks ==
    ASSUME NEW c, NEW b, Holds(c, b)
    PROVE  Digest(HashFinal(c)) = Blocks(Padded(b))
<1> DEFINE f == HashFinal(c)
           p == Padded(b)
<1>1. b \in Seq(Bytes)
    BY DEF Holds
<1>2. Holds(f, p)
    BY FinalHolds
<1>3. PICK m \in Nat : Len(p) = m * Rate
    BY <1>1, PaddedIsWhole
<1>4. Len(p) % Rate = Len(f.block)
    BY <1>2, RestOfBytes
<1>5. \A R \in Nat \ {0} : \A q \in Nat : (q * R) % R = 0
    BY SMT
<1>6. Len(f.block) = 0
    <2>1. (m * Rate) % Rate = 0
        BY <1>5, RateIsPositive
    <2> HIDE DEF f, p
    <2> QED
        BY <1>3, <1>4, <2>1
<1> QED
    BY <1>2, <1>6, HoldsBlocks DEF Digest

\* Inputs with the same blocks are the same.
LEMMA BlocksTell ==
    ASSUME NEW p \in Seq(Bytes), NEW q \in Seq(Bytes),
           NEW m \in Nat, Len(p) = m * Rate, NEW n \in Nat, Len(q) = n * Rate,
           Blocks(p) = Blocks(q)
    PROVE  p = q
<1>1. /\ Len(Blocks(p)) = m
      /\ \A k \in 1 .. m : \A i \in 1 .. Rate : Blocks(p)[k][i] = p[(k - 1) * Rate + i]
    BY BlocksOf
<1>2. /\ Len(Blocks(q)) = n
      /\ \A k \in 1 .. n : \A i \in 1 .. Rate : Blocks(q)[k][i] = q[(k - 1) * Rate + i]
    BY BlocksOf
<1>3. m = n /\ Len(p) = Len(q)
    BY <1>1, <1>2
<1>4. \A k \in 1 .. m : \A i \in 1 .. Rate : p[(k - 1) * Rate + i] = q[(k - 1) * Rate + i]
    <2> TAKE k \in 1 .. m
    <2> TAKE i \in 1 .. Rate
    <2>1. Blocks(p)[k][i] = p[(k - 1) * Rate + i]
        BY <1>1
    <2>2. Blocks(q)[k][i] = q[(k - 1) * Rate + i]
        BY <1>2, <1>3
    <2> QED
        BY <2>1, <2>2
<1>5. ASSUME NEW i \in 1 .. Len(p)
      PROVE  p[i] = q[i]
    <2>1. \A R \in Nat \ {0} : \A l \in Nat :
              l = (l \div R) * R + (l % R) /\ l \div R \in Nat /\ l % R \in 0 .. R - 1
        BY SMT
    <2> DEFINE a == (i - 1) \div Rate
               t == (i - 1) % Rate
    <2>2. Rate \in Nat \ {0} /\ i \in Nat /\ i - 1 \in Nat /\ i <= m * Rate
        BY RateIsPositive
    <2>3. i - 1 = a * Rate + t /\ a \in Nat /\ t \in 0 .. Rate - 1
        BY <2>1, <2>2
    <2> HIDE DEF a, t
    <2>4. a < m
        <3>1. \A x, y, R \in Nat : x <= y => x * R <= y * R
            BY SMT
        <3> SUFFICES ASSUME m <= a PROVE FALSE
            BY <2>3
        <3>2. m * Rate <= a * Rate
            BY <3>1, <2>2, <2>3
        <3>3. a * Rate \in Nat /\ m * Rate \in Nat
            BY <2>2, <2>3
        <3> QED
            BY <3>2, <3>3, <2>2, <2>3
    <2>5. a + 1 \in 1 .. m /\ t + 1 \in 1 .. Rate /\ (a + 1) - 1 = a
        BY <2>2, <2>3, <2>4
    <2>6. i = ((a + 1) - 1) * Rate + (t + 1)
        <3>1. a * Rate \in Nat
            BY <2>2, <2>3
        <3> QED
            BY <3>1, <2>2, <2>3, <2>5
    <2> QED
        BY <1>4, <2>5, <2>6
<1> QED
    BY <1>3, <1>5, SeqEqual

\* The padding tells where the input ended.
LEMMA PaddedTells ==
    ASSUME NEW a \in Seq(Bytes), NEW b \in Seq(Bytes), Padded(a) = Padded(b)
    PROVE  a = b
<1>1. ASSUME NEW x \in Seq(Bytes), NEW y \in Seq(Bytes), Padded(x) = Padded(y)
      PROVE  ~ (Len(x) < Len(y))
    <2> SUFFICES ASSUME Len(x) < Len(y) PROVE FALSE
        OBVIOUS
    <2>1. PICK n \in 1 .. Rate :
              Len(Padded(x)) = Len(x) + n /\ Padded(x) = x \o Padding(n)
        BY PaddedIsWhole
    <2>2. PICK l \in 1 .. Rate :
              Len(Padded(y)) = Len(y) + l /\ Padded(y) = y \o Padding(l)
        BY PaddedIsWhole
    <2> DEFINE X == Len(x)
               Y == Len(y)
               w == Padding(n)
               v == Padding(l)
    <2>3. X \in Nat /\ Y \in Nat /\ n \in Nat /\ l \in Nat /\ l >= 1 /\ X < Y /\ X + n = Y + l
        <3>1. Len(Padded(x)) = Len(Padded(y))
            BY <1>1
        <3>2. X \in Nat /\ Y \in Nat
            OBVIOUS
        <3> HIDE DEF X, Y
        <3>3. X + n = Y + l
            BY <3>1, <2>1, <2>2 DEF X, Y
        <3>4. X < Y
            BY DEF X, Y
        <3> QED
            BY <3>2, <3>3, <3>4, RateIsPositive
    <2>4. /\ w \in Seq(Bytes) /\ Len(w) = n
          /\ v \in Seq(Bytes) /\ Len(v) = l
        BY <2>3, PaddingIsBytes
    <2>5. \A i \in 1 .. n : w[i] = (IF i = 1 THEN 6 ELSE 0) + (IF i = n THEN 128 ELSE 0)
        BY DEF Padding
    <2>6. \A i \in 1 .. l : v[i] = (IF i = 1 THEN 6 ELSE 0) + (IF i = l THEN 128 ELSE 0)
        BY DEF Padding
    <2> HIDE DEF w, v
    <2>7. \A i \in 1 .. X + n : (x \o w)[i] = IF i <= X THEN x[i] ELSE w[i - X]
        BY <2>4, ConcatProperties
    <2>8. \A i \in 1 .. Y + l : (y \o v)[i] = IF i <= Y THEN y[i] ELSE v[i - Y]
        BY <2>4, ConcatProperties
    <2>9. x \o w = y \o v
        BY <1>1, <2>1, <2>2 DEF w, v
    <2> HIDE DEF X, Y
    <2>10. /\ Y + 1 \in 1 .. X + n /\ Y + 1 \in 1 .. Y + l /\ ~ (Y + 1 <= X) /\ ~ (Y + 1 <= Y)
           /\ (Y + 1) - Y = 1 /\ (Y + 1) - X \in 1 .. n /\ (Y + 1) - X # 1 /\ 1 \in 1 .. l
        BY <2>3
    <2>11. w[(Y + 1) - X] = v[1]
        BY <2>7, <2>8, <2>9, <2>10
    <2>12. v[1] = 6 \/ v[1] = 134
        BY <2>6, <2>10
    <2>13. w[(Y + 1) - X] = 0 \/ w[(Y + 1) - X] = 128
        <3> DEFINE i == (Y + 1) - X
        <3>1. i \in 1 .. n /\ i # 1
            BY <2>10
        <3> HIDE DEF i
        <3>2. w[i] = (IF i = 1 THEN 6 ELSE 0) + (IF i = n THEN 128 ELSE 0)
            BY <3>1, <2>5
        <3>3. w[i] = 0 \/ w[i] = 128
            BY <3>1, <3>2
        <3> QED
            BY <3>3 DEF i
    <2> QED
        BY <2>11, <2>12, <2>13
<1>2. Len(a) = Len(b)
    <2>1. ~ (Len(a) < Len(b)) /\ ~ (Len(b) < Len(a))
        BY <1>1
    <2>2. Len(a) \in Nat /\ Len(b) \in Nat
        OBVIOUS
    <2> QED
        BY <2>1, <2>2
<1>3. PICK n \in 1 .. Rate :
          Len(Padded(a)) = Len(a) + n /\ Padded(a) = a \o Padding(n)
    BY PaddedIsWhole
<1>4. PICK l \in 1 .. Rate :
          Len(Padded(b)) = Len(b) + l /\ Padded(b) = b \o Padding(l)
    BY PaddedIsWhole
<1>5. /\ n \in Nat /\ l \in Nat
      /\ Padding(n) \in Seq(Bytes) /\ Len(Padding(n)) = n
      /\ Padding(l) \in Seq(Bytes) /\ Len(Padding(l)) = l
    BY RateIsPositive, PaddingIsBytes
<1>6. \A i \in 1 .. Len(a) + n : (a \o Padding(n))[i] =
          IF i <= Len(a) THEN a[i] ELSE Padding(n)[i - Len(a)]
    BY <1>5, ConcatProperties
<1>7. \A i \in 1 .. Len(b) + l : (b \o Padding(l))[i] =
          IF i <= Len(b) THEN b[i] ELSE Padding(l)[i - Len(b)]
    BY <1>5, ConcatProperties
<1>8. \A i \in 1 .. Len(a) : a[i] = b[i]
    <2> TAKE i \in 1 .. Len(a)
    <2>1. /\ i \in 1 .. Len(a) + n /\ i \in 1 .. Len(b) + l
          /\ i <= Len(a) /\ i <= Len(b)
        BY <1>2, <1>5
    <2>2. (a \o Padding(n))[i] = a[i] /\ (b \o Padding(l))[i] = b[i]
        BY <2>1, <1>6, <1>7
    <2> QED
        BY <2>2, <1>3, <1>4
<1> QED
    BY <1>2, <1>8, SeqEqual

\* The padded blocks tell the input.
LEMMA DigestTells ==
    ASSUME NEW a \in Seq(Bytes), NEW b \in Seq(Bytes),
           Blocks(Padded(a)) = Blocks(Padded(b))
    PROVE  a = b
<1>1. PICK m \in Nat : Len(Padded(a)) = m * Rate
    BY PaddedIsWhole
<1>2. PICK n \in Nat : Len(Padded(b)) = n * Rate
    BY PaddedIsWhole
<1>3. Padded(a) \in Seq(Bytes) /\ Padded(b) \in Seq(Bytes)
    BY PaddedIsWhole
<1>4. Padded(a) = Padded(b)
    BY <1>1, <1>2, <1>3, BlocksTell
<1> QED
    BY <1>4, PaddedTells

-----------------------------------------------------------------------------
(* The rows of an evaluation.                                              *)

\* What Rows says of a row, and of what it gives.
LEMMA RowTypes ==
    ASSUME NEW row \in Rows
    PROVE  /\ row.kind \in {"null", "number", "blob"} /\ row.bytes \in Seq(Bytes)
           /\ Given(row) \in Seq(Bytes)
<1>1. row \in [kind : {"null", "number", "blob"}, bytes : Seq(Bytes)]
    BY HashFunctionsAssumption
<1>2. <<>> \in Seq(Bytes)
    OBVIOUS
<1> QED
    BY <1>1, <1>2 DEF Given

\* f goes from no bytes to those of all the rows.
Joins(f, given) ==
    /\ f \in [0 .. Len(given) -> Seq(Bytes)]
    /\ f[0] = <<>>
    /\ \A k \in 1 .. Len(given) : f[k] = f[k - 1] \o Given(given[k])

\* Joined is one concatenation after another.
LEMMA JoinedUnfold ==
    ASSUME NEW given \in Seq(Rows)
    PROVE  \E f : Joins(f, given) /\ Joined(given) = f[Len(given)]
<1> DEFINE n == Len(given)
           T == Seq(Bytes)
           Body(u) == [k \in 0 .. n |-> IF k = 0 THEN <<>> ELSE u[k - 1] \o Given(given[k])]
           g == [x \in (1 .. n) \X T |-> x[2] \o Given(given[x[1]])]
           upTo == CHOOSE u : u = Body(u)
<1>1. n \in Nat /\ (\A k \in 1 .. n : Given(given[k]) \in T) /\ <<>> \in T
    <2>1. n \in Nat /\ \A k \in 1 .. n : given[k] \in Rows
        OBVIOUS
    <2>2. \A k \in 1 .. n : Given(given[k]) \in T
        BY <2>1, RowTypes
    <2>3. <<>> \in T
        OBVIOUS
    <2> QED
        BY <2>1, <2>2, <2>3
<1>2. \A s \in T : \A k \in 1 .. n : s \o Given(given[k]) \in T
    BY <1>1, ConcatProperties
<1> HIDE DEF T
<1>3. g \in Steps(n, T)
    <2> SUFFICES ASSUME NEW x \in (1 .. n) \X T
                 PROVE  x[2] \o Given(given[x[1]]) \in T
        BY DEF Steps
    <2>1. x[2] \in T /\ x[1] \in 1 .. n
        OBVIOUS
    <2> QED
        BY <2>1, <1>2
<1>4. PICK f : /\ f \in [0 .. n -> T] /\ f[0] = <<>>
               /\ \A k \in 1 .. n : f[k] = g[<<k, f[k - 1]>>]
    <2>1. \E f : Iterates(f, <<>>, g, n, T)
        <3> HIDE DEF g, n
        <3> QED
            BY <1>1, <1>3, PrimitiveRecursion
    <2> HIDE DEF g, n
    <2> QED
        BY <2>1 DEF Iterates
<1>5. \A k \in 1 .. n : f[k] = f[k - 1] \o Given(given[k])
    <2> TAKE k \in 1 .. n
    <2>1. f[k - 1] \in T
        BY <1>1, <1>4
    <2>2. g[<<k, f[k - 1]>>] = f[k - 1] \o Given(given[k])
        BY <2>1
    <2> QED
        BY <1>4, <2>2
<1> HIDE DEF g
<1>6. f = Body(f)
    <2>1. \A k \in 0 .. n : f[k] = Body(f)[k]
        <3> TAKE k \in 0 .. n
        <3>1. CASE k = 0
            BY <3>1, <1>1, <1>4
        <3>2. CASE k # 0
            <4>1. k \in 1 .. n
                BY <3>2, <1>1
            <4> QED
                BY <3>2, <4>1, <1>5, Zenon
        <3> QED
            BY <3>1, <3>2
    <2>2. DOMAIN f = 0 .. n /\ f = [k \in DOMAIN f |-> f[k]]
        BY <1>4
    <2> QED
        BY <2>1, <2>2
<1>7. upTo = Body(upTo)
    <2> HIDE DEF Body
    <2> QED
        BY <1>6
<1>8. Joined(given) = upTo[n]
    BY DEF Joined
<1> HIDE DEF upTo
<1>9. upTo[0] = <<>>
    BY <1>1, <1>7
<1>10. ASSUME NEW k \in 1 .. n
       PROVE  upTo[k] = upTo[k - 1] \o Given(given[k])
    <2>1. k \in 0 .. n /\ k # 0
        OBVIOUS
    <2> QED
        BY <1>7, <2>1, Zenon
<1>11. \A k \in 0 .. n : upTo[k] \in T
    <2> DEFINE C == {k \in 0 .. n : upTo[k] \in T}
    <2> HIDE DEF n
    <2>1. 0 \in C
        BY <1>1, <1>9
    <2>2. ASSUME NEW k \in 0 .. n, k # n, k \in C
          PROVE  k + 1 \in C
        <3>1. k + 1 \in 1 .. n /\ (k + 1) - 1 = k /\ k + 1 \in 0 .. n
            BY <2>2, <1>1
        <3>2. upTo[k + 1] = upTo[k] \o Given(given[k + 1])
            BY <3>1, <1>10
        <3> QED
            BY <2>2, <3>1, <3>2, <1>2
    <2>3. \A k \in 0 .. n : k \in C
        <3> HIDE DEF C
        <3> QED
            BY <1>1, <2>1, <2>2, InductionTo
    <2> QED
        BY <2>3
<1>12. upTo \in [0 .. n -> T]
    <2>1. upTo = [k \in 0 .. n |-> upTo[k]]
        BY <1>7, Zenon
    <2> HIDE DEF n
    <2> QED
        BY <2>1, <1>11
<1> QED
    BY <1>8, <1>9, <1>10, <1>12 DEF Joins, T

\* No rows give no bytes.
LEMMA JoinedNone == Joined(<<>>) = <<>>
<1>1. <<>> \in Seq(Rows) /\ Len(<<>>) = 0
    OBVIOUS
<1> QED
    BY <1>1, JoinedUnfold DEF Joins

\* The bytes of one more row come after those of the others.
LEMMA JoinedAppend ==
    ASSUME NEW given \in Seq(Rows), NEW row \in Rows
    PROVE  /\ Joined(given) \in Seq(Bytes)
           /\ Joined(Append(given, row)) = Joined(given) \o Given(row)
<1> DEFINE n == Len(given)
           more == Append(given, row)
<1>1. /\ more \in Seq(Rows) /\ Len(more) = n + 1 /\ n \in Nat
      /\ \A k \in 1 .. n : more[k] = given[k]
      /\ more[n + 1] = row
    BY AppendProperties
<1> HIDE DEF more, n
<1>2. PICK f : Joins(f, given) /\ Joined(given) = f[n]
    BY JoinedUnfold DEF n
<1>3. PICK h : Joins(h, more) /\ Joined(more) = h[n + 1]
    BY <1>1, JoinedUnfold
<1>4. /\ f \in [0 .. n -> Seq(Bytes)] /\ f[0] = <<>>
      /\ \A k \in 1 .. n : f[k] = f[k - 1] \o Given(given[k])
    BY <1>2 DEF Joins, n
<1>5. /\ h[0] = <<>>
      /\ \A k \in 1 .. n + 1 : h[k] = h[k - 1] \o Given(more[k])
    BY <1>1, <1>3 DEF Joins
<1> DEFINE C == {k \in 0 .. n : h[k] = f[k]}
<1>6. 0 \in C
    BY <1>1, <1>4, <1>5
<1>7. ASSUME NEW k \in 0 .. n, k # n, k \in C
      PROVE  k + 1 \in C
    <2>1. /\ k + 1 \in 1 .. n /\ k + 1 \in 1 .. n + 1 /\ k + 1 \in 0 .. n
          /\ (k + 1) - 1 = k
        BY <1>1, <1>7
    <2>2. f[k + 1] = f[k] \o Given(given[k + 1])
        BY <2>1, <1>4
    <2>3. h[k + 1] = h[k] \o Given(more[k + 1])
        BY <2>1, <1>5
    <2>4. more[k + 1] = given[k + 1] /\ h[k] = f[k]
        BY <2>1, <1>1, <1>7
    <2> QED
        BY <2>1, <2>2, <2>3, <2>4
<1>8. \A k \in 0 .. n : k \in C
    <2> HIDE DEF C
    <2> QED
        BY <1>1, <1>6, <1>7, InductionTo
<1>9. n \in 0 .. n /\ n + 1 \in 1 .. n + 1 /\ (n + 1) - 1 = n
    BY <1>1
<1>10. h[n] = f[n] /\ h[n + 1] = h[n] \o Given(more[n + 1])
    BY <1>5, <1>8, <1>9
<1> QED
    BY <1>1, <1>2, <1>3, <1>4, <1>9, <1>10 DEF more

-----------------------------------------------------------------------------
Value == [kind : {"null", "error", "hash"}, digest : Seq(Seq(Bytes))]

AggregateTypes ==
    /\ pc \in [Roles -> {"start", "registering", "ready", "refused", "open", "closed"}]
    /\ rows \in [Roles -> Seq(Rows)]
    /\ cx \in [Roles -> Contexts]
    /\ started \in [Roles -> BOOLEAN] /\ done \in [Roles -> BOOLEAN]
    /\ result \in [Roles -> Seq(Seq(Bytes))]
    /\ values \in [Roles -> Seq(Value)]

\* None of the rows held anything.
Nothing(given) == \A k \in DOMAIN given : given[k].kind = "null"

\* The digest SQL gets for the rows.
DigestOf(given) == Blocks(Padded(Joined(given)))

Answer(given) == IF Nothing(given) THEN Null ELSE Hash(DigestOf(given))

\* No row has been stepped and nothing was asked for.
Untouched(r) ==
    /\ rows[r] = <<>> /\ values[r] = <<>>
    /\ cx[r] = HashInit /\ ~ started[r] /\ ~ done[r]

\* Until the digest is cached the context holds exactly the rows.
Current(r) ==
    /\ started[r] <=> ~ Nothing(rows[r])
    /\ IF done[r] THEN result[r] = DigestOf(rows[r]) ELSE Holds(cx[r], Joined(rows[r]))
    /\ values[r] = <<>> => ~ done[r]

Answered(r) ==
    \A k \in DOMAIN values[r] : values[r][k] # Failed => values[r][k] = Answer(rows[r])

Evaluation(r) ==
    /\ pc[r] \notin {"open", "closed"} => Untouched(r)
    /\ pc[r] = "open" => Current(r)
    /\ Answered(r)

EvaluationInvariant == AggregateTypes /\ \A r \in Roles : Evaluation(r)

\* One more row that is NULL changes nothing, any other does.
LEMMA NothingAppend ==
    ASSUME NEW given \in Seq(Rows), NEW row \in Rows
    PROVE  /\ Append(given, row) \in Seq(Rows)
           /\ Nothing(Append(given, row)) <=> Nothing(given) /\ row.kind = "null"
<1> DEFINE n == Len(given)
           more == Append(given, row)
<1>1. /\ more \in Seq(Rows) /\ Len(more) = n + 1 /\ n \in Nat
      /\ \A k \in 1 .. n : more[k] = given[k]
      /\ more[n + 1] = row
    BY AppendProperties
<1>2. DOMAIN more = 1 .. n + 1 /\ DOMAIN given = 1 .. n
    BY <1>1
<1> HIDE DEF more, n
<1>3. \A k \in 1 .. n + 1 : k \in 1 .. n \/ k = n + 1
    BY <1>1
<1>4. n + 1 \in 1 .. n + 1 /\ \A k \in 1 .. n : k \in 1 .. n + 1
    BY <1>1
<1>5. Nothing(more) <=> Nothing(given) /\ row.kind = "null"
    BY <1>1, <1>2, <1>3, <1>4 DEF Nothing
<1> QED
    BY <1>1, <1>5 DEF more

LEMMA NothingNone == Nothing(<<>>) /\ <<>> \in Seq(Rows)
    BY DEF Nothing

\* hash of one row is the answer for it.
LEMMA HashFuncAnswers ==
    ASSUME NEW row \in Rows
    PROVE  /\ HashFunc(row) \in Value
           /\ <<row>> \in Seq(Rows)
           /\ HashFunc(row) # Failed => HashFunc(row) = Answer(<<row>>)
<1>1. /\ row.kind \in {"null", "number", "blob"} /\ row.bytes \in Seq(Bytes)
      /\ Given(row) \in Seq(Bytes)
    BY RowTypes
<1>2. Append(<<>>, row) = <<row>>
    OBVIOUS
<1>3. /\ <<row>> \in Seq(Rows)
      /\ Nothing(<<row>>) <=> row.kind = "null"
    BY <1>2, NothingAppend, NothingNone
<1>4. Joined(<<row>>) = Given(row)
    BY <1>1, <1>2, JoinedAppend, JoinedNone, NothingNone, ConcatEmptySeq
<1>5. CASE row.kind = "blob"
    <2>1. Holds(HashUpdate(HashInit, row.bytes), row.bytes)
        <3>1. Holds(HashUpdate(HashInit, row.bytes), <<>> \o row.bytes)
            BY <1>1, NothingHeld, UpdateHolds
        <3>2. <<>> \o row.bytes = row.bytes
            BY <1>1, ConcatEmptySeq
        <3> QED
            BY <3>1, <3>2
    <2>2. /\ HashFunc(row) = Hash(Digest(HashFinal(HashUpdate(HashInit, row.bytes))))
        BY <1>5 DEF HashFunc
    <2>3. HashFunc(row) = Hash(Blocks(Padded(row.bytes)))
        BY <2>1, <2>2, DigestIsBlocks
    <2>4. Joined(<<row>>) = row.bytes
        BY <1>4, <1>5 DEF Given
    <2>5. HashFunc(row) = Answer(<<row>>)
        BY <1>3, <1>5, <2>3, <2>4 DEF Answer, DigestOf
    <2>6. Blocks(Padded(row.bytes)) \in Seq(Seq(Bytes))
        BY <1>1, PaddedIsWhole, BlocksOf
    <2> QED
        BY <1>3, <2>3, <2>5, <2>6 DEF Hash, Value
<1>6. CASE row.kind = "null"
    <2>1. HashFunc(row) = Null /\ Answer(<<row>>) = Null
        BY <1>3, <1>6 DEF HashFunc, Answer
    <2>2. Null \in Value
        BY DEF Null, Value
    <2> QED
        BY <1>3, <2>1, <2>2
<1>7. CASE row.kind = "number"
    <2>1. HashFunc(row) = Failed
        BY <1>7 DEF HashFunc
    <2>2. Failed \in Value
        BY DEF Failed, Value
    <2> QED
        BY <1>3, <2>1, <2>2
<1> QED
    BY <1>1, <1>5, <1>6, <1>7

\* The digest of rows is a list of blocks.
LEMMA DigestTypes ==
    ASSUME NEW given \in Seq(Rows)
    PROVE  /\ Joined(given) \in Seq(Bytes)
           /\ DigestOf(given) \in Seq(Seq(Bytes))
           /\ Answer(given) \in Value
<1>1. PICK f : Joins(f, given) /\ Joined(given) = f[Len(given)]
    BY JoinedUnfold
<1>2. Len(given) \in 0 .. Len(given)
    OBVIOUS
<1>3. Joined(given) \in Seq(Bytes)
    BY <1>1, <1>2 DEF Joins
<1>4. DigestOf(given) \in Seq(Seq(Bytes))
    BY <1>3, PaddedIsWhole, BlocksOf DEF DigestOf
<1>5. Null \in Value /\ Hash(DigestOf(given)) \in Value
    BY <1>4 DEF Null, Hash, Value
<1> QED
    BY <1>3, <1>4, <1>5 DEF Answer

-----------------------------------------------------------------------------
(* The steps of an evaluation.                                             *)

\* A role whose aggregate and pc stay keeps what is said of it.
LEMMA SameEvaluation ==
    ASSUME NEW r \in Roles, Evaluation(r),
           pc'[r] = pc[r], rows'[r] = rows[r], cx'[r] = cx[r], started'[r] = started[r],
           done'[r] = done[r], result'[r] = result[r], values'[r] = values[r]
    PROVE  Evaluation(r)'
<1>1. Untouched(r) => Untouched(r)'
    BY DEF Untouched
<1>2. Current(r) => Current(r)'
    BY DEF Current
<1>3. Answered(r) => Answered(r)'
    BY DEF Answered
<1> QED
    BY <1>1, <1>2, <1>3 DEF Evaluation

\* Nothing is evaluated at the start.
LEMMA InitEvaluation == Init => EvaluationInvariant
<1> SUFFICES ASSUME Init PROVE EvaluationInvariant
    OBVIOUS
<1>1. HashInit \in Contexts /\ <<>> \in Seq(Rows) /\ <<>> \in Seq(Value) /\ <<>> \in Seq(Seq(Bytes))
    BY NothingHeld DEF Holds
<1>2. AggregateTypes
    BY <1>1 DEF Init, AggregateTypes
<1>3. ASSUME NEW r \in Roles PROVE Evaluation(r)
    <2>1. Untouched(r) /\ pc[r] = "start"
        BY DEF Init, Untouched
    <2>2. Answered(r)
        BY <2>1 DEF Untouched, Answered
    <2> QED
        BY <2>1, <2>2 DEF Evaluation
<1> QED
    BY <1>2, <1>3 DEF EvaluationInvariant

\* Nobody's aggregate changes while a library or a role registers.
LEMMA RegisteringEvaluates ==
    ASSUME EvaluationInvariant,
           \/ RegisterNext \/ \E f \in Names : ForeignRegisters(f)
           \/ \E q \in Roles : CallRegister(q) \/ RegisterReturns(q)
    PROVE  EvaluationInvariant'
<1>1. UNCHANGED aggregate
    BY DEF RegisterNext, ForeignRegisters, CallRegister, RegisterReturns
<1>2. /\ rows' = rows /\ cx' = cx /\ started' = started /\ done' = done
      /\ result' = result /\ values' = values
    BY <1>1 DEF aggregate
<1>3. CASE UNCHANGED pc
    <2>1. AggregateTypes'
        BY <1>2, <1>3 DEF EvaluationInvariant, AggregateTypes
    <2>2. \A r \in Roles : Evaluation(r)'
        BY <1>2, <1>3, SameEvaluation DEF EvaluationInvariant
    <2> QED
        BY <2>1, <2>2 DEF EvaluationInvariant
<1>4. ASSUME NEW q \in Roles, CallRegister(q) \/ RegisterReturns(q)
      PROVE  EvaluationInvariant'
    <2>1. PICK p \in {"registering", "ready", "refused"} : pc' = [pc EXCEPT ![q] = p]
        BY <1>4 DEF CallRegister, RegisterReturns
    <2>2. pc[q] \in {"start", "registering"}
        BY <1>4 DEF CallRegister, RegisterReturns
    <2>3. AggregateTypes'
        BY <1>2, <2>1 DEF EvaluationInvariant, AggregateTypes
    <2>4. Evaluation(q)'
        <3>1. pc'[q] \notin {"open", "closed"}
            BY <2>1 DEF EvaluationInvariant, AggregateTypes
        <3>2. Untouched(q) /\ Answered(q)
            BY <2>2 DEF EvaluationInvariant, Evaluation
        <3>3. Untouched(q)' /\ Answered(q)'
            BY <1>2, <3>2 DEF Untouched, Answered
        <3> QED
            BY <3>1, <3>3 DEF Evaluation
    <2>5. \A r \in Roles : r # q => Evaluation(r)'
        BY <1>2, <2>1, SameEvaluation DEF EvaluationInvariant, AggregateTypes
    <2> QED
        BY <2>3, <2>4, <2>5 DEF EvaluationInvariant
<1>5. RegisterNext => UNCHANGED pc
    BY DEF RegisterNext
<1>6. \A f \in Names : ForeignRegisters(f) => UNCHANGED pc
    BY DEF ForeignRegisters
<1> QED
    BY <1>3, <1>4, <1>5, <1>6

\* A connection opens with an aggregate that holds no row.
LEMMA OpenEvaluates ==
    ASSUME EvaluationInvariant, NEW q \in Roles, OpenConnection(q)
    PROVE  EvaluationInvariant'
<1>1. /\ pc[q] = "ready" /\ pc' = [pc EXCEPT ![q] = "open"]
      /\ rows' = rows /\ cx' = cx /\ started' = started /\ done' = done
      /\ result' = result /\ values' = values
    BY DEF OpenConnection, aggregate
<1>2. AggregateTypes'
    BY <1>1 DEF EvaluationInvariant, AggregateTypes
<1>3. Untouched(q) /\ Answered(q)
    BY <1>1 DEF EvaluationInvariant, Evaluation
<1>4. Current(q)'
    <2>1. Nothing(<<>>) /\ Holds(HashInit, Joined(<<>>))
        BY NothingNone, NothingHeld, JoinedNone
    <2> QED
        BY <1>1, <1>3, <2>1 DEF Untouched, Current
<1>5. Answered(q)' /\ pc'[q] = "open"
    BY <1>1, <1>3 DEF Answered, EvaluationInvariant, AggregateTypes
<1>6. Evaluation(q)'
    BY <1>4, <1>5 DEF Evaluation
<1>7. \A r \in Roles : r # q => Evaluation(r)'
    BY <1>1, SameEvaluation DEF EvaluationInvariant, AggregateTypes
<1> QED
    BY <1>2, <1>6, <1>7 DEF EvaluationInvariant

\* A row is added to the context, unless it ends the evaluation.
LEMMA AggStepEvaluates ==
    ASSUME EvaluationInvariant, NEW q \in Roles, NEW row \in Rows, AggStep(q, row)
    PROVE  EvaluationInvariant'
<1> DEFINE more == Append(rows[q], row)
           next == IF row.kind = "blob" THEN HashUpdate(cx[q], row.bytes) ELSE cx[q]
<1>1. /\ pc[q] = "open" /\ values[q] = <<>>
      /\ rows' = [rows EXCEPT ![q] = more]
      /\ started' = [started EXCEPT ![q] = started[q] \/ row.kind # "null"]
      /\ cx' = [cx EXCEPT ![q] = next]
      /\ done' = done /\ result' = result
    BY DEF AggStep
<1>2. AggregateTypes /\ Current(q) /\ ~ done[q]
    BY <1>1 DEF EvaluationInvariant, Evaluation, Current
<1>3. rows[q] \in Seq(Rows) /\ cx[q] \in Contexts /\ Holds(cx[q], Joined(rows[q]))
    BY <1>2 DEF AggregateTypes, Current
<1>4. /\ row.kind \in {"null", "number", "blob"} /\ row.bytes \in Seq(Bytes)
      /\ Given(row) \in Seq(Bytes)
    BY RowTypes
<1>5. /\ more \in Seq(Rows)
      /\ Nothing(more) <=> Nothing(rows[q]) /\ row.kind = "null"
    BY <1>3, NothingAppend
<1>6. Joined(rows[q]) \in Seq(Bytes) /\ Joined(more) = Joined(rows[q]) \o Given(row)
    BY <1>3, JoinedAppend
<1>7. Holds(next, Joined(more))
    <2>1. CASE row.kind = "blob"
        <3>1. Given(row) = row.bytes
            BY <2>1 DEF Given
        <3> QED
            BY <2>1, <3>1, <1>3, <1>4, <1>6, UpdateHolds
    <2>2. CASE row.kind # "blob"
        <3>1. Given(row) = <<>>
            BY <2>2 DEF Given
        <3>2. Joined(more) = Joined(rows[q])
            BY <3>1, <1>6, ConcatEmptySeq
        <3> QED
            BY <2>2, <3>2, <1>3
    <2> QED
        BY <2>1, <2>2
<1>8. next \in Contexts
    BY <1>7 DEF Holds
<1> HIDE DEF more, next
<1>9. /\ rows'[q] = more /\ cx'[q] = next /\ started'[q] = (started[q] \/ row.kind # "null")
      /\ done'[q] = done[q]
    BY <1>1, <1>2 DEF AggregateTypes
<1>10. CASE row.kind = "number"
    <2>1. /\ values' = [values EXCEPT ![q] = <<Failed>>]
          /\ pc' = [pc EXCEPT ![q] = "closed"]
        BY <1>10 DEF AggStep
    <2>2. <<Failed>> \in Seq(Value)
        BY DEF Failed, Value
    <2>3. AggregateTypes'
        BY <1>1, <1>2, <1>5, <1>8, <2>1, <2>2 DEF AggregateTypes
    <2>4. pc'[q] = "closed" /\ values'[q] = <<Failed>>
        BY <2>1, <1>2 DEF AggregateTypes
    <2>5. Answered(q)'
        BY <2>4 DEF Answered
    <2>6. Evaluation(q)'
        BY <2>4, <2>5 DEF Evaluation
    <2>7. \A r \in Roles : r # q => Evaluation(r)'
        BY <1>1, <1>2, <2>1, SameEvaluation DEF EvaluationInvariant, AggregateTypes
    <2> QED
        BY <2>3, <2>6, <2>7 DEF EvaluationInvariant
<1>11. CASE row.kind # "number"
    <2>1. values' = values /\ pc' = pc
        BY <1>11 DEF AggStep
    <2>2. AggregateTypes'
        BY <1>1, <1>2, <1>5, <1>8, <2>1 DEF AggregateTypes
    <2>3. Current(q)'
        <3>1. started'[q] <=> ~ Nothing(rows'[q])
            BY <1>2, <1>5, <1>9 DEF Current
        <3>2. ~ done'[q] /\ Holds(cx'[q], Joined(rows'[q]))
            BY <1>2, <1>7, <1>9
        <3> QED
            BY <3>1, <3>2 DEF Current
    <2>4. Answered(q)' /\ pc'[q] = "open"
        BY <1>1, <2>1 DEF Answered
    <2>5. Evaluation(q)'
        BY <2>3, <2>4 DEF Evaluation
    <2>6. \A r \in Roles : r # q => Evaluation(r)'
        BY <1>1, <1>2, <2>1, SameEvaluation DEF EvaluationInvariant, AggregateTypes
    <2> QED
        BY <2>2, <2>5, <2>6 DEF EvaluationInvariant
<1> QED
    BY <1>10, <1>11

\* One more value, and it is the right one.
LEMMA AnswerAppend ==
    ASSUME NEW vs \in Seq(Value), NEW a \in Value,
           \A k \in DOMAIN vs : vs[k] # Failed => vs[k] = a
    PROVE  /\ Append(vs, a) \in Seq(Value) /\ Append(vs, a) # <<>>
           /\ \A k \in DOMAIN Append(vs, a) : Append(vs, a)[k] # Failed => Append(vs, a)[k] = a
<1> DEFINE more == Append(vs, a)
           n == Len(vs)
<1>1. /\ more \in Seq(Value) /\ Len(more) = n + 1 /\ n \in Nat /\ more # <<>>
      /\ \A k \in 1 .. n : more[k] = vs[k]
      /\ more[n + 1] = a
    BY AppendProperties
<1>2. DOMAIN more = 1 .. n + 1 /\ DOMAIN vs = 1 .. n
    BY <1>1
<1> HIDE DEF more, n
<1>3. \A k \in 1 .. n + 1 : k \in 1 .. n \/ k = n + 1
    BY <1>1
<1>4. \A k \in DOMAIN more : more[k] # Failed => more[k] = a
    BY <1>1, <1>2, <1>3
<1> QED
    BY <1>1, <1>4 DEF more

\* The value is the answer for the rows, the first time and again.
LEMMA WindowValueEvaluates ==
    ASSUME EvaluationInvariant, NEW q \in Roles, WindowValue(q)
    PROVE  EvaluationInvariant'
<1> DEFINE answer == Answer(rows[q])
<1>1. /\ pc[q] = "open" /\ pc' = pc /\ rows' = rows /\ started' = started
    BY DEF WindowValue
<1>2. AggregateTypes /\ Current(q) /\ Answered(q)
    BY <1>1 DEF EvaluationInvariant, Evaluation
<1>3. rows[q] \in Seq(Rows) /\ values[q] \in Seq(Value)
    BY <1>2 DEF AggregateTypes
<1>4. answer \in Value /\ DigestOf(rows[q]) \in Seq(Seq(Bytes))
    BY <1>3, DigestTypes
<1>5. /\ values' = [values EXCEPT ![q] = Append(values[q], answer)]
      /\ cx' \in [Roles -> Contexts] /\ done' \in [Roles -> BOOLEAN]
      /\ result' \in [Roles -> Seq(Seq(Bytes))]
      /\ \A r \in Roles : r # q => /\ cx'[r] = cx[r] /\ done'[r] = done[r]
                                   /\ result'[r] = result[r]
      /\ IF done'[q] THEN result'[q] = DigestOf(rows[q]) ELSE Holds(cx'[q], Joined(rows[q]))
    <2>1. CASE ~ started[q]
        <3>1. values' = [values EXCEPT ![q] = Append(values[q], Null)]
              /\ cx' = cx /\ done' = done /\ result' = result
            BY <2>1 DEF WindowValue
        <3>2. answer = Null
            BY <2>1, <1>2 DEF Current, Answer
        <3> QED
            BY <3>1, <3>2, <1>2 DEF AggregateTypes, Current
    <2>2. CASE started[q]
        <3> DEFINE final == HashFinal(cx[q])
                   digest == IF done[q] THEN result[q] ELSE Digest(final)
                   next == IF done[q] THEN cx[q] ELSE final
        <3>1. /\ values' = [values EXCEPT ![q] = Append(values[q], Hash(digest))]
              /\ cx' = [cx EXCEPT ![q] = next]
              /\ result' = [result EXCEPT ![q] = digest]
              /\ done' = [done EXCEPT ![q] = TRUE]
            BY <2>2 DEF WindowValue, IsCached
        <3>2. digest = DigestOf(rows[q])
            BY <1>2, DigestIsBlocks DEF Current, DigestOf
        <3>3. next \in Contexts
            <4>1. CASE done[q]
                BY <4>1, <1>2 DEF AggregateTypes
            <4>2. CASE ~ done[q]
                <5>1. Holds(cx[q], Joined(rows[q]))
                    BY <4>2, <1>2 DEF Current
                <5>2. Holds(final, Padded(Joined(rows[q])))
                    BY <5>1, FinalHolds
                <5> QED
                    BY <4>2, <5>2 DEF Holds
            <4> QED
                BY <4>1, <4>2
        <3>4. answer = Hash(digest)
            BY <2>2, <3>2, <1>2 DEF Current, Answer
        <3> HIDE DEF final, digest, next, answer
        <3> QED
            BY <3>1, <3>2, <3>3, <3>4, <1>2, <1>4 DEF AggregateTypes
    <2> QED
        BY <2>1, <2>2
<1>6. /\ Append(values[q], answer) \in Seq(Value) /\ Append(values[q], answer) # <<>>
      /\ \A k \in DOMAIN Append(values[q], answer) :
            Append(values[q], answer)[k] # Failed => Append(values[q], answer)[k] = answer
    BY <1>2, <1>3, <1>4, AnswerAppend DEF Answered
<1>7. AggregateTypes'
    BY <1>1, <1>2, <1>5, <1>6 DEF AggregateTypes
<1>8. values'[q] = Append(values[q], answer)
    BY <1>2, <1>5 DEF AggregateTypes
<1>9. Current(q)' /\ Answered(q)' /\ pc'[q] = "open"
    <2>1. Answered(q)'
        BY <1>1, <1>6, <1>8 DEF Answered
    <2>2. values'[q] # <<>>
        BY <1>6, <1>8
    <2>3. Current(q)'
        BY <2>2, <1>1, <1>2, <1>5 DEF Current
    <2> QED
        BY <2>1, <2>3, <1>1
<1>10. Evaluation(q)'
    BY <1>9 DEF Evaluation
<1>11. ASSUME NEW r \in Roles, r # q
       PROVE  Evaluation(r)'
    <2>1. values'[r] = values[r]
        BY <1>2, <1>5, <1>11 DEF AggregateTypes
    <2>2. cx'[r] = cx[r] /\ done'[r] = done[r] /\ result'[r] = result[r]
        BY <1>5, <1>11
    <2>3. Evaluation(r)
        BY DEF EvaluationInvariant
    <2> QED
        BY <1>1, <2>1, <2>2, <2>3, SameEvaluation
<1> QED
    BY <1>7, <1>10, <1>11 DEF EvaluationInvariant

\* hash answers its one row.
LEMMA ScalarCallEvaluates ==
    ASSUME EvaluationInvariant, NEW q \in Roles, NEW row \in Rows, ScalarCall(q, row)
    PROVE  EvaluationInvariant'
<1>1. /\ rows' = [rows EXCEPT ![q] = <<row>>]
      /\ values' = [values EXCEPT ![q] = <<HashFunc(row)>>]
      /\ pc' = [pc EXCEPT ![q] = "closed"]
      /\ cx' = cx /\ started' = started /\ done' = done /\ result' = result
    BY DEF ScalarCall
<1>2. AggregateTypes
    BY DEF EvaluationInvariant
<1>3. /\ HashFunc(row) \in Value /\ <<row>> \in Seq(Rows)
      /\ HashFunc(row) # Failed => HashFunc(row) = Answer(<<row>>)
    BY HashFuncAnswers
<1>4. <<HashFunc(row)>> \in Seq(Value)
    BY <1>3
<1>5. AggregateTypes'
    BY <1>1, <1>2, <1>3, <1>4 DEF AggregateTypes
<1>6. rows'[q] = <<row>> /\ values'[q] = <<HashFunc(row)>> /\ pc'[q] = "closed"
    BY <1>1, <1>2 DEF AggregateTypes
<1>7. Answered(q)'
    BY <1>3, <1>6 DEF Answered
<1>8. Evaluation(q)'
    BY <1>6, <1>7 DEF Evaluation
<1>9. \A r \in Roles : r # q => Evaluation(r)'
    BY <1>1, <1>2, SameEvaluation DEF EvaluationInvariant, AggregateTypes
<1> QED
    BY <1>5, <1>8, <1>9 DEF EvaluationInvariant

\* The context of an aggregate that is open holds exactly the rows stepped, or
\* its result is their digest, and every value handed out is their hash
\* (hash/sql.go, agghashAggregate).
THEOREM EvaluationIsSafe == Spec => []EvaluationInvariant
<1>1. EvaluationInvariant /\ [Next]_vars => EvaluationInvariant'
    <2> SUFFICES ASSUME EvaluationInvariant, [Next]_vars
                 PROVE  EvaluationInvariant'
        OBVIOUS
    <2>1. CASE UNCHANGED vars
        <3>1. /\ pc' = pc /\ rows' = rows /\ cx' = cx /\ started' = started
              /\ done' = done /\ result' = result /\ values' = values
            BY <2>1 DEF vars, aggregate
        <3>2. AggregateTypes'
            BY <3>1 DEF EvaluationInvariant, AggregateTypes
        <3>3. \A r \in Roles : Evaluation(r)'
            BY <3>1, SameEvaluation DEF EvaluationInvariant
        <3> QED
            BY <3>2, <3>3 DEF EvaluationInvariant
    <2>2. ASSUME NEW q \in Roles, RoleStep(q)
          PROVE  EvaluationInvariant'
        BY <2>2, RegisteringEvaluates, OpenEvaluates, WindowValueEvaluates,
           AggStepEvaluates, ScalarCallEvaluates DEF RoleStep
    <2> QED
        BY <2>1, <2>2, RegisteringEvaluates DEF Next
<1>2. QED
    BY InitEvaluation, <1>1, PTL DEF Spec

\* Every value asked for is the hash of the rows concatenated, or NULL when
\* none was not NULL (hash/sql.go, agghashAggregate).
THEOREM ValuesAreHashes == Spec => []ValueIsHash
<1>1. EvaluationInvariant => ValueIsHash
    BY DEF EvaluationInvariant, Evaluation, Answered, Answer, Nothing, DigestOf,
        ValueIsHash, AllNull, BytesOf
<1>2. QED
    BY <1>1, EvaluationIsSafe, PTL

\* Two roles get the same hash exactly when they hashed the same bytes
\* (hash/hash.go, HashFinal; hash/sql.go, WindowValue).
THEOREM HashesTell == Spec => []HashesTellBytes
<1>1. EvaluationInvariant => HashesTellBytes
    <2> SUFFICES ASSUME EvaluationInvariant,
                        NEW r \in Roles, NEW q \in Roles,
                        NEW i \in DOMAIN values[r], NEW k \in DOMAIN values[q],
                        values[r][i].kind = "hash", values[q][k].kind = "hash"
                 PROVE  (values[r][i] = values[q][k]) = (BytesOf(r) = BytesOf(q))
        BY DEF HashesTellBytes
    <2>1. Null.kind = "null" /\ Failed.kind = "error"
        BY DEF Null, Failed
    <2>2. values[r][i] = Hash(DigestOf(rows[r])) /\ values[q][k] = Hash(DigestOf(rows[q]))
        BY <2>1 DEF EvaluationInvariant, Evaluation, Answered, Answer
    <2>3. \A d, e : Hash(d) = Hash(e) <=> d = e
        <3>1. \A d : Hash(d).digest = d
            BY DEF Hash
        <3> QED
            BY <3>1
    <2>4. BytesOf(r) = Joined(rows[r]) /\ BytesOf(q) = Joined(rows[q])
        BY DEF BytesOf
    <2>5. Joined(rows[r]) \in Seq(Bytes) /\ Joined(rows[q]) \in Seq(Bytes)
        BY DigestTypes DEF EvaluationInvariant, AggregateTypes
    <2>6. DigestOf(rows[r]) = DigestOf(rows[q]) <=> Joined(rows[r]) = Joined(rows[q])
        BY <2>5, DigestTells DEF DigestOf
    <2> QED
        BY <2>2, <2>3, <2>4, <2>6
<1>2. QED
    BY <1>1, EvaluationIsSafe, PTL
=============================================================================
