--------------------------- MODULE HashFunctions ---------------------------
(***************************************************************************)
(* The SQL functions hash and agghash: the sponge they run, the aggregate  *)
(* object of one evaluation, and their registration, once for a process in *)
(* which several roles start and other libraries register functions too.   *)
(*                                                                         *)
(* The permutation of the sponge is left symbolic: a context remembers the *)
(* blocks it was applied to and the bytes loaded since, and a digest is    *)
(* that list of blocks.  What can go wrong around it stays: which bytes    *)
(* meet in a block, the padding, and that HashFinal consumes the context.  *)
(***************************************************************************)
EXTENDS Naturals, Sequences

CONSTANTS Rate,      \* bytes absorbed between two permutations (160)
          Rows,      \* arguments the functions are called with
          MaxRows,   \* bound on the rows of an evaluation
          MaxValues, \* bound on the calls of WindowValue
          Roles      \* runs started in the process

Bytes == 0 .. 255

ASSUME HashFunctionsAssumption ==
    /\ Rate \in Nat \ {0, 1} /\ MaxRows \in Nat /\ MaxValues \in Nat
    /\ Rows \subseteq [kind : {"null", "number", "blob"}, bytes : Seq(Bytes)]

Names == {"hash", "agghash"}

VARIABLES registered, \* per function: "none", "own" or "foreign"
          once,       \* registerOnce: "fresh", the function next, or "done"
          verdict,    \* registerErr
          pc,         \* per role: "start", "registering", "ready", "refused",
                      \* "open" or "closed"
          conn,       \* per role: the functions of its connection
          rows,       \* per role: the arguments so far
          cx,         \* per role: HashContext of the aggregate
          started, done, result,   \* per role: the aggregate's other fields
          values      \* per role: what the calls of WindowValue returned

registration == <<registered, once, verdict>>
aggregate == <<rows, cx, started, done, result, values>>
vars == <<registration, pc, conn, aggregate>>

-----------------------------------------------------------------------------
(* The sponge.                                                             *)

HashInit == [blocks |-> <<>>, block |-> <<>>]

\* One byte of HashUpdate.
Absorb(c, byte) ==
    IF Len(c.block) + 1 = Rate
    THEN [blocks |-> Append(c.blocks, Append(c.block, byte)), block |-> <<>>]
    ELSE [c EXCEPT !.block = Append(@, byte)]

HashUpdate(c, data) ==
    LET after[k \in 0 .. Len(data)] ==
            IF k = 0 THEN c ELSE Absorb(after[k - 1], data[k])
    IN  after[Len(data)]

\* p.nLoaded = p.nRate-1: the bytes between are absorbed as zeros.
LoadedToLast(c) ==
    [c EXCEPT !.block = @ \o [i \in 1 .. Rate - 1 - Len(@) |-> 0]]

\* Mutants: no byte marks the end of the input; the mark always stands alone.
FinalUnmarked(c) == HashUpdate(LoadedToLast(c), <<128>>)
FinalOneCase(c) == HashUpdate(LoadedToLast(HashUpdate(c, <<6>>)), <<128>>)

\* The context is left behind with the padding in it.
HashFinal(c) ==
    IF Len(c.block) = Rate - 1 THEN HashUpdate(c, <<134>>)
    ELSE HashUpdate(LoadedToLast(HashUpdate(c, <<6>>)), <<128>>)

Digest(c) == c.blocks

-----------------------------------------------------------------------------
(* The functions.                                                          *)

Null == [kind |-> "null", digest |-> <<>>]
Failed == [kind |-> "error", digest |-> <<>>]
Hash(d) == [kind |-> "hash", digest |-> d]

\* hash(X).
HashFunc(row) ==
    CASE row.kind = "null" -> Null
      [] row.kind = "number" -> Failed
      [] row.kind = "blob" ->
           Hash(Digest(HashFinal(HashUpdate(HashInit, row.bytes))))

Init ==
    /\ registered = [f \in Names |-> "none"]
    /\ once = "fresh" /\ verdict = "nil"
    /\ pc = [r \in Roles |-> "start"]
    /\ conn = [r \in Roles |-> [f \in Names |-> "none"]]
    /\ rows = [r \in Roles |-> <<>>] /\ cx = [r \in Roles |-> HashInit]
    /\ started = [r \in Roles |-> FALSE] /\ done = [r \in Roles |-> FALSE]
    /\ result = [r \in Roles |-> <<>>] /\ values = [r \in Roles |-> <<>>]

\* agghash: one row.
AggStep(r, row) ==
    /\ pc[r] = "open" /\ values[r] = <<>> /\ Len(rows[r]) < MaxRows
    /\ rows' = [rows EXCEPT ![r] = Append(@, row)]
    /\ started' = [started EXCEPT ![r] = @ \/ row.kind # "null"]
    /\ cx' = [cx EXCEPT ![r] = IF row.kind = "blob" THEN HashUpdate(@, row.bytes) ELSE @]
    /\ IF row.kind = "number"
       THEN values' = [values EXCEPT ![r] = <<Failed>>] /\ pc' = [pc EXCEPT ![r] = "closed"]
       ELSE UNCHANGED <<values, pc>>
    /\ UNCHANGED <<registration, conn, done, result>>

\* Mutant: every call finalizes the context.
IsCachedNever(r) == FALSE

IsCached(r) == done[r]

\* agghash: the value, which a window query asks for more than once.
WindowValue(r) ==
    /\ pc[r] = "open" /\ Len(values[r]) < MaxValues
    /\ IF ~started[r]
       THEN values' = [values EXCEPT ![r] = Append(@, Null)] /\ UNCHANGED <<cx, done, result>>
       ELSE LET final == HashFinal(cx[r])
                digest == IF IsCached(r) THEN result[r] ELSE Digest(final)
            IN  /\ values' = [values EXCEPT ![r] = Append(@, Hash(digest))]
                /\ cx' = [cx EXCEPT ![r] = IF IsCached(r) THEN @ ELSE final]
                /\ result' = [result EXCEPT ![r] = digest]
                /\ done' = [done EXCEPT ![r] = TRUE]
    /\ UNCHANGED <<registration, pc, conn, rows, started>>

\* hash: one call, for the connection's own query.
ScalarCall(r, row) ==
    /\ pc[r] = "open" /\ rows[r] = <<>> /\ values[r] = <<>>
    /\ rows' = [rows EXCEPT ![r] = <<row>>]
    /\ values' = [values EXCEPT ![r] = <<HashFunc(row)>>]
    /\ pc' = [pc EXCEPT ![r] = "closed"]
    /\ UNCHANGED <<registration, conn, cx, started, done, result>>

-----------------------------------------------------------------------------
(* Registration.                                                           *)

\* Another library of the process registers a function of that name.
ForeignRegisters(f) ==
    /\ registered[f] = "none"
    /\ registered' = [registered EXCEPT ![f] = "foreign"]
    /\ UNCHANGED <<once, verdict, pc, conn, aggregate>>

\* A role calls Register; the first call runs registerFunctions and the others
\* wait in registerOnce.Do until it has.
CallRegister(r) ==
    /\ pc[r] = "start"
    /\ pc' = [pc EXCEPT ![r] = "registering"]
    /\ once' = IF once = "fresh" THEN "hash" ELSE once
    /\ UNCHANGED <<registered, verdict, conn, aggregate>>

\* Mutants: the second function is registered after the first one failed, and
\* its result is the verdict; a failed registration is left to be done again.
AfterFailureGoOn(f) == IF f = "hash" THEN "agghash" ELSE "done"
AfterFailureReset(f) == "fresh"

\* A failed registration ends registerFunctions.
AfterFailure(f) == "done"

\* registerFunctions: hash, then agghash; a name that is taken is an error,
\* and what was registered before it stays.
RegisterNext ==
    /\ once \in Names
    /\ LET free == registered[once] = "none"
       IN  /\ registered' = IF free THEN [registered EXCEPT ![once] = "own"] ELSE registered
           /\ verdict' = IF free THEN "nil" ELSE "error"
           /\ once' = IF ~free THEN AfterFailure(once)
                      ELSE IF once = "hash" THEN "agghash" ELSE "done"
    /\ UNCHANGED <<pc, conn, aggregate>>

\* Mutant: a caller other than the first does not wait.
MayReturnNow == once # "fresh"

MayReturn == once = "done"

\* Register returns registerErr.
RegisterReturns(r) ==
    /\ pc[r] = "registering" /\ MayReturn
    /\ pc' = [pc EXCEPT ![r] = IF verdict = "nil" THEN "ready" ELSE "refused"]
    /\ UNCHANGED <<registration, conn, aggregate>>

\* A connection has the functions registered when it is opened.
OpenConnection(r) ==
    /\ pc[r] = "ready"
    /\ conn' = [conn EXCEPT ![r] = registered]
    /\ pc' = [pc EXCEPT ![r] = "open"]
    /\ UNCHANGED <<registration, aggregate>>

RoleStep(r) ==
    \/ CallRegister(r) \/ RegisterReturns(r) \/ OpenConnection(r)
    \/ WindowValue(r)
    \/ \E row \in Rows : AggStep(r, row) \/ ScalarCall(r, row)

Next ==
    \/ RegisterNext
    \/ \E r \in Roles : RoleStep(r)
    \/ \E f \in Names : ForeignRegisters(f)

Spec == Init /\ [][Next]_vars

Fairness == WF_vars(RegisterNext) /\ \A r \in Roles : WF_vars(RoleStep(r))

FairSpec == Spec /\ Fairness

-----------------------------------------------------------------------------
(* Properties.                                                             *)

\* What a row adds to the input of the hash.
Given(row) == IF row.kind = "blob" THEN row.bytes ELSE <<>>

\* The bytes of a list of rows, one after the other.
Joined(given) ==
    LET upTo[k \in 0 .. Len(given)] ==
            IF k = 0 THEN <<>> ELSE upTo[k - 1] \o Given(given[k])
    IN  upTo[Len(given)]

\* The bytes of the rows stepped.
BytesOf(r) == Joined(rows[r])

AllNull(r) == \A k \in DOMAIN rows[r] : rows[r][k].kind = "null"

\* The padding of SHA-3: 0x06, zeros, 0x80, in one byte when only one is left.
Padded(bytes) ==
    LET n == Rate - (Len(bytes) % Rate)
    IN  bytes \o [k \in 1 .. n |-> (IF k = 1 THEN 6 ELSE 0) + (IF k = n THEN 128 ELSE 0)]

Blocks(bytes) ==
    [k \in 1 .. Len(bytes) \div Rate |-> SubSeq(bytes, (k - 1) * Rate + 1, k * Rate)]

\* Every value asked for, the first time and again, is the hash of the rows
\* concatenated, wherever they end in a block, or NULL when none was not NULL
\* (hash/sql.go, agghashAggregate: "finalized once and cached").
ValueIsHash ==
    \A r \in Roles : \A k \in DOMAIN values[r] :
        values[r][k] # Failed =>
            values[r][k] = IF AllNull(r) THEN Null ELSE Hash(Blocks(Padded(BytesOf(r))))

\* Two sides get the same hash exactly when they hashed the same bytes.  The
\* origin sends no page of a range whose hashes agree.
HashesTellBytes ==
    \A r, q \in Roles : \A i \in DOMAIN values[r], k \in DOMAIN values[q] :
        values[r][i].kind = "hash" /\ values[q][k].kind = "hash" =>
            (values[r][i] = values[q][k]) = (BytesOf(r) = BytesOf(q))

\* "The protocol must not run against a foreign hash function" (hash/sql.go,
\* Register), whichever libraries register when and whichever role comes first.
OnlyOwnFunctions ==
    \A r \in Roles : pc[r] \in {"open", "closed"} => \A f \in Names : conn[r][f] = "own"

\* "Later calls return the first call's error" (hash/sql.go, Register): the
\* roles of a process are all let in or all refused.
SameVerdict ==
    \A r, q \in Roles : ~(pc[r] = "refused" /\ pc[q] \in {"ready", "open", "closed"})

\* Nobody waits for a registration that never ends.
RegisterEnds ==
    \A r \in Roles : pc[r] = "registering" ~> pc[r] # "registering"
=============================================================================
