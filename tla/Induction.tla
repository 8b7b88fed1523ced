----------------------------- MODULE Induction -----------------------------
(***************************************************************************)
(* Induction over the natural numbers, stated with sets, and from it that  *)
(* a function may be defined by recursion: what the proofs about recursive *)
(* definitions rest on.                                                    *)
(***************************************************************************)
EXTENDS Naturals, WellFoundedInduction, TLAPS

LEMMA LeastElement ==
    ASSUME NEW T \in SUBSET Nat, T # {}
    PROVE  \E x \in T : \A y \in T : x <= y
<1>1. \E x \in T : \A y \in T : ~ (<<y, x>> \in OpToRel(<, Nat))
    BY NatLessThanWellFounded, WFMin, Zenon
<1>2. PICK x \in T : \A y \in T : ~ (<<y, x>> \in OpToRel(<, Nat))
    BY <1>1
<1>3. \A y \in T : ~ (y < x)
    <2> TAKE y \in T
    <2>1. x \in Nat /\ y \in Nat
        OBVIOUS
    <2>2. ~ (<<y, x>> \in OpToRel(<, Nat))
        BY <1>2
    <2> QED
        BY <2>1, <2>2 DEF OpToRel
<1> QED
    BY <1>3

\* What holds of 0 and, with k, of k + 1 holds up to n.
LEMMA InductionTo ==
    ASSUME NEW n \in Nat, NEW T, 0 \in T,
           \A k \in 0 .. n : k # n /\ k \in T => k + 1 \in T
    PROVE  \A k \in 0 .. n : k \in T
<1> DEFINE C == (0 .. n) \ T
<1> SUFFICES ASSUME C # {} PROVE FALSE
    OBVIOUS
<1>1. PICK x \in C : \A y \in C : x <= y
    <2>1. C \in SUBSET Nat
        OBVIOUS
    <2> HIDE DEF C
    <2> QED
        BY <2>1, LeastElement
<1>2. x \in Nat /\ x # 0 /\ x <= n /\ x - 1 \in 0 .. n /\ x - 1 # n
    BY SMT
<1>3. x - 1 \in T
    BY <1>1, <1>2
<1>4. x - 1 + 1 = x
    BY <1>2
<1> QED
    BY <1>1, <1>2, <1>3, <1>4

Steps(n, T) == [(1 .. n) \X T -> T]

\* f is what starts with a and goes on with g.
Iterates(f, a, g, n, T) ==
    /\ f \in [0 .. n -> T]
    /\ f[0] = a
    /\ \A k \in 1 .. n : f[k] = g[<<k, f[k - 1]>>]

\* A function of 0 .. n may be defined by recursion.
LEMMA PrimitiveRecursion ==
    ASSUME NEW T, NEW a \in T, NEW n \in Nat, NEW g \in Steps(n, T)
    PROVE  \E f : Iterates(f, a, g, n, T)
<1> USE DEF Steps, Iterates
<1> DEFINE Defined(m) == \E f \in [0 .. m -> T] :
              f[0] = a /\ \A k \in 1 .. m : f[k] = g[<<k, f[k - 1]>>]
           D == {m \in 0 .. n : Defined(m)}
<1>1. 0 \in D
    <2>1. [k \in 0 .. 0 |-> a] \in [0 .. 0 -> T]
        OBVIOUS
    <2>2. [k \in 0 .. 0 |-> a][0] = a /\ ~ \E k \in 1 .. 0 : TRUE
        OBVIOUS
    <2>3. Defined(0)
        BY <2>1, <2>2
    <2> QED
        BY <2>3
<1>2. ASSUME NEW m \in 0 .. n, m # n, m \in D
      PROVE  m + 1 \in D
    <2>1. PICK f \in [0 .. m -> T] :
              f[0] = a /\ \A k \in 1 .. m : f[k] = g[<<k, f[k - 1]>>]
        BY <1>2
    <2>2. m + 1 \in 1 .. n /\ f[m] \in T
        BY <1>2
    <2> DEFINE h == [k \in 0 .. m + 1 |-> IF k = m + 1 THEN g[<<m + 1, f[m]>>] ELSE f[k]]
    <2>3. h \in [0 .. m + 1 -> T]
        BY <2>2
    <2>4. h[0] = a
        BY <2>1
    <2>5. ASSUME NEW k \in 1 .. m + 1
          PROVE  h[k] = g[<<k, h[k - 1]>>]
        <3>1. CASE k = m + 1
            <4>1. m \in 0 .. m + 1 /\ m # m + 1 /\ m + 1 \in 0 .. m + 1 /\ m + 1 - 1 = m
                OBVIOUS
            <4> QED
                BY <3>1, <4>1
        <3>2. CASE k # m + 1
            <4>1. k \in 1 .. m /\ k - 1 \in 0 .. m /\ k - 1 # m + 1 /\ k \in 0 .. m + 1
                BY <3>2
            <4> QED
                BY <4>1, <2>1, <3>2
        <3> QED
            BY <3>1, <3>2
    <2> HIDE DEF h
    <2>6. Defined(m + 1)
        BY <2>3, <2>4, <2>5
    <2> QED
        BY <2>2, <2>6
<1>3. \A k \in 0 .. n : k \in D
    <2> HIDE DEF D
    <2> QED
        BY <1>1, <1>2, InductionTo
<1> QED
    BY <1>3
=============================================================================
