----------------------------- MODULE Iteration -----------------------------
(***************************************************************************)
(* Induction for the proofs about loops.  A loop of the code is a          *)
(* recursive function r over the number of its rounds; what follows is     *)
(* stated of sets and functions, so that it can be cited where a rule of   *)
(* induction, whose parameter is a formula, could not be.                  *)
(***************************************************************************)
EXTENDS Integers, WellFoundedInduction, TLAPS

\* A set of numbers has a least one.
LEMMA LeastNumber ==
  ASSUME NEW T \in SUBSET Nat, T # {}
  PROVE  \E n \in T : \A m \in T : n <= m
<1>1. PICK n \in T : \A m \in T : ~(<<m, n>> \in OpToRel(<, Nat))
  BY NatLessThanWellFounded, WFMin, Zenon
<1>2. ASSUME NEW m \in T, m < n PROVE FALSE
  BY <1>1, <1>2, Zenon DEF OpToRel
<1>3. \A m \in T : ~(m < n)
  BY <1>2
<1>4. QED
  BY <1>3

\* A set of rounds that holds the first and, with each, the next, is that of
\* all rounds.
LEMMA EveryRound ==
  ASSUME NEW N \in Nat, NEW P, 0 \in P,
         \A n \in 1..N : n - 1 \in P => n \in P
  PROVE  \A n \in 0..N : n \in P
<1> DEFINE T == {n \in 0..N : n \notin P}
<1>1. CASE T # {}
  <2>1. T \in SUBSET Nat
    OBVIOUS
  <2>2. PICK n \in T : \A m \in T : n <= m
    <3> HIDE DEF T
    <3>1. QED
      BY <1>1, <2>1, LeastNumber
  <2>3. n \in 1..N /\ n - 1 \in 0..N
    BY <2>2
  <2>4. n - 1 \in P
    BY <2>2, <2>3
  <2>5. QED
    BY <2>2, <2>3, <2>4
<1>2. QED
  BY <1>1

\* A loop whose steps stay in S is in S after every round.
LEMMA StaysIn ==
  ASSUME NEW N \in Nat, NEW S, NEW r, r[0] \in S,
         \A n \in 1..N : r[n - 1] \in S => r[n] \in S
  PROVE  \A n \in 0..N : r[n] \in S
<1> DEFINE P == {n \in 0..N : r[n] \in S}
<1>1. 0 \in P
  OBVIOUS
<1>2. ASSUME NEW n \in 1..N, n - 1 \in P PROVE n \in P
  BY <1>2
<1>3. \A n \in 0..N : n \in P
  <2> HIDE DEF P
  <2>1. QED
    BY <1>1, <1>2, EveryRound
<1>4. QED
  BY <1>3

\* The rounds of a loop: from b, the n-th step f[n].
Rounds(r, b, f, N) == r = [n \in 0..N |-> IF n = 0 THEN b ELSE f[n][r[n - 1]]]

\* A loop whose steps stay in S has its rounds, and they are in S.
LEMMA RoundsExist ==
  ASSUME NEW S, NEW b \in S, NEW N \in Nat, NEW f \in [1..N -> [S -> S]]
  PROVE  \E r \in [0..N -> S] : Rounds(r, b, f, N)
<1> DEFINE P == {k \in 0..N : \E r \in [0..k -> S] : Rounds(r, b, f, k)}
<1>1. 0 \in P
  <2> DEFINE r == [n \in 0..0 |-> b]
  <2>1. r \in [0..0 -> S]
    OBVIOUS
  <2>2. r = [n \in 0..0 |-> IF n = 0 THEN b ELSE f[n][r[n - 1]]]
    OBVIOUS
  <2>3. Rounds(r, b, f, 0)
    BY <2>2 DEF Rounds
  <2>4. QED
    <3> HIDE DEF r
    <3>1. QED
      BY <2>1, <2>3
<1>2. ASSUME NEW k \in 1..N, k - 1 \in P PROVE k \in P
  <2>1. PICK r \in [0..(k - 1) -> S] : Rounds(r, b, f, k - 1)
    BY <1>2
  <2> DEFINE x == f[k][r[k - 1]]
             s == [n \in 0..k |-> IF n = k THEN x ELSE r[n]]
  <2>2. k - 1 \in 0..(k - 1) /\ k \in Nat \ {0} /\ k \in 0..N
    OBVIOUS
  <2>3. x \in S
    BY <2>2
  <2>4. \A n \in 0..(k - 1) : r[n] = IF n = 0 THEN b ELSE f[n][r[n - 1]]
    BY <2>1 DEF Rounds
  <2> HIDE DEF x
  <2>5. s \in [0..k -> S]
    BY <2>2, <2>3
  <2>6. \A n \in 0..(k - 1) : s[n] = r[n]
    BY <2>2
  <2>7. s[k] = x
    BY <2>2
  <2> DEFINE e(n) == IF n = 0 THEN b ELSE f[n][s[n - 1]]
  <2>8. ASSUME NEW n \in 0..k PROVE s[n] = e(n)
    <3> HIDE DEF s
    <3>1. CASE n = k
      <4>1. s[n - 1] = r[k - 1]
        BY <2>2, <2>6, <3>1
      <4>2. QED
        BY <2>2, <2>7, <3>1, <4>1 DEF x
    <3>2. CASE n = 0
      BY <2>2, <2>4, <2>6, <3>2
    <3>3. CASE n # k /\ n # 0
      <4>1. n \in 0..(k - 1) /\ n - 1 \in 0..(k - 1)
        BY <3>3
      <4>2. QED
        BY <2>4, <2>6, <3>3, <4>1
    <3>4. QED
      BY <3>1, <3>2, <3>3
  <2>9. s = [n \in 0..k |-> e(n)]
    <3>1. s = [n \in 0..k |-> s[n]]
      OBVIOUS
    <3> HIDE DEF s, e
    <3>2. QED
      BY <2>8, <3>1
  <2>10. Rounds(s, b, f, k)
    <3> HIDE DEF s
    <3>1. QED
      BY <2>9 DEF Rounds
  <2>11. QED
    <3> HIDE DEF s
    <3>1. QED
      BY <2>2, <2>5, <2>10
<1>3. N \in P
  <2> HIDE DEF P
  <2>1. \A n \in 0..N : n \in P
    BY <1>1, <1>2, EveryRound
  <2>2. QED
    BY <2>1
<1>4. QED
  BY <1>3
=============================================================================
