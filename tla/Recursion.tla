-------------------------------- MODULE Recursion -------------------------------
(***************************************************************************)
(* Induction over the natural numbers with sets and functions in place of  *)
(* predicates and operators, and that a recursive definition defines a     *)
(* function.  Proofs about loops over data rest on these.                  *)
(***************************************************************************)
EXTENDS Integers, WellFoundedInduction, TLAPS

(* A set of numbers has a least element. *)
LEMMA LeastElement ==
  ASSUME NEW T \in SUBSET Nat, T # {}
  PROVE  \E x \in T: \A y \in T: x <= y
<1>1. PICK x \in T: \A y \in T: <<y, x>> \notin OpToRel(<, Nat)
  BY NatLessThanWellFounded, WFMin
<1>2. OpToRel(<, Nat) = {ss \in Nat \X Nat: ss[1] < ss[2]}
  BY DEF OpToRel
<1>3. \A y \in T: ~(y < x)
  BY <1>1, <1>2
<1> QED
  BY <1>3

(* What holds of 0, and of n + 1 when it holds of n, holds of every number. *)
LEMMA SetInduction ==
  ASSUME NEW S, 0 \in S, \A n \in Nat: n \in S => n + 1 \in S
  PROVE  \A n \in Nat: n \in S
<1> SUFFICES ASSUME Nat \ S # {} PROVE FALSE
  OBVIOUS
<1>1. PICK x \in Nat \ S: \A y \in Nat \ S: x <= y
  <2>1. Nat \ S \in SUBSET Nat
    OBVIOUS
  <2> QED
    BY <2>1, LeastElement
<1>2. x - 1 \in Nat /\ x - 1 \in S
  BY <1>1
<1> QED
  BY <1>1, <1>2

(* A loop over values of S that starts with base and takes N steps, and    *)
(* the values that it goes through.                                        *)
IsLoop(N, S, base, step) == N \in Nat /\ base \in S /\ step \in [1..N -> [S -> S]]
Runs(N, S, base, step, f) ==
  f \in [0..N -> S] /\ f[0] = base /\ \A n \in 1..N: f[n] = step[n][f[n - 1]]

LEMMA LoopExists ==
  ASSUME NEW N, NEW S, NEW base, NEW step, IsLoop(N, S, base, step)
  PROVE  \E f: Runs(N, S, base, step, f)
<1> USE DEF IsLoop
<1> DEFINE Ends(m) == \E f \in [0..m -> S]:
                        f[0] = base /\ \A n \in 1..m: f[n] = step[n][f[n - 1]]
           T == {m \in Nat: m <= N => Ends(m)}
<1>1. 0 \in T
  <2> DEFINE f == [i \in 0..0 |-> base]
  <2>1. f \in [0..0 -> S] /\ f[0] = base /\ \A n \in 1..0: f[n] = step[n][f[n - 1]]
    OBVIOUS
  <2> HIDE DEF f
  <2> QED
    BY <2>1
<1>2. ASSUME NEW m \in Nat, m \in T PROVE m + 1 \in T
  <2> SUFFICES ASSUME m + 1 <= N PROVE Ends(m + 1)
    OBVIOUS
  <2>1. PICK f \in [0..m -> S]: f[0] = base /\ \A n \in 1..m: f[n] = step[n][f[n - 1]]
    BY <1>2
  <2>2. m \in 0..m /\ m + 1 \in 1..N /\ step[m + 1][f[m]] \in S
    OBVIOUS
  <2> DEFINE g == [i \in 0..m + 1 |-> IF i <= m THEN f[i] ELSE step[m + 1][f[m]]]
  <2>3. g \in [0..m + 1 -> S]
    BY <2>2
  <2>4. g[0] = base
    BY <2>1
  <2>5. ASSUME NEW n \in 1..m + 1 PROVE g[n] = step[n][g[n - 1]]
    <3>1. CASE n <= m
      BY <2>1, <3>1
    <3>2. CASE n = m + 1
      BY <3>2
    <3> QED
      BY <3>1, <3>2
  <2> HIDE DEF g
  <2> QED
    BY <2>3, <2>4, <2>5
<1> HIDE DEF T
<1>3. N \in T
  BY <1>1, <1>2, SetInduction
<1> QED
  BY <1>3 DEF T, Runs

===============================================================================
