------------------------------ MODULE Induction -----------------------------
(***************************************************************************)
(* Induction over the natural numbers, for sets of them: what a loop leaves *)
(* behind after n turns is proved with the set of all n for which it is so. *)
(***************************************************************************)
EXTENDS Integers, WellFoundedInduction, TLAPS

(* A set of natural numbers has a least one. *)
LEMMA Least ==
  ASSUME NEW S \in SUBSET Nat, S # {}
  PROVE  \E n \in S : \A m \in S : n <= m
<1>1. PICK n \in S : \A m \in S : ~(<<m, n>> \in OpToRel(<, Nat))
  BY NatLessThanWellFounded, WFMin, Zenon
<1>2. \A m \in S : ~(m < n)
  BY <1>1, Zenon DEF OpToRel
<1> QED
  BY <1>2

(* One that is bounded has a greatest. *)
LEMMA Greatest ==
  ASSUME NEW bound \in Nat, NEW S \in SUBSET (0 .. bound), S # {}
  PROVE  \E n \in S : \A m \in S : m <= n
<1> DEFINE T == {d \in Nat : bound - d \in S}
<1>1. ASSUME NEW m \in S
      PROVE  bound - m \in T
  OBVIOUS
<1>2. T # {}
  BY <1>1
<1>3. PICK d \in T : \A e \in T : d <= e
  BY <1>2, Least
<1>4. \A m \in S : m <= bound - d
  BY <1>1, <1>3
<1> QED
  BY <1>4

(* What holds before the first turn of a loop, and after a turn if it held  *)
(* before, holds after every turn.                                          *)
LEMMA SetInduction ==
  ASSUME NEW S, 0 \in S, \A n \in Nat : n \in S => n + 1 \in S
  PROVE  Nat \subseteq S
<1> SUFFICES ASSUME Nat \ S # {}
             PROVE  FALSE
  OBVIOUS
<1>1. PICK n \in Nat \ S : \A m \in Nat \ S : n <= m
  BY Least
<1>2. n # 0 /\ n - 1 \in Nat
  OBVIOUS
<1>3. n - 1 \in S
  BY <1>1, <1>2
<1> QED
  BY <1>2, <1>3

(* The same for a loop of limit turns. *)
LEMMA LoopInduction ==
  ASSUME NEW limit \in Nat, NEW S,
         0 \in S, \A n \in 1 .. limit : n - 1 \in S => n \in S
  PROVE  \A n \in 0 .. limit : n \in S
<1> DEFINE T == {n \in Nat : n <= limit => n \in S}
<1>1. 0 \in T
  OBVIOUS
<1>2. ASSUME NEW n \in Nat, n \in T
      PROVE  n + 1 \in T
  <2>1. n + 1 <= limit => n + 1 \in 1 .. limit /\ (n + 1) - 1 \in S
    BY <1>2
  <2> QED
    BY <2>1
<1> HIDE DEF T
<1>3. Nat \subseteq T
  BY <1>1, <1>2, SetInduction
<1> QED
  BY <1>3 DEF T

(* The values a loop goes through: step[n][v] is what its n-th turn makes    *)
(* of v.                                                                    *)
Runs(run, limit, S, start, step) ==
  /\ run \in [0 .. limit -> S]
  /\ run[0] = start
  /\ \A n \in 1 .. limit : run[n] = step[n][run[n - 1]]

LEMMA LoopRuns ==
  ASSUME NEW limit \in Nat, NEW S, NEW start \in S,
         NEW step \in [1 .. limit -> [S -> S]]
  PROVE  \E run : Runs(run, limit, S, start, step)
<1> DEFINE R(run, m) ==
             /\ run \in [0 .. m -> S] /\ run[0] = start
             /\ \A n \in 1 .. m : run[n] = step[n][run[n - 1]]
           T == {m \in 0 .. limit : \E run : R(run, m)}
<1>1. 0 \in T
  <2>1. R([n \in 0 .. 0 |-> start], 0)
    OBVIOUS
  <2> HIDE DEF R
  <2> QED
    BY <2>1
<1>2. ASSUME NEW m \in 1 .. limit, m - 1 \in T
      PROVE  m \in T
  <2>1. PICK run : R(run, m - 1)
    BY <1>2
  <2>2. run[m - 1] \in S
    BY <2>1
  <2>3. step[m][run[m - 1]] \in S
    BY <2>2
  <2> DEFINE longer == [n \in 0 .. m |->
                          IF n = m THEN step[m][run[m - 1]] ELSE run[n]]
  <2>4. \A n \in 0 .. m : longer[n] \in S
    BY <2>1, <2>3
  <2>5. longer \in [0 .. m -> S]
    BY <2>4
  <2>6. ASSUME NEW n \in 1 .. m
        PROVE  longer[n] = step[n][longer[n - 1]]
    <3>1. longer[n - 1] = run[n - 1]
      OBVIOUS
    <3>2. CASE n = m
      BY <3>1, <3>2
    <3>3. CASE n # m
      BY <2>1, <3>1, <3>3
    <3> QED
      BY <3>2, <3>3
  <2>7. longer[0] = start
    BY <2>1
  <2>8. R(longer, m)
    BY <2>5, <2>6, <2>7
  <2> HIDE DEF R, longer
  <2> QED
    BY <2>8
<1> HIDE DEF R, T
<1>3. limit \in T
  <2>1. \A m \in 1 .. limit : m - 1 \in T => m \in T
    BY <1>2
  <2>2. \A m \in 0 .. limit : m \in T
    BY <1>1, <2>1, LoopInduction
  <2> QED
    BY <2>2
<1> QED
  BY <1>3 DEF R, T, Runs
=============================================================================
