------------------------------- MODULE Loops -------------------------------
(***************************************************************************)
(* Induction over the loops of module SaisMemory.  An instance of this     *)
(* module gives a loop its step, which may depend on three parameters, and *)
(* what the step keeps; its lemmas then say that the loop keeps it.        *)
(***************************************************************************)
EXTENDS Integers, WellFoundedInduction, TLAPS

CONSTANTS
  step(_, _, _, _, _),     \* three parameters, the state and the index
  Keep(_, _, _, _, _)      \* the same: what holds after the step of the index

\* A set of natural numbers that is not empty has a least element.
LEMMA LeastNatural ==
  ASSUME NEW T \in SUBSET Nat, T # {}
  PROVE  \E x \in T : \A y \in T : x <= y
<1>1. PICK x \in T : \A y \in T : ~ (<<y, x>> \in OpToRel(<, Nat))
  BY NatLessThanWellFounded, WFMin
<1>2. OpToRel(<, Nat) = {p \in Nat \X Nat : p[1] < p[2]}
  BY Zenon DEF OpToRel
<1>3. ASSUME NEW y \in T PROVE x <= y
  <2>1. <<y, x>> \notin {p \in Nat \X Nat : p[1] < p[2]}
    BY <1>1, <1>2
  <2>. QED
    BY <2>1
<1>. QED
  BY <1>3

\* The states of a loop that goes up from x on: f[i] is the one after index i.
GoesUp(f, a, b, c, x, from, to) ==
  f = [i \in from - 1 .. to |-> IF i < from THEN x ELSE step(a, b, c, f[i - 1], i)]

\* There are such states for any number of indices.
LEMMA UpRuns ==
  ASSUME NEW a, NEW b, NEW c, NEW x, NEW from \in Int, NEW to \in Int, from <= to
  PROVE  \E f : GoesUp(f, a, b, c, x, from, to)
<1>. DEFINE Runs(f, k) == f = [i \in from - 1 .. from - 1 + k |->
                                 IF i < from THEN x ELSE step(a, b, c, f[i - 1], i)]
            Stops == {k \in Nat : ~ \E f : Runs(f, k)}
<1>1. Stops = {}
  <2>. SUFFICES ASSUME Stops # {} PROVE FALSE
    OBVIOUS
  <2>1. PICK k \in Stops : \A j \in Stops : k <= j
    <3>. HIDE DEF Runs
    <3>1. Stops \in SUBSET Nat
      OBVIOUS
    <3>. HIDE DEF Stops
    <3>. QED
      BY <3>1, LeastNatural
  <2>2. k # 0
    <3>1. Runs([i \in from - 1 .. from - 1 |-> x], 0)
      OBVIOUS
    <3>. HIDE DEF Runs
    <3>. QED
      BY <3>1
  <2>3. PICK f : Runs(f, k - 1)
    <3>. HIDE DEF Runs
    <3>. QED
      BY <2>1, <2>2
  <2>4. DOMAIN f = from - 1 .. from - 1 + (k - 1)
    BY <2>3
  <2>. DEFINE g == [i \in from - 1 .. from - 1 + k |->
                      IF i < from THEN x ELSE step(a, b, c, f[i - 1], i)]
  <2>5. \A i \in from - 1 .. from - 1 + (k - 1) : g[i] = f[i]
    BY <2>3
  <2>6. ASSUME NEW i \in from - 1 .. from - 1 + k, ~ (i < from) PROVE g[i - 1] = f[i - 1]
    <3>1. k \in Nat /\ i - 1 \in from - 1 .. from - 1 + (k - 1)
      BY <2>6, <2>1
    <3>. HIDE DEF g
    <3>. QED
      BY <3>1, <2>5
  <2>7. Runs(g, k)
    BY <2>6
  <2>. HIDE DEF Runs, g
  <2>. QED
    BY <2>1, <2>7
<1>2. PICK f : Runs(f, to - from + 1)
  <2>1. to - from + 1 \in Nat
    OBVIOUS
  <2>. HIDE DEF Runs
  <2>. QED
    BY <1>1, <2>1
<1>. QED
  <2>1. from - 1 + (to - from + 1) = to
    OBVIOUS
  <2>2. GoesUp(f, a, b, c, x, from, to)
    BY <1>2, <2>1 DEF GoesUp
  <2>. QED
    BY <2>2

\* The loop, as Up of module SaisMemory defines it.
UpTo(a, b, c, x, from, to) ==
  LET after[i \in from - 1 .. to] ==
        IF i < from THEN x ELSE step(a, b, c, after[i - 1], i)
  IN  IF to < from THEN x ELSE after[to]

\* What a step of the loop keeps, the loop keeps.
LEMMA UpKeeps ==
  ASSUME NEW a, NEW b, NEW c, NEW x, NEW from \in Int, NEW to \in Int, from <= to + 1,
         Keep(a, b, c, x, from - 1),
         \A i \in from .. to : \A s :
           Keep(a, b, c, s, i - 1) => Keep(a, b, c, step(a, b, c, s, i), i)
  PROVE  Keep(a, b, c, UpTo(a, b, c, x, from, to), to)
<1>. DEFINE after == CHOOSE f : GoesUp(f, a, b, c, x, from, to)
<1>. SUFFICES Keep(a, b, c, IF to < from THEN x ELSE after[to], to)
  BY DEF GoesUp, UpTo
<1>1. CASE to < from
  <2>1. to = from - 1
    BY <1>1
  <2>. QED
    BY <1>1, <2>1
<1>2. CASE from <= to
  <2>1. after = [i \in from - 1 .. to |->
                   IF i < from THEN x ELSE step(a, b, c, after[i - 1], i)]
    <3>1. GoesUp(after, a, b, c, x, from, to)
      BY <1>2, UpRuns
    <3>. HIDE DEF after
    <3>. QED
      BY <3>1 DEF GoesUp
  <2>. HIDE DEF after
  <2>2. after[from - 1] = x
    BY <1>2, <2>1
  <2>3. \A i \in from .. to : after[i] = step(a, b, c, after[i - 1], i)
    BY <2>1
  <2>. DEFINE Lost == {k \in Nat : from - 1 + k <= to
                                    /\ ~ Keep(a, b, c, after[from - 1 + k], from - 1 + k)}
  <2>4. Lost = {}
    <3>. SUFFICES ASSUME Lost # {} PROVE FALSE
      OBVIOUS
    <3>1. Lost \in SUBSET Nat
      OBVIOUS
    <3>2. PICK k \in Lost : \A j \in Lost : k <= j
      <4>. HIDE DEF Lost
      <4>. QED
        BY <3>1, LeastNatural
    <3>3. k \in Nat /\ k # 0
      BY <2>2, <3>2
    <3>4. PICK i \in from .. to : i = from - 1 + k
      BY <3>2, <3>3
    <3>5. Keep(a, b, c, after[i - 1], i - 1)
      <4>1. k - 1 \notin Lost /\ k - 1 \in Nat
        BY <3>2, <3>3
      <4>2. i - 1 = from - 1 + (k - 1)
        BY <3>4, <3>3
      <4>3. Keep(a, b, c, after[from - 1 + (k - 1)], from - 1 + (k - 1))
        BY <4>1, <4>2, <3>4
      <4>. QED
        BY <4>2, <4>3
    <3>6. Keep(a, b, c, step(a, b, c, after[i - 1], i), i)
      BY <3>5
    <3>7. Keep(a, b, c, after[i], i)
      BY <2>3, <3>6
    <3>. QED
      BY <3>2, <3>4, <3>7
  <2>5. to - from + 1 \in Nat /\ from - 1 + (to - from + 1) = to
    BY <1>2
  <2>6. Keep(a, b, c, after[from - 1 + (to - from + 1)], from - 1 + (to - from + 1))
    <3>1. to - from + 1 \notin Lost
      BY <2>4
    <3>. QED
      BY <3>1, <2>5
  <2>. QED
    BY <1>2, <2>5, <2>6
<1>. QED
  BY <1>1, <1>2

\* The states of a loop that goes down from x on: f[i] is the one after index i.
GoesDown(f, a, b, c, x, from, to) ==
  f = [i \in to .. from + 1 |-> IF i > from THEN x ELSE step(a, b, c, f[i + 1], i)]

\* There are such states for any number of indices.
LEMMA DownRuns ==
  ASSUME NEW a, NEW b, NEW c, NEW x, NEW from \in Int, NEW to \in Int, to <= from
  PROVE  \E f : GoesDown(f, a, b, c, x, from, to)
<1>. DEFINE Runs(f, k) == f = [i \in from + 1 - k .. from + 1 |->
                                 IF i > from THEN x ELSE step(a, b, c, f[i + 1], i)]
            Stops == {k \in Nat : ~ \E f : Runs(f, k)}
<1>1. Stops = {}
  <2>. SUFFICES ASSUME Stops # {} PROVE FALSE
    OBVIOUS
  <2>1. PICK k \in Stops : \A j \in Stops : k <= j
    <3>. HIDE DEF Runs
    <3>1. Stops \in SUBSET Nat
      OBVIOUS
    <3>. HIDE DEF Stops
    <3>. QED
      BY <3>1, LeastNatural
  <2>2. k # 0
    <3>1. Runs([i \in from + 1 .. from + 1 |-> x], 0)
      OBVIOUS
    <3>. HIDE DEF Runs
    <3>. QED
      BY <3>1
  <2>3. PICK f : Runs(f, k - 1)
    <3>. HIDE DEF Runs
    <3>. QED
      BY <2>1, <2>2
  <2>4. DOMAIN f = from + 1 - (k - 1) .. from + 1
    BY <2>3
  <2>. DEFINE g == [i \in from + 1 - k .. from + 1 |->
                      IF i > from THEN x ELSE step(a, b, c, f[i + 1], i)]
  <2>5. \A i \in from + 1 - (k - 1) .. from + 1 : g[i] = f[i]
    BY <2>3
  <2>6. ASSUME NEW i \in from + 1 - k .. from + 1, ~ (i > from) PROVE g[i + 1] = f[i + 1]
    <3>1. k \in Nat /\ i + 1 \in from + 1 - (k - 1) .. from + 1
      BY <2>6, <2>1
    <3>. HIDE DEF g
    <3>. QED
      BY <3>1, <2>5
  <2>7. Runs(g, k)
    BY <2>6
  <2>. HIDE DEF Runs, g
  <2>. QED
    BY <2>1, <2>7
<1>2. PICK f : Runs(f, from - to + 1)
  <2>1. from - to + 1 \in Nat
    OBVIOUS
  <2>. HIDE DEF Runs
  <2>. QED
    BY <1>1, <2>1
<1>. QED
  <2>1. from + 1 - (from - to + 1) = to
    OBVIOUS
  <2>2. GoesDown(f, a, b, c, x, from, to)
    BY <1>2, <2>1 DEF GoesDown
  <2>. QED
    BY <2>2

\* The loop, as Down of module SaisMemory defines it.
DownTo(a, b, c, x, from, to) ==
  LET after[i \in to .. from + 1] ==
        IF i > from THEN x ELSE step(a, b, c, after[i + 1], i)
  IN  IF from < to THEN x ELSE after[to]

\* The same of a loop that goes down.
LEMMA DownKeeps ==
  ASSUME NEW a, NEW b, NEW c, NEW x, NEW from \in Int, NEW to \in Int, to <= from + 1,
         Keep(a, b, c, x, from + 1),
         \A i \in to .. from : \A s :
           Keep(a, b, c, s, i + 1) => Keep(a, b, c, step(a, b, c, s, i), i)
  PROVE  Keep(a, b, c, DownTo(a, b, c, x, from, to), to)
<1>. DEFINE after == CHOOSE f : GoesDown(f, a, b, c, x, from, to)
<1>. SUFFICES Keep(a, b, c, IF from < to THEN x ELSE after[to], to)
  BY DEF GoesDown, DownTo
<1>1. CASE from < to
  <2>1. to = from + 1
    BY <1>1
  <2>. QED
    BY <1>1, <2>1
<1>2. CASE to <= from
  <2>1. after = [i \in to .. from + 1 |->
                   IF i > from THEN x ELSE step(a, b, c, after[i + 1], i)]
    <3>1. GoesDown(after, a, b, c, x, from, to)
      BY <1>2, DownRuns
    <3>. HIDE DEF after
    <3>. QED
      BY <3>1 DEF GoesDown
  <2>. HIDE DEF after
  <2>2. after[from + 1] = x
    BY <1>2, <2>1
  <2>3. \A i \in to .. from : after[i] = step(a, b, c, after[i + 1], i)
    BY <2>1
  <2>. DEFINE Lost == {k \in Nat : to <= from + 1 - k
                                    /\ ~ Keep(a, b, c, after[from + 1 - k], from + 1 - k)}
  <2>4. Lost = {}
    <3>. SUFFICES ASSUME Lost # {} PROVE FALSE
      OBVIOUS
    <3>1. Lost \in SUBSET Nat
      OBVIOUS
    <3>2. PICK k \in Lost : \A j \in Lost : k <= j
      <4>. HIDE DEF Lost
      <4>. QED
        BY <3>1, LeastNatural
    <3>3. k \in Nat /\ k # 0
      BY <2>2, <3>2
    <3>4. PICK i \in to .. from : i = from + 1 - k
      BY <3>2, <3>3
    <3>5. Keep(a, b, c, after[i + 1], i + 1)
      <4>1. k - 1 \notin Lost /\ k - 1 \in Nat
        BY <3>2, <3>3
      <4>2. i + 1 = from + 1 - (k - 1)
        BY <3>4, <3>3
      <4>3. Keep(a, b, c, after[from + 1 - (k - 1)], from + 1 - (k - 1))
        BY <4>1, <4>2, <3>4
      <4>. QED
        BY <4>2, <4>3
    <3>6. Keep(a, b, c, step(a, b, c, after[i + 1], i), i)
      BY <3>5
    <3>7. Keep(a, b, c, after[i], i)
      BY <2>3, <3>6
    <3>. QED
      BY <3>2, <3>4, <3>7
  <2>5. from - to + 1 \in Nat /\ from + 1 - (from - to + 1) = to
    BY <1>2
  <2>6. Keep(a, b, c, after[from + 1 - (from - to + 1)], from + 1 - (from - to + 1))
    <3>1. from - to + 1 \notin Lost
      BY <2>4
    <3>. QED
      BY <3>1, <2>5
  <2>. QED
    BY <1>2, <2>5, <2>6
<1>. QED
  BY <1>1, <1>2

=============================================================================
