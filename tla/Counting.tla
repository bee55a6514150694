-------------------------------- MODULE Counting -------------------------------
(***************************************************************************)
(* Induction over the natural numbers, stated of sets, and the sums that    *)
(* recursive functions compute: what the counts of the specifications rest *)
(* on.                                                                     *)
(***************************************************************************)
EXTENDS Integers, WellFoundedInduction, TLAPS

LEMMA LeastNumber ==
  ASSUME NEW S \in SUBSET Nat, S # {}
  PROVE  \E n \in S : \A m \in S : n <= m
<1> DEFINE R == OpToRel(<, Nat)
<1>1. IsWellFoundedOn(R, Nat) BY NatLessThanWellFounded
<1>2. \A m, n \in Nat : m < n => <<m, n>> \in R BY DEF OpToRel
<1> HIDE DEF R
<1>3. PICK n \in S : \A m \in S : <<m, n>> \notin R BY <1>1, WFMin
<1>4. \A m \in S : ~(m < n) BY <1>2, <1>3
<1>5. QED BY <1>3, <1>4

LEMMA NumberInduction ==
  ASSUME NEW S, 0 \in S, \A n \in Nat : n \in S => n + 1 \in S
  PROVE  \A n \in Nat : n \in S
<1> DEFINE T == Nat \ S
<1> SUFFICES ASSUME T # {} PROVE FALSE OBVIOUS
<1>1. T \in SUBSET Nat OBVIOUS
<1> HIDE DEF T
<1>2. PICK n \in T : \A m \in T : n <= m BY <1>1, LeastNumber
<1>3. n \in Nat /\ n # 0 BY <1>2 DEF T
<1>4. n - 1 \in Nat /\ n - 1 \notin T BY <1>2, <1>3
<1>5. n \in S BY <1>3, <1>4 DEF T
<1>6. QED BY <1>2, <1>5 DEF T

-------------------------------------------------------------------------------
(* sums[i] is the sum of the first i addends. *)
Sums(sums, addends, n) ==
  sums = [i \in 0 .. n |-> IF i = 0 THEN 0 ELSE sums[i - 1] + addends[i]]

LEMMA SumsExist ==
  ASSUME NEW addends, NEW n \in Nat
  PROVE  \E sums : Sums(sums, addends, n)
<1> DEFINE S == {m \in Nat : \E sums : Sums(sums, addends, m)}
<1>1. 0 \in S
  <2>1. Sums([i \in 0 .. 0 |-> 0], addends, 0) BY DEF Sums
  <2>2. QED BY <2>1
<1>2. ASSUME NEW m \in Nat, m \in S PROVE m + 1 \in S
  <2>1. PICK f : Sums(f, addends, m) BY <1>2
  <2> DEFINE g == [i \in 0 .. m + 1 |-> IF i = m + 1 THEN f[m] + addends[m + 1] ELSE f[i]]
  <2>2. ASSUME NEW i \in 0 .. m + 1
        PROVE  g[i] = IF i = 0 THEN 0 ELSE g[i - 1] + addends[i]
    <3>1. CASE i = m + 1 BY <3>1
    <3>2. CASE i # m + 1
      <4>1. i \in 0 .. m /\ g[i] = f[i] BY <3>2
      <4>2. f[i] = IF i = 0 THEN 0 ELSE f[i - 1] + addends[i] BY <2>1, <4>1 DEF Sums
      <4>3. i # 0 => i - 1 \in 0 .. m + 1 /\ g[i - 1] = f[i - 1] BY <4>1
      <4>4. QED BY <4>1, <4>2, <4>3
    <3>3. QED BY <3>1, <3>2
  <2>3. g = [i \in 0 .. m + 1 |-> IF i = 0 THEN 0 ELSE g[i - 1] + addends[i]]
    BY <2>2
  <2>4. Sums(g, addends, m + 1) BY <2>3 DEF Sums
  <2>5. QED BY <2>4
<1> HIDE DEF S
<1>3. \A m \in Nat : m \in S BY <1>1, <1>2, NumberInduction
<1>4. QED BY <1>3 DEF S

(* One addend further. *)
LEMMA SumStep ==
  ASSUME NEW addends, NEW n \in Nat, NEW sums, Sums(sums, addends, n), NEW i \in 0 .. n
  PROVE  sums[i] = IF i = 0 THEN 0 ELSE sums[i - 1] + addends[i]
BY DEF Sums

LEMMA SumsAreNumbers ==
  ASSUME NEW n \in Nat, NEW addends, \A i \in 1 .. n : addends[i] \in Nat,
         NEW sums, Sums(sums, addends, n)
  PROVE  \A i \in 0 .. n : sums[i] \in Nat
<1> DEFINE S == {m \in Nat : m <= n => sums[m] \in Nat}
<1>1. 0 \in S BY SumStep
<1>2. ASSUME NEW m \in Nat, m \in S, m + 1 <= n PROVE sums[m + 1] \in Nat
  <2>1. m + 1 \in 0 .. n /\ m + 1 \in 1 .. n /\ m + 1 # 0 /\ (m + 1) - 1 = m BY <1>2
  <2>2. sums[m + 1] = sums[m] + addends[m + 1] BY <2>1, SumStep
  <2>3. sums[m] \in Nat BY <1>2
  <2>4. QED BY <2>1, <2>2, <2>3
<1>3. \A m \in Nat : m \in S => m + 1 \in S BY <1>2
<1> HIDE DEF S
<1>4. \A m \in Nat : m \in S BY <1>1, <1>3, NumberInduction
<1>5. QED BY <1>4 DEF S

(* As far as the addends agree, so do the sums. *)
LEMMA SumsAgree ==
  ASSUME NEW n \in Nat, NEW m \in Nat, NEW k \in Nat, k <= n, k <= m,
         NEW f, NEW a, Sums(f, a, n), NEW g, NEW b, Sums(g, b, m),
         \A i \in 1 .. k : a[i] = b[i]
  PROVE  f[k] = g[k]
<1> DEFINE S == {i \in Nat : i <= k => f[i] = g[i]}
<1>1. 0 \in S
  <2>1. 0 \in 0 .. n /\ 0 \in 0 .. m OBVIOUS
  <2>2. f[0] = 0 /\ g[0] = 0 BY <2>1, SumStep
  <2>3. QED BY <2>2
<1>2. ASSUME NEW i \in Nat, i \in S, i + 1 <= k PROVE f[i + 1] = g[i + 1]
  <2>1. /\ i + 1 \in 0 .. n /\ i + 1 \in 0 .. m /\ i + 1 \in 1 .. k
        /\ i + 1 # 0 /\ (i + 1) - 1 = i
    BY <1>2
  <2>2. f[i + 1] = f[i] + a[i + 1] BY <2>1, SumStep
  <2>3. g[i + 1] = g[i] + b[i + 1] BY <2>1, SumStep
  <2>4. f[i] = g[i] BY <1>2
  <2>5. QED BY <2>1, <2>2, <2>3, <2>4
<1>3. \A i \in Nat : i \in S => i + 1 \in S BY <1>2
<1> HIDE DEF S
<1>4. k \in S BY <1>1, <1>3, NumberInduction
<1>5. QED BY <1>4 DEF S

(* Where the addends differ in one place, the sums differ by as much. *)
LEMMA SumsDiffer ==
  ASSUME NEW n \in Nat, NEW k \in 1 .. n,
         NEW f, NEW a, Sums(f, a, n), \A i \in 1 .. n : a[i] \in Nat,
         NEW g, NEW b, Sums(g, b, n), \A i \in 1 .. n : b[i] \in Nat,
         \A i \in 1 .. n : i # k => a[i] = b[i]
  PROVE  f[n] + b[k] = g[n] + a[k]
<1> DEFINE S == {i \in Nat : k <= i /\ i <= n => f[i] + b[k] = g[i] + a[k]}
<1>1. (\A i \in 0 .. n : f[i] \in Nat) /\ (\A i \in 0 .. n : g[i] \in Nat)
  BY SumsAreNumbers
<1>2. 0 \in S OBVIOUS
<1>3. ASSUME NEW i \in Nat, i \in S, k <= i + 1, i + 1 <= n
      PROVE  f[i + 1] + b[k] = g[i + 1] + a[k]
  <2>1. i + 1 \in 0 .. n /\ i + 1 \in 1 .. n /\ i + 1 # 0 /\ (i + 1) - 1 = i /\ i \in 0 .. n
    BY <1>3
  <2>2. f[i + 1] = f[i] + a[i + 1] /\ g[i + 1] = g[i] + b[i + 1] BY <2>1, SumStep
  <2>3. f[i] \in Nat /\ g[i] \in Nat /\ a[i + 1] \in Nat /\ b[i + 1] \in Nat
        /\ a[k] \in Nat /\ b[k] \in Nat
    BY <1>1, <2>1
  <2>4. CASE k = i + 1
    <3>1. \A j \in 1 .. i : a[j] = b[j] BY <2>1, <2>4
    <3>2. i <= n BY <2>1
    <3>3. f[i] = g[i] BY <3>1, <3>2, SumsAgree
    <3>4. QED BY <2>2, <2>3, <2>4, <3>3
  <2>5. CASE k # i + 1
    <3>1. k <= i /\ i <= n BY <1>3, <2>5
    <3>2. f[i] + b[k] = g[i] + a[k] BY <1>3, <3>1
    <3>3. a[i + 1] = b[i + 1] BY <2>1, <2>5
    <3>4. QED BY <2>2, <2>3, <3>2, <3>3
  <2>6. QED BY <2>4, <2>5
<1>4. \A i \in Nat : i \in S => i + 1 \in S BY <1>3
<1> HIDE DEF S
<1>5. n \in S BY <1>2, <1>4, NumberInduction
<1>6. QED BY <1>5 DEF S
===============================================================================
