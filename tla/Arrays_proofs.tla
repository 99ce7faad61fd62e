--------------------------- MODULE Arrays_proofs ---------------------------
(***************************************************************************)
(* Lemmas on numbers, on functions defined by recursion and on filtered    *)
(* sequences.  Induction over data is done without an operator as a        *)
(* parameter: a set of numbers has a least member, so a set that holds 0   *)
(* and the successors of its members holds all, and a recursion defines a  *)
(* function.                                                               *)
(***************************************************************************)
EXTENDS Arrays, SequencesExt, WellFoundedInduction, FiniteSetTheorems, SequenceTheorems,
        TLAPS

\* A set of numbers that has a member has a least one: the induction of the proofs below,
\* which cite no theorem that takes an operator.
LEMMA LeastNumber ==
  ASSUME NEW T \in SUBSET Nat, T # {}
  PROVE  \E n \in T : \A m \in T : n <= m
<1> DEFINE R == {p \in Nat \X Nat : p[1] < p[2]}
<1>1. OpToRel(<, Nat) = R
  BY DEF OpToRel
<1>2. IsWellFoundedOn(R, Nat)
  BY <1>1, NatLessThanWellFounded, Zenon
<1>3. \E n \in T : \A m \in T : <<m, n>> \notin R
  <2> HIDE DEF R
  <2> QED
    BY <1>2, WFMin
<1>4. \A n, m \in T : <<m, n>> \notin R => n <= m
  OBVIOUS
<1> QED
  BY <1>3, <1>4

\* What holds of 0 and passes on from each number to the next holds up to any m.
LEMMA AllNumbers ==
  ASSUME NEW m \in Nat, NEW T, 0 \in T, \A n \in 0 .. m : n \in T /\ n < m => n + 1 \in T
  PROVE  \A n \in 0 .. m : n \in T
<1> DEFINE U == {n \in 0 .. m : n \notin T}
<1>1. SUFFICES ASSUME U # {} PROVE FALSE
  OBVIOUS
<1>2. U \in SUBSET Nat
  OBVIOUS
<1>3. PICK n \in U : \A k \in U : n <= k
  <2> HIDE DEF U
  <2> QED
    BY <1>1, <1>2, LeastNumber
<1>4. n \in 0 .. m /\ n \notin T /\ n # 0
  BY <1>3
<1>5. n - 1 \in 0 .. m /\ n - 1 < m /\ n - 1 < n /\ (n - 1) + 1 = n
  BY <1>4
<1>6. n - 1 \in T
  BY <1>3, <1>5
<1> QED
  BY <1>4, <1>5, <1>6

Stepping(A, m) == [1 .. m -> [A -> A]]
Recurs(f, A, a, m, step) ==
  f \in [0 .. m -> A] /\ f[0] = a /\ \A n \in 1 .. m : f[n] = step[n][f[n - 1]]

\* A recursion of m steps defines a function.
LEMMA FunctionByRecursion ==
  ASSUME NEW A, NEW a \in A, NEW m \in Nat, NEW step \in Stepping(A, m)
  PROVE  \E f : Recurs(f, A, a, m, step)
<1> USE DEF Stepping
<1> DEFINE Upto(k, f) == f[0] = a /\ \A n \in 1 .. k : f[n] = step[n][f[n - 1]]
           T == {k \in 0 .. m : \E f \in [0 .. k -> A] : Upto(k, f)}
<1>1. 0 \in T
  <2> DEFINE g == [n \in 0 .. 0 |-> a]
  <2>1. g \in [0 .. 0 -> A] /\ Upto(0, g)
    OBVIOUS
  <2>2. 0 \in 0 .. m
    OBVIOUS
  <2> HIDE DEF g
  <2> QED
    BY <2>1, <2>2
<1>2. \A k \in 0 .. m : k \in T /\ k < m => k + 1 \in T
  <2> SUFFICES ASSUME NEW k \in 0 .. m, k \in T, k < m PROVE k + 1 \in T
    OBVIOUS
  <2>1. PICK f \in [0 .. k -> A] : Upto(k, f)
    OBVIOUS
  <2> DEFINE x == step[k + 1][f[k]]
             g == [n \in 0 .. k + 1 |-> IF n = k + 1 THEN x ELSE f[n]]
  <2>2. k + 1 \in 1 .. m /\ k \in 0 .. k /\ k \in Nat /\ k + 1 \in 0 .. m /\ (k + 1) - 1 = k
    OBVIOUS
  <2>3. x \in A
    BY <2>2
  <2> HIDE DEF x
  <2>4. g \in [0 .. k + 1 -> A]
    BY <2>2, <2>3
  <2>5. g[k + 1] = x /\ \A n \in 0 .. k : g[n] = f[n]
    BY <2>2
  <2> HIDE DEF g
  <2>6. \A n \in 1 .. k + 1 : n = k + 1 \/ (n \in 1 .. k /\ n \in 0 .. k /\ n - 1 \in 0 .. k)
    BY <2>2
  <2>7. Upto(k + 1, g)
    BY <2>1, <2>2, <2>5, <2>6 DEF x
  <2> QED
    BY <2>2, <2>4, <2>7
<1>3. m \in T
  <2> HIDE DEF T
  <2>1. m \in 0 .. m
    OBVIOUS
  <2> QED
    BY <2>1, <1>1, <1>2, AllNumbers
<1> QED
  BY <1>3 DEF Recurs

\* The least of two numbers.
LEMMA MinOfTwo ==
  ASSUME NEW a \in Nat, NEW b \in Nat
  PROVE  Min({a, b}) = IF a <= b THEN a ELSE b
<1> DEFINE x == IF a <= b THEN a ELSE b
<1>1. x \in {a, b} /\ \A y \in {a, b} : x <= y
  OBVIOUS
<1>2. \A z \in {a, b} : (\A y \in {a, b} : z <= y) => z = x
  OBVIOUS
<1> QED
  BY <1>1, <1>2 DEF Min

\* The least member of a set of numbers.
LEMMA MinIsIn ==
  ASSUME NEW T \in SUBSET Nat, T # {}
  PROVE  Min(T) \in T /\ \A n \in T : Min(T) <= n
BY LeastNumber DEF Min

\* The greatest member of a set of numbers below a bound.
LEMMA MaxIsIn ==
  ASSUME NEW m \in Nat, NEW T \in SUBSET (0 .. m), T # {}
  PROVE  Max(T) \in T /\ \A n \in T : n <= Max(T)
<1> DEFINE U == {u \in 0 .. m : m - u \in T}
<1>1. U \in SUBSET Nat /\ U # {}
  <2>1. PICK n \in T : TRUE
    OBVIOUS
  <2>2. m - n \in 0 .. m /\ m - (m - n) = n
    OBVIOUS
  <2>3. m - n \in U
    BY <2>2
  <2>4. U \in SUBSET Nat
    OBVIOUS
  <2> HIDE DEF U
  <2> QED
    BY <2>3, <2>4
<1>2. PICK u \in U : \A k \in U : u <= k
  <2> HIDE DEF U
  <2> QED
    BY <1>1, LeastNumber
<1>3. \A k \in T : m - k \in U
  OBVIOUS
<1>4. \A k \in T : k <= m - u
  BY <1>2, <1>3
<1> QED
  BY <1>2, <1>4 DEF Max

\* f is the function by which Kept is defined.
KeptUpTo(f, A, s, S) ==
  /\ f \in [0 .. Len(s) -> Seq(A)] /\ f[0] = <<>>
  /\ \A n \in 1 .. Len(s) :
       f[n] = IF s[n] \in S THEN Append(f[n - 1], s[n]) ELSE f[n - 1]
  /\ Kept(s, S) = f[Len(s)]

\* Filtering goes member by member.
LEMMA KeptStepwise ==
  ASSUME NEW A, NEW s \in Seq(A), NEW S
  PROVE  \E f : KeptUpTo(f, A, s, S)
<1> DEFINE m == Len(s)
           step == [n \in 1 .. m |-> [t \in Seq(A) |-> IF s[n] \in S THEN Append(t, s[n]) ELSE t]]
           Is(f) == f = [n \in 0 .. m |-> IF n = 0 THEN <<>>
                           ELSE IF s[n] \in S THEN Append(f[n - 1], s[n]) ELSE f[n - 1]]
<1>1. m \in Nat /\ <<>> \in Seq(A) /\ \A n \in 1 .. m : s[n] \in A
  OBVIOUS
<1> HIDE DEF m
<1>2. step \in [1 .. m -> [Seq(A) -> Seq(A)]]
  BY <1>1
<1>3. PICK f : Recurs(f, Seq(A), <<>>, m, step)
  <2>1. step \in Stepping(Seq(A), m)
    BY <1>2 DEF Stepping
  <2> HIDE DEF step, Is
  <2> QED
    BY <1>1, <2>1, FunctionByRecursion
<1>4. \A n \in 1 .. m : n - 1 \in 0 .. m /\ n # 0 /\ n \in 0 .. m
  BY <1>1
<1>5. \A n \in 0 .. m : n = 0 \/ n \in 1 .. m
  BY <1>1
<1>6. \A n \in 1 .. m : f[n] = IF s[n] \in S THEN Append(f[n - 1], s[n]) ELSE f[n - 1]
  <2> SUFFICES ASSUME NEW n \in 1 .. m
               PROVE  f[n] = IF s[n] \in S THEN Append(f[n - 1], s[n]) ELSE f[n - 1]
    OBVIOUS
  <2>1. f[n] = step[n][f[n - 1]] /\ f[n - 1] \in Seq(A)
    BY <1>3, <1>4 DEF Recurs
  <2> QED
    BY <2>1
<1>7. Is(f)
  BY <1>3, <1>5, <1>6 DEF Recurs
<1> DEFINE g == CHOOSE h : Is(h)
<1>8. Is(g)
  <2> HIDE DEF Is
  <2> QED
    BY <1>7
<1>9. Kept(s, S) = g[m]
  BY DEF Kept, m
<1> HIDE DEF g
<1>10. DOMAIN g = 0 .. m /\ g[0] = <<>>
       /\ \A n \in 1 .. m : g[n] = IF s[n] \in S THEN Append(g[n - 1], s[n]) ELSE g[n - 1]
  <2>1. DOMAIN g = 0 .. m
    BY <1>8
  <2>2. \A n \in 0 .. m : g[n] = IF n = 0 THEN <<>>
                           ELSE IF s[n] \in S THEN Append(g[n - 1], s[n]) ELSE g[n - 1]
    BY <1>8
  <2>3. 0 \in 0 .. m
    BY <1>1
  <2> HIDE DEF Is
  <2> QED
    BY <1>4, <2>1, <2>2, <2>3
<1> HIDE DEF Is
<1> DEFINE T == {n \in 0 .. m : g[n] = f[n]}
<1>11. 0 \in T
  BY <1>1, <1>3, <1>10 DEF Recurs
<1>12. \A n \in 0 .. m : n \in T /\ n < m => n + 1 \in T
  <2> SUFFICES ASSUME NEW n \in 0 .. m, g[n] = f[n], n < m PROVE n + 1 \in T
    OBVIOUS
  <2>1. n + 1 \in 1 .. m /\ n + 1 \in 0 .. m /\ (n + 1) - 1 = n
    BY <1>1
  <2> QED
    BY <1>6, <1>10, <2>1
<1>13. \A n \in 0 .. m : n \in T
  <2> HIDE DEF T
  <2> QED
    BY <1>1, <1>11, <1>12, AllNumbers
<1>14. m \in 0 .. m
  BY <1>1
<1> QED
  BY <1>3, <1>6, <1>9, <1>13, <1>14 DEF m, Recurs, KeptUpTo

\* What a filter keeps are the members that pass, and all of them.
LEMMA KeptMembers ==
  ASSUME NEW A, NEW s \in Seq(A), NEW S
  PROVE  /\ Kept(s, S) \in Seq(A)
         /\ \A k \in DOMAIN Kept(s, S) : Kept(s, S)[k] \in S /\ \E i \in DOMAIN s : s[i] = Kept(s, S)[k]
         /\ \A i \in DOMAIN s : s[i] \in S => \E k \in DOMAIN Kept(s, S) : Kept(s, S)[k] = s[i]
<1>1. PICK f : KeptUpTo(f, A, s, S)
  BY KeptStepwise
<1> USE DEF KeptUpTo
<1> DEFINE m == Len(s)
           From(n) == \A k \in 1 .. Len(f[n]) : f[n][k] \in S /\ \E i \in 1 .. n : s[i] = f[n][k]
           All(n)  == \A i \in 1 .. n : s[i] \in S => \E k \in 1 .. Len(f[n]) : f[n][k] = s[i]
           T == {n \in 0 .. m : From(n) /\ All(n)}
<1>2. m \in Nat /\ DOMAIN s = 1 .. m /\ \A n \in 1 .. m : s[n] \in A
  OBVIOUS
<1>3. \A n \in 0 .. m : f[n] \in Seq(A) /\ Len(f[n]) \in Nat /\ DOMAIN f[n] = 1 .. Len(f[n])
  BY <1>1
<1>4. 0 \in T
  BY <1>1, <1>2
<1>5. \A n \in 0 .. m : n \in T /\ n < m => n + 1 \in T
  <2> SUFFICES ASSUME NEW n \in 0 .. m, From(n), All(n), n < m PROVE n + 1 \in T
    OBVIOUS
  <2>1. n + 1 \in 1 .. m /\ (n + 1) - 1 = n /\ n + 1 \in 0 .. m
    BY <1>2
  <2>2. f[n + 1] = IF s[n + 1] \in S THEN Append(f[n], s[n + 1]) ELSE f[n]
    BY <1>1, <2>1
  <2>3. \A i \in 1 .. n + 1 : i = n + 1 \/ i \in 1 .. n
    BY <2>1
  <2>4. \A i \in 1 .. n : i \in 1 .. n + 1
    BY <2>1
  <2>5. CASE s[n + 1] \in S
    <3> DEFINE l == Len(f[n])
    <3>1. f[n + 1] = Append(f[n], s[n + 1]) /\ l \in Nat /\ f[n] \in Seq(A) /\ s[n + 1] \in A
      BY <1>2, <1>3, <2>1, <2>2, <2>5
    <3>2. Len(f[n + 1]) = l + 1 /\ f[n + 1][l + 1] = s[n + 1]
          /\ \A k \in 1 .. l : f[n + 1][k] = f[n][k] /\ k \in 1 .. l + 1
      BY <3>1
    <3>3. \A k \in 1 .. l + 1 : k = l + 1 \/ k \in 1 .. l
      BY <3>1
    <3>4. l + 1 \in 1 .. l + 1 /\ n + 1 \in 1 .. n + 1
      BY <2>1, <3>1
    <3> HIDE DEF l
    <3>5. From(n + 1)
      <4> SUFFICES ASSUME NEW k \in 1 .. l + 1
                   PROVE  f[n + 1][k] \in S /\ \E i \in 1 .. n + 1 : s[i] = f[n + 1][k]
        BY <3>2
      <4>1. CASE k = l + 1
        BY <2>5, <3>2, <3>4, <4>1
      <4>2. CASE k \in 1 .. l
        <5>1. PICK i \in 1 .. n : s[i] = f[n][k]
          BY <4>2 DEF l
        <5> QED
          BY <2>4, <3>2, <4>2, <5>1 DEF l
      <4> QED
        BY <3>3, <4>1, <4>2
    <3>6. All(n + 1)
      <4> SUFFICES ASSUME NEW i \in 1 .. n + 1, s[i] \in S
                   PROVE  \E k \in 1 .. l + 1 : f[n + 1][k] = s[i]
        BY <3>2
      <4>1. CASE i = n + 1
        BY <3>2, <3>4, <4>1
      <4>2. CASE i \in 1 .. n
        <5>1. PICK k \in 1 .. l : f[n][k] = s[i]
          BY <4>2 DEF l
        <5> QED
          BY <3>2, <5>1
      <4> QED
        BY <2>3, <4>1, <4>2
    <3> QED
      BY <2>1, <3>5, <3>6
  <2>6. CASE s[n + 1] \notin S
    <3>1. f[n + 1] = f[n]
      BY <2>2, <2>6
    <3>2. From(n + 1)
      BY <2>4, <3>1
    <3>3. All(n + 1)
      BY <2>3, <2>6, <3>1
    <3> QED
      BY <2>1, <3>2, <3>3
  <2> QED
    BY <2>5, <2>6
<1>6. m \in T
  <2>1. m \in 0 .. m
    BY <1>2
  <2> HIDE DEF T, m
  <2> QED
    BY <1>2, <1>4, <1>5, <2>1, AllNumbers
<1>7. From(m) /\ All(m) /\ Kept(s, S) = f[m] /\ f[m] \in Seq(A) /\ DOMAIN f[m] = 1 .. Len(f[m])
  BY <1>1, <1>2, <1>3, <1>6
<1> HIDE DEF m
<1> QED
  BY <1>2, <1>7

----------------------------------------------------------------------------
(* Sequences *)

\* A filter leaves no member twice that was there once.
LEMMA KeptDistinct ==
  ASSUME NEW A, NEW s \in Seq(A), NEW S, IsInjective(s)
  PROVE  IsInjective(Kept(s, S))
<1>1. PICK f : KeptUpTo(f, A, s, S)
  BY KeptStepwise
<1> USE DEF KeptUpTo
<1> DEFINE m == Len(s)
           From(n) == \A k \in 1 .. Len(f[n]) : \E i \in 1 .. n : s[i] = f[n][k]
           T == {n \in 0 .. m : From(n) /\ IsInjective(f[n])}
<1>2. m \in Nat /\ DOMAIN s = 1 .. m /\ \A n \in 1 .. m : s[n] \in A
  OBVIOUS
<1>3. \A n \in 0 .. m : f[n] \in Seq(A) /\ Len(f[n]) \in Nat /\ DOMAIN f[n] = 1 .. Len(f[n])
  BY <1>1
<1>4. 0 \in T
  BY <1>1, <1>2 DEF IsInjective
<1>5. \A n \in 0 .. m : n \in T /\ n < m => n + 1 \in T
  <2> SUFFICES ASSUME NEW n \in 0 .. m, From(n), IsInjective(f[n]), n < m PROVE n + 1 \in T
    OBVIOUS
  <2>1. n + 1 \in 1 .. m /\ (n + 1) - 1 = n /\ n + 1 \in 0 .. m
    BY <1>2
  <2>2. f[n + 1] = IF s[n + 1] \in S THEN Append(f[n], s[n + 1]) ELSE f[n]
    BY <1>1, <2>1
  <2>3. \A i \in 1 .. n : i \in 1 .. n + 1 /\ i # n + 1 /\ i \in 1 .. m
    BY <1>2, <2>1
  <2>4. CASE s[n + 1] \in S
    <3>1. f[n] \in Seq(A) /\ s[n + 1] \in A /\ f[n + 1] = Append(f[n], s[n + 1])
      BY <1>2, <1>3, <2>1, <2>2, <2>4
    <3>2. \A k \in 1 .. Len(f[n]) : f[n + 1][k] = f[n][k]
      BY <3>1
    <3>3. Len(f[n + 1]) = Len(f[n]) + 1 /\ f[n + 1][Len(f[n]) + 1] = s[n + 1] /\ Len(f[n]) \in Nat
      BY <3>1
    <3>4. \A k \in 1 .. Len(f[n + 1]) : k \in 1 .. Len(f[n]) \/ k = Len(f[n]) + 1
      BY <3>3
    <3>5. n + 1 \in 1 .. n + 1
      BY <2>1
    <3>6. From(n + 1)
      BY <2>3, <3>2, <3>3, <3>4, <3>5
    <3>7. \A k \in 1 .. Len(f[n]) : f[n][k] # s[n + 1]
      <4> SUFFICES ASSUME NEW k \in 1 .. Len(f[n]) PROVE f[n][k] # s[n + 1]
        OBVIOUS
      <4>1. PICK i \in 1 .. n : s[i] = f[n][k]
        OBVIOUS
      <4>2. i \in DOMAIN s /\ n + 1 \in DOMAIN s /\ i # n + 1
        BY <1>2, <2>1, <2>3
      <4> QED
        BY <4>1, <4>2 DEF IsInjective
    <3>8. DOMAIN f[n + 1] = 1 .. Len(f[n + 1]) /\ DOMAIN f[n] = 1 .. Len(f[n])
      BY <1>3, <2>1
    <3>9. IsInjective(f[n + 1])
      BY <3>2, <3>3, <3>4, <3>7, <3>8 DEF IsInjective
    <3> QED
      BY <2>1, <3>6, <3>9
  <2>5. CASE s[n + 1] \notin S
    BY <2>1, <2>2, <2>3, <2>5
  <2> QED
    BY <2>4, <2>5
<1>6. m \in T
  <2>1. \A n \in 0 .. m : n \in T
    <3> HIDE DEF T
    <3> QED
      BY <1>2, <1>4, <1>5, AllNumbers
  <2> QED
    BY <1>2, <2>1
<1> QED
  BY <1>1, <1>6

\* The members that a filter leaves.
LEMMA KeptSet ==
  ASSUME NEW A, NEW s \in Seq(A), NEW S, IsInjective(s)
  PROVE  /\ Kept(s, S) \in Seq(A) /\ IsInjective(Kept(s, S))
         /\ ToSet(Kept(s, S)) = ToSet(s) \cap S
<1>1. Kept(s, S) \in Seq(A)
  BY KeptMembers
<1>2. \A k \in DOMAIN Kept(s, S) : Kept(s, S)[k] \in S /\ \E i \in DOMAIN s : s[i] = Kept(s, S)[k]
  BY KeptMembers
<1>3. \A i \in DOMAIN s : s[i] \in S => \E k \in DOMAIN Kept(s, S) : Kept(s, S)[k] = s[i]
  BY KeptMembers
<1> QED
  BY <1>1, <1>2, <1>3, KeptDistinct DEF ToSet

\* The members of a sequence.
LEMMA MembersAre ==
  ASSUME NEW A, NEW s \in Seq(A)
  PROVE  ToSet(s) \subseteq A /\ \A i \in DOMAIN s : s[i] \in ToSet(s)
BY DEF ToSet

\* A member is put at the end.
LEMMA AppendSet ==
  ASSUME NEW A, NEW s \in Seq(A), NEW f \in A, f \notin ToSet(s), IsInjective(s)
  PROVE  /\ Append(s, f) \in Seq(A) /\ IsInjective(Append(s, f))
         /\ ToSet(Append(s, f)) = ToSet(s) \cup {f}
<1> DEFINE t == Append(s, f)
<1>1. t \in Seq(A) /\ DOMAIN t = 1 .. Len(s) + 1 /\ DOMAIN s = 1 .. Len(s) /\ Len(s) \in Nat
  OBVIOUS
<1>2. (\A i \in 1 .. Len(s) : t[i] = s[i]) /\ t[Len(s) + 1] = f
  OBVIOUS
<1> HIDE DEF t
<1>3. \A i \in 1 .. Len(s) + 1 : i \in 1 .. Len(s) \/ i = Len(s) + 1
  BY <1>1
<1>4. \A i \in 1 .. Len(s) : i \in 1 .. Len(s) + 1 /\ i # Len(s) + 1 /\ s[i] # f
  BY <1>1 DEF ToSet
<1>5. IsInjective(t)
  BY <1>1, <1>2, <1>3, <1>4 DEF IsInjective
<1>6. ToSet(t) = ToSet(s) \cup {f}
  <2>1. Len(s) + 1 \in 1 .. Len(s) + 1
    BY <1>1
  <2> QED
    BY <1>1, <1>2, <1>3, <1>4, <2>1 DEF ToSet
<1> QED
  BY <1>1, <1>5, <1>6 DEF t

\* A member is put before others, or at the end.
LEMMA InsertSet ==
  ASSUME NEW A, NEW s \in Seq(A), NEW f \in A, f \notin ToSet(s), IsInjective(s),
         NEW i \in 1 .. Len(s) + 1
  PROVE  /\ InsertAt(s, i, f) \in Seq(A) /\ IsInjective(InsertAt(s, i, f))
         /\ ToSet(InsertAt(s, i, f)) = ToSet(s) \cup {f}
<1> DEFINE t == InsertAt(s, i, f)
           n == Len(s)
<1>1. n \in Nat /\ DOMAIN s = 1 .. n /\ i \in Nat /\ 1 <= i /\ i <= n + 1
  OBVIOUS
<1>2. /\ SubSeq(s, 1, i - 1) \in Seq(A) /\ Len(SubSeq(s, 1, i - 1)) = i - 1
      /\ \A k \in 1 .. i - 1 : SubSeq(s, 1, i - 1)[k] = s[k]
  BY <1>1
<1>3. /\ SubSeq(s, i, n) \in Seq(A) /\ Len(SubSeq(s, i, n)) = n + 1 - i
      /\ \A k \in 1 .. n + 1 - i : SubSeq(s, i, n)[k] = s[i + k - 1]
  BY <1>1
<1>4. t \in Seq(A) /\ Len(t) = n + 1
      /\ \A k \in 1 .. n + 1 : t[k] = IF k < i THEN s[k] ELSE IF k = i THEN f ELSE s[k - 1]
  <2> DEFINE a == SubSeq(s, 1, i - 1)
             b == SubSeq(s, i, n)
  <2>1. t = (a \o <<f>>) \o b
    BY DEF InsertAt
  <2>2. a \in Seq(A) /\ b \in Seq(A) /\ Len(a) = i - 1 /\ Len(b) = n + 1 - i
    BY <1>2, <1>3
  <2>3. \A k \in 1 .. i - 1 : a[k] = s[k]
    BY <1>2
  <2>4. \A k \in 1 .. n + 1 - i : b[k] = s[i + k - 1]
    BY <1>3
  <2> HIDE DEF a, b, t, n
  <2>5. /\ a \o <<f>> \in Seq(A) /\ Len(a \o <<f>>) = i
        /\ \A k \in 1 .. i : (a \o <<f>>)[k] = IF k < i THEN s[k] ELSE f
    BY <1>1, <2>2, <2>3
  <2> DEFINE c == a \o <<f>>
  <2>6. c \in Seq(A) /\ Len(c) = i /\ \A k \in 1 .. i : c[k] = IF k < i THEN s[k] ELSE f
    BY <2>5
  <2>7. t = c \o b
    BY <2>1
  <2> HIDE DEF c
  <2>8. t \in Seq(A) /\ Len(t) = n + 1
    <3>1. c \o b \in Seq(A) /\ Len(c \o b) = Len(c) + Len(b)
      BY <2>2, <2>6, ConcatProperties
    <3>2. i + (n + 1 - i) = n + 1
      BY <1>1
    <3> QED
      BY <2>2, <2>6, <2>7, <3>1, <3>2
  <2>9. \A k \in 1 .. n + 1 : t[k] = IF k <= i THEN c[k] ELSE b[k - i]
    <3>1. Len(c) = i /\ Len(b) = n + 1 - i /\ i + (n + 1 - i) = n + 1
      BY <1>1, <2>2, <2>6
    <3>2. \A k \in 1 .. Len(c) + Len(b) : (c \o b)[k] = IF k <= Len(c) THEN c[k] ELSE b[k - Len(c)]
      BY <2>2, <2>6, ConcatProperties
    <3> QED
      BY <2>7, <3>1, <3>2
  <2>10. \A k \in 1 .. n + 1 : k > i => k - i \in 1 .. n + 1 - i /\ i + (k - i) - 1 = k - 1
    BY <1>1
  <2>11. \A k \in 1 .. n + 1 : k <= i => k \in 1 .. i
    BY <1>1
  <2> QED
    <3> SUFFICES ASSUME NEW k \in 1 .. n + 1
                 PROVE  t[k] = IF k < i THEN s[k] ELSE IF k = i THEN f ELSE s[k - 1]
      BY <2>8
    <3>1. CASE k <= i
      BY <1>1, <2>6, <2>9, <2>11, <3>1
    <3>2. CASE k > i
      <4>1. t[k] = b[k - i]
        BY <1>1, <2>9, <3>2
      <4>2. b[k - i] = s[i + (k - i) - 1]
        BY <2>4, <2>10, <3>2
      <4> QED
        BY <1>1, <2>10, <3>2, <4>1, <4>2
    <3> QED
      BY <1>1, <3>1, <3>2
<1> HIDE DEF t, n
<1>5. DOMAIN t = 1 .. n + 1
  BY <1>4
<1>6. \A k \in 1 .. n + 1 : /\ k < i => k \in 1 .. n
                           /\ k > i => k - 1 \in 1 .. n /\ k - 1 >= i
  BY <1>1
<1>7. \A k \in 1 .. n : s[k] # f
  BY <1>1 DEF ToSet
<1>8. IsInjective(t)
  <2> SUFFICES ASSUME NEW j \in 1 .. n + 1, NEW k \in 1 .. n + 1, t[j] = t[k] PROVE j = k
    BY <1>5 DEF IsInjective
  <2>1. \A u, v \in 1 .. n : s[u] = s[v] => u = v
    BY <1>1 DEF IsInjective
  <2>2. CASE j = i \/ k = i
    BY <1>1, <1>4, <1>6, <1>7, <2>2
  <2>3. CASE j # i /\ k # i
    <3> DEFINE u == IF j < i THEN j ELSE j - 1
               v == IF k < i THEN k ELSE k - 1
    <3>1. u \in 1 .. n /\ v \in 1 .. n
      BY <1>1, <1>6, <2>3
    <3>2. t[j] = s[u] /\ t[k] = s[v]
      BY <1>1, <1>4, <2>3
    <3>3. u = v
      BY <2>1, <3>1, <3>2
    <3> QED
      BY <1>1, <2>3, <3>3
  <2> QED
    BY <2>2, <2>3
<1>9. ToSet(t) = ToSet(s) \cup {f}
  <2>1. \A k \in 1 .. n + 1 : t[k] \in ToSet(s) \cup {f}
    <3> SUFFICES ASSUME NEW k \in 1 .. n + 1 PROVE t[k] \in ToSet(s) \cup {f}
      OBVIOUS
    <3>1. \A j \in 1 .. n : s[j] \in ToSet(s)
      BY <1>1 DEF ToSet
    <3>2. k < i \/ k = i \/ k > i
      BY <1>1
    <3> QED
      BY <1>1, <1>4, <1>6, <3>1, <3>2
  <2>2. \A k \in 1 .. n : \E j \in 1 .. n + 1 : t[j] = s[k]
    <3> SUFFICES ASSUME NEW k \in 1 .. n PROVE \E j \in 1 .. n + 1 : t[j] = s[k]
      OBVIOUS
    <3> DEFINE j == IF k < i THEN k ELSE k + 1
    <3>1. j \in 1 .. n + 1 /\ t[j] = s[k]
      BY <1>1, <1>4
    <3> QED
      BY <3>1
  <2>3. i \in 1 .. n + 1 /\ t[i] = f
    BY <1>1, <1>4
  <2> QED
    BY <1>1, <1>5, <2>1, <2>2, <2>3 DEF ToSet
<1> QED
  BY <1>4, <1>8, <1>9 DEF t

\* A queue without repetition after its first member has gone.
LEMMA TailSet ==
  ASSUME NEW A, NEW s \in Seq(A), s # <<>>, IsInjective(s)
  PROVE  /\ Tail(s) \in Seq(A) /\ IsInjective(Tail(s)) /\ Head(s) \in A
         /\ ToSet(s) = {Head(s)} \cup ToSet(Tail(s)) /\ Head(s) \notin ToSet(Tail(s))
<1> DEFINE t == Tail(s)
<1>1. /\ t \in Seq(A) /\ Len(t) = Len(s) - 1 /\ \A i \in 1 .. Len(t) : t[i] = s[i + 1]
      /\ Head(s) \in A /\ Head(s) = s[1]
  BY HeadTailProperties
<1>2. Len(s) \in Nat /\ Len(s) >= 1 /\ DOMAIN s = 1 .. Len(s) /\ DOMAIN t = 1 .. Len(t)
  BY <1>1
<1> HIDE DEF t
<1>3. \A i \in 1 .. Len(t) : i + 1 \in 1 .. Len(s) /\ i + 1 # 1
  BY <1>1, <1>2
<1>4. \A i, j \in 1 .. Len(s) : s[i] = s[j] => i = j
  BY <1>2 DEF IsInjective
<1>5. IsInjective(t)
  <2> SUFFICES ASSUME NEW i \in 1 .. Len(t), NEW j \in 1 .. Len(t), t[i] = t[j] PROVE i = j
    BY <1>2 DEF IsInjective
  <2>1. i + 1 = j + 1
    BY <1>1, <1>3, <1>4
  <2> QED
    BY <2>1
<1>6. Head(s) \notin ToSet(t)
  <2> SUFFICES ASSUME NEW i \in 1 .. Len(t), t[i] = s[1] PROVE FALSE
    BY <1>1, <1>2 DEF ToSet
  <2>1. 1 \in 1 .. Len(s)
    BY <1>2
  <2> QED
    BY <1>1, <1>3, <1>4, <2>1
<1>7. ToSet(s) = {Head(s)} \cup ToSet(t)
  <2>1. \A i \in 1 .. Len(s) : i = 1 \/ (i - 1 \in 1 .. Len(t) /\ (i - 1) + 1 = i)
    BY <1>1, <1>2
  <2>2. \A i \in 1 .. Len(s) : s[i] \in {Head(s)} \cup ToSet(t)
    <3> SUFFICES ASSUME NEW i \in 1 .. Len(s), i # 1 PROVE s[i] \in ToSet(t)
      BY <1>1
    <3>1. i - 1 \in DOMAIN t /\ t[i - 1] = s[i]
      BY <1>1, <1>2, <2>1
    <3> QED
      BY <3>1 DEF ToSet
  <2>3. \A i \in 1 .. Len(t) : t[i] \in ToSet(s)
    BY <1>1, <1>2, <1>3 DEF ToSet
  <2>4. 1 \in DOMAIN s
    BY <1>2
  <2> QED
    BY <1>1, <1>2, <2>2, <2>3, <2>4 DEF ToSet
<1> QED
  BY <1>1, <1>5, <1>6, <1>7 DEF t

\* One queue before another that shares no member with it.
LEMMA ConcatSet ==
  ASSUME NEW A, NEW s \in Seq(A), NEW t \in Seq(A), IsInjective(s), IsInjective(t),
         ToSet(s) \cap ToSet(t) = {}
  PROVE  s \o t \in Seq(A) /\ IsInjective(s \o t) /\ ToSet(s \o t) = ToSet(s) \cup ToSet(t)
<1> DEFINE c == s \o t
           m == Len(s)
           n == Len(t)
<1>1. /\ c \in Seq(A) /\ Len(c) = m + n
      /\ \A i \in 1 .. m + n : c[i] = IF i <= m THEN s[i] ELSE t[i - m]
  BY ConcatProperties
<1>2. m \in Nat /\ n \in Nat /\ DOMAIN s = 1 .. m /\ DOMAIN t = 1 .. n
  OBVIOUS
<1>3. DOMAIN c = 1 .. m + n
  BY <1>1
<1> HIDE DEF c, m, n
<1>4. \A i \in 1 .. m + n : (i <= m /\ i \in 1 .. m) \/ (~(i <= m) /\ i - m \in 1 .. n)
  BY <1>2
<1>5. \A i \in 1 .. m + n : IF i <= m THEN i \in 1 .. m /\ c[i] = s[i] /\ c[i] \in ToSet(s)
                            ELSE i - m \in 1 .. n /\ c[i] = t[i - m] /\ c[i] \in ToSet(t)
  <2> SUFFICES ASSUME NEW i \in 1 .. m + n
               PROVE  IF i <= m THEN i \in 1 .. m /\ c[i] = s[i] /\ c[i] \in ToSet(s)
                      ELSE i - m \in 1 .. n /\ c[i] = t[i - m] /\ c[i] \in ToSet(t)
    OBVIOUS
  <2>1. CASE i <= m
    BY <1>1, <1>2, <1>4, <2>1 DEF ToSet
  <2>2. CASE ~(i <= m)
    BY <1>1, <1>2, <1>4, <2>2 DEF ToSet
  <2> QED
    BY <2>1, <2>2
<1>6. IsInjective(c)
  <2> SUFFICES ASSUME NEW i \in 1 .. m + n, NEW j \in 1 .. m + n, c[i] = c[j] PROVE i = j
    BY <1>3 DEF IsInjective
  <2>1. CASE i <= m /\ j <= m
    BY <1>2, <1>5, <2>1 DEF IsInjective
  <2>2. CASE ~(i <= m) /\ ~(j <= m)
    <3>1. i - m = j - m
      BY <1>2, <1>5, <2>2 DEF IsInjective
    <3> QED
      BY <1>2, <3>1
  <2>3. CASE (i <= m) # (j <= m)
    BY <1>5, <2>3
  <2> QED
    BY <2>1, <2>2, <2>3
<1>7. ToSet(c) = ToSet(s) \cup ToSet(t)
  <2>1. \A i \in 1 .. m + n : c[i] \in ToSet(s) \cup ToSet(t)
    BY <1>5
  <2>2. \A i \in 1 .. m : i \in 1 .. m + n /\ c[i] = s[i]
    BY <1>1, <1>2
  <2>3. \A i \in 1 .. n : i + m \in 1 .. m + n /\ c[i + m] = t[i]
    <3> SUFFICES ASSUME NEW i \in 1 .. n PROVE i + m \in 1 .. m + n /\ c[i + m] = t[i]
      OBVIOUS
    <3>1. i + m \in 1 .. m + n /\ ~(i + m <= m) /\ (i + m) - m = i
      BY <1>2
    <3> QED
      BY <1>1, <3>1
  <2>4. \A x \in ToSet(s) : x \in ToSet(c)
    BY <1>2, <1>3, <2>2 DEF ToSet
  <2>5. \A x \in ToSet(t) : x \in ToSet(c)
    BY <1>2, <1>3, <2>3 DEF ToSet
  <2>6. \A x \in ToSet(c) : x \in ToSet(s) \cup ToSet(t)
    BY <1>3, <2>1 DEF ToSet
  <2> QED
    BY <2>4, <2>5, <2>6
<1> QED
  BY <1>1, <1>6, <1>7 DEF c

\* A sequence over a set is one over a larger set.
LEMMA SeqGrows ==
  ASSUME NEW A, NEW B, A \subseteq B, NEW s \in Seq(A)
  PROVE  s \in Seq(B)
<1>1. s \in [1 .. Len(s) -> B] /\ Len(s) \in Nat
  OBVIOUS
<1> QED
  BY <1>1, SeqDef

\* After the only member of a sequence there is nothing.
LEMMA OneLeft ==
  ASSUME NEW A, NEW s \in Seq(A), Len(s) = 1
  PROVE  Tail(s) = <<>>
<1>1. Tail(s) \in Seq(A) /\ Len(Tail(s)) = 0
  OBVIOUS
<1> QED
  BY <1>1, EmptySeq

\* What has been added last.
LEMMA LastAdded ==
  ASSUME NEW A, NEW s \in Seq(A), NEW x \in A
  PROVE  /\ Append(s, x) \in Seq(A) /\ Last(Append(s, x)) = x
         /\ Len(Append(s, x)) \in DOMAIN Append(s, x) /\ Append(s, x)[Len(Append(s, x))] = x
BY DEF Last

\* The rest of a sequence from one place, and from the next.
LEMMA RestOf ==
  ASSUME NEW A, NEW s \in Seq(A), NEW k \in 1 .. Len(s)
  PROVE  /\ SubSeq(s, k, Len(s))[1] = s[k] /\ Len(SubSeq(s, k, Len(s))) = Len(s) - k + 1
         /\ Tail(SubSeq(s, k, Len(s))) = SubSeq(s, k + 1, Len(s))
         /\ k < Len(s) => SubSeq(s, k, Len(s))[2] = s[k + 1]
<1> DEFINE n == Len(s)
           a == SubSeq(s, k, n)
           b == SubSeq(s, k + 1, n)
<1>1. n \in Nat /\ k \in Nat /\ 1 <= k /\ k <= n /\ DOMAIN s = 1 .. n
  OBVIOUS
<1>2. a \in Seq(A) /\ Len(a) = n - k + 1 /\ \A i \in 1 .. n - k + 1 : a[i] = s[k + i - 1]
  BY <1>1
<1>3. b \in Seq(A) /\ Len(b) = n - k /\ \A i \in 1 .. n - k : b[i] = s[k + i]
  <2>1. \A i \in k + 1 .. n : s[i] \in A
    BY <1>1
  <2>2. k + 1 \in Int /\ n \in Int
    BY <1>1
  <2>3. /\ b \in Seq(A) /\ Len(b) = IF k + 1 <= n THEN n - (k + 1) + 1 ELSE 0
        /\ \A i \in 1 .. n - (k + 1) + 1 : b[i] = s[(k + 1) + i - 1]
    BY <2>1, <2>2, SubSeqProperties
  <2>4. n - (k + 1) + 1 = n - k /\ \A i \in 1 .. n - k : (k + 1) + i - 1 = k + i
    BY <1>1
  <2>5. k + 1 <= n \/ n - k = 0
    <3>1. \A i, j \in Nat : i <= j => i + 1 <= j \/ j - i = 0
      OBVIOUS
    <3> QED
      BY <1>1, <3>1
  <2> HIDE DEF b, n
  <2> QED
    BY <2>3, <2>4, <2>5
<1> HIDE DEF a, b, n
<1>4. 1 \in 1 .. n - k + 1 /\ k + 1 - 1 = k
  BY <1>1
<1>5. a[1] = s[k]
  BY <1>2, <1>4
<1>6. k < n => a[2] = s[k + 1]
  <2>1. k < n => 2 \in 1 .. n - k + 1 /\ k + 2 - 1 = k + 1
    BY <1>1
  <2> QED
    BY <1>2, <2>1
<1>7. Tail(a) = b
  <2>1. a # <<>>
    BY <1>1, <1>2
  <2>2. /\ Tail(a) \in Seq(A) /\ Len(Tail(a)) = n - k
        /\ \A i \in 1 .. n - k : Tail(a)[i] = a[i + 1]
    BY <1>1, <1>2, <2>1
  <2>3. \A i \in 1 .. n - k : i + 1 \in 1 .. n - k + 1 /\ k + (i + 1) - 1 = k + i
    BY <1>1
  <2>4. \A i \in 1 .. n - k : Tail(a)[i] = b[i]
    BY <1>2, <1>3, <2>2, <2>3
  <2> QED
    BY <1>3, <2>2, <2>4, SeqEqual
<1> QED
  BY <1>2, <1>5, <1>6, <1>7 DEF a, b, n

\* The part of a sequence after its first member, as it grows.
LEMMA PartGrows ==
  ASSUME NEW A, NEW s \in Seq(A), NEW k \in 2 .. Len(s)
  PROVE  Append(SubSeq(s, 2, k - 1), s[k]) = SubSeq(s, 2, k)
<1> DEFINE a == SubSeq(s, 2, k - 1)
           b == SubSeq(s, 2, k)
           t == Append(a, s[k])
<1>1. k \in Nat /\ 2 <= k /\ k <= Len(s) /\ Len(s) \in Nat /\ DOMAIN s = 1 .. Len(s) /\ s[k] \in A
  OBVIOUS
<1>2. a \in Seq(A) /\ Len(a) = k - 2 /\ \A i \in 1 .. k - 2 : a[i] = s[1 + i]
  BY <1>1
<1>3. b \in Seq(A) /\ Len(b) = k - 1 /\ \A i \in 1 .. k - 1 : b[i] = s[1 + i]
  BY <1>1
<1> HIDE DEF a, b
<1>4. /\ t \in Seq(A) /\ Len(t) = k - 1
      /\ \A i \in 1 .. k - 1 : t[i] = IF i = k - 1 THEN s[k] ELSE a[i]
  BY <1>1, <1>2
<1> HIDE DEF t
<1>5. \A i \in 1 .. k - 1 : (i = k - 1 => 1 + i = k) /\ (i # k - 1 => i \in 1 .. k - 2)
  BY <1>1
<1>6. \A i \in 1 .. k - 1 : t[i] = b[i]
  BY <1>2, <1>3, <1>4, <1>5
<1> QED
  BY <1>3, <1>4, <1>6, SeqEqual DEF a, b, t

\* What comes after the first member.
LEMMA TailIs ==
  ASSUME NEW A, NEW s \in Seq(A), s # <<>>
  PROVE  /\ Tail(s) = SubSeq(s, 2, Len(s))
         /\ \A i \in 2 .. Len(s) : i - 1 \in DOMAIN Tail(s) /\ Tail(s)[i - 1] = s[i]
<1>1. Len(s) \in Nat /\ Len(s) >= 1
  OBVIOUS
<1>2. /\ Tail(s) \in Seq(A) /\ Len(Tail(s)) = Len(s) - 1
      /\ \A i \in 1 .. Len(s) - 1 : Tail(s)[i] = s[i + 1]
  OBVIOUS
<1>3. /\ SubSeq(s, 2, Len(s)) \in Seq(A) /\ Len(SubSeq(s, 2, Len(s))) = Len(s) - 1
      /\ \A i \in 1 .. Len(s) - 1 : SubSeq(s, 2, Len(s))[i] = s[i + 1]
  BY <1>1
<1>4. Tail(s) = SubSeq(s, 2, Len(s))
  BY <1>2, <1>3, SeqEqual
<1>5. \A i \in 2 .. Len(s) : i - 1 \in 1 .. Len(s) - 1 /\ (i - 1) + 1 = i
  BY <1>1
<1>6. DOMAIN Tail(s) = 1 .. Len(s) - 1
  BY <1>2
<1> QED
  BY <1>2, <1>4, <1>5, <1>6
=============================================================================
