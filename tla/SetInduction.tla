----------------------------- MODULE SetInduction -----------------------------
(***************************************************************************)
(* Induction over the naturals with a set in the place of the property.   *)
(* The library's induction theorems take an operator, which the provers    *)
(* cannot instantiate; a set of naturals they can.  Both facts follow from *)
(* the well-foundedness of strict inclusion between finite sets.           *)
(***************************************************************************)
EXTENDS Integers, SequenceTheorems, FiniteSetTheorems, TLAPS

(* Every nonempty set of naturals has a least element. *)
LEMMA LeastNatural ==
  ASSUME NEW S, S \subseteq Nat, S # {}
  PROVE  \E n \in S : \A m \in S : n <= m
<1> DEFINE Below(n) == 1 .. n
           T == {Below(n) : n \in S}
<1>1. T # {} BY Zenon
<1>2. T \subseteq FiniteSubsetsOf(Nat)
  <2> SUFFICES ASSUME NEW n \in S PROVE Below(n) \in FiniteSubsetsOf(Nat)
    BY Zenon
  <2>1. n \in Int /\ n \in Nat OBVIOUS
  <2>2. IsFiniteSet(1 .. n) BY <2>1, FS_Interval
  <2>3. 1 .. n \subseteq Nat BY <2>1
  <2> QED BY <2>2, <2>3, Zenon DEF FiniteSubsetsOf
<1>3. PICK t \in T : \A u \in T : ~ (<<u, t>> \in StrictSubsetOrdering(Nat))
  <2> HIDE DEF T
  <2> QED BY <1>1, <1>2, FS_StrictSubsetOrderingWellFounded, WFMin, Zenon
<1>4. PICK n \in S : t = 1 .. n OBVIOUS
<1>5. ASSUME NEW m \in S PROVE n <= m
  <2>1. n \in Nat /\ m \in Nat OBVIOUS
  <2>2. SUFFICES ASSUME m < n PROVE FALSE BY <2>1
  <2>3. 1 .. m \in T OBVIOUS
  <2>4. 1 .. m \subseteq 1 .. n /\ 1 .. m # 1 .. n
    <3>1. n \in 1 .. n /\ n \notin 1 .. m BY <2>1, <2>2
    <3> QED BY <2>1, <2>2, <3>1
  <2>5. 1 .. m \in SUBSET Nat /\ 1 .. n \in SUBSET Nat BY <2>1
  <2>6. <<1 .. m, 1 .. n>> \in StrictSubsetOrdering(Nat)
    BY <2>4, <2>5, Zenon DEF StrictSubsetOrdering
  <2> QED BY <1>3, <1>4, <2>3, <2>6
<1> QED BY <1>5

(* Induction, with a set for the property. *)
LEMMA SetInduction ==
  ASSUME NEW S, 0 \in S, \A n \in Nat : n \in S => n + 1 \in S
  PROVE  Nat \subseteq S
<1> SUFFICES ASSUME Nat \ S # {} PROVE FALSE OBVIOUS
<1>1. PICK n \in Nat \ S : \A m \in Nat \ S : n <= m BY LeastNatural
<1>2. n # 0 /\ n - 1 \in Nat BY <1>1
<1>3. n - 1 \in S BY <1>1, <1>2
<1> QED BY <1>1, <1>2, <1>3

(* Induction over sequences, with a set for the property. *)
LEMMA SeqInduction ==
  ASSUME NEW T, NEW S, << >> \in S,
         \A q \in Seq(T), x \in T : q \in S => Append(q, x) \in S
  PROVE  Seq(T) \subseteq S
<1> DEFINE N == {n \in Nat : \A q \in Seq(T) : Len(q) = n => q \in S}
<1>1. 0 \in N BY EmptySeq
<1>2. ASSUME NEW n \in Nat, n \in N, NEW q \in Seq(T), Len(q) = n + 1
      PROVE  q \in S
  <2> DEFINE front == SubSeq(q, 1, n)
  <2>1. /\ front \in Seq(T) /\ Len(front) = n
        /\ \A i \in 1 .. n : front[i] = q[i]
    BY <1>2, SubSeqProperties
  <2>2. q[n + 1] \in T BY <1>2, ElementOfSeq
  <2> HIDE DEF front
  <2>3. front \in S BY <1>2, <2>1
  <2>4. /\ Append(front, q[n + 1]) \in Seq(T)
        /\ Len(Append(front, q[n + 1])) = n + 1
        /\ \A i \in 1 .. n : Append(front, q[n + 1])[i] = front[i]
        /\ Append(front, q[n + 1])[n + 1] = q[n + 1]
    BY <2>1, <2>2, AppendProperties
  <2>5. \A i \in 1 .. Len(q) : Append(front, q[n + 1])[i] = q[i]
    BY <1>2, <2>1, <2>4
  <2>6. Append(front, q[n + 1]) = q BY <1>2, <2>4, <2>5, SeqEqual
  <2> QED BY <2>1, <2>2, <2>3, <2>6
<1>3. Nat \subseteq N
  <2>1. \A n \in Nat : n \in N => n + 1 \in N BY <1>2
  <2> HIDE DEF N
  <2> QED BY <1>1, <2>1, SetInduction
<1>4. ASSUME NEW q \in Seq(T) PROVE q \in S
  <2>1. Len(q) \in Nat BY LenProperties
  <2> QED BY <1>3, <2>1
<1> QED BY <1>4

-----------------------------------------------------------------------------
(* Recursive functions over the prefixes of a list: base at 0, then one     *)
(* action per element.                                                      *)

FoldedBy(f, act, base, list) ==
  \A n \in 0 .. Len(list) :
    f[n] = IF n = 0 THEN base ELSE act[list[n]][f[n - 1]]

Steps(f, X, act, base, list) ==
  /\ f[0] = base
  /\ \A n \in 1 .. Len(list) :
       f[n - 1] \in X => f[n] = act[list[n]][f[n - 1]]

(* What each value is, given the one before it, determines the function. *)
LEMMA FoldValues ==
  ASSUME NEW T, NEW X, NEW base \in X, NEW act \in [T -> [X -> X]],
         NEW list \in Seq(T), NEW f, Steps(f, X, act, base, list)
  PROVE  FoldedBy(f, act, base, list) /\ \A n \in 0 .. Len(list) : f[n] \in X
<1> DEFINE N == Len(list)
           S == {n \in Nat : n <= N => f[n] \in X}
<1> USE DEF Steps
<1>0. N \in Nat BY LenProperties
<1>1. 0 \in S OBVIOUS
<1>2. ASSUME NEW n \in Nat, n \in S, n + 1 <= N PROVE f[n + 1] \in X
  <2>1. f[n] \in X BY <1>0, <1>2
  <2>2. n + 1 \in 1 .. N /\ (n + 1) - 1 = n BY <1>0, <1>2
  <2>3. f[n + 1] = act[list[n + 1]][f[n]] BY <2>1, <2>2
  <2>4. list[n + 1] \in T BY <2>2, ElementOfSeq
  <2>5. act[list[n + 1]] \in [X -> X] BY <2>4
  <2> QED BY <2>1, <2>3, <2>5
<1>3. Nat \subseteq S
  <2>1. \A n \in Nat : n \in S => n + 1 \in S BY <1>2
  <2> HIDE DEF S
  <2> QED BY <1>1, <2>1, SetInduction
<1>4. \A n \in 0 .. N : f[n] \in X BY <1>0, <1>3
<1>5. ASSUME NEW n \in 0 .. N
      PROVE  f[n] = IF n = 0 THEN base ELSE act[list[n]][f[n - 1]]
  <2>1. CASE n = 0 BY <2>1
  <2>2. CASE n # 0
    <3>1. n \in 1 .. N /\ n - 1 \in 0 .. N BY <1>0, <2>2
    <3> QED BY <1>4, <2>2, <3>1
  <2> QED BY <2>1, <2>2
<1> QED BY <1>4, <1>5 DEF FoldedBy

LEMMA FoldExists ==
  ASSUME NEW T, NEW X, NEW base \in X, NEW act \in [T -> [X -> X]],
         NEW list \in Seq(T)
  PROVE  \E f \in [0 .. Len(list) -> X] : FoldedBy(f, act, base, list)
<1> DEFINE S == {q \in Seq(T) : \E f \in [0 .. Len(q) -> X] : FoldedBy(f, act, base, q)}
<1>1. <<>> \in S
  <2> DEFINE f == [n \in 0 .. 0 |-> base]
  <2>1. <<>> \in Seq(T) /\ Len(<<>>) = 0 BY EmptySeq
  <2>2. f \in [0 .. 0 -> X] OBVIOUS
  <2>3. \A n \in 0 .. 0 : f[n] = IF n = 0 THEN base ELSE act[<<>>[n]][f[n - 1]] OBVIOUS
  <2> HIDE DEF f
  <2>4. FoldedBy(f, act, base, <<>>) BY <2>1, <2>3 DEF FoldedBy
  <2> QED BY <2>1, <2>2, <2>4
<1>2. ASSUME NEW q \in Seq(T), NEW x \in T, q \in S PROVE Append(q, x) \in S
  <2>1. PICK f \in [0 .. Len(q) -> X] : FoldedBy(f, act, base, q) BY <1>2
  <2> DEFINE N == Len(q)
             r == Append(q, x)
             last == act[x][f[N]]
             g == [n \in 0 .. N + 1 |-> IF n <= N THEN f[n] ELSE last]
  <2>2. /\ r \in Seq(T) /\ Len(r) = N + 1 /\ N \in Nat
        /\ \A i \in 1 .. N : r[i] = q[i]
        /\ r[N + 1] = x
    BY AppendProperties, LenProperties
  <2>3. last \in X
    <3>1. act[x] \in [X -> X] /\ f[N] \in X BY <2>2
    <3> QED BY <3>1
  <2> HIDE DEF r, last
  <2>4. g \in [0 .. N + 1 -> X] BY <2>2, <2>3
  <2>5. /\ \A n \in 0 .. N : g[n] = f[n]
        /\ g[N + 1] = last
    BY <2>2
  <2> HIDE DEF g
  <2>6. g[0] = base
    <3>1. 0 \in 0 .. N BY <2>2
    <3> QED BY <2>1, <2>5, <3>1 DEF FoldedBy
  <2>7. ASSUME NEW n \in 1 .. N + 1 PROVE g[n] = act[r[n]][g[n - 1]]
    <3>1. CASE n = N + 1
      <4>1. n - 1 = N /\ N \in 0 .. N BY <2>2, <3>1
      <4> QED BY <2>2, <2>5, <3>1, <4>1 DEF last
    <3>2. CASE n # N + 1
      <4>1. n \in 1 .. N /\ n \in 0 .. N /\ n - 1 \in 0 .. N /\ n # 0 BY <2>2, <3>2
      <4>2. f[n] = act[q[n]][f[n - 1]] BY <2>1, <4>1 DEF FoldedBy
      <4> QED BY <2>2, <2>5, <4>1, <4>2
    <3> QED BY <3>1, <3>2
  <2>8. Steps(g, X, act, base, r) BY <2>2, <2>6, <2>7 DEF Steps
  <2>9. FoldedBy(g, act, base, r) BY <2>2, <2>8, FoldValues
  <2>10. r \in S BY <2>2, <2>4, <2>9
  <2> QED BY <2>10 DEF r
<1>3. Seq(T) \subseteq S
  <2> HIDE DEF S
  <2> QED BY <1>1, <1>2, SeqInduction
<1> QED BY <1>3

(* One element more is one action more. *)
LEMMA FoldAppend ==
  ASSUME NEW T, NEW act, NEW base, NEW q \in Seq(T), NEW x \in T, NEW f, NEW g,
         FoldedBy(f, act, base, q), FoldedBy(g, act, base, Append(q, x))
  PROVE  g[Len(Append(q, x))] = act[x][f[Len(q)]]
<1> DEFINE N == Len(q)
           r == Append(q, x)
           S == {n \in Nat : n <= N => f[n] = g[n]}
<1>1. /\ r \in Seq(T) /\ Len(r) = N + 1 /\ N \in Nat
      /\ \A i \in 1 .. N : r[i] = q[i]
      /\ r[N + 1] = x
  BY AppendProperties, LenProperties
<1>2. \A n \in 0 .. N : f[n] = IF n = 0 THEN base ELSE act[q[n]][f[n - 1]]
  BY DEF FoldedBy
<1>3. \A n \in 0 .. N + 1 : g[n] = IF n = 0 THEN base ELSE act[r[n]][g[n - 1]]
  BY <1>1 DEF FoldedBy
<1> HIDE DEF r
<1>4. 0 \in S
  <2>1. 0 \in 0 .. N /\ 0 \in 0 .. N + 1 BY <1>1
  <2> QED BY <1>2, <1>3, <2>1
<1>5. ASSUME NEW n \in Nat, n \in S, n + 1 <= N PROVE f[n + 1] = g[n + 1]
  <2>1. f[n] = g[n] BY <1>1, <1>5
  <2>2. /\ n + 1 \in 1 .. N /\ n + 1 \in 0 .. N /\ n + 1 \in 0 .. N + 1
        /\ n + 1 # 0 /\ (n + 1) - 1 = n
    BY <1>1, <1>5
  <2>3. f[n + 1] = act[q[n + 1]][f[n]] BY <1>2, <2>2
  <2>4. g[n + 1] = act[r[n + 1]][g[n]] BY <1>3, <2>2
  <2> QED BY <1>1, <2>1, <2>2, <2>3, <2>4
<1>6. Nat \subseteq S
  <2>1. \A n \in Nat : n \in S => n + 1 \in S BY <1>5
  <2> HIDE DEF S
  <2> QED BY <1>4, <2>1, SetInduction
<1>7. f[N] = g[N] BY <1>1, <1>6
<1>8. N + 1 \in 0 .. N + 1 /\ N + 1 # 0 /\ (N + 1) - 1 = N BY <1>1
<1>9. g[N + 1] = act[x][g[N]] BY <1>1, <1>3, <1>8
<1> QED BY <1>1, <1>7, <1>9 DEF r

-----------------------------------------------------------------------------
(* Recursive functions that start at the far end: f[i] from f[i + 1].       *)

BackFrom(f, X, act, base, n) ==
  /\ f[n + 1] = base
  /\ \A i \in 1 .. n : f[i + 1] \in X => f[i] = act[i][f[i + 1]]

LEMMA BackExists ==
  ASSUME NEW X, NEW base \in X, NEW n \in Nat, NEW act \in [1 .. n -> [X -> X]]
  PROVE  \E f \in [1 .. n + 1 -> X] : BackFrom(f, X, act, base, n)
<1> DEFINE list == [i \in 1 .. n |-> n + 1 - i]
<1>1. list \in Seq(1 .. n) /\ Len(list) = n
  <2>1. \A i \in 1 .. n : n + 1 - i \in 1 .. n OBVIOUS
  <2>2. list \in [1 .. n -> 1 .. n] BY <2>1
  <2> HIDE DEF list
  <2> QED BY <2>2, SeqDef
<1>2. \A i \in 1 .. n : list[i] = n + 1 - i OBVIOUS
<1> HIDE DEF list
<1>3. PICK g \in [0 .. n -> X] : FoldedBy(g, act, base, list)
  BY <1>1, FoldExists
<1>4. \A i \in 0 .. n : g[i] = IF i = 0 THEN base ELSE act[list[i]][g[i - 1]]
  BY <1>1, <1>3 DEF FoldedBy
<1> DEFINE f == [i \in 1 .. n + 1 |-> g[n + 1 - i]]
<1>5. f \in [1 .. n + 1 -> X]
  <2>1. \A i \in 1 .. n + 1 : n + 1 - i \in 0 .. n OBVIOUS
  <2> QED BY <2>1
<1>6. \A i \in 1 .. n + 1 : f[i] = g[n + 1 - i] OBVIOUS
<1> HIDE DEF f
<1>7. f[n + 1] = base
  <2>1. n + 1 \in 1 .. n + 1 /\ n + 1 - (n + 1) = 0 /\ 0 \in 0 .. n OBVIOUS
  <2> QED BY <1>4, <1>6, <2>1
<1>8. ASSUME NEW i \in 1 .. n PROVE f[i] = act[i][f[i + 1]]
  <2> DEFINE j == n + 1 - i
  <2>1. /\ i \in 1 .. n + 1 /\ i + 1 \in 1 .. n + 1
        /\ j \in 1 .. n /\ j \in 0 .. n /\ j # 0
        /\ n + 1 - (i + 1) = j - 1 /\ n + 1 - j = i
    OBVIOUS
  <2>2. f[i] = g[j] /\ f[i + 1] = g[j - 1] BY <1>6, <2>1
  <2> HIDE DEF j
  <2>3. g[j] = act[list[j]][g[j - 1]] /\ list[j] = i BY <1>2, <1>4, <2>1
  <2> QED BY <2>2, <2>3
<1> QED BY <1>5, <1>7, <1>8 DEF BackFrom

LEMMA BackValues ==
  ASSUME NEW X, NEW base \in X, NEW n \in Nat, NEW act \in [1 .. n -> [X -> X]],
         NEW f, BackFrom(f, X, act, base, n)
  PROVE  \A i \in 1 .. n + 1 : f[i] \in X
<1> USE DEF BackFrom
<1> DEFINE S == {k \in Nat : k <= n => f[n + 1 - k] \in X}
<1>1. 0 \in S
  <2>1. n + 1 - 0 = n + 1 OBVIOUS
  <2> QED BY <2>1
<1>2. ASSUME NEW k \in Nat, k \in S, k + 1 <= n PROVE f[n + 1 - (k + 1)] \in X
  <2> DEFINE i == n + 1 - (k + 1)
  <2>1. i \in 1 .. n /\ i + 1 = n + 1 - k BY <1>2
  <2>2. f[n + 1 - k] \in X BY <1>2
  <2> HIDE DEF i
  <2>3. f[i + 1] \in X BY <2>1, <2>2
  <2>4. f[i] = act[i][f[i + 1]] BY <2>1, <2>3
  <2>5. act[i] \in [X -> X] BY <2>1
  <2>6. f[i] \in X BY <2>3, <2>4, <2>5
  <2> QED BY <2>6 DEF i
<1>3. Nat \subseteq S
  <2>1. \A k \in Nat : k \in S => k + 1 \in S BY <1>2
  <2> HIDE DEF S
  <2> QED BY <1>1, <2>1, SetInduction
<1>4. ASSUME NEW i \in 1 .. n + 1 PROVE f[i] \in X
  <2> DEFINE k == n + 1 - i
  <2>1. k \in Nat /\ k <= n /\ n + 1 - k = i OBVIOUS
  <2>2. k \in S BY <1>3, <2>1
  <2> HIDE DEF k
  <2>3. f[n + 1 - k] \in X BY <2>1, <2>2
  <2> QED BY <2>1, <2>3
<1> QED BY <1>4

(* A named equation: the provers find an instance of it at once, of the     *)
(* library's theorem only after they have taken \o apart.                   *)
Associates(s, t, u) == (s \o t) \o u = s \o (t \o u)

LEMMA ConcatAssociates ==
  ASSUME NEW T, NEW s \in Seq(T), NEW t \in Seq(T), NEW u \in Seq(T)
  PROVE  Associates(s, t, u)
BY ConcatAssociative DEF Associates
=============================================================================
