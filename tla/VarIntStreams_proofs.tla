------------------------- MODULE VarIntStreams_proofs -------------------------
(***************************************************************************)
(* The two streams that variable-length integers structure: frames through *)
(* a pipeline (FramedPipes) and typed fields (TypedStream), for any        *)
(* packets, pipes and fields and any way the network cuts the stream.      *)
(*                                                                         *)
(* The first lemmas are about the integers: ReadGroups is the inverse of   *)
(* WriteVarInt and fails on a part of what it wrote.  Then, for the        *)
(* frames: what frames inside each other hold and which packets are kept;  *)
(* the inductive invariant relates the bytes no pipe has consumed to the   *)
(* frames of the stream.  For the fields: what each Write appends, what    *)
(* ByteCounter counts for it and what the Read of its type takes; the      *)
(* inductive invariant relates the bytes not read to the fields not read.  *)
(***************************************************************************)
EXTENDS FramedPipes, TypedStream, SetInduction

-----------------------------------------------------------------------------
(* Division by the number of values of a group. *)

LEMMA DivMod ==
  ASSUME NEW n \in Nat
  PROVE  /\ n \div Base \in Nat /\ n % Base \in 0 .. Base - 1
         /\ n = Base * (n \div Base) + (n % Base)
<1>1. Base \in Nat /\ Base > 1 BY VarIntAssumption
<1> QED BY <1>1, SMTT(30)

LEMMA DivSmaller ==
  ASSUME NEW n \in Nat, n >= Base
  PROVE  n \div Base \in 1 .. n - 1
<1>1. Base \in Nat /\ Base > 1 BY VarIntAssumption
<1> DEFINE q == n \div Base
           d == n % Base
<1>2. q \in Nat /\ d \in 0 .. Base - 1 /\ n = Base * q + d BY DivMod
<1> HIDE DEF q, d
<1>3. q # 0 BY <1>1, <1>2, SMTT(30)
<1>4. q < n
  <2>1. Base * q >= 2 * q BY <1>1, <1>2, SMTT(30)
  <2> QED BY <1>1, <1>2, <1>3, <2>1, SMTT(30)
<1> QED BY <1>2, <1>3, <1>4 DEF q

LEMMA DivMonotonic ==
  ASSUME NEW n \in Nat, NEW m \in Nat, n <= m
  PROVE  n \div Base <= m \div Base
<1>1. Base \in Nat /\ Base > 1 BY VarIntAssumption
<1> DEFINE q == n \div Base
           r == m \div Base
<1>2. q \in Nat /\ n >= Base * q BY <1>1, DivMod, SMTT(30)
<1>3. r \in Nat /\ m < Base * r + Base BY <1>1, DivMod, SMTT(30)
<1> HIDE DEF q, r
<1>4. SUFFICES ASSUME q >= r + 1 PROVE FALSE
  BY <1>2, <1>3 DEF q, r
<1>5. Base * q >= Base * (r + 1) BY <1>1, <1>2, <1>3, <1>4, SMTT(30)
<1>6. Base * (r + 1) = Base * r + Base BY <1>1, <1>3, SMTT(30)
<1>7. Base * q \in Int /\ Base * r \in Int BY <1>1, <1>2, <1>3
<1> QED BY <1>1, <1>2, <1>3, <1>5, <1>6, <1>7

LEMMA FlaggedGroup ==
  ASSUME NEW d \in 0 .. Base - 1
  PROVE  (Base + d) % Base = d /\ d % Base = d
<1>1. Base \in Nat /\ Base > 1 BY VarIntAssumption
<1> QED BY <1>1, SMTT(30)

-----------------------------------------------------------------------------
(* WriteVarInt is the function its definition describes. *)

Groups(f, n) ==
  IF n < Base THEN <<n>> ELSE <<Base + (n % Base)>> \o f[n \div Base]

GroupsUpTo(f, m) == \A n \in 0 .. m : f[n] = Groups(f, n)

LEMMA GroupsType ==
  ASSUME NEW n \in Nat, NEW f, n >= Base => f[n \div Base] \in Seq(Byte)
  PROVE  Groups(f, n) \in Seq(Byte)
<1>1. Base \in Nat /\ Base > 1 BY VarIntAssumption
<1>2. CASE n < Base
  <2>1. n \in Byte BY <1>1, <1>2 DEF Byte
  <2>2. <<n>> \in Seq(Byte) BY <2>1
  <2> QED BY <1>2, <2>2 DEF Groups
<1>3. CASE ~ (n < Base)
  <2>1. n % Base \in 0 .. Base - 1 BY DivMod
  <2>2. Base + (n % Base) \in Byte BY <1>1, <2>1 DEF Byte
  <2>3. <<Base + (n % Base)>> \in Seq(Byte) BY <2>2
  <2>4. n >= Base BY <1>1, <1>3
  <2>5. f[n \div Base] \in Seq(Byte) BY <2>4
  <2> QED BY <1>3, <2>3, <2>5, ConcatProperties DEF Groups
<1> QED BY <1>2, <1>3

LEMMA GroupsAgree ==
  ASSUME NEW m \in Nat, NEW f, NEW g, GroupsUpTo(f, m), GroupsUpTo(g, m)
  PROVE  f[m] = g[m]
<1> DEFINE S == {n \in 0 .. m : f[n] # g[n]}
<1>1. SUFFICES ASSUME S # {} PROVE FALSE OBVIOUS
<1>2. PICK n \in S : \A k \in S : n <= k
  <2>1. S \subseteq Nat OBVIOUS
  <2> QED BY <1>1, <2>1, LeastNatural
<1>3. n \in Nat /\ n <= m /\ f[n] # g[n] OBVIOUS
<1>4. f[n] = Groups(f, n) /\ g[n] = Groups(g, n) BY <1>3 DEF GroupsUpTo
<1>5. n >= Base => f[n \div Base] = g[n \div Base]
  <2> SUFFICES ASSUME n >= Base PROVE f[n \div Base] = g[n \div Base] OBVIOUS
  <2>1. n \div Base \in 1 .. n - 1 BY <1>3, DivSmaller
  <2> DEFINE q == n \div Base
  <2> HIDE DEF q
  <2>2. q \in 1 .. n - 1 BY <2>1 DEF q
  <2>3. q \in 0 .. m /\ ~ (n <= q) BY <1>3, <2>2
  <2>4. q \notin S BY <1>2, <2>3
  <2> QED BY <2>3, <2>4 DEF q
<1>6. Base \in Nat BY VarIntAssumption
<1>7. Groups(f, n) = Groups(g, n) BY <1>3, <1>5, <1>6 DEF Groups
<1> QED BY <1>3, <1>4, <1>7

LEMMA GroupsExist ==
  \A m \in Nat : \E f \in [0 .. m -> Seq(Byte)] : GroupsUpTo(f, m)
<1> DEFINE S == {m \in Nat : \E f \in [0 .. m -> Seq(Byte)] : GroupsUpTo(f, m)}
<1>b. Base \in Nat /\ Base > 1 BY VarIntAssumption
<1>1. 0 \in S
  <2> DEFINE f == [n \in 0 .. 0 |-> <<0>>]
  <2>1. 0 \in Byte BY <1>b DEF Byte
  <2>2. f \in [0 .. 0 -> Seq(Byte)] BY <2>1
  <2>3. GroupsUpTo(f, 0) BY <1>b DEF GroupsUpTo, Groups
  <2> QED BY <2>2, <2>3
<1>2. ASSUME NEW m \in Nat, m \in S PROVE m + 1 \in S
  <2>1. PICK f \in [0 .. m -> Seq(Byte)] : GroupsUpTo(f, m) BY <1>2
  <2> DEFINE g == [n \in 0 .. m + 1 |-> IF n = m + 1 THEN Groups(f, m + 1) ELSE f[n]]
  <2>2. Groups(f, m + 1) \in Seq(Byte)
    <3>1. ASSUME m + 1 >= Base PROVE f[(m + 1) \div Base] \in Seq(Byte)
      <4>1. (m + 1) \div Base \in 1 .. (m + 1) - 1 BY <3>1, DivSmaller
      <4>2. (m + 1) \div Base \in 0 .. m BY <4>1
      <4> QED BY <4>2
    <3> QED BY <3>1, GroupsType
  <2>3. g \in [0 .. m + 1 -> Seq(Byte)]
    <3> HIDE DEF g
    <3>1. \A n \in 0 .. m + 1 : n # m + 1 => n \in 0 .. m OBVIOUS
    <3> QED BY <2>2, <3>1 DEF g
  <2>4. ASSUME NEW n \in 0 .. m + 1 PROVE g[n] = Groups(g, n)
    <3>0. /\ g[m + 1] = Groups(f, m + 1)
          /\ \A i \in 0 .. m : g[i] = f[i]
      OBVIOUS
    <3> HIDE DEF g
    <3>1. g[n] = Groups(f, n)
      <4>1. CASE n = m + 1 BY <3>0, <4>1
      <4>2. CASE n # m + 1
        <5>1. n \in 0 .. m BY <4>2
        <5> QED BY <2>1, <3>0, <5>1 DEF GroupsUpTo
      <4> QED BY <4>1, <4>2
    <3>2. n >= Base => g[n \div Base] = f[n \div Base]
      <4> SUFFICES ASSUME n >= Base PROVE g[n \div Base] = f[n \div Base] OBVIOUS
      <4>1. n \div Base \in 1 .. n - 1 BY DivSmaller
      <4>2. n \div Base \in 0 .. m BY <4>1
      <4> QED BY <3>0, <4>2
    <3>3. Groups(g, n) = Groups(f, n) BY <1>b, <3>2 DEF Groups
    <3> QED BY <3>1, <3>3
  <2>5. GroupsUpTo(g, m + 1) BY <2>4 DEF GroupsUpTo
  <2> HIDE DEF g
  <2>6. m + 1 \in Nat OBVIOUS
  <2> QED BY <2>3, <2>5, <2>6
<1>3. Nat \subseteq S
  <2>1. \A m \in Nat : m \in S => m + 1 \in S BY <1>2
  <2> HIDE DEF S
  <2> QED BY <1>1, <2>1, SetInduction
<1> QED BY <1>3

(* What WriteVarInt writes for each number. *)
LEMMA WriteVarIntDef ==
  /\ WriteVarInt \in [Nat -> Seq(Byte)]
  /\ \A n \in Nat : WriteVarInt[n] = Groups(WriteVarInt, n)
<1> DEFINE Part(m) == CHOOSE f : f \in [0 .. m -> Seq(Byte)] /\ GroupsUpTo(f, m)
           F == [n \in Nat |-> Part(n)[n]]
           G(g) == [n \in Nat |-> IF n < Base THEN <<n>>
                                  ELSE <<Base + (n % Base)>> \o g[n \div Base]]
<1>b. Base \in Nat /\ Base > 1 BY VarIntAssumption
<1>1. ASSUME NEW m \in Nat
      PROVE  Part(m) \in [0 .. m -> Seq(Byte)] /\ GroupsUpTo(Part(m), m)
  BY GroupsExist
<1> HIDE DEF Part
<1>2. ASSUME NEW n \in Nat PROVE F[n] = Groups(F, n) /\ F[n] \in Seq(Byte)
  <2>0. n \in 0 .. n OBVIOUS
  <2>1. F[n] = Groups(Part(n), n) /\ F[n] \in Seq(Byte)
    BY <1>1, <2>0 DEF GroupsUpTo
  <2>2. ASSUME n >= Base PROVE Part(n)[n \div Base] = F[n \div Base]
    <3>1. n \div Base \in 1 .. n - 1 BY <2>2, DivSmaller
    <3> DEFINE q == n \div Base
    <3> HIDE DEF q
    <3>2. q \in Nat /\ q < n BY <3>1 DEF q
    <3>3. GroupsUpTo(Part(n), q) BY <1>1, <3>2 DEF GroupsUpTo
    <3>4. GroupsUpTo(Part(q), q) BY <1>1, <3>2
    <3>5. Part(n)[q] = Part(q)[q] BY <3>2, <3>3, <3>4, GroupsAgree
    <3> QED BY <3>2, <3>5 DEF q
  <2> HIDE DEF F
  <2>3. Groups(Part(n), n) = Groups(F, n) BY <1>b, <2>2 DEF Groups
  <2> QED BY <2>1, <2>3
<1>3. F = G(F)
  <2>1. \A n \in Nat : F[n] = G(F)[n]
    <3> HIDE DEF F
    <3> QED BY <1>2 DEF Groups
  <2>2. F = [n \in Nat |-> F[n]] OBVIOUS
  <2>3. G(F) = [n \in Nat |-> G(F)[n]] OBVIOUS
  <2> HIDE DEF F, G
  <2> QED BY <2>1, <2>2, <2>3
<1>4. WriteVarInt = G(WriteVarInt)
  <2>1. WriteVarInt = CHOOSE g : g = G(g) BY DEF WriteVarInt
  <2> HIDE DEF G, F
  <2> QED BY <1>3, <2>1, Zenon
<1> DEFINE W == WriteVarInt
<1>5. ASSUME NEW n \in Nat PROVE W[n] = Groups(W, n)
  <2>1. G(W)[n] = Groups(W, n) BY DEF Groups
  <2> HIDE DEF G, W
  <2> QED BY <1>4, <2>1 DEF W
<1>6. ASSUME NEW n \in Nat PROVE W[n] = F[n]
  <2> HIDE DEF W, F
  <2>1. GroupsUpTo(W, n) /\ GroupsUpTo(F, n) BY <1>2, <1>5 DEF GroupsUpTo
  <2> QED BY <2>1, GroupsAgree
<1>7. W \in [Nat -> Seq(Byte)]
  <2>1. G(W) = [n \in Nat |-> G(W)[n]] OBVIOUS
  <2>2. W = [n \in Nat |-> W[n]]
    <3> HIDE DEF W
    <3> QED BY <1>4, <2>1 DEF W
  <2> HIDE DEF W, F
  <2> QED BY <1>2, <1>6, <2>2
<1> QED BY <1>5, <1>7

(* One group, or the lowest group with its flag and then the others. *)
LEMMA WriteVarIntSteps ==
  ASSUME NEW n \in Nat
  PROVE  /\ WriteVarInt[n] \in Seq(Byte) /\ Len(WriteVarInt[n]) \in Nat \ {0}
         /\ n < Base => Len(WriteVarInt[n]) = 1 /\ WriteVarInt[n][1] = n
         /\ n >= Base =>
              /\ WriteVarInt[n \div Base] \in Seq(Byte)
              /\ Len(WriteVarInt[n]) = 1 + Len(WriteVarInt[n \div Base])
              /\ WriteVarInt[n][1] = Base + (n % Base)
              /\ \A i \in 1 .. Len(WriteVarInt[n \div Base]) :
                   WriteVarInt[n][i + 1] = WriteVarInt[n \div Base][i]
<1> DEFINE w == WriteVarInt[n]
           v == WriteVarInt[n \div Base]
           one == <<Base + (n % Base)>>
<1>b. Base \in Nat /\ Base > 1 BY VarIntAssumption
<1>1. w \in Seq(Byte) BY WriteVarIntDef
<1>2. w = IF n < Base THEN <<n>> ELSE one \o v BY WriteVarIntDef DEF Groups
<1>3. ASSUME n < Base PROVE Len(w) = 1 /\ w[1] = n BY <1>2, <1>3
<1>4. ASSUME n >= Base
      PROVE  /\ v \in Seq(Byte) /\ Len(w) = 1 + Len(v)
             /\ w[1] = Base + (n % Base)
             /\ \A i \in 1 .. Len(v) : w[i + 1] = v[i]
  <2>1. v \in Seq(Byte)
    <3>1. n \div Base \in Nat BY DivMod
    <3> QED BY <3>1, WriteVarIntDef
  <2>2. one \in Seq(Byte) /\ Len(one) = 1 /\ one[1] = Base + (n % Base)
    <3>1. n % Base \in 0 .. Base - 1 BY DivMod
    <3>2. Base + (n % Base) \in Byte BY <1>b, <3>1 DEF Byte
    <3> QED BY <3>2
  <2>3. w = one \o v BY <1>b, <1>2, <1>4
  <2>4. Len(v) \in Nat BY <2>1, LenProperties
  <2> HIDE DEF one, v, w
  <2>5. /\ Len(w) = 1 + Len(v)
        /\ \A i \in 1 .. 1 + Len(v) : w[i] = IF i <= 1 THEN one[i] ELSE v[i - 1]
    <3>1. /\ Len(one \o v) = Len(one) + Len(v)
          /\ \A i \in 1 .. Len(one) + Len(v) :
               (one \o v)[i] = IF i <= Len(one) THEN one[i] ELSE v[i - Len(one)]
      BY <2>1, <2>2, ConcatProperties
    <3> QED BY <2>2, <2>3, <3>1
  <2>6. w[1] = Base + (n % Base) BY <2>2, <2>4, <2>5
  <2>7. ASSUME NEW i \in 1 .. Len(v) PROVE w[i + 1] = v[i]
    <3>1. i + 1 \in 1 .. 1 + Len(v) /\ ~ (i + 1 <= 1) /\ (i + 1) - 1 = i BY <2>4
    <3> QED BY <2>5, <3>1
  <2> QED BY <2>1, <2>5, <2>6, <2>7
<1>5. Len(w) \in Nat /\ (n >= Base => Len(v) \in Nat) BY <1>1, <1>4, LenProperties
<1>6. Len(w) # 0
  <2> HIDE DEF w, v
  <2> QED BY <1>b, <1>3, <1>4, <1>5
<1> QED BY <1>1, <1>3, <1>4, <1>5, <1>6

(* All groups but the last have the flag. *)
LEMMA WriteVarIntFlags ==
  ASSUME NEW n \in Nat
  PROVE  /\ \A i \in 1 .. Len(WriteVarInt[n]) - 1 : WriteVarInt[n][i] >= Base
         /\ WriteVarInt[n][Len(WriteVarInt[n])] < Base
<1> DEFINE W(m) == WriteVarInt[m]
           Flags(m) == /\ \A i \in 1 .. Len(W(m)) - 1 : W(m)[i] >= Base
                       /\ W(m)[Len(W(m))] < Base
           S == {m \in Nat : ~ Flags(m)}
<1>b. Base \in Nat /\ Base > 1 BY VarIntAssumption
<1>1. SUFFICES ASSUME S # {} PROVE FALSE OBVIOUS
<1>2. PICK m \in S : \A k \in S : m <= k
  <2>1. S \subseteq Nat OBVIOUS
  <2> HIDE DEF S
  <2> QED BY <1>1, <2>1, LeastNatural
<1>3. m \in Nat /\ ~ Flags(m) OBVIOUS
<1>4. \A k \in Nat : k < m => Flags(k)
  <2>1. \A k \in Nat : k < m => k \notin S BY <1>2, <1>3
  <2> QED BY <2>1
<1> HIDE DEF S
<1>5. CASE m < Base
  <2>1. Len(W(m)) = 1 /\ W(m)[1] = m BY <1>3, <1>5, WriteVarIntSteps
  <2>2. Flags(m) BY <1>5, <2>1
  <2> QED BY <1>3, <2>2
<1>6. CASE m >= Base
  <2> DEFINE q == m \div Base
  <2>1. q \in Nat /\ q < m
    <3>1. q \in 1 .. m - 1 BY <1>3, <1>6, DivSmaller
    <3> QED BY <1>3, <3>1
  <2>2. Flags(q) BY <1>4, <2>1
  <2>3. /\ Len(W(m)) = 1 + Len(W(q)) /\ W(m)[1] = Base + (m % Base)
        /\ \A i \in 1 .. Len(W(q)) : W(m)[i + 1] = W(q)[i]
    BY <1>3, <1>6, WriteVarIntSteps
  <2>4. Len(W(q)) \in Nat \ {0} BY <2>1, WriteVarIntSteps
  <2>5. m % Base \in 0 .. Base - 1 BY <1>3, DivMod
  <2> DEFINE w == W(m)
             v == W(q)
  <2>6. /\ \A i \in 1 .. Len(v) - 1 : v[i] >= Base
        /\ v[Len(v)] < Base
    BY <2>2
  <2> HIDE DEF w, v, W, q
  <2>7. ASSUME NEW i \in 1 .. Len(w) - 1 PROVE w[i] >= Base
    <3>1. CASE i = 1 BY <1>b, <2>3, <2>5, <3>1 DEF w
    <3>2. CASE i # 1
      <4>1. i - 1 \in 1 .. Len(v) - 1 /\ i - 1 \in 1 .. Len(v) /\ (i - 1) + 1 = i
        BY <2>3, <2>4, <3>2 DEF w, v
      <4>2. w[i] = v[i - 1] BY <2>3, <4>1 DEF w, v
      <4> QED BY <2>6, <4>1, <4>2
    <3> QED BY <3>1, <3>2
  <2>8. w[Len(w)] < Base
    <3>1. Len(v) \in 1 .. Len(v) /\ Len(w) = Len(v) + 1 BY <2>3, <2>4 DEF w, v
    <3>2. w[Len(w)] = v[Len(v)] BY <2>3, <3>1 DEF w, v
    <3> QED BY <2>6, <3>2
  <2>9. Flags(m) BY <2>7, <2>8 DEF w
  <2> QED BY <1>3, <2>9
<1> QED BY <1>b, <1>3, <1>5, <1>6

(* A larger number does not take fewer groups. *)
LEMMA WriteVarIntMonotonic ==
  \A m \in Nat, n \in Nat : n <= m => Len(WriteVarInt[n]) <= Len(WriteVarInt[m])
<1> DEFINE L(m) == Len(WriteVarInt[m])
           Mono(m) == \A n \in Nat : n <= m => L(n) <= L(m)
           S == {m \in Nat : ~ Mono(m)}
<1>b. Base \in Nat /\ Base > 1 BY VarIntAssumption
<1>1. SUFFICES ASSUME S # {} PROVE FALSE OBVIOUS
<1>2. PICK m \in S : \A k \in S : m <= k
  <2>1. S \subseteq Nat OBVIOUS
  <2> HIDE DEF S
  <2> QED BY <1>1, <2>1, LeastNatural
<1>3. m \in Nat /\ ~ Mono(m) OBVIOUS
<1>4. \A k \in Nat : k < m => Mono(k)
  <2>1. \A k \in Nat : k < m => k \notin S BY <1>2, <1>3
  <2> QED BY <2>1
<1> HIDE DEF S
<1>5. \A k \in Nat : L(k) \in Nat \ {0} /\ (k < Base => L(k) = 1)
  BY WriteVarIntSteps
<1>6. \A k \in Nat : k >= Base => L(k) = 1 + L(k \div Base)
  BY WriteVarIntSteps
<1> HIDE DEF L
<1>7. ASSUME NEW n \in Nat, n <= m PROVE L(n) <= L(m)
  <2>1. CASE n < Base
    <3>1. L(n) = 1 /\ L(m) \in Nat \ {0} BY <1>3, <1>5, <2>1
    <3> QED BY <3>1
  <2>2. CASE n >= Base
    <3>1. m >= Base BY <1>b, <1>3, <1>7, <2>2
    <3> DEFINE p == n \div Base
               q == m \div Base
    <3>2. q \in Nat /\ q < m
      <4>1. q \in 1 .. m - 1 BY <1>3, <3>1, DivSmaller
      <4> QED BY <1>3, <4>1
    <3>3. p \in Nat /\ p <= q BY <1>3, <1>7, DivMod, DivMonotonic
    <3>4. L(n) = 1 + L(p) /\ L(m) = 1 + L(q) BY <1>3, <1>6, <2>2, <3>1
    <3> HIDE DEF p, q
    <3>5. L(p) <= L(q) /\ L(p) \in Nat /\ L(q) \in Nat BY <1>4, <1>5, <3>2, <3>3
    <3> QED BY <3>4, <3>5
  <2> QED BY <1>b, <2>1, <2>2
<1> QED BY <1>3, <1>7

-----------------------------------------------------------------------------
(* ReadVarInt. *)

DecodedFrom(s, n, f) ==
  /\ \A i \in 1 .. n + 1 : f[i] \in Nat
  /\ f[n + 1] = 0
  /\ \A i \in 1 .. n : f[i] = (s[i] % Base) + Base * f[i + 1]

LEMMA DecodedValues ==
  ASSUME NEW n \in Nat, NEW s, \A i \in 1 .. n : s[i] \in Nat
  PROVE  \E f : DecodedFrom(s, n, f) /\ Decoded(s, n) = f[1]
<1> DEFINE act == [i \in 1 .. n |-> [r \in Nat |-> (s[i] % Base) + Base * r]]
           G(g) == [i \in 1 .. n + 1 |->
                     IF i = n + 1 THEN 0 ELSE (s[i] % Base) + Base * g[i + 1]]
           h == CHOOSE g : g = G(g)
<1>b. Base \in Nat /\ Base > 1 BY VarIntAssumption
<1>1. act \in [1 .. n -> [Nat -> Nat]]
  <2>1. ASSUME NEW i \in 1 .. n, NEW r \in Nat
        PROVE  (s[i] % Base) + Base * r \in Nat
    <3>1. s[i] % Base \in Nat BY DivMod
    <3>2. Base * r \in Nat BY <1>b
    <3> QED BY <3>1, <3>2
  <2> QED BY <2>1
<1>2. \A i \in 1 .. n, r \in Nat : act[i][r] = (s[i] % Base) + Base * r OBVIOUS
<1> HIDE DEF act
<1>3. PICK f \in [1 .. n + 1 -> Nat] : BackFrom(f, Nat, act, 0, n)
  BY <1>1, BackExists
<1>4. f = G(f)
  <2> SUFFICES ASSUME NEW i \in 1 .. n + 1 PROVE f[i] = G(f)[i] OBVIOUS
  <2>1. CASE i = n + 1 BY <1>3, <2>1 DEF BackFrom
  <2>2. CASE i # n + 1
    <3>1. i \in 1 .. n /\ i + 1 \in 1 .. n + 1 BY <2>2
    <3>2. f[i + 1] \in Nat BY <3>1
    <3>3. f[i] = act[i][f[i + 1]] BY <1>3, <3>1, <3>2 DEF BackFrom
    <3>4. f[i] = (s[i] % Base) + Base * f[i + 1] BY <1>2, <3>1, <3>2, <3>3
    <3> QED BY <2>2, <3>4
  <2> QED BY <2>1, <2>2
<1>5. h = G(h)
  <2> HIDE DEF G
  <2> QED BY <1>4, Zenon
<1>6. Decoded(s, n) = h[1] BY DEF Decoded
<1> HIDE DEF h
<1>7. h[n + 1] = 0
  <2>1. G(h)[n + 1] = 0 OBVIOUS
  <2> HIDE DEF G
  <2> QED BY <1>5, <2>1
<1>8. ASSUME NEW i \in 1 .. n PROVE h[i] = (s[i] % Base) + Base * h[i + 1]
  <2>1. G(h)[i] = (s[i] % Base) + Base * h[i + 1] OBVIOUS
  <2> HIDE DEF G
  <2> QED BY <1>5, <2>1
<1>9. BackFrom(h, Nat, act, 0, n) BY <1>2, <1>7, <1>8 DEF BackFrom
<1>10. \A i \in 1 .. n + 1 : h[i] \in Nat BY <1>1, <1>9, BackValues
<1> QED BY <1>6, <1>7, <1>8, <1>10 DEF DecodedFrom

(* At the place i of s the groups of m, and nothing behind them. *)
GroupsAt(s, n, i, m) ==
  /\ i + Len(WriteVarInt[m]) = n + 1
  /\ \A x \in 1 .. Len(WriteVarInt[m]) : s[i + x - 1] = WriteVarInt[m][x]

LEMMA DecodedGroups ==
  ASSUME NEW n \in Nat, NEW s, NEW f, DecodedFrom(s, n, f)
  PROVE  \A m \in Nat : \A i \in 1 .. n : GroupsAt(s, n, i, m) => f[i] = m
<1> DEFINE Good(m) == \A i \in 1 .. n : GroupsAt(s, n, i, m) => f[i] = m
           S == {m \in Nat : ~ Good(m)}
<1>b. Base \in Nat /\ Base > 1 BY VarIntAssumption
<1>1. SUFFICES ASSUME S # {} PROVE FALSE OBVIOUS
<1>2. PICK m \in S : \A k \in S : m <= k
  <2>1. S \subseteq Nat OBVIOUS
  <2> HIDE DEF S
  <2> QED BY <1>1, <2>1, LeastNatural
<1>3. m \in Nat /\ ~ Good(m) OBVIOUS
<1>4. \A k \in Nat : k < m => Good(k)
  <2>1. \A k \in Nat : k < m => k \notin S BY <1>2, <1>3
  <2> QED BY <2>1
<1> HIDE DEF S
<1>5. ASSUME NEW i \in 1 .. n, GroupsAt(s, n, i, m) PROVE f[i] = m
  <2> DEFINE w == WriteVarInt[m]
  <2>1. /\ i + Len(w) = n + 1
        /\ \A x \in 1 .. Len(w) : s[i + x - 1] = w[x]
    BY <1>5 DEF GroupsAt
  <2>2. Len(w) \in Nat \ {0} BY <1>3, WriteVarIntSteps
  <2>3. s[i] = w[1]
    <3> HIDE DEF w
    <3>1. 1 \in 1 .. Len(w) /\ i + 1 - 1 = i BY <2>2
    <3> QED BY <2>1, <3>1
  <2>4. f[i] = (s[i] % Base) + Base * f[i + 1] /\ f[n + 1] = 0 BY DEF DecodedFrom
  <2>5. CASE m < Base
    <3>1. Len(w) = 1 /\ w[1] = m BY <1>3, <2>5, WriteVarIntSteps
    <3> HIDE DEF w
    <3>2. i = n /\ s[i] = m BY <2>1, <2>3, <3>1
    <3>3. m % Base = m
      <4>1. m \in 0 .. Base - 1 BY <1>b, <1>3, <2>5
      <4> QED BY <4>1, FlaggedGroup
    <3>4. f[i + 1] = 0 BY <2>4, <3>2
    <3>5. Base * 0 = 0 BY <1>b
    <3> QED BY <1>3, <2>4, <3>2, <3>3, <3>4, <3>5
  <2>6. CASE m >= Base
    <3> DEFINE q == m \div Base
               v == WriteVarInt[q]
               d == m % Base
    <3>1. q \in Nat /\ q < m
      <4>1. q \in 1 .. m - 1 BY <1>3, <2>6, DivSmaller
      <4> QED BY <1>3, <4>1
    <3>2. /\ Len(w) = 1 + Len(v) /\ w[1] = Base + d
          /\ \A x \in 1 .. Len(v) : w[x + 1] = v[x]
      BY <1>3, <2>6, WriteVarIntSteps
    <3>3. Len(v) \in Nat \ {0} BY <3>1, WriteVarIntSteps
    <3>4. d \in 0 .. Base - 1 /\ m = Base * q + d BY <1>3, DivMod
    <3>5. GroupsAt(s, n, i + 1, q)
      <4> HIDE DEF w, v, q, d
      <4>1. (i + 1) + Len(v) = n + 1 BY <2>1, <3>2, <3>3
      <4>2. ASSUME NEW x \in 1 .. Len(v) PROVE s[(i + 1) + x - 1] = v[x]
        <5>1. x + 1 \in 1 .. Len(w) /\ i + (x + 1) - 1 = (i + 1) + x - 1
          BY <3>2, <3>3
        <5> QED BY <2>1, <3>2, <5>1
      <4> QED BY <4>1, <4>2 DEF GroupsAt, v
    <3>6. Good(q) BY <1>4, <3>1
    <3>7. i + 1 \in 1 .. n
      <4> HIDE DEF w, v, q, d
      <4> QED BY <2>1, <3>2, <3>3
    <3>8. f[i + 1] = q
      <4> HIDE DEF q
      <4> QED BY <3>5, <3>6, <3>7
    <3>9. s[i] % Base = d
      <4> HIDE DEF w, d, q, v
      <4>1. (Base + d) % Base = d BY <3>4, FlaggedGroup
      <4> QED BY <2>3, <3>2, <4>1
    <3> HIDE DEF w, d, q, v
    <3>10. Base * q \in Nat BY <1>b, <3>1
    <3> QED BY <2>4, <3>4, <3>8, <3>9, <3>10
  <2> QED BY <1>b, <1>3, <2>5, <2>6
<1> QED BY <1>3, <1>5

LEMMA BytesAreNaturals ==
  ASSUME NEW s \in Seq(Byte), NEW i \in 1 .. Len(s)
  PROVE  s[i] \in Nat
<1>1. s[i] \in Byte BY ElementOfSeq
<1>2. Base \in Nat BY VarIntAssumption
<1> QED BY <1>1, <1>2 DEF Byte

LEMMA ReadGroupsType ==
  ASSUME NEW s \in Seq(Byte), NEW groups \in Nat \ {0}, NEW modulus \in Nat \ {0}
  PROVE  /\ ReadGroups(s, groups, modulus).result \in
              {"Success", "IncompleteVarIntErrorable", "InvalidVarIntErrorable"}
         /\ ReadGroups(s, groups, modulus).value \in Nat
         /\ ReadGroups(s, groups, modulus).size \in 0 .. Len(s)
<1> DEFINE looked == IF Len(s) < groups THEN Len(s) ELSE groups
           ends == {n \in 1 .. looked : s[n] < Base}
           last == CHOOSE n \in ends : \A m \in ends : n <= m
<1>1. Len(s) \in Nat BY LenProperties
<1>2. groups \in Nat \ {0} /\ modulus \in Nat \ {0} OBVIOUS
<1>3. looked \in 0 .. Len(s) BY <1>1, <1>2
<1>4. ASSUME ends # {} PROVE last \in 1 .. looked
  <2>1. ends \subseteq Nat BY <1>3
  <2>2. \E n \in ends : \A m \in ends : n <= m
    <3> HIDE DEF ends
    <3> QED BY <1>4, <2>1, LeastNatural
  <2>3. last \in ends
    <3> HIDE DEF ends
    <3> QED BY <2>2
  <2> QED BY <2>3
<1>5. ASSUME ends # {} PROVE Decoded(s, last) % modulus \in Nat
  <2>1. last \in Nat /\ 1 .. last \subseteq 1 .. Len(s)
    <3>1. last \in 1 .. looked BY <1>4, <1>5
    <3> HIDE DEF last, looked
    <3> QED BY <1>1, <1>3, <3>1
  <2> HIDE DEF last
  <2>2. \A i \in 1 .. last : s[i] \in Nat BY <2>1, BytesAreNaturals
  <2>3. PICK f : DecodedFrom(s, last, f) /\ Decoded(s, last) = f[1]
    BY <2>1, <2>2, DecodedValues
  <2>4. f[1] \in Nat
    <3>1. 1 \in 1 .. last + 1 BY <2>1
    <3> QED BY <2>3, <3>1 DEF DecodedFrom
  <2> QED BY <1>2, <2>3, <2>4
<1>6. CASE ends # {}
  <2>1. ReadGroups(s, groups, modulus) = [result |-> "Success", value |-> Decoded(s, last) % modulus, size |-> last]
    BY <1>6 DEF ReadGroups
  <2>2. last \in 0 .. Len(s)
    <3>1. last \in 1 .. looked BY <1>4, <1>6
    <3> HIDE DEF last, looked
    <3> QED BY <1>1, <1>3, <3>1
  <2> HIDE DEF last
  <2> QED BY <1>5, <1>6, <2>1, <2>2
<1>7. CASE ends = {}
  <2>1. ReadGroups(s, groups, modulus) =
          [result |-> IF Len(s) < groups THEN "IncompleteVarIntErrorable"
                                            ELSE "InvalidVarIntErrorable",
           value |-> 0, size |-> looked]
    BY <1>7 DEF ReadGroups
  <2> HIDE DEF looked
  <2> QED BY <1>3, <2>1
<1> QED BY <1>6, <1>7

LEMMA ReadVarIntType ==
  ASSUME NEW s \in Seq(Byte)
  PROVE  /\ ReadVarInt(s).result \in
              {"Success", "IncompleteVarIntErrorable", "InvalidVarIntErrorable"}
         /\ ReadVarInt(s).value \in Nat
         /\ ReadVarInt(s).size \in 0 .. Len(s)
<1>1. MaxGroups \in Nat \ {0} /\ Modulus \in Nat \ {0} BY VarIntAssumption
<1> QED BY <1>1, ReadGroupsType DEF ReadVarInt

LEMMA ReadVarIntEmpty ==
  ASSUME NEW s \in Seq(Byte), Len(s) = 0
  PROVE  ReadVarInt(s).result = "IncompleteVarIntErrorable" /\ ReadVarInt(s).size = 0
<1>1. MaxGroups \in Nat \ {0} BY VarIntAssumption
<1> QED BY <1>1 DEF ReadVarInt, ReadGroups

(* ReadGroups is the inverse of WriteVarInt on a buffer that begins with    *)
(* what was written, whatever follows.                                      *)
LEMMA ReadGroupsWritten ==
  ASSUME NEW groups \in Nat \ {0}, NEW modulus \in Nat \ {0},
         NEW n \in Nat, n < modulus, Len(WriteVarInt[n]) <= groups,
         NEW s \in Seq(Byte), Len(WriteVarInt[n]) <= Len(s),
         \A x \in 1 .. Len(WriteVarInt[n]) : s[x] = WriteVarInt[n][x]
  PROVE  /\ ReadGroups(s, groups, modulus).result = "Success"
         /\ ReadGroups(s, groups, modulus).value = n
         /\ ReadGroups(s, groups, modulus).size = Len(WriteVarInt[n])
<1> DEFINE w == WriteVarInt[n]
           size == Len(w)
           looked == IF Len(s) < groups THEN Len(s) ELSE groups
           ends == {m \in 1 .. looked : s[m] < Base}
           last == CHOOSE k \in ends : \A m \in ends : k <= m
<1>1. Len(s) \in Nat BY LenProperties
<1>2. Base \in Nat /\ Base > 1
  BY VarIntAssumption
<1>3. size \in Nat \ {0} BY WriteVarIntSteps
<1>4. looked \in Nat /\ size <= looked
  <2> HIDE DEF size
  <2>1. size <= Len(s) /\ size <= groups BY DEF size
  <2> QED BY <1>1, <1>2, <1>3, <2>1
<1>5. \A m \in 1 .. size : s[m] = w[m] OBVIOUS
<1>6. \A m \in 1 .. size - 1 : w[m] >= Base BY WriteVarIntFlags
<1>7. w[size] < Base BY WriteVarIntFlags
<1>8. \A m \in 1 .. size : w[m] \in Nat
  <2>1. w \in Seq(Byte) BY WriteVarIntSteps
  <2> HIDE DEF w
  <2> QED BY <2>1, BytesAreNaturals
<1> HIDE DEF w, size, looked
<1>9. size \in ends
  <2>1. size \in 1 .. looked /\ size \in 1 .. size BY <1>3, <1>4
  <2> QED BY <1>5, <1>7, <2>1
<1>10. \A m \in ends : size <= m
  <2> SUFFICES ASSUME NEW m \in ends, m < size PROVE FALSE BY <1>3, <1>4
  <2>1. m \in 1 .. size - 1 /\ m \in 1 .. size /\ s[m] < Base BY <1>3, <1>4
  <2>2. w[m] >= Base /\ s[m] = w[m] BY <1>5, <1>6, <2>1
  <2> QED BY <1>2, <1>8, <2>1, <2>2
<1>11. last = size
  <2>1. ends \subseteq Nat BY <1>4
  <2> HIDE DEF ends
  <2>3. \E k \in ends : \A m \in ends : k <= m BY <1>9, <1>10
  <2>2. last \in ends /\ \A m \in ends : last <= m BY <2>3
  <2> HIDE DEF last
  <2>4. last <= size /\ size <= last BY <1>9, <1>10, <2>2
  <2>5. last \in Nat BY <2>1, <2>2
  <2> QED BY <1>3, <2>4, <2>5
<1>12. ReadGroups(s, groups, modulus) = [result |-> "Success", value |-> Decoded(s, size) % modulus, size |-> size]
  <2>1. ends # {} BY <1>9
  <2>2. ReadGroups(s, groups, modulus) = [result |-> "Success", value |-> Decoded(s, last) % modulus, size |-> last]
    BY <2>1 DEF ReadGroups, looked
  <2> HIDE DEF last, ends
  <2> QED BY <1>11, <2>2
<1>13. Decoded(s, size) % modulus = n
  <2>1. \A m \in 1 .. size : s[m] \in Nat BY <1>5, <1>8
  <2>2. PICK f : DecodedFrom(s, size, f) /\ Decoded(s, size) = f[1]
    BY <1>3, <2>1, DecodedValues
  <2>3. GroupsAt(s, size, 1, n)
    <3>1. 1 + Len(w) = size + 1 BY <1>3 DEF size
    <3>2. \A x \in 1 .. Len(w) : s[1 + x - 1] = w[x]
      <4>1. \A x \in 1 .. size : 1 + x - 1 = x BY <1>3
      <4> QED BY <1>5, <4>1 DEF size
    <3> QED BY <3>1, <3>2 DEF GroupsAt, w
  <2>4. f[1] = n
    <3>1. 1 \in 1 .. size BY <1>3
    <3> QED BY <1>3, <2>2, <2>3, <3>1, DecodedGroups
  <2>5. n % modulus = n OBVIOUS
  <2> QED BY <2>2, <2>4, <2>5
<1> QED BY <1>12, <1>13 DEF size, w

(* A buffer that ends before what was written does. *)
LEMMA ReadGroupsShort ==
  ASSUME NEW groups \in Nat \ {0}, NEW modulus \in Nat \ {0}, NEW n \in Nat,
         NEW s \in Seq(Byte), Len(s) < Len(WriteVarInt[n]),
         \A x \in 1 .. Len(s) : s[x] = WriteVarInt[n][x]
  PROVE  ReadGroups(s, groups, modulus).result # "Success"
<1> DEFINE w == WriteVarInt[n]
           looked == IF Len(s) < groups THEN Len(s) ELSE groups
           ends == {m \in 1 .. looked : s[m] < Base}
<1>1. Len(s) \in Nat BY LenProperties
<1>2. Base \in Nat /\ Base > 1 BY VarIntAssumption
<1>3. Len(w) \in Nat \ {0} BY WriteVarIntSteps
<1>4. looked \in 0 .. Len(s) BY <1>1
<1>5. \A m \in 1 .. Len(w) - 1 : w[m] >= Base BY WriteVarIntFlags
<1>6. \A m \in 1 .. Len(s) : s[m] = w[m] /\ s[m] \in Nat BY BytesAreNaturals
<1>7. Len(s) < Len(w) OBVIOUS
<1> HIDE DEF w, looked
<1>8. ends = {}
  <2> SUFFICES ASSUME NEW m \in ends PROVE FALSE OBVIOUS
  <2>1. m \in 1 .. Len(s) /\ m \in 1 .. Len(w) - 1 /\ s[m] < Base
    BY <1>1, <1>3, <1>4, <1>7
  <2>2. s[m] \in Nat /\ s[m] >= Base BY <1>5, <1>6, <2>1
  <2> QED BY <1>2, <2>1, <2>2
<1>9. ReadGroups(s, groups, modulus) =
        [result |-> IF Len(s) < groups THEN "IncompleteVarIntErrorable"
                                       ELSE "InvalidVarIntErrorable",
         value |-> 0, size |-> looked]
  BY <1>8 DEF ReadGroups, looked
<1> QED BY <1>9

LEMMA ReadVarIntWritten ==
  ASSUME NEW n \in Nat, n < Modulus, Len(WriteVarInt[n]) <= MaxGroups,
         NEW s \in Seq(Byte), Len(WriteVarInt[n]) <= Len(s),
         \A x \in 1 .. Len(WriteVarInt[n]) : s[x] = WriteVarInt[n][x]
  PROVE  /\ ReadVarInt(s).result = "Success" /\ ReadVarInt(s).value = n
         /\ ReadVarInt(s).size = Len(WriteVarInt[n])
<1>1. MaxGroups \in Nat \ {0} /\ Modulus \in Nat \ {0} BY VarIntAssumption
<1> QED BY <1>1, ReadGroupsWritten DEF ReadVarInt

-----------------------------------------------------------------------------
(* Frames, one inside the other; n is the number of pipes. *)

Wrapped(p, i, n) ==
  LET frame[k \in 1 .. n + 1] ==
        IF k = n + 1 THEN p
                     ELSE WriteVarInt[Len(frame[k + 1])] \o frame[k + 1]
  IN frame[i]

LEMMA FramedIsWrapped ==
  \A p, i : Framed(p, i) = Wrapped(p, i, PacketPipe)
BY DEF Framed, Wrapped

Wrap(n) == [k \in 1 .. n |-> [s \in Seq(Byte) |-> WriteVarInt[Len(s)] \o s]]

LEMMA WrapType ==
  ASSUME NEW n \in Nat PROVE Wrap(n) \in [1 .. n -> [Seq(Byte) -> Seq(Byte)]]
<1>1. ASSUME NEW s \in Seq(Byte) PROVE WriteVarInt[Len(s)] \o s \in Seq(Byte)
  <2>1. Len(s) \in Nat BY LenProperties
  <2>2. WriteVarInt[Len(s)] \in Seq(Byte) BY <2>1, WriteVarIntSteps
  <2> QED BY <2>2, ConcatProperties
<1> QED BY <1>1 DEF Wrap

LEMMA WrappedSteps ==
  ASSUME NEW n \in Nat, NEW p \in Seq(Byte)
  PROVE  /\ \A i \in 1 .. n + 1 : Wrapped(p, i, n) \in Seq(Byte)
         /\ Wrapped(p, n + 1, n) = p
         /\ \A i \in 1 .. n :
              Wrapped(p, i, n) =
                WriteVarInt[Len(Wrapped(p, i + 1, n))] \o Wrapped(p, i + 1, n)
<1> DEFINE act == Wrap(n)
           G(g) == [k \in 1 .. n + 1 |->
                     IF k = n + 1 THEN p ELSE WriteVarInt[Len(g[k + 1])] \o g[k + 1]]
           h == CHOOSE g : g = G(g)
<1>1. act \in [1 .. n -> [Seq(Byte) -> Seq(Byte)]] BY WrapType
<1>2. \A i \in 1 .. n, s \in Seq(Byte) : act[i][s] = WriteVarInt[Len(s)] \o s
  BY DEF Wrap
<1> HIDE DEF act
<1>3. PICK f \in [1 .. n + 1 -> Seq(Byte)] : BackFrom(f, Seq(Byte), act, p, n)
  BY <1>1, BackExists
<1>4. f = G(f)
  <2> SUFFICES ASSUME NEW i \in 1 .. n + 1 PROVE f[i] = G(f)[i] OBVIOUS
  <2>1. CASE i = n + 1 BY <1>3, <2>1 DEF BackFrom
  <2>2. CASE i # n + 1
    <3>1. i \in 1 .. n /\ i + 1 \in 1 .. n + 1 BY <2>2
    <3>2. f[i + 1] \in Seq(Byte) BY <3>1
    <3>3. f[i] = act[i][f[i + 1]] BY <1>3, <3>1, <3>2 DEF BackFrom
    <3>4. f[i] = WriteVarInt[Len(f[i + 1])] \o f[i + 1] BY <1>2, <3>1, <3>2, <3>3
    <3> QED BY <2>2, <3>4
  <2> QED BY <2>1, <2>2
<1>5. h = G(h)
  <2> HIDE DEF G
  <2> QED BY <1>4, Zenon
<1>6. \A i : Wrapped(p, i, n) = h[i] BY DEF Wrapped
<1> HIDE DEF h
<1>7. h[n + 1] = p
  <2>1. G(h)[n + 1] = p OBVIOUS
  <2> HIDE DEF G
  <2> QED BY <1>5, <2>1
<1>8. ASSUME NEW i \in 1 .. n PROVE h[i] = WriteVarInt[Len(h[i + 1])] \o h[i + 1]
  <2>0. i \in 1 .. n + 1 /\ i # n + 1 OBVIOUS
  <2>1. G(h)[i] = WriteVarInt[Len(h[i + 1])] \o h[i + 1] BY <2>0
  <2> HIDE DEF G
  <2> QED BY <1>5, <2>1
<1>9. BackFrom(h, Seq(Byte), act, p, n) BY <1>2, <1>7, <1>8 DEF BackFrom
<1>10. \A i \in 1 .. n + 1 : h[i] \in Seq(Byte) BY <1>1, <1>9, BackValues
<1> QED BY <1>6, <1>7, <1>8, <1>10

(* An inner frame is not longer than the outermost body. *)
LEMMA WrappedShorter ==
  ASSUME NEW n \in Nat, NEW p \in Seq(Byte), NEW i \in 2 .. n + 1
  PROVE  Len(Wrapped(p, i, n)) <= Len(Wrapped(p, 2, n))
<1> DEFINE L(k) == Len(Wrapped(p, k, n))
           S == {k \in Nat : k + 2 <= n + 1 => L(k + 2) <= L(2)}
<1>1. \A k \in 1 .. n + 1 : L(k) \in Nat BY WrappedSteps, LenProperties
<1>2. ASSUME NEW k \in 1 .. n PROVE L(k + 1) <= L(k)
  <2> DEFINE s == Wrapped(p, k + 1, n)
  <2>0. k + 1 \in 1 .. n + 1 OBVIOUS
  <2>1. s \in Seq(Byte) /\ Wrapped(p, k, n) = WriteVarInt[Len(s)] \o s
    BY <2>0, WrappedSteps
  <2>5. L(k + 1) = Len(s) /\ L(k) = Len(Wrapped(p, k, n)) OBVIOUS
  <2> HIDE DEF s, L
  <2>2. Len(s) \in Nat BY <2>1, LenProperties
  <2> DEFINE w == WriteVarInt[Len(s)]
  <2>3. w \in Seq(Byte) /\ Len(w) \in Nat BY <2>2, WriteVarIntSteps
  <2> HIDE DEF w
  <2>4. Len(w \o s) = Len(w) + Len(s) BY <2>1, <2>3, ConcatProperties
  <2>6. L(k) = Len(w) + Len(s) BY <2>1, <2>4, <2>5 DEF w
  <2> QED BY <2>2, <2>3, <2>5, <2>6
<1> HIDE DEF L
<1>3. 0 \in S BY <1>1
<1>4. ASSUME NEW k \in Nat, k \in S, k + 1 + 2 <= n + 1 PROVE L(k + 1 + 2) <= L(2)
  <2> DEFINE j == k + 2
  <2>1. j \in 1 .. n /\ j + 1 = k + 1 + 2 BY <1>4
  <2>2. L(j) <= L(2) BY <1>4, <2>1
  <2> HIDE DEF j
  <2>3. L(j + 1) <= L(j) BY <1>2, <2>1
  <2>4. L(j) \in Nat /\ L(j + 1) \in Nat /\ L(2) \in Nat
    <3>1. 2 \in 1 .. n + 1 OBVIOUS
    <3> QED BY <1>1, <2>1, <3>1
  <2> QED BY <2>1, <2>2, <2>3, <2>4
<1>5. Nat \subseteq S
  <2>1. \A k \in Nat : k \in S => k + 1 \in S BY <1>4
  <2> HIDE DEF S
  <2> QED BY <1>3, <2>1, SetInduction
<1>6. L(i) <= L(2)
  <2> DEFINE k == i - 2
  <2>1. k \in Nat /\ k + 2 = i /\ k + 2 <= n + 1 OBVIOUS
  <2>2. k \in S BY <1>5, <2>1
  <2> HIDE DEF k
  <2> QED BY <2>1, <2>2
<1> QED BY <1>6 DEF L

-----------------------------------------------------------------------------
(* Bytes, one after the other. *)

LEMMA BytesAssociative ==
  ASSUME NEW a \in Seq(Byte), NEW b \in Seq(Byte), NEW c \in Seq(Byte)
  PROVE  (a \o b) \o c = a \o (b \o c)
BY ConcatAssociative

-----------------------------------------------------------------------------
(* Take and Drop. *)

LEMMA TakeProperties ==
  ASSUME NEW T, NEW s \in Seq(T), NEW n \in 0 .. Len(s)
  PROVE  /\ Take(s, n) \in Seq(T) /\ Len(Take(s, n)) = n
         /\ \A i \in 1 .. n : Take(s, n)[i] = s[i]
<1>1. Len(s) \in Nat BY LenProperties
<1>2. \A i \in 1 .. n : s[i] \in T BY <1>1, ElementOfSeq
<1>3. /\ SubSeq(s, 1, n) \in Seq(T)
      /\ Len(SubSeq(s, 1, n)) = IF 1 <= n THEN n - 1 + 1 ELSE 0
      /\ \A i \in 1 .. n - 1 + 1 : SubSeq(s, 1, n)[i] = s[1 + i - 1]
  BY <1>1, <1>2, SubSeqProperties
<1>4. Len(SubSeq(s, 1, n)) = n BY <1>1, <1>3
<1>5. ASSUME NEW i \in 1 .. n PROVE SubSeq(s, 1, n)[i] = s[i]
  <2>1. i \in 1 .. n - 1 + 1 /\ 1 + i - 1 = i BY <1>1
  <2> QED BY <1>3, <2>1
<1> QED BY <1>3, <1>4, <1>5 DEF Take

LEMMA DropProperties ==
  ASSUME NEW T, NEW s \in Seq(T), NEW n \in 0 .. Len(s)
  PROVE  /\ Drop(s, n) \in Seq(T) /\ Len(Drop(s, n)) = Len(s) - n
         /\ \A i \in 1 .. Len(s) - n : Drop(s, n)[i] = s[n + i]
<1>1. Len(s) \in Nat BY LenProperties
<1>2. \A i \in n + 1 .. Len(s) : s[i] \in T BY <1>1, ElementOfSeq
<1>3. /\ SubSeq(s, n + 1, Len(s)) \in Seq(T)
      /\ Len(SubSeq(s, n + 1, Len(s))) =
           IF n + 1 <= Len(s) THEN Len(s) - (n + 1) + 1 ELSE 0
      /\ \A i \in 1 .. Len(s) - (n + 1) + 1 :
           SubSeq(s, n + 1, Len(s))[i] = s[(n + 1) + i - 1]
  BY <1>1, <1>2, SubSeqProperties
<1>4. Len(SubSeq(s, n + 1, Len(s))) = Len(s) - n BY <1>1, <1>3
<1>5. ASSUME NEW i \in 1 .. Len(s) - n PROVE SubSeq(s, n + 1, Len(s))[i] = s[n + i]
  <2>1. i \in 1 .. Len(s) - (n + 1) + 1 /\ (n + 1) + i - 1 = n + i BY <1>1
  <2> QED BY <1>3, <2>1
<1> QED BY <1>3, <1>4, <1>5 DEF Drop

LEMMA TakeAppend ==
  ASSUME NEW T, NEW s \in Seq(T), NEW x \in T, NEW n \in 0 .. Len(s)
  PROVE  Take(Append(s, x), n) = Take(s, n)
<1> DEFINE r == Append(s, x)
<1>1. /\ r \in Seq(T) /\ Len(r) = Len(s) + 1 /\ Len(s) \in Nat
      /\ \A i \in 1 .. Len(s) : r[i] = s[i]
  BY AppendProperties, LenProperties
<1> HIDE DEF r
<1>2. n \in 0 .. Len(r) BY <1>1
<1>3. /\ Take(r, n) \in Seq(T) /\ Len(Take(r, n)) = n
      /\ \A i \in 1 .. n : Take(r, n)[i] = r[i]
  BY <1>1, <1>2, TakeProperties
<1>4. /\ Take(s, n) \in Seq(T) /\ Len(Take(s, n)) = n
      /\ \A i \in 1 .. n : Take(s, n)[i] = s[i]
  BY TakeProperties
<1>5. ASSUME NEW i \in 1 .. n PROVE Take(r, n)[i] = Take(s, n)[i]
  <2>1. i \in 1 .. Len(s) BY <1>1
  <2>2. Take(r, n)[i] = r[i] /\ Take(s, n)[i] = s[i] BY <1>3, <1>4
  <2> QED BY <1>1, <2>1, <2>2
<1>6. Take(r, n) = Take(s, n) BY <1>3, <1>4, <1>5, SeqEqual
<1> QED BY <1>6 DEF r

LEMMA TakeAll ==
  ASSUME NEW T, NEW s \in Seq(T) PROVE Take(s, Len(s)) = s
BY SubSeqFull DEF Take

LEMMA TakeOneMore ==
  ASSUME NEW T, NEW s \in Seq(T), NEW n \in Nat, n + 1 <= Len(s)
  PROVE  /\ s[n + 1] \in T
         /\ Take(s, n + 1) = Append(Take(s, n), s[n + 1])
<1>1. Len(s) \in Nat BY LenProperties
<1>2. n + 1 \in 1 .. Len(s) /\ n \in 0 .. Len(s) /\ n + 1 \in 0 .. Len(s) BY <1>1
<1>3. s[n + 1] \in T BY <1>2, ElementOfSeq
<1> DEFINE a == Take(s, n + 1)
           b == Take(s, n)
           c == Append(b, s[n + 1])
<1>4. a \in Seq(T) /\ Len(a) = n + 1 /\ \A i \in 1 .. n + 1 : a[i] = s[i]
  BY <1>2, TakeProperties
<1>5. b \in Seq(T) /\ Len(b) = n /\ \A i \in 1 .. n : b[i] = s[i]
  BY <1>2, TakeProperties
<1> HIDE DEF a, b
<1>6. /\ c \in Seq(T) /\ Len(c) = n + 1
      /\ \A i \in 1 .. n : c[i] = b[i]
      /\ c[n + 1] = s[n + 1]
  BY <1>3, <1>5, AppendProperties
<1> HIDE DEF c
<1>7. \A i \in 1 .. n + 1 : a[i] = c[i]
  <2> SUFFICES ASSUME NEW i \in 1 .. n + 1 PROVE a[i] = c[i] OBVIOUS
  <2>1. CASE i = n + 1 BY <1>4, <1>6, <2>1
  <2>2. CASE i # n + 1
    <3>1. i \in 1 .. n BY <2>2
    <3> QED BY <1>4, <1>5, <1>6, <3>1
  <2> QED BY <2>1, <2>2
<1>8. a = c BY <1>4, <1>6, <1>7, SeqEqual
<1> QED BY <1>3, <1>8 DEF a, b, c

(* What is taken and what is left. *)
LEMMA TakeThenDrop ==
  ASSUME NEW T, NEW s \in Seq(T), NEW n \in 0 .. Len(s)
  PROVE  Take(s, n) \o Drop(s, n) = s
<1>1. Len(s) \in Nat BY LenProperties
<1>2. /\ 1 \in 1 .. Len(s) + 1 /\ n \in 1 - 1 .. Len(s) /\ Len(s) \in n .. Len(s)
  BY <1>1
<1>3. SubSeq(s, 1, n) \o SubSeq(s, n + 1, Len(s)) = SubSeq(s, 1, Len(s))
  BY <1>2, ConcatAdjacentSubSeq
<1> QED BY <1>3, SubSeqFull DEF Take, Drop

-----------------------------------------------------------------------------
(* NonEmpty drops the empty packets and keeps the order. *)

Keep(T) == [p \in T |-> [s \in Seq(T) |-> IF p = <<>> THEN s ELSE Append(s, p)]]

LEMMA KeepType ==
  ASSUME NEW T PROVE Keep(T) \in [T -> [Seq(T) -> Seq(T)]]
<1>1. ASSUME NEW p \in T, NEW s \in Seq(T)
      PROVE  (IF p = <<>> THEN s ELSE Append(s, p)) \in Seq(T)
  BY AppendProperties
<1>2. ASSUME NEW p \in T
      PROVE  [s \in Seq(T) |-> IF p = <<>> THEN s ELSE Append(s, p)]
               \in [Seq(T) -> Seq(T)]
  BY <1>1
<1> QED BY <1>2, Zenon DEF Keep

LEMMA NonEmptyFolds ==
  ASSUME NEW T, NEW q \in Seq(T)
  PROVE  \E f : /\ FoldedBy(f, Keep(T), <<>>, q)
                /\ NonEmpty(q) = f[Len(q)]
                /\ NonEmpty(q) \in Seq(T)
<1> DEFINE N == Len(q)
           act == Keep(T)
           G(g) == [n \in 0 .. N |->
                     IF n = 0 THEN <<>>
                     ELSE IF q[n] = <<>> THEN g[n - 1] ELSE Append(g[n - 1], q[n])]
           h == CHOOSE g : g = G(g)
<1>0. N \in Nat BY LenProperties
<1>1. act \in [T -> [Seq(T) -> Seq(T)]] BY KeepType
<1>2. <<>> \in Seq(T) BY EmptySeq
<1>3. PICK f \in [0 .. N -> Seq(T)] : FoldedBy(f, act, <<>>, q)
  <2> HIDE DEF act
  <2> QED BY <1>1, <1>2, FoldExists
<1>4. ASSUME NEW n \in 1 .. N, NEW s \in Seq(T)
      PROVE  act[q[n]][s] = IF q[n] = <<>> THEN s ELSE Append(s, q[n])
  <2>1. q[n] \in T BY ElementOfSeq
  <2> QED BY <2>1 DEF Keep
<1> HIDE DEF act
<1>5. f = G(f)
  <2> SUFFICES ASSUME NEW n \in 0 .. N PROVE f[n] = G(f)[n] OBVIOUS
  <2>1. CASE n = 0 BY <1>3, <2>1 DEF FoldedBy
  <2>2. CASE n # 0
    <3>1. n \in 1 .. N /\ n - 1 \in 0 .. N BY <1>0, <2>2
    <3>2. f[n - 1] \in Seq(T) BY <3>1
    <3>3. f[n] = act[q[n]][f[n - 1]] BY <1>3, <2>2 DEF FoldedBy
    <3>4. f[n] = IF q[n] = <<>> THEN f[n - 1] ELSE Append(f[n - 1], q[n])
      BY <1>4, <3>1, <3>2, <3>3
    <3> QED BY <2>2, <3>4
  <2> QED BY <2>1, <2>2
<1>6. h = G(h)
  <2> HIDE DEF G
  <2> QED BY <1>5, Zenon
<1>7. NonEmpty(q) = h[N] BY DEF NonEmpty
<1> HIDE DEF h
<1>8. h[0] = <<>>
  <2>1. G(h)[0] = <<>> BY <1>0
  <2> HIDE DEF G
  <2> QED BY <1>6, <2>1
<1>9. ASSUME NEW n \in 1 .. N, h[n - 1] \in Seq(T)
      PROVE  h[n] = act[q[n]][h[n - 1]]
  <2>1. n \in 0 .. N /\ n # 0 BY <1>0
  <2>2. G(h)[n] = IF q[n] = <<>> THEN h[n - 1] ELSE Append(h[n - 1], q[n])
    BY <2>1
  <2> HIDE DEF G
  <2> QED BY <1>4, <1>6, <1>9, <2>2
<1>10. FoldedBy(h, act, <<>>, q) /\ \A n \in 0 .. N : h[n] \in Seq(T)
  <2>1. Steps(h, Seq(T), act, <<>>, q) BY <1>8, <1>9 DEF Steps
  <2> QED BY <1>1, <1>2, <2>1, FoldValues
<1>11. h[N] \in Seq(T) BY <1>0, <1>10
<1> QED BY <1>7, <1>10, <1>11 DEF act

LEMMA NonEmptyNone ==
  \A s : s = <<>> => NonEmpty(s) = <<>>
<1> SUFFICES ASSUME NEW e, e = <<>> PROVE NonEmpty(e) = <<>> OBVIOUS
<1>1. e \in Seq(Nat) /\ Len(e) = 0 BY EmptySeq
<1>2. PICK f : /\ FoldedBy(f, Keep(Nat), <<>>, e)
               /\ NonEmpty(e) = f[Len(e)]
  BY <1>1, NonEmptyFolds
<1>3. f[0] = <<>> BY <1>1, <1>2 DEF FoldedBy
<1> QED BY <1>1, <1>2, <1>3

LEMMA NonEmptyAppend ==
  ASSUME NEW T, NEW q \in Seq(T), NEW p \in T
  PROVE  /\ NonEmpty(q) \in Seq(T)
         /\ NonEmpty(Append(q, p)) =
              IF p = <<>> THEN NonEmpty(q) ELSE Append(NonEmpty(q), p)
<1> DEFINE act == Keep(T)
<1>1. PICK f : /\ FoldedBy(f, act, <<>>, q)
               /\ NonEmpty(q) = f[Len(q)]
               /\ NonEmpty(q) \in Seq(T)
  BY NonEmptyFolds
<1>2. Append(q, p) \in Seq(T) BY AppendProperties
<1>3. PICK g : /\ FoldedBy(g, act, <<>>, Append(q, p))
               /\ NonEmpty(Append(q, p)) = g[Len(Append(q, p))]
  BY <1>2, NonEmptyFolds
<1>4. \A s \in Seq(T) : act[p][s] = IF p = <<>> THEN s ELSE Append(s, p)
  BY DEF Keep
<1> HIDE DEF act
<1>5. g[Len(Append(q, p))] = act[p][f[Len(q)]] BY <1>1, <1>3, FoldAppend
<1> QED BY <1>1, <1>3, <1>4, <1>5

(* r is the beginning of s. *)
Begins(r, s) == Len(r) <= Len(s) /\ r = Take(s, Len(r))

LEMMA BeginsAppend ==
  ASSUME NEW T, NEW r \in Seq(T), NEW s \in Seq(T), NEW p \in T, Begins(r, s)
  PROVE  Begins(r, Append(s, p))
<1>1. Len(r) \in 0 .. Len(s) /\ Len(s) \in Nat BY LenProperties DEF Begins
<1>2. Len(Append(s, p)) = Len(s) + 1 BY AppendProperties
<1>3. Take(Append(s, p), Len(r)) = Take(s, Len(r)) BY <1>1, TakeAppend
<1> QED BY <1>1, <1>2, <1>3 DEF Begins

LEMMA BeginsItself ==
  ASSUME NEW T, NEW s \in Seq(T) PROVE Begins(s, s)
<1>1. Len(s) \in Nat BY LenProperties
<1> QED BY <1>1, TakeAll DEF Begins

(* The packets kept of a beginning are a beginning of the packets kept. *)
LEMMA NonEmptyBegins ==
  ASSUME NEW T
  PROVE  \A s \in Seq(T) : \A n \in 0 .. Len(s) :
           Begins(NonEmpty(Take(s, n)), NonEmpty(s))
<1> DEFINE Good(s) == \A n \in 0 .. Len(s) : Begins(NonEmpty(Take(s, n)), NonEmpty(s))
           S == {s \in Seq(T) : Good(s)}
<1>1. <<>> \in S
  <2> DEFINE e == <<>>
  <2>1. e \in Seq(T) /\ Len(e) = 0 BY EmptySeq
  <2> HIDE DEF e
  <2>2. ASSUME NEW n \in 0 .. Len(e) PROVE Begins(NonEmpty(Take(e, n)), NonEmpty(e))
    <3>0. n = Len(e) BY <2>1
    <3>1. Take(e, n) = e BY <2>1, <3>0, TakeAll
    <3>2. NonEmpty(e) \in Seq(T) BY <2>1, NonEmptyFolds
    <3> QED BY <3>1, <3>2, BeginsItself
  <2>3. Good(e) BY <2>2
  <2> QED BY <2>1, <2>3 DEF e
<1>2. ASSUME NEW q \in Seq(T), NEW x \in T, q \in S PROVE Append(q, x) \in S
  <2> DEFINE r == Append(q, x)
  <2>1. r \in Seq(T) /\ Len(r) = Len(q) + 1 /\ Len(q) \in Nat
    BY AppendProperties, LenProperties
  <2>2. NonEmpty(r) = (IF x = <<>> THEN NonEmpty(q) ELSE Append(NonEmpty(q), x))
    BY NonEmptyAppend
  <2>3. NonEmpty(r) \in Seq(T) /\ NonEmpty(q) \in Seq(T) BY <2>1, NonEmptyFolds
  <2>4. ASSUME NEW n \in 0 .. Len(r) PROVE Begins(NonEmpty(Take(r, n)), NonEmpty(r))
    <3>1. CASE n = Len(r)
      <4>1. Take(r, n) = r
        <5> HIDE DEF r
        <5> QED BY <2>1, <3>1, TakeAll
      <4> HIDE DEF r
      <4> QED BY <2>3, <4>1, BeginsItself
    <3>2. CASE n # Len(r)
      <4>1. n \in 0 .. Len(q)
        <5> HIDE DEF r
        <5> QED BY <2>1, <3>2
      <4>2. Take(r, n) = Take(q, n) BY <4>1, TakeAppend
      <4>3. Begins(NonEmpty(Take(q, n)), NonEmpty(q)) BY <1>2, <4>1
      <4>4. Take(q, n) \in Seq(T) BY <4>1, TakeProperties
      <4>5. NonEmpty(Take(q, n)) \in Seq(T) BY <4>4, NonEmptyFolds
      <4> DEFINE b == NonEmpty(Take(q, n))
                 c == NonEmpty(q)
      <4> HIDE DEF r, b, c
      <4>6. Begins(b, Append(c, x)) BY <2>3, <4>3, <4>5, BeginsAppend DEF b, c
      <4>7. Begins(b, NonEmpty(r)) BY <2>2, <4>3, <4>6 DEF b, c
      <4> QED BY <4>2, <4>7 DEF b
    <3> QED BY <3>1, <3>2
  <2>5. Good(r) BY <2>4
  <2> QED BY <2>1, <2>5
<1>3. Seq(T) \subseteq S
  <2> HIDE DEF S
  <2> QED BY <1>1, <1>2, SeqInduction
<1> QED BY <1>3

-----------------------------------------------------------------------------
(* Types. *)

FrameRecord == [start : Nat, body : Nat, end : Nat]

LEMMA TotalType ==
  ASSUME frames \in Seq(FrameRecord) PROVE Total \in Nat
<1>1. Len(frames) \in Nat BY LenProperties
<1>2. CASE frames = <<>> BY <1>2 DEF Total
<1>3. CASE frames # <<>>
  <2>1. Len(frames) \in 1 .. Len(frames) BY <1>1, <1>3, EmptySeq
  <2>2. frames[Len(frames)] \in FrameRecord BY <2>1, ElementOfSeq
  <2> QED BY <1>3, <2>2 DEF Total, FrameRecord
<1> QED BY <1>2, <1>3

LEMMA FrameStartType ==
  ASSUME NEW i \in 1 .. MaxPipes + 1,
         buffers \in [1 .. MaxPipes + 1 -> Seq(Byte)],
         nextReadFrameLength \in [1 .. MaxPipes + 1 -> 0 .. MaxReadSize]
  PROVE  /\ FrameStart(i).rest \in Seq(Byte)
         /\ FrameStart(i).length \in Nat
         /\ FrameStart(i).result = "Success" => FrameStart(i).length \in 0 .. MaxReadSize
         /\ FrameStart(i).result \in
              {"Success", "TooLong", "IncompleteVarIntErrorable", "InvalidVarIntErrorable"}
<1> DEFINE prefix == ReadVarInt(buffers[i])
           b == buffers[i]
           m == nextReadFrameLength[i]
<1>0. MaxReadSize \in Nat BY FramedPipesAssumption
<1>1. b \in Seq(Byte) /\ m \in 0 .. MaxReadSize OBVIOUS
<1>2. /\ prefix.result \in
           {"Success", "IncompleteVarIntErrorable", "InvalidVarIntErrorable"}
      /\ prefix.value \in Nat
      /\ prefix.size \in 0 .. Len(b)
  BY <1>1, ReadVarIntType
<1>3. Drop(b, prefix.size) \in Seq(Byte) BY <1>1, <1>2, DropProperties
<1>4. FrameStart(i) =
        IF m # 0
        THEN [result |-> "Success", length |-> m, rest |-> b]
        ELSE [result |-> IF prefix.result = "Success" /\ prefix.value > MaxReadSize
                         THEN "TooLong" ELSE prefix.result,
              length |-> prefix.value, rest |-> Drop(b, prefix.size)]
  BY DEF FrameStart
<1> HIDE DEF prefix, b, m
<1>5. CASE m # 0
  <2>1. FrameStart(i) = [result |-> "Success", length |-> m, rest |-> b] BY <1>4, <1>5
  <2> QED BY <1>0, <1>1, <2>1
<1>6. CASE m = 0
  <2>1. /\ FrameStart(i).result = (IF prefix.result = "Success" /\ prefix.value > MaxReadSize
                                  THEN "TooLong" ELSE prefix.result)
        /\ FrameStart(i).length = prefix.value
        /\ FrameStart(i).rest = Drop(b, prefix.size)
    BY <1>4, <1>6
  <2> QED BY <1>0, <1>2, <1>3, <2>1
<1> QED BY <1>5, <1>6

LEMMA PutType ==
  ASSUME network \in Seq(Byte), frames \in Seq(FrameRecord),
         NEW prefix \in Seq(Byte), NEW body \in Seq(Byte), Put(prefix, body)
  PROVE  network' \in Seq(Byte) /\ frames' \in Seq(FrameRecord)
<1>1. network \o prefix \in Seq(Byte) BY ConcatProperties
<1>2. (network \o prefix) \o body \in Seq(Byte) BY <1>1, ConcatProperties
<1>3. Len(prefix) \in Nat /\ Len(body) \in Nat BY LenProperties
<1> DEFINE f == [start |-> Total, body  |-> Total + Len(prefix),
                 end   |-> Total + Len(prefix) + Len(body)]
<1>4. f \in FrameRecord BY <1>3, TotalType DEF FrameRecord
<1> HIDE DEF f
<1>5. Append(frames, f) \in Seq(FrameRecord) BY <1>4, AppendProperties
<1> QED BY <1>2, <1>5 DEF Put, f

(* TypeOK over the states of a step that leaves the peer alone. *)
LEMMA TypeInit == Init => TypeOK
<1> SUFFICES ASSUME Init PROVE TypeOK OBVIOUS
<1> USE DEF Init
<1>1. MaxPipes \in Nat /\ MaxReadSize \in Nat BY FramedPipesAssumption
<1>2. <<>> \in Seq(Byte) /\ <<>> \in Seq(Packets) /\ <<>> \in Seq(Seq(Byte))
  BY EmptySeq
<1>3. <<>> \in Seq([start : Nat, body : Nat, end : Nat]) BY EmptySeq
<1>4. buffers \in [1 .. MaxPipes + 1 -> Seq(Byte)] BY <1>2
<1>5. nextReadFrameLength \in [1 .. MaxPipes + 1 -> 0 .. MaxReadSize] BY <1>1
<1>6. at \in 0 .. PacketPipe BY <1>1 DEF PacketPipe
<1> QED BY <1>2, <1>3, <1>4, <1>5, <1>6 DEF TypeOK

LEMMA PeerSendType ==
  ASSUME TypeOK, NEW p \in Packets, PeerSend(p) PROVE TypeOK'
<1> USE DEF TypeOK
<1> DEFINE body == Framed(p, 2)
<1>1. body \in Seq(Byte)
  <2>1. p \in Seq(Byte) BY PacketsAssumption
  <2>2. PacketPipe \in Nat /\ 2 \in 1 .. PacketPipe + 1
    BY FramedPipesAssumption DEF PacketPipe
  <2> QED BY <2>1, <2>2, WrappedSteps, FramedIsWrapped
<1>2. Put(WriteVarInt[Len(body)], body) /\ sent' = Append(sent, p)
  BY DEF PeerSend
<1>3. UNCHANGED <<pipes, conforming, pipeVars, handled, status, cuts>>
  BY DEF PeerSend
<1> HIDE DEF body
<1>4. WriteVarInt[Len(body)] \in Seq(Byte)
  <2>1. Len(body) \in Nat BY <1>1, LenProperties
  <2> QED BY <2>1, WriteVarIntSteps
<1>5. network' \in Seq(Byte) /\ frames' \in Seq(FrameRecord)
  BY <1>1, <1>2, <1>4, PutType DEF FrameRecord
<1>6. sent' \in Seq(Packets) BY <1>2, AppendProperties
<1> QED BY <1>3, <1>5, <1>6 DEF pipeVars, PacketPipe, FrameRecord

LEMMA PeerAnnounceType ==
  ASSUME TypeOK, PeerAnnounce PROVE TypeOK'
<1> USE DEF TypeOK
<1>1. <<>> \in Seq(Byte) BY EmptySeq
<1>2. WriteVarInt[MaxReadSize + 1] \in Seq(Byte)
  <2> HIDE DEF TypeOK
  <2>1. MaxReadSize + 1 \in Nat BY FramedPipesAssumption
  <2> QED BY <2>1, WriteVarIntSteps
<1>3. Put(WriteVarInt[MaxReadSize + 1], <<>>) /\ conforming' = FALSE
  BY DEF PeerAnnounce
<1>4. UNCHANGED <<pipes, sent, pipeVars, handled, status, cuts>> BY DEF PeerAnnounce
<1>5. network' \in Seq(Byte) /\ frames' \in Seq(FrameRecord)
  BY <1>1, <1>2, <1>3, PutType DEF FrameRecord
<1> QED BY <1>3, <1>4, <1>5 DEF pipeVars, PacketPipe, FrameRecord

LEMMA HandleNewBytesType ==
  ASSUME TypeOK, NEW n \in 0 .. Len(network), HandleNewBytes(n) PROVE TypeOK'
<1> USE DEF TypeOK
<1>0. MaxPipes \in Nat BY FramedPipesAssumption
<1>1. Take(network, n) \in Seq(Byte) /\ Drop(network, n) \in Seq(Byte)
  BY TakeProperties, DropProperties
<1>2. 1 \in 1 .. MaxPipes + 1 BY <1>0
<1>3. buffers[1] \o Take(network, n) \in Seq(Byte)
  <2>1. buffers[1] \in Seq(Byte) BY <1>2
  <2> QED BY <1>1, <2>1, ConcatProperties
<1>4. buffers' \in [1 .. MaxPipes + 1 -> Seq(Byte)]
  <2>1. buffers' = [buffers EXCEPT ![1] = buffers[1] \o Take(network, n)]
    BY DEF HandleNewBytes
  <2> QED BY <1>2, <1>3, <2>1
<1>5. network' \in Seq(Byte) /\ at' = 1 BY <1>1 DEF HandleNewBytes
<1>6. cuts' \subseteq {"split", "tail", "coalesce"}
  BY DEF HandleNewBytes, Cuts
<1>7. UNCHANGED <<pipes, sent, frames, conforming, nextReadFrameLength, handled, status>>
  BY DEF HandleNewBytes
<1>8. at' \in 0 .. PacketPipe' BY <1>0, <1>5, <1>7 DEF PacketPipe
<1> QED BY <1>4, <1>5, <1>6, <1>7, <1>8

(* What a call of Read changes. *)
LEMMA ReadChanges ==
  ASSUME TypeOK,
         NEW b, buffers' = b, b \in [1 .. MaxPipes + 1 -> Seq(Byte)],
         nextReadFrameLength' \in [1 .. MaxPipes + 1 -> 0 .. MaxReadSize],
         at' \in 0 .. PacketPipe, handled' \in Seq(Seq(Byte)),
         status' \in {"open", "invalid", "short", "handler"},
         UNCHANGED <<pipes, peerVars, cuts>>
  PROVE  TypeOK'
BY DEF TypeOK, peerVars, PacketPipe

LEMMA ReadType ==
  ASSUME TypeOK, Read PROVE TypeOK'
<1> DEFINE N == 1 .. MaxPipes + 1
           f == FrameStart(at)
<1>0. MaxPipes \in Nat /\ MaxReadSize \in Nat BY FramedPipesAssumption
<1>1. /\ pipes \in 0 .. MaxPipes /\ at \in 0 .. pipes + 1
      /\ buffers \in [N -> Seq(Byte)]
      /\ nextReadFrameLength \in [N -> 0 .. MaxReadSize]
      /\ handled \in Seq(Seq(Byte))
      /\ status \in {"open", "invalid", "short", "handler"}
  BY DEF TypeOK, PacketPipe
<1>2. at \in N
  <2>1. at \in 1 .. pipes \/ at = PacketPipe
    BY DEF Read, ByteReadFails, ByteReadWaits, ByteReadDecodes, PacketReadInvalid,
       PacketReadWaits, ReadPacketFails, ReadPacketSucceeds
  <2> QED BY <1>0, <1>1, <2>1 DEF PacketPipe
<1>3. /\ f.rest \in Seq(Byte) /\ f.length \in Nat
      /\ f.result = "Success" => f.length \in 0 .. MaxReadSize
  BY <1>1, <1>2, FrameStartType
<1> HIDE DEF f
<1>4. Len(f.rest) \in Nat BY <1>3, LenProperties
<1>5. f.length <= Len(f.rest) =>
        Take(f.rest, f.length) \in Seq(Byte) /\ Drop(f.rest, f.length) \in Seq(Byte)
  <2>1. f.length <= Len(f.rest) => f.length \in 0 .. Len(f.rest) BY <1>3, <1>4
  <2> QED BY <1>3, <2>1, TakeProperties, DropProperties
<1>a. ASSUME NEW d \in Seq(Byte) PROVE [buffers EXCEPT ![at] = d] \in [N -> Seq(Byte)]
  BY <1>1
<1>6. [buffers EXCEPT ![at] = f.rest] \in [N -> Seq(Byte)] BY <1>3, <1>a
<1>7. f.length <= Len(f.rest) =>
        [buffers EXCEPT ![at] = Drop(f.rest, f.length)] \in [N -> Seq(Byte)]
  BY <1>5, <1>a
<1>b. ASSUME NEW m \in 0 .. MaxReadSize
      PROVE  [nextReadFrameLength EXCEPT ![at] = m] \in [N -> 0 .. MaxReadSize]
  BY <1>1
<1>8. [nextReadFrameLength EXCEPT ![at] = 0] \in [N -> 0 .. MaxReadSize]
  <2>1. 0 \in 0 .. MaxReadSize BY <1>0
  <2> QED BY <1>b, <2>1
<1>9. f.result = "Success" =>
        [nextReadFrameLength EXCEPT ![at] = f.length] \in [N -> 0 .. MaxReadSize]
  BY <1>1, <1>3
<1>10. at \in 1 .. pipes => at + 1 \in 0 .. PacketPipe BY <1>1 DEF PacketPipe
<1>11. 0 \in 0 .. PacketPipe BY <1>1 DEF PacketPipe
<1>12. CASE ByteReadFails
  <2>1. /\ buffers' = [buffers EXCEPT ![at] = f.rest] /\ at' = at + 1 /\ at \in 1 .. pipes
        /\ UNCHANGED <<pipes, peerVars, nextReadFrameLength, handled, status, cuts>>
    BY <1>12 DEF ByteReadFails, f
  <2> QED BY <1>1, <1>6, <1>10, <2>1, ReadChanges
<1>13. CASE ByteReadWaits
  <2>1. /\ buffers' = [buffers EXCEPT ![at] = f.rest] /\ at' = at + 1 /\ at \in 1 .. pipes
        /\ nextReadFrameLength' = [nextReadFrameLength EXCEPT ![at] = f.length]
        /\ f.result = "Success"
        /\ UNCHANGED <<pipes, peerVars, handled, status, cuts>>
    BY <1>13 DEF ByteReadWaits, f
  <2> QED BY <1>1, <1>6, <1>9, <1>10, <2>1, ReadChanges
<1>14. CASE ByteReadDecodes
  <2> DEFINE d == Drop(f.rest, f.length)
             t == Take(f.rest, f.length)
             c == buffers[at + 1] \o t
  <2>1. /\ buffers' = [buffers EXCEPT ![at] = d, ![at + 1] = @ \o t]
        /\ at' = at + 1 /\ at \in 1 .. pipes
        /\ nextReadFrameLength' = [nextReadFrameLength EXCEPT ![at] = 0]
        /\ f.length <= Len(f.rest)
        /\ UNCHANGED <<pipes, peerVars, handled, status, cuts>>
    BY <1>3, <1>4, <1>14 DEF ByteReadDecodes, f
  <2>2. at + 1 \in N /\ at + 1 # at BY <1>0, <1>1, <2>1
  <2>3. d \in Seq(Byte) /\ t \in Seq(Byte) BY <1>5, <2>1
  <2> HIDE DEF d, t
  <2>4. c \in Seq(Byte)
    <3>1. buffers[at + 1] \in Seq(Byte) BY <1>1, <2>2
    <3> QED BY <2>3, <3>1, ConcatProperties
  <2>5. buffers' = [buffers EXCEPT ![at] = d, ![at + 1] = c] BY <1>1, <2>1, <2>2
  <2> HIDE DEF c
  <2>6. [buffers EXCEPT ![at] = d, ![at + 1] = c] \in [N -> Seq(Byte)]
    BY <1>1, <1>2, <2>2, <2>3, <2>4
  <2> QED BY <1>1, <1>8, <1>10, <2>1, <2>5, <2>6, ReadChanges
<1>15. CASE PacketReadInvalid
  <2>1. /\ buffers' = [buffers EXCEPT ![at] = f.rest] /\ at' = 0
        /\ status' \in {status, "invalid"}
        /\ UNCHANGED <<pipes, peerVars, nextReadFrameLength, handled, cuts>>
    BY <1>15 DEF PacketReadInvalid, Close, f
  <2> QED BY <1>1, <1>6, <1>11, <2>1, ReadChanges
<1>16. CASE PacketReadWaits
  <2>1. /\ buffers' = [buffers EXCEPT ![at] = f.rest] /\ at' = 0
        /\ nextReadFrameLength' =
             [nextReadFrameLength EXCEPT ![at] = IF f.result = "Success" THEN f.length ELSE 0]
        /\ UNCHANGED <<pipes, peerVars, handled, status, cuts>>
    BY <1>16 DEF PacketReadWaits, f
  <2>2. nextReadFrameLength' \in [N -> 0 .. MaxReadSize] BY <1>8, <1>9, <2>1
  <2> QED BY <1>1, <1>6, <1>11, <2>1, <2>2, ReadChanges
<1>17. CASE ReadPacketFails
  <2>1. /\ buffers' = [buffers EXCEPT ![at] = f.rest] /\ at' = 0
        /\ nextReadFrameLength' = [nextReadFrameLength EXCEPT ![at] = 0]
        /\ status' \in {status, "short"}
        /\ UNCHANGED <<pipes, peerVars, handled, cuts>>
    BY <1>17 DEF ReadPacketFails, Close, f
  <2> QED BY <1>1, <1>6, <1>8, <1>11, <2>1, ReadChanges
<1>18. ASSUME NEW success \in BOOLEAN, ReadPacketSucceeds(success) PROVE TypeOK'
  <2> DEFINE t == Take(f.rest, f.length)
  <2>1. /\ buffers' = [buffers EXCEPT ![at] = Drop(f.rest, f.length)] /\ at' = 0
        /\ nextReadFrameLength' = [nextReadFrameLength EXCEPT ![at] = 0]
        /\ f.length <= Len(f.rest)
        /\ handled' = Append(handled, t)
        /\ status' \in {status, "handler"}
        /\ UNCHANGED <<pipes, peerVars, cuts>>
    BY <1>3, <1>4, <1>18 DEF ReadPacketSucceeds, Close, f
  <2>2. t \in Seq(Byte) BY <1>5, <2>1
  <2> HIDE DEF t
  <2>3. handled' \in Seq(Seq(Byte)) BY <1>1, <2>1, <2>2, AppendProperties
  <2> QED BY <1>1, <1>7, <1>8, <1>11, <2>1, <2>3, ReadChanges
<1> QED BY <1>12, <1>13, <1>14, <1>15, <1>16, <1>17, <1>18 DEF Read

LEMMA TypeStep == TypeOK /\ [Next]_vars => TypeOK'
<1> SUFFICES ASSUME TypeOK, [Next]_vars PROVE TypeOK' OBVIOUS
<1>1. ASSUME NEW p \in Packets, PeerSend(p) PROVE TypeOK' BY <1>1, PeerSendType
<1>2. CASE PeerAnnounce BY <1>2, PeerAnnounceType
<1>3. ASSUME NEW n \in 0 .. Len(network), HandleNewBytes(n) PROVE TypeOK'
  BY <1>3, HandleNewBytesType
<1>4. CASE Read BY <1>4, ReadType
<1>5. CASE UNCHANGED vars BY <1>5 DEF TypeOK, vars, peerVars, pipeVars, PacketPipe
<1> QED BY <1>1, <1>2, <1>3, <1>4, <1>5 DEF Next, Loop

(* Whatever the peer sends and however it is cut, a pipe never waits for a  *)
(* frame longer than its maxReadSize and never reads past a buffer.         *)
THEOREM TypeCorrect == Spec => []TypeOK
<1>1. Init => TypeOK BY TypeInit
<1>2. TypeOK /\ [Next]_vars => TypeOK' BY TypeStep
<1> QED BY <1>1, <1>2, PTL DEF Spec

-----------------------------------------------------------------------------
(* The frames of a stream, and the bytes of them that are unread. *)

(* Where the first k frames end. *)
EndOf(fs, k) == IF k = 0 THEN 0 ELSE fs[k].end

(* f is the outermost frame of packet p. *)
FrameOf(f, p, n) ==
  /\ Len(Wrapped(p, 2, n)) <= MaxReadSize
  /\ f.body = f.start + Len(WriteVarInt[Len(Wrapped(p, 2, n))])
  /\ f.end = f.body + Len(Wrapped(p, 2, n))

(* fs are the frames of the packets ps, one behind the other. *)
Chained(fs, ps, n) ==
  /\ Len(fs) = Len(ps)
  /\ \A j \in 1 .. Len(ps) : FrameOf(fs[j], ps[j], n) /\ fs[j].start = EndOf(fs, j - 1)

(* u is what is left of these frames behind the first c bytes. *)
Holds(fs, ps, n, u, c) ==
  \A j \in 1 .. Len(ps), y \in 1 .. Len(u) :
    fs[j].start < c + y /\ c + y <= fs[j].end
      => u[y] = Wrapped(ps[j], 1, n)[c + y - fs[j].start]

(* The frame of one packet. *)
LEMMA OneFrame ==
  ASSUME NEW n \in Nat \ {0}, NEW p \in Seq(Byte), NEW f \in FrameRecord, FrameOf(f, p, n)
  PROVE  LET body == Wrapped(p, 2, n)
             size == Len(body)
             prefix == WriteVarInt[size]
             whole == Wrapped(p, 1, n)
         IN  /\ body \in Seq(Byte) /\ prefix \in Seq(Byte) /\ whole \in Seq(Byte)
             /\ size \in 0 .. MaxReadSize /\ Len(prefix) \in Nat \ {0}
             /\ f.start \in Nat /\ f.body = f.start + Len(prefix) /\ f.end = f.body + size
             /\ whole = prefix \o body
             /\ Len(whole) = f.end - f.start
             /\ \A y \in 1 .. Len(prefix) : whole[y] = prefix[y]
             /\ \A y \in 1 .. size : whole[Len(prefix) + y] = body[y]
<1> DEFINE body == Wrapped(p, 2, n)
           size == Len(body)
           prefix == WriteVarInt[size]
           whole == Wrapped(p, 1, n)
<1>1. body \in Seq(Byte) /\ whole \in Seq(Byte) /\ whole = prefix \o body
  <2> HIDE DEF body, whole
  <2>1. 2 \in 1 .. n + 1 /\ 1 \in 1 .. n + 1 /\ 1 \in 1 .. n /\ 1 + 1 = 2 OBVIOUS
  <2>2. \A i \in 1 .. n + 1 : Wrapped(p, i, n) \in Seq(Byte) BY WrappedSteps
  <2>3. \A i \in 1 .. n :
          Wrapped(p, i, n) =
            WriteVarInt[Len(Wrapped(p, i + 1, n))] \o Wrapped(p, i + 1, n)
    BY WrappedSteps
  <2>4. Wrapped(p, 1, n) =
          WriteVarInt[Len(Wrapped(p, 1 + 1, n))] \o Wrapped(p, 1 + 1, n)
    BY <2>1, <2>3
  <2> QED BY <2>1, <2>2, <2>4 DEF body, whole
<1>2. f.start \in Nat BY DEF FrameRecord
<1>3. /\ size <= MaxReadSize
      /\ f.body = f.start + Len(prefix) /\ f.end = f.body + size
  BY DEF FrameOf
<1> HIDE DEF body, whole
<1>4. size \in Nat BY <1>1, LenProperties
<1>5. MaxReadSize \in Nat BY FramedPipesAssumption
<1> HIDE DEF size
<1>6. prefix \in Seq(Byte) /\ Len(prefix) \in Nat \ {0} BY <1>4, WriteVarIntSteps
<1> HIDE DEF prefix
<1>7. /\ Len(prefix \o body) = Len(prefix) + size
      /\ \A i \in 1 .. Len(prefix) + size :
           (prefix \o body)[i] = IF i <= Len(prefix) THEN prefix[i] ELSE body[i - Len(prefix)]
  BY <1>1, <1>6, ConcatProperties DEF size
<1>8. Len(whole) = f.end - f.start BY <1>1, <1>2, <1>3, <1>4, <1>6, <1>7
<1>9. \A y \in 1 .. Len(prefix) : whole[y] = prefix[y] BY <1>1, <1>4, <1>6, <1>7
<1>10. ASSUME NEW y \in 1 .. size PROVE whole[Len(prefix) + y] = body[y]
  <2>1. /\ Len(prefix) + y \in 1 .. Len(prefix) + size
        /\ ~ (Len(prefix) + y <= Len(prefix)) /\ (Len(prefix) + y) - Len(prefix) = y
    BY <1>4, <1>6
  <2> QED BY <1>1, <1>7, <2>1
<1>11. size \in 0 .. MaxReadSize BY <1>3, <1>4, <1>5
<1> QED BY <1>1, <1>2, <1>3, <1>6, <1>8, <1>9, <1>10, <1>11 DEF body, size, prefix, whole

(* The positions of a chain. *)
LEMMA ChainTypes ==
  ASSUME NEW n \in Nat \ {0}, NEW fs \in Seq(FrameRecord), NEW ps \in Seq(Seq(Byte)),
         Chained(fs, ps, n)
  PROVE  /\ \A j \in 1 .. Len(ps) :
              /\ fs[j] \in FrameRecord /\ ps[j] \in Seq(Byte)
              /\ FrameOf(fs[j], ps[j], n)
              /\ fs[j].start \in Nat /\ fs[j].body \in Nat /\ fs[j].end \in Nat
              /\ fs[j].start = EndOf(fs, j - 1) /\ fs[j].end = EndOf(fs, j)
              /\ fs[j].start < fs[j].body /\ fs[j].body <= fs[j].end
         /\ \A k \in 0 .. Len(ps) : EndOf(fs, k) \in Nat
<1>1. Len(ps) \in Nat /\ Len(fs) = Len(ps) BY LenProperties DEF Chained
<1>2. ASSUME NEW j \in 1 .. Len(ps)
      PROVE  /\ fs[j] \in FrameRecord /\ ps[j] \in Seq(Byte)
             /\ FrameOf(fs[j], ps[j], n)
             /\ fs[j].start \in Nat /\ fs[j].body \in Nat /\ fs[j].end \in Nat
             /\ fs[j].start = EndOf(fs, j - 1) /\ fs[j].end = EndOf(fs, j)
             /\ fs[j].start < fs[j].body /\ fs[j].body <= fs[j].end
  <2> DEFINE f == fs[j]
             p == ps[j]
             size == Len(Wrapped(p, 2, n))
             width == Len(WriteVarInt[size])
             gs == f.start
             gb == f.body
             ge == f.end
  <2>1. f \in FrameRecord /\ p \in Seq(Byte) BY <1>1, ElementOfSeq
  <2>2. FrameOf(f, p, n) /\ f.start = EndOf(fs, j - 1) BY DEF Chained
  <2>3. f.end = EndOf(fs, j)
    <3>1. j # 0 BY <1>1
    <3> QED BY <3>1 DEF EndOf
  <2> HIDE DEF f, p
  <2>4. /\ size \in 0 .. MaxReadSize /\ width \in Nat \ {0}
        /\ gs \in Nat /\ gb = gs + width /\ ge = gb + size
    BY <2>1, <2>2, OneFrame
  <2>5. MaxReadSize \in Nat BY FramedPipesAssumption
  <2> HIDE DEF size, width, gs, gb, ge
  <2>6. gb \in Nat /\ ge \in Nat /\ gs < gb /\ gb <= ge BY <2>4, <2>5
  <2> QED BY <2>1, <2>2, <2>3, <2>4, <2>6 DEF gs, gb, ge, f, p
<1>3. ASSUME NEW k \in 0 .. Len(ps) PROVE EndOf(fs, k) \in Nat
  <2>1. CASE k = 0 BY <2>1 DEF EndOf
  <2>2. CASE k # 0
    <3>1. k \in 1 .. Len(ps) BY <1>1, <2>2
    <3> QED BY <1>2, <2>2, <3>1 DEF EndOf
  <2> QED BY <2>1, <2>2
<1> QED BY <1>2, <1>3

LEMMA ChainOrder ==
  ASSUME NEW n \in Nat \ {0}, NEW fs \in Seq(FrameRecord), NEW ps \in Seq(Seq(Byte)),
         Chained(fs, ps, n)
  PROVE  \A i \in 0 .. Len(ps), j \in 0 .. Len(ps) : i <= j => EndOf(fs, i) <= EndOf(fs, j)
<1> DEFINE E(k) == EndOf(fs, k)
           N == Len(ps)
           S == {j \in Nat : j <= N => \A i \in 0 .. N : i <= j => E(i) <= E(j)}
<1>0. N \in Nat BY LenProperties
<1>1. \A k \in 0 .. N : E(k) \in Nat BY ChainTypes
<1>2. ASSUME NEW k \in 1 .. N PROVE E(k - 1) <= E(k)
  <2> DEFINE f == fs[k]
  <2>1. /\ f.start \in Nat /\ f.body \in Nat /\ f.end \in Nat
        /\ f.start = E(k - 1) /\ f.end = E(k) /\ f.start < f.body /\ f.body <= f.end
    BY ChainTypes
  <2> HIDE DEF f, E
  <2> QED BY <2>1
<1> HIDE DEF E
<1>3. 0 \in S
  <2>1. \A i \in 0 .. N : i <= 0 => i = 0 BY <1>0
  <2>2. E(0) <= E(0) BY <1>0, <1>1
  <2> QED BY <2>1, <2>2
<1>4. ASSUME NEW j \in Nat, j \in S PROVE j + 1 \in S
  <2> SUFFICES ASSUME j + 1 <= N, NEW i \in 0 .. N, i <= j + 1 PROVE E(i) <= E(j + 1)
    OBVIOUS
  <2>1. j + 1 \in 1 .. N /\ (j + 1) - 1 = j /\ j \in 0 .. N /\ j + 1 \in 0 .. N
    BY <1>0
  <2>2. E(j) <= E(j + 1) /\ E(j) \in Nat /\ E(j + 1) \in Nat /\ E(i) \in Nat
    BY <1>1, <1>2, <2>1
  <2>3. CASE i = j + 1 BY <2>2, <2>3
  <2>4. CASE i # j + 1
    <3>1. i <= j /\ j <= N BY <1>0, <2>4
    <3>2. E(i) <= E(j) BY <1>4, <3>1
    <3> QED BY <2>2, <3>2
  <2> QED BY <2>3, <2>4
<1>5. Nat \subseteq S
  <2>1. \A j \in Nat : j \in S => j + 1 \in S BY <1>4
  <2> HIDE DEF S
  <2> QED BY <1>3, <2>1, SetInduction
<1>6. ASSUME NEW i \in 0 .. N, NEW j \in 0 .. N, i <= j PROVE E(i) <= E(j)
  <2>1. j \in Nat /\ j <= N BY <1>0
  <2>2. j \in S BY <1>5, <2>1
  <2> QED BY <1>6, <2>1, <2>2
<1> QED BY <1>6 DEF E

LEMMA ChainAppend ==
  ASSUME NEW n \in Nat \ {0}, NEW fs \in Seq(FrameRecord), NEW ps \in Seq(Seq(Byte)),
         Chained(fs, ps, n),
         NEW p \in Seq(Byte), NEW f \in FrameRecord, FrameOf(f, p, n),
         f.start = EndOf(fs, Len(fs))
  PROVE  Chained(Append(fs, f), Append(ps, p), n)
<1> DEFINE N == Len(ps)
           gs == Append(fs, f)
           qs == Append(ps, p)
<1>1. N \in Nat /\ Len(fs) = N BY LenProperties DEF Chained
<1>2. /\ Len(gs) = N + 1 /\ gs[N + 1] = f
      /\ \A j \in 1 .. N : gs[j] = fs[j]
  BY <1>1, AppendProperties
<1>3. /\ Len(qs) = N + 1 /\ qs[N + 1] = p
      /\ \A j \in 1 .. N : qs[j] = ps[j]
  BY <1>1, AppendProperties
<1> HIDE DEF gs, qs
<1>4. \A k \in 0 .. N : EndOf(gs, k) = EndOf(fs, k) BY <1>1, <1>2 DEF EndOf
<1>5. ASSUME NEW j \in 1 .. Len(qs)
      PROVE  FrameOf(gs[j], qs[j], n) /\ gs[j].start = EndOf(gs, j - 1)
  <2>1. CASE j = N + 1
    <3>1. j - 1 = N /\ N \in 0 .. N BY <1>1, <2>1
    <3> QED BY <1>1, <1>2, <1>3, <1>4, <2>1, <3>1
  <2>2. CASE j # N + 1
    <3>1. j \in 1 .. N /\ j - 1 \in 0 .. N BY <1>1, <1>3, <2>2
    <3>2. FrameOf(fs[j], ps[j], n) /\ fs[j].start = EndOf(fs, j - 1)
      BY <3>1 DEF Chained
    <3> QED BY <1>2, <1>3, <1>4, <3>1, <3>2
  <2> QED BY <2>1, <2>2
<1>6. Chained(gs, qs, n) BY <1>2, <1>3, <1>5 DEF Chained
<1> QED BY <1>6 DEF gs, qs

(* A packet is sent: its frame comes behind what was unread. *)
LEMMA HoldsAppend ==
  ASSUME NEW n \in Nat \ {0}, NEW fs \in Seq(FrameRecord), NEW ps \in Seq(Seq(Byte)),
         Chained(fs, ps, n),
         NEW p \in Seq(Byte), NEW f \in FrameRecord, FrameOf(f, p, n),
         f.start = EndOf(fs, Len(fs)),
         NEW u \in Seq(Byte), NEW c \in Nat, c + Len(u) = f.start, Holds(fs, ps, n, u, c)
  PROVE  Holds(Append(fs, f), Append(ps, p), n, u \o Wrapped(p, 1, n), c)
<1> DEFINE N == Len(ps)
           gs == Append(fs, f)
           qs == Append(ps, p)
           w == Wrapped(p, 1, n)
           v == u \o w
<1>1. N \in Nat /\ Len(fs) = N BY LenProperties DEF Chained
<1>2. gs[N + 1] = f /\ \A j \in 1 .. N : gs[j] = fs[j] BY <1>1, AppendProperties
<1>3. Len(qs) = N + 1 /\ qs[N + 1] = p /\ \A j \in 1 .. N : qs[j] = ps[j]
  BY <1>1, AppendProperties
<1>4. w \in Seq(Byte) /\ Len(w) = f.end - f.start /\ f.start \in Nat /\ f.end \in Nat
  <2>1. w \in Seq(Byte) /\ Len(w) = f.end - f.start /\ f.start \in Nat BY OneFrame
  <2>2. f.end \in Nat BY DEF FrameRecord
  <2> QED BY <2>1, <2>2
<1>5. Len(u) \in Nat /\ Len(w) \in Nat BY <1>4, LenProperties
<1> HIDE DEF gs, qs, w
<1>6. /\ v \in Seq(Byte) /\ Len(v) = Len(u) + Len(w)
      /\ \A i \in 1 .. Len(u) + Len(w) :
           v[i] = IF i <= Len(u) THEN u[i] ELSE w[i - Len(u)]
  BY <1>4, ConcatProperties
<1> HIDE DEF v
<1>7. ASSUME NEW j \in 1 .. N + 1, NEW y \in 1 .. Len(v),
             gs[j].start < c + y, c + y <= gs[j].end
      PROVE  v[y] = Wrapped(qs[j], 1, n)[c + y - gs[j].start]
  <2>1. CASE j = N + 1
    <3>1. gs[j] = f /\ qs[j] = p BY <1>2, <1>3, <2>1
    <3> DEFINE start == f.start
    <3>2. start \in Nat /\ c + Len(u) = start /\ start < c + y BY <1>4, <1>7, <3>1
    <3> HIDE DEF start
    <3>3. y \in 1 .. Len(u) + Len(w) /\ y \in Nat BY <1>5, <1>6
    <3>a. ~ (y <= Len(u)) BY <1>5, <3>2, <3>3
    <3>b. y - Len(u) = c + y - start
      <4>1. \A a, l, z \in Nat : z - l = a + z - (a + l) OBVIOUS
      <4>2. y - Len(u) = c + y - (c + Len(u)) BY <1>5, <3>3, <4>1
      <4> QED BY <3>2, <4>2
    <3>4. ~ (y <= Len(u)) /\ y - Len(u) = c + y - start BY <3>a, <3>b
    <3>5. v[y] = w[y - Len(u)] BY <1>6, <3>3, <3>4
    <3>6. v[y] = w[c + y - start] BY <3>4, <3>5
    <3> QED BY <3>1, <3>6 DEF w, start
  <2>2. CASE j # N + 1
    <3>1. j \in 1 .. N BY <1>1, <2>2
    <3>2. gs[j] = fs[j] /\ qs[j] = ps[j] BY <1>2, <1>3, <3>1
    <3>3. fs[j].end \in Nat /\ fs[j].end <= f.start
      <4>1. fs[j].end \in Nat /\ fs[j].end = EndOf(fs, j) BY <3>1, ChainTypes
      <4>2. j \in 0 .. N /\ N \in 0 .. N /\ j <= N BY <1>1, <3>1
      <4>3. EndOf(fs, j) <= EndOf(fs, N) BY <4>2, ChainOrder
      <4> QED BY <1>1, <4>1, <4>3
    <3>4. y \in 1 .. Len(u)
      <4> DEFINE start == f.start
                 end == fs[j].end
      <4>1. start \in Nat /\ end \in Nat /\ end <= start /\ c + Len(u) = start BY <1>4, <3>3
      <4>2. c + y <= end BY <1>7, <3>2
      <4>3. y \in 1 .. Len(u) + Len(w) BY <1>6
      <4> HIDE DEF start, end
      <4> QED BY <1>5, <4>1, <4>2, <4>3
    <3>5. v[y] = u[y]
      <4>1. y \in 1 .. Len(u) + Len(w) /\ y <= Len(u) BY <1>5, <3>4
      <4> QED BY <1>6, <4>1
    <3>6. u[y] = Wrapped(ps[j], 1, n)[c + y - fs[j].start]
      BY <1>7, <3>1, <3>2, <3>4 DEF Holds
    <3> QED BY <3>2, <3>5, <3>6
  <2> QED BY <2>1, <2>2
<1>8. Holds(gs, qs, n, v, c) BY <1>3, <1>7 DEF Holds
<1> QED BY <1>8 DEF gs, qs, v, w

(* Bytes are consumed. *)
LEMMA HoldsDrop ==
  ASSUME NEW n \in Nat \ {0}, NEW fs \in Seq(FrameRecord), NEW ps \in Seq(Seq(Byte)),
         Chained(fs, ps, n),
         NEW u \in Seq(Byte), NEW c \in Nat, Holds(fs, ps, n, u, c),
         NEW m \in 0 .. Len(u)
  PROVE  Holds(fs, ps, n, Drop(u, m), c + m)
<1> DEFINE v == Drop(u, m)
<1>1. Len(u) \in Nat /\ m \in Nat BY LenProperties
<1>2. v \in Seq(Byte) /\ Len(v) = Len(u) - m /\ \A i \in 1 .. Len(u) - m : v[i] = u[m + i]
  BY DropProperties
<1> HIDE DEF v
<1>3. ASSUME NEW j \in 1 .. Len(ps), NEW y \in 1 .. Len(v),
             fs[j].start < (c + m) + y, (c + m) + y <= fs[j].end
      PROVE  v[y] = Wrapped(ps[j], 1, n)[(c + m) + y - fs[j].start]
  <2> DEFINE z == m + y
             start == fs[j].start
             end == fs[j].end
  <2>1. start \in Nat /\ end \in Nat BY ChainTypes
  <2>2. y \in 1 .. Len(u) - m BY <1>2
  <2>3. z \in 1 .. Len(u) /\ c + z = (c + m) + y BY <1>1, <2>2
  <2>4. v[y] = u[z] BY <1>2, <2>2
  <2>5. start < c + z /\ c + z <= end BY <1>3, <2>3
  <2>6. u[z] = Wrapped(ps[j], 1, n)[c + z - start] BY <2>3, <2>5 DEF Holds
  <2> HIDE DEF z, start, end
  <2>7. c + z - start = (c + m) + y - start BY <2>1, <2>3
  <2>8. v[y] = Wrapped(ps[j], 1, n)[(c + m) + y - start] BY <2>4, <2>6, <2>7
  <2> QED BY <2>8 DEF start
<1>4. Holds(fs, ps, n, v, c + m) BY <1>3 DEF Holds
<1> QED BY <1>4 DEF v

(* b is the beginning of u that has arrived. *)
Front(b, u) == Len(b) <= Len(u) /\ \A y \in 1 .. Len(b) : u[y] = b[y]

(* At the start of a frame whose prefix has arrived, ReadVarInt finds the   *)
(* prefix.                                                                  *)
FindsPrefix(b, c, fs, num) ==
  \A j \in 1 .. num :
    c = fs[j].start /\ fs[j].body <= c + Len(b) =>
      /\ ReadVarInt(b).result = "Success"
      /\ ReadVarInt(b).value = fs[j].end - fs[j].body
      /\ ReadVarInt(b).value <= MaxReadSize
      /\ ReadVarInt(b).size = fs[j].body - fs[j].start
      /\ ReadVarInt(b).size \in 0 .. Len(b)

LEMMA PrefixFound ==
  ASSUME NEW n \in Nat \ {0}, NEW fs \in Seq(FrameRecord), NEW ps \in Seq(Seq(Byte)),
         Chained(fs, ps, n),
         NEW u \in Seq(Byte), NEW c \in Nat, Holds(fs, ps, n, u, c),
         NEW b \in Seq(Byte), Front(b, u)
  PROVE  FindsPrefix(b, c, fs, Len(ps))
<1> SUFFICES ASSUME NEW j \in 1 .. Len(ps), c = fs[j].start, fs[j].body <= c + Len(b)
             PROVE  /\ ReadVarInt(b).result = "Success"
                    /\ ReadVarInt(b).value = fs[j].end - fs[j].body
                    /\ ReadVarInt(b).value <= MaxReadSize
                    /\ ReadVarInt(b).size = fs[j].body - fs[j].start
                    /\ ReadVarInt(b).size \in 0 .. Len(b)
  BY DEF FindsPrefix
<1> DEFINE f == fs[j]
           p == ps[j]
           size == Len(Wrapped(p, 2, n))
           prefix == WriteVarInt[size]
           whole == Wrapped(p, 1, n)
<1>1. f \in FrameRecord /\ p \in Seq(Byte) /\ FrameOf(f, p, n) BY ChainTypes
<1>2. c = f.start /\ f.body <= c + Len(b) OBVIOUS
<1>h. \A y \in 1 .. Len(u) :
        f.start < c + y /\ c + y <= f.end => u[y] = whole[c + y - f.start]
  BY DEF Holds
<1> HIDE DEF f, p
<1>3. /\ prefix \in Seq(Byte) /\ size \in 0 .. MaxReadSize /\ Len(prefix) \in Nat \ {0}
      /\ f.start \in Nat /\ f.body = f.start + Len(prefix) /\ f.end = f.body + size
      /\ \A y \in 1 .. Len(prefix) : whole[y] = prefix[y]
  BY <1>1, OneFrame
<1>4. /\ Len(b) \in Nat /\ Len(u) \in Nat /\ Len(b) <= Len(u)
      /\ \A y \in 1 .. Len(b) : u[y] = b[y]
  BY LenProperties DEF Front
<1>5. MaxReadSize \in Nat /\ Modulus \in Nat \ {0} /\ MaxGroups \in Nat \ {0}
  BY FramedPipesAssumption, VarIntAssumption
<1>6. size \in Nat /\ size < Modulus /\ Len(prefix) <= MaxGroups
  <2>1. size \in Nat /\ size <= MaxReadSize
    <3> HIDE DEF size
    <3> QED BY <1>3, <1>5
  <2>2. Len(WriteVarInt[size]) <= Len(WriteVarInt[MaxReadSize])
    BY <1>5, <2>1, WriteVarIntMonotonic
  <2>3. MaxReadSize < Modulus /\ Len(WriteVarInt[MaxReadSize]) <= MaxGroups
    BY PrefixAssumption
  <2>4. Len(WriteVarInt[MaxReadSize]) \in Nat BY <1>5, WriteVarIntSteps
  <2>5. Len(prefix) \in Nat /\ Len(WriteVarInt[size]) = Len(prefix) BY <1>3
  <2> HIDE DEF size, prefix
  <2>6. size < Modulus BY <1>5, <2>1, <2>3
  <2>7. Len(prefix) <= MaxGroups BY <1>5, <2>2, <2>3, <2>4, <2>5
  <2> QED BY <2>1, <2>6, <2>7
<1> DEFINE start == f.start
           bd == f.body
           end == f.end
           k == Len(prefix)
<1>p. /\ start \in Nat /\ c = start /\ bd <= c + Len(b) /\ k \in Nat \ {0}
      /\ bd = start + k /\ end = bd + size
  BY <1>2, <1>3
<1> HIDE DEF size, prefix, whole, start, bd, end, k
<1>7. k <= Len(b) BY <1>4, <1>p
<1>8. ASSUME NEW x \in 1 .. Len(prefix) PROVE b[x] = prefix[x]
  <2>x. x \in 1 .. k BY DEF k
  <2>w. Len(b) \in Nat /\ Len(u) \in Nat /\ Len(b) <= Len(u) BY <1>4
  <2>v. x \in Nat /\ 1 <= x /\ x <= k /\ k \in Nat BY <1>p, <2>x
  <2>1. x \in 1 .. Len(b) /\ x \in 1 .. Len(u) BY <1>7, <2>v, <2>w
  <2>y. start < c + x /\ c + x <= end /\ c + x - start = x
    BY <1>6, <1>p, <2>x
  <2>2. f.start < c + x /\ c + x <= f.end /\ c + x - f.start = x
    BY <2>y DEF start, end
  <2>3. u[x] = whole[x] BY <1>h, <2>1, <2>2
  <2> QED BY <1>3, <1>4, <2>1, <2>3
<1>9. /\ ReadVarInt(b).result = "Success" /\ ReadVarInt(b).value = size
      /\ ReadVarInt(b).size = Len(prefix)
  <2>1. Len(WriteVarInt[size]) <= MaxGroups /\ Len(WriteVarInt[size]) <= Len(b)
    BY <1>6, <1>7 DEF prefix, k
  <2>2. \A x \in 1 .. Len(WriteVarInt[size]) : b[x] = WriteVarInt[size][x]
    BY <1>8 DEF prefix
  <2>3. /\ ReadVarInt(b).result = "Success" /\ ReadVarInt(b).value = size
        /\ ReadVarInt(b).size = Len(WriteVarInt[size])
    BY <1>6, <2>1, <2>2, ReadVarIntWritten
  <2> QED BY <2>3 DEF prefix
<1>10. /\ ReadVarInt(b).value = f.end - f.body /\ ReadVarInt(b).value <= MaxReadSize
       /\ ReadVarInt(b).size = f.body - f.start /\ ReadVarInt(b).size \in 0 .. Len(b)
  <2>1. ReadVarInt(b).value = end - bd BY <1>6, <1>9, <1>p
  <2>2. ReadVarInt(b).value <= MaxReadSize BY <1>3, <1>5, <1>9
  <2>3. ReadVarInt(b).size = k BY <1>9 DEF k
  <2>4. ReadVarInt(b).size = bd - start /\ ReadVarInt(b).size \in 0 .. Len(b)
    BY <1>4, <1>7, <1>p, <2>3
  <2> QED BY <2>1, <2>2, <2>4 DEF start, bd, end
<1> QED BY <1>9, <1>10 DEF f

(* Behind the prefix of a frame that has arrived comes its body. *)
FindsBody(b, c, fs, ps, n) ==
  \A j \in 1 .. Len(ps) :
    c = fs[j].body /\ fs[j].end <= c + Len(b) =>
      /\ fs[j].end - fs[j].body \in 0 .. Len(b)
      /\ Take(b, fs[j].end - fs[j].body) = Wrapped(ps[j], 2, n)

LEMMA BodyFound ==
  ASSUME NEW n \in Nat \ {0}, NEW fs \in Seq(FrameRecord), NEW ps \in Seq(Seq(Byte)),
         Chained(fs, ps, n),
         NEW u \in Seq(Byte), NEW c \in Nat, Holds(fs, ps, n, u, c),
         NEW b \in Seq(Byte), Front(b, u)
  PROVE  FindsBody(b, c, fs, ps, n)
<1> SUFFICES ASSUME NEW j \in 1 .. Len(ps), c = fs[j].body, fs[j].end <= c + Len(b)
             PROVE  /\ fs[j].end - fs[j].body \in 0 .. Len(b)
                    /\ Take(b, fs[j].end - fs[j].body) = Wrapped(ps[j], 2, n)
  BY DEF FindsBody
<1> DEFINE f == fs[j]
           p == ps[j]
           body == Wrapped(p, 2, n)
           size == Len(body)
           prefix == WriteVarInt[size]
           whole == Wrapped(p, 1, n)
<1>1. f \in FrameRecord /\ p \in Seq(Byte) /\ FrameOf(f, p, n) BY ChainTypes
<1>2. c = f.body /\ f.end <= c + Len(b) OBVIOUS
<1>h. \A y \in 1 .. Len(u) :
        f.start < c + y /\ c + y <= f.end => u[y] = whole[c + y - f.start]
  BY DEF Holds
<1> HIDE DEF f, p
<1>3. /\ body \in Seq(Byte) /\ size \in 0 .. MaxReadSize /\ Len(prefix) \in Nat \ {0}
      /\ f.start \in Nat /\ f.body = f.start + Len(prefix) /\ f.end = f.body + size
      /\ \A y \in 1 .. size : whole[Len(prefix) + y] = body[y]
  BY <1>1, OneFrame
<1>4. /\ Len(b) \in Nat /\ Len(u) \in Nat /\ Len(b) <= Len(u)
      /\ \A y \in 1 .. Len(b) : u[y] = b[y]
  BY LenProperties DEF Front
<1>5. MaxReadSize \in Nat BY FramedPipesAssumption
<1> DEFINE k == Len(prefix)
<1>k. k \in Nat \ {0} /\ f.body = f.start + k /\ \A y \in 1 .. size : whole[k + y] = body[y]
  BY <1>3
<1> HIDE DEF prefix, whole, k
<1> DEFINE start == f.start
           bd == f.body
           end == f.end
<1>p. /\ start \in Nat /\ bd = start + k /\ end = bd + size
      /\ c = bd /\ end <= c + Len(b) /\ size \in 0 .. MaxReadSize
  BY <1>2, <1>3, <1>k
<1>q. size \in Nat
  <2> HIDE DEF size
  <2> QED BY <1>5, <1>p
<1>6. size \in 0 .. Len(b) /\ f.end - f.body = size
  <2> HIDE DEF size, body, start, bd, end
  <2>1. bd \in Nat /\ end \in Nat BY <1>k, <1>p, <1>q
  <2>3. c = bd /\ end = bd + size /\ end <= c + Len(b) /\ Len(b) \in Nat BY <1>4, <1>p
  <2>4. end - bd = size BY <1>q, <2>1, <2>3
  <2>5. size <= Len(b) BY <1>q, <2>1, <2>3
  <2>2. size \in 0 .. Len(b) /\ end - bd = size BY <1>q, <2>3, <2>4, <2>5
  <2> QED BY <2>2 DEF bd, end
<1>7. /\ Take(b, size) \in Seq(Byte) /\ Len(Take(b, size)) = size
      /\ \A i \in 1 .. size : Take(b, size)[i] = b[i]
  <2> HIDE DEF size, body
  <2> QED BY <1>6, TakeProperties
<1>8. ASSUME NEW y \in 1 .. size PROVE Take(b, size)[y] = body[y]
  <2> HIDE DEF size, body
  <2>1. y \in 1 .. Len(b) /\ y \in 1 .. Len(u) BY <1>4, <1>6
  <2>a. start < c + y /\ c + y <= end /\ c + y - start = k + y
    <3> HIDE DEF start, bd, end
    <3> QED BY <1>k, <1>p, <1>q
  <2>2. f.start < c + y /\ c + y <= f.end /\ c + y - f.start = k + y
    BY <2>a
  <2>3. u[y] = whole[k + y] BY <1>h, <2>1, <2>2
  <2> QED BY <1>4, <1>7, <1>k, <2>1, <2>3
<1>9. Take(b, size) = body
  <2> HIDE DEF body
  <2> QED BY <1>3, <1>7, <1>8, SeqEqual
<1>10. f.end - f.body \in 0 .. Len(b) /\ Take(b, f.end - f.body) = body
  <2> HIDE DEF body, size
  <2> QED BY <1>6, <1>9
<1> QED BY <1>10 DEF f, p

-----------------------------------------------------------------------------
(* Dropping from a buffer what is also the beginning of all that is unread. *)

LEMMA DropConcat ==
  ASSUME NEW T, NEW b \in Seq(T), NEW r \in Seq(T), NEW m \in 0 .. Len(b)
  PROVE  Drop(b, m) \o r = Drop(b \o r, m) /\ m \in 0 .. Len(b \o r)
<1> DEFINE d == Drop(b, m)
           u == b \o r
           v == Drop(u, m)
           w == d \o r
<1>1. Len(b) \in Nat /\ Len(r) \in Nat /\ m \in Nat BY LenProperties
<1>2. d \in Seq(T) /\ Len(d) = Len(b) - m /\ \A i \in 1 .. Len(b) - m : d[i] = b[m + i]
  BY DropProperties
<1>3. /\ u \in Seq(T) /\ Len(u) = Len(b) + Len(r)
      /\ \A i \in 1 .. Len(b) + Len(r) : u[i] = IF i <= Len(b) THEN b[i] ELSE r[i - Len(b)]
  BY ConcatProperties
<1> HIDE DEF d, u
<1>4. m \in 0 .. Len(u) BY <1>1, <1>3
<1>5. /\ w \in Seq(T) /\ Len(w) = Len(d) + Len(r)
      /\ \A i \in 1 .. Len(d) + Len(r) : w[i] = IF i <= Len(d) THEN d[i] ELSE r[i - Len(d)]
  BY <1>2, ConcatProperties
<1>6. v \in Seq(T) /\ Len(v) = Len(u) - m /\ \A i \in 1 .. Len(u) - m : v[i] = u[m + i]
  BY <1>3, <1>4, DropProperties
<1> HIDE DEF v, w
<1>7. Len(w) = Len(v) BY <1>1, <1>2, <1>3, <1>5, <1>6
<1>8. ASSUME NEW i \in 1 .. Len(w) PROVE w[i] = v[i]
  <2>1. /\ i \in 1 .. Len(d) + Len(r) /\ i \in 1 .. Len(u) - m
        /\ m + i \in 1 .. Len(b) + Len(r)
    BY <1>1, <1>2, <1>3, <1>5
  <2>2. v[i] = u[m + i] BY <1>6, <2>1
  <2>3. CASE i <= Len(d)
    <3>1. i \in 1 .. Len(b) - m /\ m + i <= Len(b) BY <1>1, <1>2, <2>1, <2>3
    <3>2. w[i] = d[i] /\ d[i] = b[m + i] BY <1>2, <1>5, <2>1, <2>3, <3>1
    <3>3. u[m + i] = b[m + i] BY <1>3, <2>1, <3>1
    <3> QED BY <2>2, <3>2, <3>3
  <2>4. CASE ~ (i <= Len(d))
    <3>1. ~ (m + i <= Len(b)) /\ i - Len(d) = (m + i) - Len(b) BY <1>1, <1>2, <2>1, <2>4
    <3>2. w[i] = r[i - Len(d)] BY <1>5, <2>1, <2>4
    <3>3. u[m + i] = r[(m + i) - Len(b)] BY <1>3, <2>1, <3>1
    <3> QED BY <2>2, <3>1, <3>2, <3>3
  <2> QED BY <2>3, <2>4
<1>9. w = v BY <1>5, <1>6, <1>7, <1>8, SeqEqual
<1> QED BY <1>4, <1>9 DEF d, u, v, w

LEMMA DropTwice ==
  ASSUME NEW T, NEW s \in Seq(T), NEW m \in 0 .. Len(s), NEW k \in 0 .. Len(s) - m
  PROVE  Drop(Drop(s, m), k) = Drop(s, m + k) /\ m + k \in 0 .. Len(s)
<1> DEFINE d == Drop(s, m)
           e == Drop(d, k)
           f == Drop(s, m + k)
<1>1. Len(s) \in Nat /\ m \in Nat /\ k \in Nat BY LenProperties
<1>2. m + k \in 0 .. Len(s) BY <1>1
<1>3. d \in Seq(T) /\ Len(d) = Len(s) - m /\ \A i \in 1 .. Len(s) - m : d[i] = s[m + i]
  BY DropProperties
<1> HIDE DEF d
<1>4. k \in 0 .. Len(d) BY <1>3
<1>5. e \in Seq(T) /\ Len(e) = Len(d) - k /\ \A i \in 1 .. Len(d) - k : e[i] = d[k + i]
  <2>1. d \in Seq(T) BY <1>3
  <2> QED BY <2>1, <1>4, DropProperties
<1>6. /\ f \in Seq(T) /\ Len(f) = Len(s) - (m + k)
      /\ \A i \in 1 .. Len(s) - (m + k) : f[i] = s[(m + k) + i]
  BY <1>2, DropProperties
<1> HIDE DEF e, f
<1>7. Len(e) = Len(f) BY <1>1, <1>3, <1>5, <1>6
<1>8. ASSUME NEW i \in 1 .. Len(e) PROVE e[i] = f[i]
  <2>1. /\ i \in 1 .. Len(d) - k /\ k + i \in 1 .. Len(s) - m
        /\ i \in 1 .. Len(s) - (m + k) /\ m + (k + i) = (m + k) + i
    BY <1>1, <1>3, <1>5
  <2>2. e[i] = d[k + i] BY <1>5, <2>1
  <2>3. d[k + i] = s[m + (k + i)] BY <1>3, <2>1
  <2>4. f[i] = s[(m + k) + i] BY <1>6, <2>1
  <2> QED BY <2>1, <2>2, <2>3, <2>4
<1>9. e = f BY <1>5, <1>6, <1>7, <1>8, SeqEqual
<1> QED BY <1>2, <1>9 DEF d, e, f

LEMMA DropNone ==
  ASSUME NEW T, NEW s \in Seq(T) PROVE Drop(s, 0) = s
<1>1. SubSeq(s, 1, Len(s)) = s BY SubSeqFull
<1>2. 0 + 1 = 1 OBVIOUS
<1> QED BY <1>1, <1>2 DEF Drop

LEMMA DropAll ==
  ASSUME NEW T, NEW s \in Seq(T) PROVE Drop(s, Len(s)) = <<>>
<1>1. Len(s) \in Nat BY LenProperties
<1>2. Len(s) + 1 \in Int /\ Len(s) \in Int /\ Len(s) < Len(s) + 1 BY <1>1
<1>3. SubSeq(s, Len(s) + 1, Len(s)) = <<>> BY <1>2, SubSeqEmpty
<1> QED BY <1>3 DEF Drop

LEMMA FrontOfConcat ==
  ASSUME NEW b \in Seq(Byte), NEW r \in Seq(Byte) PROVE Front(b, b \o r)
<1>1. Len(b) \in Nat /\ Len(r) \in Nat BY LenProperties
<1>2. /\ Len(b \o r) = Len(b) + Len(r)
      /\ \A i \in 1 .. Len(b) + Len(r) :
           (b \o r)[i] = IF i <= Len(b) THEN b[i] ELSE r[i - Len(b)]
  BY ConcatProperties
<1>3. \A y \in 1 .. Len(b) : y \in 1 .. Len(b) + Len(r) /\ y <= Len(b) BY <1>1
<1> QED BY <1>1, <1>2, <1>3 DEF Front

-----------------------------------------------------------------------------
(* The inductive invariant. *)

(* What the first pipe has not consumed, how many bytes it has consumed and *)
(* how many have arrived.                                                   *)
Unread == buffers[1] \o network
Consumed == Total - Len(Unread)
Arrived == Total - Len(network)

(* The frames of a conforming peer, and their unread bytes. *)
ChainInv == conforming => Chained(frames, sent, PacketPipe)

StreamInv ==
  /\ Len(Unread) <= Total
  /\ conforming => Holds(frames, sent, PacketPipe, Unread, Consumed)

(* A frame that is not cut where it would hurt. *)
Whole(f, arrived, n) ==
  /\ ~ (f.start < arrived /\ arrived < f.body)
  /\ n = 1 => ~ (f.body <= arrived /\ arrived < f.end
                   /\ arrived - f.start >= f.end - f.body)

CutInv == Undisturbed => \A j \in 1 .. Len(frames) : Whole(frames[j], Arrived, PacketPipe)

(* The first pipe, which waits for length bytes and has consumed c, has     *)
(* finished k frames of num: it is at the start of the next or behind its   *)
(* length prefix.                                                           *)
Place(fs, length, c, k, num) ==
  IF length = 0
  THEN c = EndOf(fs, k)
  ELSE k < num /\ c = fs[k + 1].body /\ length = fs[k + 1].end - fs[k + 1].body

(* The packets of these frames are handled, but for the last one as long as *)
(* it is on its way through the pipes.                                      *)
Carried(ps, h, i, bs, n, k) ==
  \/ (i <= 1 \/ bs[i] = <<>>) /\ h = NonEmpty(Take(ps, k))
  \/ /\ i >= 2 /\ k >= 1
     /\ bs[i] = Wrapped(ps[k], i, n) /\ h = NonEmpty(Take(ps, k - 1))

Inner(i, bs, lengths, n) ==
  \A x \in 2 .. n : lengths[x] = 0 /\ (x # i => bs[x] = <<>>)

InOrder ==
  /\ status \in {"open", "handler"}
  /\ Inner(at, buffers, nextReadFrameLength, PacketPipe)
  /\ \E k \in 0 .. Len(sent) :
       /\ Place(frames, nextReadFrameLength[1], Consumed, k, Len(sent))
       /\ Carried(sent, handled, at, buffers, PacketPipe, k)

ReadInv == Undisturbed => InOrder

IInv == TypeOK /\ ChainInv /\ StreamInv /\ CutInv /\ ReadInv

(* The types the other lemmas need. *)
LEMMA StateTypes ==
  ASSUME TypeOK
  PROVE  /\ sent \in Seq(Seq(Byte)) /\ frames \in Seq(FrameRecord)
         /\ pipes \in Nat /\ PacketPipe \in Nat \ {0} /\ PacketPipe = pipes + 1
         /\ PacketPipe <= MaxPipes + 1 /\ 1 \in 1 .. MaxPipes + 1
         /\ Total \in Nat /\ Total = EndOf(frames, Len(frames))
         /\ buffers[1] \in Seq(Byte) /\ network \in Seq(Byte)
         /\ Len(buffers[1]) \in Nat /\ Len(network) \in Nat
         /\ Unread \in Seq(Byte) /\ Len(Unread) = Len(buffers[1]) + Len(network)
         /\ Front(buffers[1], Unread)
<1>1. MaxPipes \in Nat BY FramedPipesAssumption
<1>2. sent \in Seq(Seq(Byte))
  <2>1. sent \in Seq(Packets) BY DEF TypeOK
  <2> QED BY <2>1, PacketsAssumption, SeqMonotonic
<1>3. frames \in Seq(FrameRecord) BY DEF TypeOK, FrameRecord
<1>4. /\ pipes \in Nat /\ PacketPipe \in Nat \ {0} /\ PacketPipe = pipes + 1
      /\ PacketPipe <= MaxPipes + 1 /\ 1 \in 1 .. MaxPipes + 1
  BY <1>1 DEF TypeOK, PacketPipe
<1>5. Total \in Nat BY <1>3, TotalType
<1>6. Total = EndOf(frames, Len(frames))
  <2>1. CASE frames = <<>>
    <3>1. Len(frames) = 0 BY <2>1, EmptySeq
    <3> QED BY <2>1, <3>1 DEF Total, EndOf
  <2>2. CASE frames # <<>>
    <3>1. Len(frames) # 0 BY <1>3, <2>2, EmptySeq
    <3> QED BY <2>2, <3>1 DEF Total, EndOf
  <2> QED BY <2>1, <2>2
<1>7. buffers[1] \in Seq(Byte) /\ network \in Seq(Byte) BY <1>4 DEF TypeOK
<1>8. Len(buffers[1]) \in Nat /\ Len(network) \in Nat BY <1>7, LenProperties
<1>9. Unread \in Seq(Byte) /\ Len(Unread) = Len(buffers[1]) + Len(network)
  BY <1>7, ConcatProperties DEF Unread
<1>10. Front(buffers[1], Unread) BY <1>7, FrontOfConcat DEF Unread
<1> QED BY <1>2, <1>3, <1>4, <1>5, <1>6, <1>7, <1>8, <1>9, <1>10

(* The two positions. *)
LEMMA Positions ==
  ASSUME TypeOK, StreamInv
  PROVE  /\ Consumed \in Nat /\ Arrived \in Nat
         /\ Arrived = Consumed + Len(buffers[1])
         /\ Consumed + Len(Unread) = Total /\ Arrived <= Total
<1> DEFINE b == Len(buffers[1])
           r == Len(network)
<1>1. /\ Total \in Nat /\ b \in Nat /\ r \in Nat
      /\ Len(Unread) = b + r /\ Len(Unread) <= Total
  BY StateTypes DEF StreamInv
<1>2. Consumed = Total - Len(Unread) /\ Arrived = Total - r BY DEF Consumed, Arrived
<1> HIDE DEF b, r
<1>3. /\ Consumed \in Nat /\ Arrived \in Nat /\ Arrived = Consumed + b
      /\ Consumed + Len(Unread) = Total /\ Arrived <= Total
  BY <1>1, <1>2
<1> QED BY <1>3 DEF b

LEMMA InvInit == Init => IInv
<1> SUFFICES ASSUME Init PROVE IInv OBVIOUS
<1>1. TypeOK BY TypeInit
<1>2. MaxPipes \in Nat BY FramedPipesAssumption
<1>3. /\ network = <<>> /\ sent = <<>> /\ frames = <<>> /\ at = 0 /\ handled = <<>>
      /\ status = "open" /\ buffers[1] = <<>> /\ pipes \in 0 .. MaxPipes
      /\ \A i \in 1 .. MaxPipes + 1 : buffers[i] = <<>> /\ nextReadFrameLength[i] = 0
  BY <1>2 DEF Init
<1>e. Len(sent) = 0 /\ Len(frames) = 0 /\ Len(network) = 0 /\ Len(buffers[1]) = 0
  BY <1>3, EmptySeq
<1>4. Len(Unread) = 0 BY <1>1, <1>e, StateTypes
<1>5. Total = 0 BY <1>3 DEF Total
<1>6. ChainInv BY <1>e DEF ChainInv, Chained
<1>7. StreamInv BY <1>e, <1>4, <1>5 DEF StreamInv, Holds
<1>8. CutInv BY <1>e DEF CutInv
<1>9. ReadInv
  <2>1. Consumed = 0 BY <1>4, <1>5 DEF Consumed
  <2>2. Inner(at, buffers, nextReadFrameLength, PacketPipe)
    BY <1>2, <1>3 DEF Inner, PacketPipe
  <2>3. Place(frames, nextReadFrameLength[1], Consumed, 0, Len(sent))
    <3>1. nextReadFrameLength[1] = 0 BY <1>2, <1>3
    <3> QED BY <2>1, <3>1 DEF Place, EndOf
  <2>4. Carried(sent, handled, at, buffers, PacketPipe, 0)
    <3>1. sent \in Seq(Seq(Byte)) BY <1>1, StateTypes
    <3>2. Take(sent, 0) = <<>> BY <1>3, <1>e, <3>1, TakeAll
    <3>3. NonEmpty(Take(sent, 0)) = <<>> BY <3>2, NonEmptyNone
    <3> QED BY <1>3, <3>3 DEF Carried
  <2>5. 0 \in 0 .. Len(sent) BY <1>e
  <2> QED BY <1>3, <2>2, <2>3, <2>4, <2>5 DEF ReadInv, InOrder
<1> QED BY <1>1, <1>6, <1>7, <1>8, <1>9 DEF IInv

(* A packet is sent. *)
LEMMA PeerSendKeeps ==
  ASSUME IInv, NEW p \in Packets, PeerSend(p)
  PROVE  ChainInv' /\ StreamInv' /\ CutInv' /\ ReadInv'
<1> DEFINE n == PacketPipe
           body == Framed(p, 2)
           prefix == WriteVarInt[Len(body)]
           whole == Wrapped(p, 1, n)
           f == [start |-> Total, body  |-> Total + Len(prefix),
                 end   |-> Total + Len(prefix) + Len(body)]
<1>1. TypeOK /\ ChainInv /\ StreamInv /\ CutInv /\ ReadInv BY DEF IInv
<1>2. /\ conforming /\ Len(body) <= MaxReadSize
      /\ sent' = Append(sent, p) /\ Put(prefix, body)
      /\ UNCHANGED <<pipes, conforming, pipeVars, handled, status, cuts>>
  BY DEF PeerSend
<1>3. UNCHANGED <<pipes, at, buffers, nextReadFrameLength, handled, status, cuts>>
      /\ PacketPipe' = n
  BY <1>2 DEF pipeVars, PacketPipe
<1>4. /\ sent \in Seq(Seq(Byte)) /\ frames \in Seq(FrameRecord) /\ n \in Nat \ {0}
      /\ Total \in Nat /\ Total = EndOf(frames, Len(frames))
      /\ Unread \in Seq(Byte) /\ network \in Seq(Byte) /\ buffers[1] \in Seq(Byte)
      /\ Len(network) \in Nat /\ Len(Unread) \in Nat
  BY <1>1, StateTypes, LenProperties
<1>5. Chained(frames, sent, n) /\ Holds(frames, sent, n, Unread, Consumed)
  BY <1>1, <1>2 DEF ChainInv, StreamInv
<1>6. p \in Seq(Byte) BY PacketsAssumption
<1>7. body = Wrapped(p, 2, n) BY FramedIsWrapped
<1>8. network' = network \o prefix \o body /\ frames' = Append(frames, f)
  BY <1>2 DEF Put
<1> HIDE DEF n, body
<1>9. body \in Seq(Byte) /\ Len(body) \in Nat
  <2>1. 2 \in 1 .. n + 1 BY <1>4
  <2> QED BY <1>4, <1>6, <1>7, <2>1, WrappedSteps, LenProperties
<1>10. prefix \in Seq(Byte) /\ Len(prefix) \in Nat \ {0} BY <1>9, WriteVarIntSteps
<1> DEFINE width == Len(prefix)
<1>w. width \in Nat \ {0} BY <1>10
<1>11. /\ f \in FrameRecord /\ f.start = Total /\ f.body = Total + width
       /\ f.end = Total + width + Len(body)
  <2> HIDE DEF width
  <2>1. f = [start |-> Total, body  |-> Total + width, end |-> Total + width + Len(body)]
    BY DEF width
  <2> HIDE DEF f
  <2>2. Total + width \in Nat /\ Total + width + Len(body) \in Nat BY <1>4, <1>9, <1>w
  <2> QED BY <1>4, <2>1, <2>2 DEF FrameRecord
<1>12. FrameOf(f, p, n) BY <1>2, <1>7, <1>11 DEF FrameOf
<1> HIDE DEF f
<1>13. whole \in Seq(Byte) /\ whole = prefix \o body /\ Len(whole) = width + Len(body)
  <2>1. whole \in Seq(Byte) /\ whole = prefix \o body
    BY <1>4, <1>6, <1>7, <1>11, <1>12, OneFrame
  <2> HIDE DEF prefix, whole, width
  <2>2. Len(prefix \o body) = width + Len(body) BY <1>9, <1>10, ConcatProperties DEF width
  <2> QED BY <2>1, <2>2
<1> HIDE DEF prefix, whole, width
<1>a. \A x, y, z \in Seq(Byte) : (x \o y) \o z = x \o (y \o z) BY BytesAssociative
<1>14. network' = network \o whole
  <2>1. (network \o prefix) \o body = network \o (prefix \o body)
    BY <1>4, <1>9, <1>10, <1>a
  <2> QED BY <1>8, <1>13, <2>1
<1>15. Unread' = Unread \o whole
  <2>1. Unread' = buffers[1] \o (network \o whole) BY <1>3, <1>14 DEF Unread
  <2>2. (buffers[1] \o network) \o whole = buffers[1] \o (network \o whole)
    BY <1>4, <1>13, <1>a
  <2> QED BY <2>1, <2>2 DEF Unread
<1>16. /\ Len(Unread') = Len(Unread) + (width + Len(body))
       /\ Len(network') = Len(network) + (width + Len(body))
  BY <1>4, <1>13, <1>14, <1>15, ConcatProperties
<1>17. TypeOK' BY <1>1, PeerSendType
<1>18. Total' = Total + (width + Len(body))
  <2>1. frames' # <<>> /\ Len(frames') = Len(frames) + 1 /\ frames'[Len(frames) + 1] = f
    BY <1>4, <1>8, <1>11, AppendProperties
  <2>2. Total' = f.end BY <2>1 DEF Total
  <2> QED BY <1>4, <1>9, <1>11, <1>w, <2>2
<1>19. Consumed' = Consumed /\ Arrived' = Arrived
  <2>1. Consumed' = Total' - Len(Unread') /\ Arrived' = Total' - Len(network')
    BY DEF Consumed, Arrived
  <2> QED BY <1>4, <1>9, <1>w, <1>16, <1>18, <2>1 DEF Consumed, Arrived
<1>20. Chained(frames', sent', n)
  BY <1>2, <1>4, <1>5, <1>6, <1>8, <1>11, <1>12, ChainAppend
<1>21. ChainInv' BY <1>3, <1>20 DEF ChainInv
<1>22. /\ Consumed \in Nat /\ Consumed + Len(Unread) = Total /\ Arrived \in Nat
       /\ Arrived <= Total
  BY <1>1, Positions
<1>23. StreamInv'
  <2>1. Len(Unread') <= Total' BY <1>4, <1>9, <1>w, <1>16, <1>18, <1>22
  <2>2. Holds(Append(frames, f), Append(sent, p), n, Unread \o whole, Consumed)
    BY <1>4, <1>5, <1>6, <1>11, <1>12, <1>22, HoldsAppend DEF whole
  <2>3. Holds(frames', sent', PacketPipe', Unread', Consumed')
    BY <1>2, <1>3, <1>8, <1>15, <1>19, <2>2
  <2> QED BY <2>1, <2>3 DEF StreamInv
<1>24. /\ Len(frames') = Len(frames) + 1 /\ frames'[Len(frames) + 1] = f
       /\ \A j \in 1 .. Len(frames) : frames'[j] = frames[j]
       /\ Len(frames) \in Nat /\ Len(sent') = Len(sent) + 1 /\ Len(frames) = Len(sent)
       /\ \A j \in 1 .. Len(sent) : sent'[j] = sent[j]
  BY <1>2, <1>4, <1>5, <1>6, <1>8, <1>11, AppendProperties, LenProperties DEF Chained
<1>25. Undisturbed' = Undisturbed
  BY <1>2, <1>3 DEF Undisturbed, HarmfulCuts
<1>26. CutInv'
  <2> SUFFICES ASSUME Undisturbed', NEW j \in 1 .. Len(frames')
               PROVE  Whole(frames'[j], Arrived', PacketPipe')
    BY DEF CutInv
  <2>1. CASE j = Len(frames) + 1
    <3>1. frames'[j] = f BY <1>24, <2>1
    <3>x. Total \in Nat /\ Arrived \in Nat /\ Arrived <= Total BY <1>4, <1>22
    <3>y. f.start = Total /\ f.body = Total + width BY <1>11
    <3>2. ~ (f.start < Arrived) /\ ~ (f.body <= Arrived) BY <3>x, <3>y, <1>w
    <3>3. Whole(f, Arrived, n) BY <3>2 DEF Whole
    <3> QED BY <1>3, <1>19, <3>1, <3>3
  <2>2. CASE j # Len(frames) + 1
    <3>1. j \in 1 .. Len(frames) BY <1>24, <2>2
    <3>2. Whole(frames[j], Arrived, PacketPipe) BY <1>1, <1>25, <3>1 DEF CutInv
    <3> QED BY <1>3, <1>19, <1>24, <3>1, <3>2 DEF n
  <2> QED BY <2>1, <2>2
<1>27. ReadInv'
  <2> SUFFICES ASSUME Undisturbed' PROVE InOrder' BY DEF ReadInv
  <2>1. status \in {"open", "handler"} /\ Inner(at, buffers, nextReadFrameLength, n)
    BY <1>1, <1>25 DEF ReadInv, InOrder, n
  <2>2. PICK k \in 0 .. Len(sent) :
               /\ Place(frames, nextReadFrameLength[1], Consumed, k, Len(sent))
               /\ Carried(sent, handled, at, buffers, n, k)
    BY <1>1, <1>25 DEF ReadInv, InOrder, n
  <2>3. k \in Nat /\ k <= Len(sent) /\ k \in 0 .. Len(sent') BY <1>24
  <2>4. Place(frames', nextReadFrameLength[1], Consumed, k, Len(sent'))
    <3>1. EndOf(frames', k) = EndOf(frames, k)
      <4>1. k # 0 => k \in 1 .. Len(frames) BY <1>24, <2>3
      <4> QED BY <1>24, <4>1 DEF EndOf
    <3>2. k < Len(sent) => k < Len(sent') /\ frames'[k + 1] = frames[k + 1]
      <4>1. k < Len(sent) => k + 1 \in 1 .. Len(frames) BY <1>24, <2>3
      <4>2. k < Len(sent) => k < Len(sent') BY <1>24, <2>3
      <4> QED BY <1>24, <4>1, <4>2
    <3> QED BY <2>2, <3>1, <3>2 DEF Place
  <2>5. Carried(sent', handled, at, buffers, n, k)
    <3>1. Take(sent', k) = Take(sent, k) BY <1>2, <1>4, <1>6, <2>3, TakeAppend
    <3>2. k >= 1 => sent'[k] = sent[k] /\ Take(sent', k - 1) = Take(sent, k - 1)
      <4>1. k >= 1 => k \in 1 .. Len(sent) /\ k - 1 \in 0 .. Len(sent) BY <1>24, <2>3
      <4> QED BY <1>2, <1>4, <1>6, <1>24, <4>1, TakeAppend
    <3> QED BY <2>2, <3>1, <3>2 DEF Carried
  <2> QED BY <1>3, <1>19, <2>1, <2>3, <2>4, <2>5 DEF n, InOrder
<1> QED BY <1>21, <1>23, <1>26, <1>27

(* The peer announces too much: from here on nothing is promised. *)
LEMMA PeerAnnounceKeeps ==
  ASSUME IInv, PeerAnnounce
  PROVE  ChainInv' /\ StreamInv' /\ CutInv' /\ ReadInv'
<1> DEFINE prefix == WriteVarInt[MaxReadSize + 1]
           e == <<>>
<1>1. TypeOK /\ StreamInv /\ TypeOK' BY PeerAnnounceType DEF IInv
<1>2. Put(prefix, e) /\ conforming' = FALSE /\ buffers' = buffers
  BY DEF PeerAnnounce, pipeVars
<1>3. prefix \in Seq(Byte) /\ Len(prefix) \in Nat BY FramedPipesAssumption, WriteVarIntSteps
<1>4. e \in Seq(Byte) /\ Len(e) = 0 BY EmptySeq
<1> HIDE DEF prefix, e
<1>5. /\ Total \in Nat /\ frames \in Seq(FrameRecord)
      /\ network \in Seq(Byte) /\ Len(network) \in Nat /\ Len(buffers[1]) \in Nat
      /\ Len(Unread) = Len(buffers[1]) + Len(network)
  BY <1>1, StateTypes
<1>6. Len(Unread') = Len(buffers'[1]) + Len(network')
  <2>1. buffers'[1] \in Seq(Byte) /\ network' \in Seq(Byte)
    BY <1>1, FramedPipesAssumption DEF TypeOK
  <2> QED BY <2>1, ConcatProperties DEF Unread
<1>7. Len(network') = Len(network) + Len(prefix)
  <2>1. network \o prefix \in Seq(Byte) /\ Len(network \o prefix) = Len(network) + Len(prefix)
    BY <1>3, <1>5, ConcatProperties
  <2>2. (network \o prefix) \o e = network \o prefix
    BY <2>1, ConcatEmptySeq DEF e
  <2> QED BY <1>2, <2>1, <2>2 DEF Put
<1>8. Total' = Total + Len(prefix)
  <2> DEFINE f == [start |-> Total, body  |-> Total + Len(prefix),
                   end   |-> Total + Len(prefix) + Len(e)]
  <2>1. frames' = Append(frames, f) BY <1>2 DEF Put
  <2>2. f.end = Total + Len(prefix) BY <1>3, <1>4, <1>5
  <2>3. f \in FrameRecord BY <1>3, <1>4, <1>5 DEF FrameRecord
  <2> HIDE DEF f
  <2>4. frames' # <<>> /\ frames'[Len(frames')] = f
    BY <1>5, <2>1, <2>3, AppendProperties
  <2> QED BY <2>2, <2>4 DEF Total
<1>9. Len(Unread') <= Total'
  <2>1. Len(Unread) <= Total BY <1>1 DEF StreamInv
  <2> DEFINE b == Len(buffers[1])
             r == Len(network)
             q == Len(prefix)
  <2>2. Len(Unread') = b + Len(network') BY <1>2, <1>6
  <2>3. Len(network') = r + q /\ Total' = Total + q BY <1>7, <1>8
  <2>4. b \in Nat /\ r \in Nat /\ q \in Nat /\ Total \in Nat /\ b + r <= Total
    BY <1>3, <1>5, <2>1
  <2> HIDE DEF b, r, q
  <2> QED BY <2>2, <2>3, <2>4
<1>10. ~ Undisturbed' BY <1>2 DEF Undisturbed
<1> QED BY <1>2, <1>9, <1>10 DEF ChainInv, StreamInv, CutInv, ReadInv

(* Bytes arrive: they move from the network to the first pipe's buffer. *)
LEMMA HandleNewBytesKeeps ==
  ASSUME IInv, NEW n \in 0 .. Len(network), HandleNewBytes(n)
  PROVE  ChainInv' /\ StreamInv' /\ CutInv' /\ ReadInv'
<1> DEFINE t == Take(network, n)
           d == Drop(network, n)
           b == buffers[1]
           r == Len(network)
<1>1. TypeOK /\ ChainInv /\ StreamInv /\ CutInv /\ ReadInv BY DEF IInv
<1>2. /\ at = 0 /\ network' = d /\ at' = 1
      /\ buffers' = [buffers EXCEPT ![1] = b \o t]
      /\ cuts' = cuts \cup Cuts(Arrived, Arrived + n)
      /\ UNCHANGED <<pipes, sent, frames, conforming, nextReadFrameLength, handled, status>>
  BY DEF HandleNewBytes, Arrived
<1>3. /\ frames \in Seq(FrameRecord) /\ Total \in Nat /\ PacketPipe \in Nat \ {0}
      /\ b \in Seq(Byte) /\ network \in Seq(Byte) /\ r \in Nat
      /\ 1 \in 1 .. MaxPipes + 1 /\ PacketPipe = pipes + 1 /\ pipes \in Nat
      /\ PacketPipe <= MaxPipes + 1 /\ MaxPipes \in Nat
  BY <1>1, StateTypes, FramedPipesAssumption
<1>4. t \in Seq(Byte) /\ d \in Seq(Byte) /\ t \o d = network /\ Len(d) = r - n
  BY <1>3, TakeProperties, DropProperties, TakeThenDrop
<1>5. Arrived = Total - r BY DEF Arrived
<1> HIDE DEF t, d, b, r
<1>6. /\ buffers'[1] = b \o t
      /\ \A x \in 1 .. MaxPipes + 1 : x # 1 => buffers'[x] = buffers[x]
  BY <1>1, <1>2, <1>3 DEF TypeOK
<1>7. Total' = Total /\ PacketPipe' = PacketPipe BY <1>2 DEF Total, PacketPipe
<1>8. Unread' = Unread
  <2>1. \A x, y, z \in Seq(Byte) : (x \o y) \o z = x \o (y \o z) BY BytesAssociative
  <2>2. (b \o t) \o d = b \o network BY <1>3, <1>4, <2>1
  <2> QED BY <1>2, <1>6, <2>2 DEF Unread, b
<1>9. Consumed' = Consumed BY <1>7, <1>8 DEF Consumed
<1>10. Arrived' = Arrived + n
  <2>1. n \in Nat BY <1>3 DEF r
  <2>2. Arrived' = Total - (r - n) BY <1>2, <1>4, <1>7 DEF Arrived
  <2> QED BY <1>3, <1>5, <2>1, <2>2
<1>11. ChainInv' /\ StreamInv'
  BY <1>1, <1>2, <1>7, <1>8, <1>9 DEF ChainInv, StreamInv
<1>12. Undisturbed' => Undisturbed BY <1>2 DEF Undisturbed, HarmfulCuts
<1>13. CutInv'
  <2> SUFFICES ASSUME Undisturbed', NEW j \in 1 .. Len(frames),
                      ~ Whole(frames[j], Arrived + n, PacketPipe)
               PROVE  FALSE
    BY <1>2, <1>7, <1>10 DEF CutInv
  <2>1. cuts' \cap HarmfulCuts = {} BY <1>2 DEF Undisturbed, HarmfulCuts
  <2>2. "split" \in HarmfulCuts /\ (PacketPipe = 1 => "tail" \in HarmfulCuts)
    BY <1>3 DEF HarmfulCuts
  <2>3. "split" \notin cuts' /\ (PacketPipe = 1 => "tail" \notin cuts') BY <2>1, <2>2
  <2>4. ~ (frames[j].start < Arrived + n /\ Arrived + n < frames[j].body)
    BY <1>2, <2>3 DEF Cuts
  <2>5. PacketPipe = 1 =>
          ~ (/\ frames[j].body <= Arrived + n /\ Arrived + n < frames[j].end
             /\ (Arrived + n) - frames[j].start >= frames[j].end - frames[j].body)
    BY <1>2, <2>3 DEF Cuts
  <2> QED BY <2>4, <2>5 DEF Whole
<1>14. ReadInv'
  <2> SUFFICES ASSUME Undisturbed' PROVE InOrder' BY DEF ReadInv
  <2>1. status \in {"open", "handler"} /\ Inner(at, buffers, nextReadFrameLength, PacketPipe)
    BY <1>1, <1>12 DEF ReadInv, InOrder
  <2>2. PICK k \in 0 .. Len(sent) :
               /\ Place(frames, nextReadFrameLength[1], Consumed, k, Len(sent))
               /\ Carried(sent, handled, at, buffers, PacketPipe, k)
    BY <1>1, <1>12 DEF ReadInv, InOrder
  <2>3. Inner(1, buffers', nextReadFrameLength, PacketPipe)
    BY <1>2, <1>3, <1>6, <2>1 DEF Inner
  <2>4. Carried(sent, handled, 1, buffers', PacketPipe, k)
    BY <1>2, <2>2 DEF Carried
  <2> QED BY <1>2, <1>7, <1>9, <2>1, <2>2, <2>3, <2>4 DEF InOrder
<1> QED BY <1>11, <1>13, <1>14

(* The first pipe consumes m bytes, or another pipe none. *)
LEMMA Consumes ==
  ASSUME IInv, NEW m \in 0 .. Len(buffers[1]), buffers'[1] = Drop(buffers[1], m),
         UNCHANGED <<pipes, peerVars, cuts>>
  PROVE  /\ ChainInv' /\ StreamInv' /\ CutInv'
         /\ Consumed' = Consumed + m /\ Undisturbed' = Undisturbed
         /\ PacketPipe' = PacketPipe /\ UNCHANGED <<sent, frames>>
<1> DEFINE b == buffers[1]
           u == Unread
           size == Len(u)
<1>1. TypeOK /\ ChainInv /\ StreamInv /\ CutInv BY DEF IInv
<1>2. UNCHANGED <<pipes, network, sent, frames, conforming, cuts>> BY DEF peerVars
<1>3. /\ sent \in Seq(Seq(Byte)) /\ frames \in Seq(FrameRecord) /\ Total \in Nat
      /\ PacketPipe \in Nat \ {0} /\ b \in Seq(Byte) /\ network \in Seq(Byte)
      /\ u \in Seq(Byte) /\ u = b \o network
  BY <1>1, StateTypes DEF Unread
<1>4. size \in Nat /\ Consumed \in Nat /\ Consumed + size = Total /\ size <= Total
      /\ Consumed = Total - size
  BY <1>1, <1>3, Positions, LenProperties DEF StreamInv, Consumed
<1>5. Total' = Total /\ PacketPipe' = PacketPipe /\ Arrived' = Arrived
  BY <1>2 DEF Total, PacketPipe, Arrived
<1>6. Undisturbed' = Undisturbed BY <1>2 DEF Undisturbed, HarmfulCuts
<1>7. Unread' = Drop(u, m) /\ m \in 0 .. size
  <2>1. Unread' = Drop(b, m) \o network BY <1>2 DEF Unread
  <2>2. \A x, y \in Seq(Byte) : \A k \in 0 .. Len(x) :
          Drop(x, k) \o y = Drop(x \o y, k) /\ k \in 0 .. Len(x \o y)
    BY DropConcat
  <2>3. m \in 0 .. Len(b) OBVIOUS
  <2> HIDE DEF b, u
  <2> QED BY <1>3, <2>1, <2>2, <2>3
<1>8. Len(Unread') = size - m BY <1>3, <1>7, DropProperties
<1> HIDE DEF size, u
<1>9. Consumed' = Consumed + m
  <2>1. Consumed' = Total - (size - m) BY <1>5, <1>8 DEF Consumed
  <2> QED BY <1>3, <1>4, <1>7, <2>1
<1>10. ChainInv' BY <1>1, <1>2, <1>5 DEF ChainInv
<1>11. StreamInv'
  <2>1. Len(Unread') <= Total' BY <1>3, <1>4, <1>5, <1>7, <1>8
  <2>2. ASSUME conforming PROVE Holds(frames, sent, PacketPipe, Drop(u, m), Consumed + m)
    <3>1. Chained(frames, sent, PacketPipe) /\ Holds(frames, sent, PacketPipe, u, Consumed)
      BY <1>1, <2>2 DEF ChainInv, StreamInv, u
    <3>2. m \in 0 .. Len(u) BY <1>7 DEF size
    <3> QED BY <1>3, <1>4, <3>1, <3>2, HoldsDrop
  <2> QED BY <1>2, <1>5, <1>7, <1>9, <2>1, <2>2 DEF StreamInv
<1>12. CutInv' BY <1>1, <1>2, <1>5, <1>6 DEF CutInv
<1> QED BY <1>2, <1>5, <1>6, <1>9, <1>10, <1>11, <1>12

(* What the first pipe finds, k frames into the stream: an empty buffer, or *)
(* the length of the next frame; then the rest of its buffer begins at the  *)
(* body of that frame.                                                      *)
NextFrame(f, b, c, frame, p, n) ==
  /\ f.result = "Success"
  /\ f.length = frame.end - frame.body /\ f.length \in 0 .. MaxReadSize
  /\ f.rest \in Seq(Byte)
  /\ \E m \in 0 .. Len(b) : f.rest = Drop(b, m) /\ c + m = frame.body
  /\ f.length <= Len(f.rest) => Take(f.rest, f.length) = Wrapped(p, 2, n)
  /\ n = 1 /\ f.length <= Len(b) => f.length <= Len(f.rest)

LEMMA FirstPipe ==
  ASSUME IInv, Undisturbed, NEW k \in 0 .. Len(sent),
         Place(frames, nextReadFrameLength[1], Consumed, k, Len(sent))
  PROVE  \/ /\ buffers[1] = <<>> /\ nextReadFrameLength[1] = 0
            /\ FrameStart(1).result = "IncompleteVarIntErrorable" /\ FrameStart(1).rest = <<>>
         \/ /\ k < Len(sent)
            /\ NextFrame(FrameStart(1), buffers[1], Consumed, frames[k + 1], sent[k + 1],
                         PacketPipe)
<1> DEFINE b == buffers[1]
           r == nextReadFrameLength[1]
           f == FrameStart(1)
           n == PacketPipe
           c == Consumed
           u == Unread
           g == frames[k + 1]
           p == sent[k + 1]
           prefix == ReadVarInt(b)
           size == Len(b)
<1>1. TypeOK /\ ChainInv /\ StreamInv /\ CutInv /\ conforming BY DEF IInv, Undisturbed
<1>2. /\ sent \in Seq(Seq(Byte)) /\ frames \in Seq(FrameRecord) /\ Total \in Nat
      /\ n \in Nat \ {0} /\ b \in Seq(Byte) /\ network \in Seq(Byte)
      /\ u \in Seq(Byte) /\ u = b \o network /\ Front(b, u)
      /\ Len(u) = size + Len(network) /\ Len(network) \in Nat
      /\ Total = EndOf(frames, Len(frames)) /\ 1 \in 1 .. MaxPipes + 1
  BY <1>1, StateTypes DEF Unread
<1>3. /\ c \in Nat /\ c + Len(u) = Total /\ Arrived = c + size /\ size \in Nat
      /\ Arrived \in Nat
  BY <1>1, <1>2, Positions, LenProperties
<1>4. Chained(frames, sent, n) /\ Holds(frames, sent, n, u, c)
  BY <1>1 DEF ChainInv, StreamInv
<1>5. Len(frames) = Len(sent) /\ Len(sent) \in Nat BY <1>2, <1>4, LenProperties DEF Chained
<1>6. r \in 0 .. MaxReadSize /\ MaxReadSize \in Nat
  BY <1>1, <1>2, FramedPipesAssumption DEF TypeOK
<1>7. /\ r # 0 => f = [result |-> "Success", length |-> r, rest |-> b]
      /\ r = 0 =>
           f = [result |-> IF prefix.result = "Success" /\ prefix.value > MaxReadSize
                           THEN "TooLong" ELSE prefix.result,
                length |-> prefix.value, rest |-> Drop(b, prefix.size)]
  BY DEF FrameStart
<1>8. Place(frames, r, c, k, Len(sent)) OBVIOUS
<1>9. ASSUME k < Len(sent)
      PROVE  /\ k + 1 \in 1 .. Len(sent) /\ p \in Seq(Byte)
             /\ g.start \in Nat /\ g.body \in Nat /\ g.end \in Nat
             /\ g.start = EndOf(frames, k) /\ g.start < g.body /\ g.body <= g.end
             /\ Whole(g, Arrived, n)
  <2>1. k + 1 \in 1 .. Len(sent) /\ k + 1 - 1 = k BY <1>5, <1>9
  <2>2. \A j \in 1 .. Len(sent) :
              /\ sent[j] \in Seq(Byte)
              /\ frames[j].start \in Nat /\ frames[j].body \in Nat /\ frames[j].end \in Nat
              /\ frames[j].start = EndOf(frames, j - 1)
              /\ frames[j].start < frames[j].body /\ frames[j].body <= frames[j].end
    BY <1>2, <1>4, ChainTypes
  <2>3. Whole(g, Arrived, n) BY <1>1, <1>5, <2>1 DEF CutInv
  <2> QED BY <2>1, <2>2, <2>3
<1> HIDE DEF b, r, f, n, c, u, prefix, size
<1>a. \A m \in 0 .. size :
        /\ Drop(b, m) \in Seq(Byte) /\ Len(Drop(b, m)) = size - m
        /\ Holds(frames, sent, n, Drop(u, m), c + m)
        /\ Front(Drop(b, m), Drop(u, m)) /\ Drop(u, m) \in Seq(Byte)
  <2> SUFFICES ASSUME NEW m \in 0 .. size
               PROVE  /\ Drop(b, m) \in Seq(Byte) /\ Len(Drop(b, m)) = size - m
                      /\ Holds(frames, sent, n, Drop(u, m), c + m)
                      /\ Front(Drop(b, m), Drop(u, m)) /\ Drop(u, m) \in Seq(Byte)
    OBVIOUS
  <2>1. Drop(b, m) \in Seq(Byte) /\ Len(Drop(b, m)) = size - m
    BY <1>2, DropProperties DEF size
  <2>2. m \in 0 .. Len(u) BY <1>2, <1>3
  <2>3. Holds(frames, sent, n, Drop(u, m), c + m) BY <1>2, <1>3, <1>4, <2>2, HoldsDrop
  <2>4. Drop(u, m) = Drop(b, m) \o network
    <3>1. \A x, y \in Seq(Byte) : \A i \in 0 .. Len(x) : Drop(x, i) \o y = Drop(x \o y, i)
      BY DropConcat
    <3> QED BY <1>2, <3>1 DEF size
  <2>5. Front(Drop(b, m), Drop(b, m) \o network) BY <1>2, <2>1, FrontOfConcat
  <2>6. Drop(u, m) \in Seq(Byte) BY <1>2, <2>2, DropProperties
  <2> QED BY <2>1, <2>3, <2>4, <2>5, <2>6
<1>t. /\ sent \in Seq(Seq(Byte)) /\ frames \in Seq(FrameRecord)
      /\ n \in Nat \ {0} /\ b \in Seq(Byte) /\ u \in Seq(Byte) /\ Front(b, u)
      /\ c \in Nat
  BY <1>2, <1>3
<1>c. ASSUME NEW v \in Seq(Byte), NEW h \in Seq(Byte), NEW i \in Nat,
             Holds(frames, sent, n, v, i), Front(h, v)
      PROVE  FindsBody(h, i, frames, sent, n)
  BY <1>t, <1>4, <1>c, BodyFound
<1>d. FindsPrefix(b, c, frames, Len(sent)) BY <1>t, <1>4, PrefixFound
<1>b. ASSUME k < Len(sent), NEW m \in 0 .. size, c + m = g.body,
             f.result = "Success", f.length = g.end - g.body, f.length <= MaxReadSize,
             f.rest = Drop(b, m),
             n = 1 /\ f.length <= size => f.length <= size - m
      PROVE  NextFrame(f, b, c, g, p, n)
  <2>1. /\ f.rest \in Seq(Byte) /\ Len(f.rest) = size - m /\ f.length \in 0 .. MaxReadSize
        /\ m \in Nat
    <3> DEFINE d == Drop(b, m)
    <3>a. d \in Seq(Byte) /\ Len(d) = size - m BY <1>a
    <3>b. m \in Nat BY <1>3
    <3>c. f.rest = d BY <1>b
    <3> HIDE DEF d
    <3>1. f.rest \in Seq(Byte) /\ Len(f.rest) = size - m /\ m \in Nat BY <3>a, <3>b, <3>c
    <3> DEFINE fl == f.length
               ge == g.end
               gb == g.body
    <3>2. fl = ge - gb /\ ge \in Nat /\ gb \in Nat /\ gb <= ge /\ fl <= MaxReadSize
      BY <1>9, <1>b
    <3> HIDE DEF fl, ge, gb
    <3>3. fl \in 0 .. MaxReadSize BY <1>6, <3>2
    <3> QED BY <3>1, <3>3 DEF fl
  <2>2. ASSUME f.length <= Len(f.rest) PROVE Take(f.rest, f.length) = Wrapped(p, 2, n)
    <3>1. c + m \in Nat /\ g.end <= (c + m) + Len(f.rest)
      <4> DEFINE ge == g.end
                 gb == g.body
                 fl == f.length
                 fr == Len(f.rest)
      <4>1. ge \in Nat /\ gb \in Nat /\ fl = ge - gb /\ fl <= fr /\ c + m = gb /\ fr = size - m
        BY <1>9, <1>b, <2>1, <2>2
      <4> HIDE DEF ge, gb, fl, fr
      <4>2. c + m \in Nat /\ ge <= (c + m) + fr BY <1>3, <2>1, <4>1
      <4> QED BY <4>2 DEF ge, fr
    <3>2. /\ Holds(frames, sent, n, Drop(u, m), c + m) /\ Front(f.rest, Drop(u, m))
          /\ Drop(u, m) \in Seq(Byte)
      BY <1>a, <1>b
    <3>3. k + 1 \in 1 .. Len(sent) BY <1>9, <1>b
    <3>4. Take(f.rest, g.end - g.body) = Wrapped(p, 2, n)
      <4>1. c + m = g.body BY <1>b
      <4>2. FindsBody(f.rest, c + m, frames, sent, n) BY <1>c, <2>1, <3>1, <3>2
      <4> QED BY <3>1, <3>3, <4>1, <4>2 DEF FindsBody
    <3> QED BY <1>b, <3>4
  <2>3. \E i \in 0 .. Len(b) : f.rest = Drop(b, i) /\ c + i = g.body BY <1>b DEF size
  <2>4. n = 1 /\ f.length <= Len(b) => f.length <= Len(f.rest) BY <1>b, <2>1 DEF size
  <2> QED BY <1>b, <2>1, <2>2, <2>3, <2>4 DEF NextFrame
<1>10. CASE r # 0
  <2>1. k < Len(sent) /\ c = g.body /\ r = g.end - g.body BY <1>8, <1>10 DEF Place
  <2>2. f.result = "Success" /\ f.length = r /\ f.rest = b BY <1>7, <1>10
  <2>3. f.rest = Drop(b, 0) BY <1>2, <2>2, DropNone
  <2>4. 0 \in 0 .. size /\ c + 0 = g.body /\ size - 0 = size BY <1>3, <2>1
  <2>5. f.length <= MaxReadSize BY <1>6, <2>2
  <2>6. NextFrame(f, b, c, g, p, n) BY <1>b, <2>1, <2>2, <2>3, <2>4, <2>5
  <2> QED BY <2>1, <2>6 DEF f, b, c, n
<1>11. CASE r = 0 /\ size = 0
  <2>1. prefix.result = "IncompleteVarIntErrorable" /\ prefix.size = 0
    BY <1>2, <1>11, ReadVarIntEmpty DEF prefix, size
  <2>2. f.result = "IncompleteVarIntErrorable" /\ f.rest = Drop(b, 0) BY <1>7, <1>11, <2>1
  <2>3. b = <<>> BY <1>2, <1>11, EmptySeq DEF size
  <2>4. Drop(b, 0) = b BY <1>2, DropNone
  <2> QED BY <1>11, <2>2, <2>3, <2>4 DEF f, b, r
<1>12. CASE r = 0 /\ size # 0
  <2>1. c = EndOf(frames, k) BY <1>8, <1>12 DEF Place
  <2>2. k < Len(sent)
    <3> DEFINE w == Len(network)
               l == Len(u)
    <3>1. /\ k = Len(frames) => c = Total
          /\ c + l = Total /\ l = size + w /\ w \in Nat
      BY <1>2, <1>3, <2>1
    <3> HIDE DEF w, l
    <3>2. k # Len(frames) BY <1>2, <1>3, <1>12, <3>1
    <3> QED BY <1>5, <3>2
  <2> DEFINE gs == g.start
             gb == g.body
             ge == g.end
             m == prefix.size
             v == prefix.value
  <2>3. /\ gs \in Nat /\ gb \in Nat /\ ge \in Nat /\ gs = c /\ gs < gb /\ gb <= ge
        /\ k + 1 \in 1 .. Len(sent)
    BY <1>9, <2>1, <2>2
  <2>4. ~ (gs < Arrived /\ Arrived < gb)
    BY <1>9, <2>2 DEF Whole
  <2>5. n = 1 => ~ (gb <= Arrived /\ Arrived < ge /\ Arrived - gs >= ge - gb)
    BY <1>9, <2>2 DEF Whole
  <2>6. /\ prefix.result = "Success" /\ v = ge - gb /\ v <= MaxReadSize /\ m = gb - gs
        /\ m \in 0 .. size
    <3>1. gb <= c + size
      <4> HIDE DEF gs, gb
      <4> QED BY <1>3, <1>12, <2>3, <2>4
    <3> QED BY <1>d, <2>3, <3>1 DEF size, FindsPrefix, prefix
  <2>7. f.result = "Success" /\ f.length = v /\ f.rest = Drop(b, m)
    <3> HIDE DEF v, m
    <3>1. ~ (v > MaxReadSize)
      <4>1. v \in Int
        <5> HIDE DEF gb, ge
        <5> QED BY <2>3, <2>6
      <4> QED BY <1>6, <2>6, <4>1
    <3> QED BY <1>7, <1>12, <2>6, <3>1 DEF v, m
  <2>8. c + m = gb
    <3> HIDE DEF gs, gb, m
    <3> QED BY <1>3, <2>3, <2>6
  <2>9. n = 1 /\ v <= size => v <= size - m
    <3> HIDE DEF gs, gb, ge, v, m
    <3> QED BY <1>3, <2>3, <2>4, <2>5, <2>6
  <2>10. NextFrame(f, b, c, g, p, n) BY <1>b, <2>2, <2>6, <2>7, <2>8, <2>9
  <2> QED BY <2>2, <2>10 DEF f, b, c, n
<1> QED BY <1>10, <1>11, <1>12

(* The invariant after a call of Read, put together from its parts. *)
LEMMA InOrderNext ==
  ASSUME UNCHANGED <<pipes, sent, frames>>,
         NEW i, at' = i, NEW bs, buffers' = bs, NEW ls, nextReadFrameLength' = ls,
         NEW h, handled' = h, NEW c, Consumed' = c, status' \in {"open", "handler"},
         Inner(i, bs, ls, PacketPipe),
         NEW k \in 0 .. Len(sent), Place(frames, ls[1], c, k, Len(sent)),
         Carried(sent, h, i, bs, PacketPipe, k)
  PROVE  InOrder'
<1>1. PacketPipe' = PacketPipe BY DEF PacketPipe
<1> QED BY <1>1 DEF InOrder

(* What holds before a call of Read of the first pipe. *)
LEMMA FirstPipeBefore ==
  ASSUME IInv, Undisturbed, at = 1
  PROVE  /\ status \in {"open", "handler"}
         /\ \A x \in 2 .. PacketPipe : nextReadFrameLength[x] = 0 /\ buffers[x] = <<>>
         /\ \E k \in 0 .. Len(sent) :
              /\ handled = NonEmpty(Take(sent, k))
              /\ Place(frames, nextReadFrameLength[1], Consumed, k, Len(sent))
              /\ \/ /\ buffers[1] = <<>> /\ nextReadFrameLength[1] = 0
                    /\ FrameStart(1).result = "IncompleteVarIntErrorable"
                    /\ FrameStart(1).rest = <<>>
                 \/ /\ k < Len(sent)
                    /\ NextFrame(FrameStart(1), buffers[1], Consumed, frames[k + 1],
                                 sent[k + 1], PacketPipe)
<1>1. InOrder BY DEF IInv, ReadInv
<1>2. PacketPipe \in Nat BY StateTypes DEF IInv
<1>3. \A x \in 2 .. PacketPipe : nextReadFrameLength[x] = 0 /\ buffers[x] = <<>>
  <2>1. \A x \in 2 .. PacketPipe : x # 1 BY <1>2
  <2> QED BY <1>1, <2>1 DEF InOrder, Inner
<1>4. PICK k \in 0 .. Len(sent) :
               /\ Place(frames, nextReadFrameLength[1], Consumed, k, Len(sent))
               /\ Carried(sent, handled, at, buffers, PacketPipe, k)
  BY <1>1 DEF InOrder
<1>5. handled = NonEmpty(Take(sent, k)) BY <1>4 DEF Carried
<1> QED BY <1>1, <1>3, <1>4, <1>5, FirstPipe DEF InOrder

(* The next frame, when its prefix or all of it is consumed. *)
LEMMA AfterFrame ==
  ASSUME IInv, Undisturbed, NEW k \in 0 .. Len(sent), k < Len(sent),
         NEW f, NextFrame(f, buffers[1], Consumed, frames[k + 1], sent[k + 1], PacketPipe),
         UNCHANGED <<pipes, peerVars, cuts>>
  PROVE  /\ k + 1 \in 0 .. Len(sent) /\ k + 1 >= 1 /\ k + 1 - 1 = k
         /\ sent[k + 1] \in Seq(Byte)
         /\ f.length \in Nat /\ Len(f.rest) \in Nat
         /\ buffers'[1] = f.rest =>
              /\ f.length # 0 => Place(frames, f.length, Consumed', k, Len(sent))
              /\ f.length = 0 => Place(frames, 0, Consumed', k + 1, Len(sent))
         /\ f.length <= Len(f.rest) /\ buffers'[1] = Drop(f.rest, f.length) =>
              Place(frames, 0, Consumed', k + 1, Len(sent))
<1> DEFINE b == buffers[1]
           g == frames[k + 1]
           gb == g.body
           ge == g.end
           l == f.length
           rest == f.rest
<1>1. TypeOK /\ ChainInv /\ StreamInv /\ conforming BY DEF IInv, Undisturbed
<1>2. /\ sent \in Seq(Seq(Byte)) /\ frames \in Seq(FrameRecord) /\ b \in Seq(Byte)
      /\ PacketPipe \in Nat \ {0} /\ Len(b) \in Nat /\ Consumed \in Nat
  BY <1>1, StateTypes, Positions
<1>3. Chained(frames, sent, PacketPipe) BY <1>1 DEF ChainInv
<1>4. Len(sent) \in Nat BY <1>2, LenProperties
<1>5. k \in Nat /\ k + 1 \in 1 .. Len(sent) /\ k + 1 \in 0 .. Len(sent) /\ k + 1 - 1 = k
      /\ k + 1 >= 1
  BY <1>4
<1>6. \A j \in 1 .. Len(sent) :
        /\ sent[j] \in Seq(Byte)
        /\ frames[j].body \in Nat /\ frames[j].end \in Nat
        /\ frames[j].end = EndOf(frames, j) /\ frames[j].body <= frames[j].end
  BY <1>2, <1>3, ChainTypes
<1>7. /\ sent[k + 1] \in Seq(Byte) /\ gb \in Nat /\ ge \in Nat
      /\ ge = EndOf(frames, k + 1) /\ gb <= ge
  BY <1>5, <1>6
<1>8. PICK m \in 0 .. Len(b) : rest = Drop(b, m) /\ Consumed + m = gb BY DEF NextFrame
<1>9. l = ge - gb BY DEF NextFrame
<1>10. l \in Nat
  <2> HIDE DEF l, ge, gb
  <2> QED BY <1>7, <1>9
<1>11. rest \in Seq(Byte) /\ Len(rest) = Len(b) - m /\ Len(rest) \in Nat
  <2>1. rest \in Seq(Byte) /\ Len(rest) = Len(b) - m BY <1>2, <1>8, DropProperties
  <2> QED BY <2>1, LenProperties
<1> HIDE DEF gb, ge, l, rest, b
<1>12. ASSUME buffers'[1] = rest PROVE Consumed' = gb
  <2>1. buffers'[1] = Drop(buffers[1], m) /\ m \in 0 .. Len(buffers[1])
    BY <1>8, <1>12 DEF b
  <2>2. Consumed' = Consumed + m BY <2>1, Consumes
  <2> QED BY <1>8, <2>2
<1>13. ASSUME l <= Len(rest), buffers'[1] = Drop(rest, l) PROVE Consumed' = ge
  <2>1. l \in 0 .. Len(b) - m BY <1>10, <1>11, <1>13
  <2>2. Drop(Drop(b, m), l) = Drop(b, m + l) /\ m + l \in 0 .. Len(b)
    BY <1>2, <2>1, DropTwice
  <2>3. buffers'[1] = Drop(buffers[1], m + l) /\ m + l \in 0 .. Len(buffers[1])
    BY <1>8, <1>13, <2>2 DEF b
  <2>4. Consumed' = Consumed + (m + l) BY <2>3, Consumes
  <2>5. m \in Nat /\ Consumed \in Nat BY <1>2
  <2>6. gb \in Nat /\ ge \in Nat /\ Consumed + m = gb BY <1>7, <1>8
  <2> DEFINE c == Consumed
             d == Consumed'
  <2>7. d = c + (m + l) /\ c \in Nat /\ c + m = gb BY <2>4, <2>5, <2>6
  <2> HIDE DEF c, d
  <2>8. d = ge BY <1>9, <1>10, <2>5, <2>6, <2>7
  <2> QED BY <2>8 DEF d
<1>14. ASSUME buffers'[1] = rest, l # 0 PROVE Place(frames, l, Consumed', k, Len(sent))
  BY <1>9, <1>12, <1>14 DEF Place, gb, ge
<1>15. ASSUME buffers'[1] = rest, l = 0 PROVE Place(frames, 0, Consumed', k + 1, Len(sent))
  <2>1. gb = ge BY <1>7, <1>9, <1>15
  <2> QED BY <1>7, <1>12, <1>15, <2>1 DEF Place
<1>16. ASSUME l <= Len(rest), buffers'[1] = Drop(rest, l)
       PROVE  Place(frames, 0, Consumed', k + 1, Len(sent))
  BY <1>7, <1>13, <1>16 DEF Place
<1> QED BY <1>5, <1>7, <1>10, <1>11, <1>14, <1>15, <1>16 DEF l, rest

(* The first pipe's empty buffer. *)
LEMMA AfterNothing ==
  ASSUME IInv, buffers'[1] = buffers[1], UNCHANGED <<pipes, peerVars, cuts>>
  PROVE  Consumed' = Consumed
<1>1. TypeOK /\ StreamInv BY DEF IInv
<1>2. buffers[1] \in Seq(Byte) /\ Len(buffers[1]) \in Nat /\ Consumed \in Nat
  BY <1>1, StateTypes, Positions
<1>3. buffers'[1] = Drop(buffers[1], 0) BY <1>2, DropNone
<1>4. 0 \in 0 .. Len(buffers[1]) BY <1>2
<1>5. Consumed' = Consumed + 0 BY <1>3, <1>4, Consumes
<1> QED BY <1>2, <1>5

(* The first pipe is a byte pipe. *)
LEMMA FirstByteRead ==
  ASSUME IInv, Undisturbed, at = 1, pipes >= 1,
         ByteReadFails \/ ByteReadWaits \/ ByteReadDecodes
  PROVE  InOrder'
<1> DEFINE b == buffers[1]
           f == FrameStart(1)
           n == PacketPipe
           ls == nextReadFrameLength
           N == 1 .. MaxPipes + 1
<1>1. TypeOK BY DEF IInv
<1>2. /\ n \in Nat /\ n = pipes + 1 /\ n <= MaxPipes + 1 /\ MaxPipes \in Nat
      /\ b \in Seq(Byte) /\ sent \in Seq(Seq(Byte))
  BY <1>1, StateTypes, FramedPipesAssumption
<1>3. /\ buffers \in [N -> Seq(Byte)] /\ ls \in [N -> 0 .. MaxReadSize] /\ pipes \in Nat
  BY <1>1, <1>2 DEF TypeOK
<1>4. 1 \in N /\ 2 \in N /\ 2 \in 2 .. n /\ 2 .. n \subseteq N BY <1>2, <1>3
<1>5. status \in {"open", "handler"} /\ \A x \in 2 .. n : ls[x] = 0 /\ buffers[x] = <<>>
  BY FirstPipeBefore
<1>6. PICK k \in 0 .. Len(sent) :
               /\ handled = NonEmpty(Take(sent, k))
               /\ Place(frames, ls[1], Consumed, k, Len(sent))
               /\ \/ /\ b = <<>> /\ ls[1] = 0
                     /\ f.result = "IncompleteVarIntErrorable"
                     /\ f.rest = <<>>
                  \/ /\ k < Len(sent)
                     /\ NextFrame(f, b, Consumed, frames[k + 1], sent[k + 1], n)
  BY FirstPipeBefore
<1> HIDE DEF n
<1>7. CASE ByteReadFails
  <2>1. /\ f.result # "Success" /\ buffers' = [buffers EXCEPT ![1] = f.rest] /\ at' = 2
        /\ UNCHANGED <<pipes, peerVars, nextReadFrameLength, handled, status, cuts>>
    BY <1>7 DEF ByteReadFails
  <2>2. UNCHANGED <<pipes, sent, frames, handled, status>> /\ ls' = ls BY <2>1 DEF peerVars
  <2>3. b = <<>> /\ f.rest = <<>> BY <1>6, <2>1 DEF NextFrame
  <2>4. buffers' = buffers BY <1>3, <1>4, <2>1, <2>3
  <2>5. Consumed' = Consumed BY <2>1, <2>4, AfterNothing
  <2>6. Inner(2, buffers, ls, n) BY <1>5 DEF Inner
  <2>7. Carried(sent, handled, 2, buffers, n, k) BY <1>4, <1>5, <1>6 DEF Carried
  <2> QED BY <1>5, <1>6, <2>1, <2>2, <2>4, <2>5, <2>6, <2>7, InOrderNext DEF n
<1>8. CASE ByteReadWaits
  <2> DEFINE cs == [buffers EXCEPT ![1] = f.rest]
             ms == [ls EXCEPT ![1] = f.length]
  <2>1. /\ f.result = "Success" /\ Len(f.rest) < f.length /\ at' = 2
        /\ buffers' = cs /\ ls' = ms
        /\ UNCHANGED <<pipes, peerVars, handled, status, cuts>>
    BY <1>8 DEF ByteReadWaits
  <2>2. UNCHANGED <<pipes, sent, frames, handled, status>> BY <2>1 DEF peerVars
  <2>3. k < Len(sent) /\ NextFrame(f, b, Consumed, frames[k + 1], sent[k + 1], n)
    BY <1>6, <2>1
  <2>4. /\ cs[1] = f.rest /\ \A x \in 2 .. n : cs[x] = buffers[x]
        /\ ms[1] = f.length /\ \A x \in 2 .. n : ms[x] = ls[x]
    <3>1. \A x \in 2 .. n : x # 1 BY <1>2 DEF n
    <3> QED BY <1>3, <1>4, <3>1
  <2> HIDE DEF cs, ms, f
  <2>5. buffers'[1] = f.rest BY <2>1, <2>4
  <2>6. /\ f.length \in Nat /\ Len(f.rest) \in Nat
        /\ f.length # 0 => Place(frames, f.length, Consumed', k, Len(sent))
    BY <2>1, <2>3, <2>5, AfterFrame DEF n
  <2>7. Place(frames, ms[1], Consumed', k, Len(sent)) BY <2>1, <2>4, <2>6
  <2>8. Inner(2, cs, ms, n) BY <1>5, <2>4 DEF Inner
  <2>9. Carried(sent, handled, 2, cs, n, k) BY <1>4, <1>5, <1>6, <2>4 DEF Carried
  <2> QED BY <1>5, <2>1, <2>2, <2>7, <2>8, <2>9, InOrderNext DEF n
<1>9. CASE ByteReadDecodes
  <2> DEFINE t == Take(f.rest, f.length)
             d == Drop(f.rest, f.length)
             cs == [buffers EXCEPT ![1] = d, ![2] = @ \o t]
             ms == [ls EXCEPT ![1] = 0]
  <2>1. /\ f.result = "Success" /\ Len(f.rest) >= f.length /\ at' = 2
        /\ buffers' = cs /\ ls' = ms
        /\ UNCHANGED <<pipes, peerVars, handled, status, cuts>>
    BY <1>9 DEF ByteReadDecodes
  <2>2. UNCHANGED <<pipes, sent, frames, handled, status>> BY <2>1 DEF peerVars
  <2>3. k < Len(sent) /\ NextFrame(f, b, Consumed, frames[k + 1], sent[k + 1], n)
    BY <1>6, <2>1
  <2>4. /\ cs[1] = d /\ cs[2] = buffers[2] \o t /\ \A x \in 2 .. n : x # 2 => cs[x] = buffers[x]
        /\ ms[1] = 0 /\ \A x \in 2 .. n : ms[x] = ls[x]
    <3>1. \A x \in 2 .. n : x # 1 BY <1>2 DEF n
    <3> HIDE DEF t, d
    <3> QED BY <1>3, <1>4, <3>1
  <2> HIDE DEF cs, ms, f, d, t
  <2>5. buffers'[1] = Drop(f.rest, f.length) BY <2>1, <2>4 DEF d
  <2>6. /\ f.length \in Nat /\ Len(f.rest) \in Nat
        /\ k + 1 \in 0 .. Len(sent) /\ k + 1 >= 1 /\ k + 1 - 1 = k
        /\ f.length <= Len(f.rest) => Place(frames, 0, Consumed', k + 1, Len(sent))
    BY <2>1, <2>3, <2>5, AfterFrame DEF n
  <2>7. Place(frames, ms[1], Consumed', k + 1, Len(sent)) BY <2>1, <2>4, <2>6
  <2>8. Inner(2, cs, ms, n) BY <1>5, <2>4 DEF Inner
  <2>9. cs[2] = Wrapped(sent[k + 1], 2, n)
    <3>1. t = Wrapped(sent[k + 1], 2, n) BY <2>1, <2>3, <2>6 DEF NextFrame, t
    <3>2. f.rest \in Seq(Byte) /\ f.length \in 0 .. Len(f.rest)
      <4>1. f.rest \in Seq(Byte) BY <2>3 DEF NextFrame
      <4> QED BY <2>1, <2>6, <4>1
    <3>3. t \in Seq(Byte) BY <3>2, TakeProperties DEF t
    <3>4. buffers[2] = <<>> BY <1>4, <1>5
    <3>5. <<>> \o t = t BY <3>3, ConcatEmptySeq
    <3> QED BY <2>4, <3>1, <3>4, <3>5
  <2>10. Carried(sent, handled, 2, cs, n, k + 1) BY <1>6, <2>6, <2>9 DEF Carried
  <2> QED BY <1>5, <2>1, <2>2, <2>6, <2>7, <2>8, <2>10, InOrderNext DEF n
<1> QED BY <1>7, <1>8, <1>9

(* The first pipe is the packet pipe. *)
LEMMA FirstPacketRead ==
  ASSUME IInv, Undisturbed, at = 1, pipes = 0,
         \/ PacketReadInvalid \/ PacketReadWaits \/ ReadPacketFails
         \/ \E success \in BOOLEAN : ReadPacketSucceeds(success)
  PROVE  InOrder'
<1> DEFINE b == buffers[1]
           f == FrameStart(1)
           n == PacketPipe
           ls == nextReadFrameLength
           N == 1 .. MaxPipes + 1
<1>1. TypeOK BY DEF IInv
<1>2. /\ n = 1 /\ MaxPipes \in Nat /\ b \in Seq(Byte) /\ Len(b) \in Nat
      /\ sent \in Seq(Seq(Byte))
  BY <1>1, StateTypes, FramedPipesAssumption
<1>3. buffers \in [N -> Seq(Byte)] /\ ls \in [N -> 0 .. MaxReadSize] BY <1>1 DEF TypeOK
<1>4. 1 \in N BY <1>2
<1>5. status \in {"open", "handler"} BY FirstPipeBefore
<1>6. PICK k \in 0 .. Len(sent) :
               /\ handled = NonEmpty(Take(sent, k))
               /\ Place(frames, ls[1], Consumed, k, Len(sent))
               /\ \/ /\ b = <<>> /\ ls[1] = 0
                     /\ f.result = "IncompleteVarIntErrorable"
                     /\ f.rest = <<>>
                  \/ /\ k < Len(sent)
                     /\ NextFrame(f, b, Consumed, frames[k + 1], sent[k + 1], n)
  BY FirstPipeBefore
<1>7. \A bs, ms : Inner(0, bs, ms, n)
  <2>1. 2 .. n = {} BY <1>2
  <2> QED BY <2>1 DEF Inner
<1>c. CallsReadPacket(f) <=> f.result = "Success" /\ f.length # 0 /\ Len(b) >= f.length
  BY DEF CallsReadPacket
<1>o. ASSUME k < Len(sent) PROVE Wrapped(sent[k + 1], 2, n) = sent[k + 1]
  <2> DEFINE p == sent[k + 1]
  <2>1. p \in Seq(Byte)
    <3>1. Len(sent) \in Nat BY <1>2, LenProperties
    <3>2. k \in Nat /\ k + 1 <= Len(sent) BY <1>o, <3>1
    <3> QED BY <1>2, <3>2, TakeOneMore
  <2> HIDE DEF p, n
  <2>2. n \in Nat /\ n + 1 = 2 BY <1>2
  <2>3. Wrapped(p, n + 1, n) = p BY <2>1, <2>2, WrappedSteps
  <2> QED BY <2>2, <2>3 DEF p
<1>t. ASSUME k < Len(sent)
      PROVE  /\ handled \in Seq(Seq(Byte))
             /\ NonEmpty(Take(sent, k + 1)) =
                  IF sent[k + 1] = <<>> THEN handled ELSE Append(handled, sent[k + 1])
  <2>1. k \in Nat /\ k + 1 <= Len(sent) /\ k \in 0 .. Len(sent)
    <3>1. Len(sent) \in Nat BY <1>2, LenProperties
    <3> QED BY <1>t, <3>1
  <2>2. sent[k + 1] \in Seq(Byte) /\ Take(sent, k + 1) = Append(Take(sent, k), sent[k + 1])
    BY <1>2, <2>1, TakeOneMore
  <2>3. Take(sent, k) \in Seq(Seq(Byte)) BY <1>2, <2>1, TakeProperties
  <2> QED BY <1>6, <2>2, <2>3, NonEmptyAppend
<1> HIDE DEF n
<1>8. ~ PacketReadInvalid
  <2> SUFFICES ASSUME PacketReadInvalid PROVE FALSE OBVIOUS
  <2>1. f.result \in {"TooLong", "InvalidVarIntErrorable"} BY DEF PacketReadInvalid
  <2> QED BY <1>6, <2>1 DEF NextFrame
<1>9. CASE PacketReadWaits
  <2> DEFINE cs == [buffers EXCEPT ![1] = f.rest]
             l == IF f.result = "Success" THEN f.length ELSE 0
             ms == [ls EXCEPT ![1] = l]
  <2>1. /\ ~ CallsReadPacket(f) /\ at' = 0 /\ buffers' = cs /\ ls' = ms
        /\ UNCHANGED <<pipes, peerVars, handled, status, cuts>>
    BY <1>9 DEF PacketReadWaits
  <2>2. UNCHANGED <<pipes, sent, frames, handled, status>> BY <2>1 DEF peerVars
  <2>3. cs[1] = f.rest /\ ms[1] = l BY <1>3, <1>4
  <2>e. \A i \in 0 .. Len(sent) :
          handled = NonEmpty(Take(sent, i)) => Carried(sent, handled, 0, cs, n, i)
    BY DEF Carried
  <2> HIDE DEF cs, ms, f
  <2>4. buffers'[1] = f.rest BY <2>1, <2>3
  <2>5. CASE k < Len(sent) /\ NextFrame(f, b, Consumed, frames[k + 1], sent[k + 1], n)
    <3>1. l = f.length BY <2>5 DEF NextFrame
    <3>2. /\ f.length \in Nat /\ Len(f.rest) \in Nat /\ k + 1 \in 0 .. Len(sent)
          /\ f.length # 0 => Place(frames, f.length, Consumed', k, Len(sent))
          /\ f.length = 0 => Place(frames, 0, Consumed', k + 1, Len(sent))
      BY <2>1, <2>4, <2>5, AfterFrame DEF n
    <3>3. CASE f.length # 0
      <4>1. Place(frames, ms[1], Consumed', k, Len(sent)) BY <2>3, <3>1, <3>2, <3>3
      <4> QED BY <1>5, <1>6, <1>7, <2>1, <2>2, <2>e, <4>1, InOrderNext DEF n
    <3>4. CASE f.length = 0
      <4>1. Place(frames, ms[1], Consumed', k + 1, Len(sent)) BY <2>3, <3>1, <3>2, <3>4
      <4>2. sent[k + 1] = <<>>
        <5>1. Take(f.rest, 0) = sent[k + 1]
          BY <1>o, <2>5, <3>2, <3>4 DEF NextFrame
        <5>2. f.rest \in Seq(Byte) BY <2>5 DEF NextFrame
        <5>3. 0 \in 0 .. Len(f.rest) BY <3>2
        <5>4. Take(f.rest, 0) \in Seq(Byte) /\ Len(Take(f.rest, 0)) = 0
          BY <5>2, <5>3, TakeProperties
        <5> QED BY <5>1, <5>4, EmptySeq
      <4>3. handled = NonEmpty(Take(sent, k + 1)) BY <1>t, <2>5, <4>2
      <4> QED BY <1>5, <1>7, <2>1, <2>2, <2>e, <3>2, <4>1, <4>3, InOrderNext DEF n
    <3> QED BY <3>3, <3>4
  <2>6. CASE b = <<>> /\ ls[1] = 0 /\ f.result = "IncompleteVarIntErrorable" /\ f.rest = <<>>
    <3>1. buffers'[1] = buffers[1] BY <2>4, <2>6
    <3>2. Consumed' = Consumed BY <2>1, <3>1, AfterNothing
    <3>3. Place(frames, ms[1], Consumed', k, Len(sent)) BY <1>6, <2>3, <2>6, <3>2
    <3> QED BY <1>5, <1>6, <1>7, <2>1, <2>2, <2>e, <3>3, InOrderNext DEF n
  <2> QED BY <1>6, <2>5, <2>6
<1>a. ASSUME CallsReadPacket(f)
      PROVE  /\ k < Len(sent) /\ NextFrame(f, b, Consumed, frames[k + 1], sent[k + 1], n)
             /\ f.length # 0 /\ f.length \in Nat /\ Len(f.rest) \in Nat
             /\ f.length <= Len(f.rest)
  <2>1. f.result = "Success" /\ f.length # 0 /\ Len(b) >= f.length BY <1>a, <1>c
  <2>2. k < Len(sent) /\ NextFrame(f, b, Consumed, frames[k + 1], sent[k + 1], n)
    BY <1>6, <2>1
  <2>3. f.length \in 0 .. MaxReadSize /\ f.rest \in Seq(Byte) BY <2>2 DEF NextFrame
  <2>4. f.length \in Nat /\ Len(f.rest) \in Nat
    BY <2>3, LenProperties, FramedPipesAssumption
  <2>5. f.length <= Len(f.rest) BY <1>2, <2>1, <2>2, <2>4 DEF NextFrame, n
  <2> QED BY <2>1, <2>2, <2>4, <2>5
<1>10. ~ ReadPacketFails
  <2> SUFFICES ASSUME ReadPacketFails PROVE FALSE OBVIOUS
  <2>1. CallsReadPacket(f) /\ Len(f.rest) < f.length BY DEF ReadPacketFails
  <2> QED BY <1>a, <2>1
<1>11. ASSUME NEW success \in BOOLEAN, ReadPacketSucceeds(success) PROVE InOrder'
  <2> DEFINE t == Take(f.rest, f.length)
             cs == [buffers EXCEPT ![1] = Drop(f.rest, f.length)]
             ms == [ls EXCEPT ![1] = 0]
  <2>1. /\ CallsReadPacket(f) /\ at' = 0 /\ buffers' = cs /\ ls' = ms
        /\ handled' = Append(handled, t) /\ status' \in {status, "handler"}
        /\ UNCHANGED <<pipes, peerVars, cuts>>
    BY <1>11 DEF ReadPacketSucceeds, Close
  <2>2. UNCHANGED <<pipes, sent, frames>> BY <2>1 DEF peerVars
  <2>3. cs[1] = Drop(f.rest, f.length) /\ ms[1] = 0 BY <1>3, <1>4
  <2>4. /\ k < Len(sent) /\ NextFrame(f, b, Consumed, frames[k + 1], sent[k + 1], n)
        /\ f.length # 0 /\ f.length \in Nat /\ Len(f.rest) \in Nat
        /\ f.length <= Len(f.rest)
    BY <1>a, <2>1
  <2> HIDE DEF cs, ms, f
  <2>5. /\ k + 1 \in 0 .. Len(sent)
        /\ Place(frames, 0, Consumed', k + 1, Len(sent))
    BY <2>1, <2>3, <2>4, AfterFrame DEF n
  <2>6. t = sent[k + 1] BY <1>o, <2>4 DEF NextFrame
  <2>7. sent[k + 1] # <<>>
    <3>1. f.rest \in Seq(Byte) /\ f.length \in 0 .. Len(f.rest)
      BY <2>4 DEF NextFrame
    <3>2. Len(t) = f.length BY <3>1, TakeProperties
    <3>3. Len(t) # 0 BY <2>4, <3>2
    <3> QED BY <2>6, <3>3, EmptySeq
  <2>8. Append(handled, t) = NonEmpty(Take(sent, k + 1)) BY <1>t, <2>4, <2>6, <2>7
  <2>9. Carried(sent, Append(handled, t), 0, cs, n, k + 1) BY <2>8 DEF Carried
  <2>10. Place(frames, ms[1], Consumed', k + 1, Len(sent)) BY <2>3, <2>5
  <2>11. status' \in {"open", "handler"} BY <1>5, <2>1
  <2> QED BY <1>7, <2>1, <2>2, <2>5, <2>9, <2>10, <2>11, InOrderNext DEF n
<1> QED BY <1>8, <1>9, <1>10, <1>11

(* A pipe behind another pipe: its buffer is empty, or a whole frame.       *)
LEMMA InnerPipeEmpty ==
  ASSUME NEW i, nextReadFrameLength[i] = 0, buffers[i] = <<>>
  PROVE  FrameStart(i).result = "IncompleteVarIntErrorable" /\ FrameStart(i).rest = <<>>
<1> DEFINE prefix == ReadVarInt(buffers[i])
<1>1. buffers[i] \in Seq(Byte) /\ Len(buffers[i]) = 0 BY EmptySeq
<1>2. prefix.result = "IncompleteVarIntErrorable" /\ prefix.size = 0
  BY <1>1, ReadVarIntEmpty
<1>3. Drop(buffers[i], 0) = buffers[i] BY <1>1, DropNone
<1>4. FrameStart(i) =
        [result |-> IF prefix.result = "Success" /\ prefix.value > MaxReadSize
                    THEN "TooLong" ELSE prefix.result,
         length |-> prefix.value, rest |-> Drop(buffers[i], prefix.size)]
  BY DEF FrameStart
<1> HIDE DEF prefix
<1> QED BY <1>2, <1>3, <1>4

LEMMA InnerPipeFull ==
  ASSUME NEW n \in Nat, NEW i \in 1 .. n, NEW p \in Seq(Byte),
         Len(Wrapped(p, 2, n)) <= MaxReadSize,
         nextReadFrameLength[i] = 0, buffers[i] = Wrapped(p, i, n)
  PROVE  LET r == Wrapped(p, i + 1, n) IN
         /\ r \in Seq(Byte)
         /\ FrameStart(i).result = "Success"
         /\ FrameStart(i).length = Len(r) /\ FrameStart(i).rest = r
         /\ Len(r) \in 0 .. MaxReadSize /\ Len(buffers[i]) >= Len(r)
         /\ Take(r, Len(r)) = r /\ Drop(r, Len(r)) = <<>>
<1> DEFINE r == Wrapped(p, i + 1, n)
           size == Len(r)
           w == WriteVarInt[size]
           b == buffers[i]
           prefix == ReadVarInt(b)
<1>1. i \in Nat /\ i + 1 \in 2 .. n + 1 /\ i + 1 \in 1 .. n + 1 OBVIOUS
<1>2. r \in Seq(Byte) /\ b = w \o r BY <1>1, WrappedSteps
<1>3. size <= Len(Wrapped(p, 2, n)) BY <1>1, WrappedShorter
<1>4. size \in Nat /\ MaxReadSize \in Nat BY <1>2, LenProperties, FramedPipesAssumption
<1>5. size <= MaxReadSize
  <2> DEFINE l == Len(Wrapped(p, 2, n))
  <2>1. l \in Nat
    <3>1. 2 \in 1 .. n + 1 BY <1>1
    <3> QED BY <3>1, WrappedSteps, LenProperties
  <2>2. size <= l /\ l <= MaxReadSize BY <1>3
  <2> HIDE DEF size, l
  <2> QED BY <1>4, <2>1, <2>2
<1> HIDE DEF r, size, b
<1>6. w \in Seq(Byte) /\ Len(w) \in Nat BY <1>4, WriteVarIntSteps
<1>7. size < Modulus /\ Len(w) <= MaxGroups
  <2>1. Modulus \in Nat /\ MaxGroups \in Nat BY VarIntAssumption
  <2>2. Len(w) <= Len(WriteVarInt[MaxReadSize]) BY <1>4, <1>5, WriteVarIntMonotonic
  <2>3. Len(WriteVarInt[MaxReadSize]) \in Nat BY <1>4, WriteVarIntSteps
  <2>4. MaxReadSize < Modulus /\ Len(WriteVarInt[MaxReadSize]) <= MaxGroups
    BY PrefixAssumption
  <2> DEFINE x == Len(w)
             y == Len(WriteVarInt[MaxReadSize])
  <2>5. x \in Nat /\ y \in Nat /\ x <= y /\ y <= MaxGroups BY <1>6, <2>2, <2>3, <2>4
  <2> HIDE DEF x, y
  <2>6. x <= MaxGroups BY <2>1, <2>5
  <2>7. size < Modulus BY <1>4, <1>5, <2>1, <2>4
  <2> QED BY <2>6, <2>7 DEF x
<1>8. /\ b \in Seq(Byte) /\ Len(b) = Len(w) + size
      /\ \A x \in 1 .. Len(w) : b[x] = w[x]
  <2> DEFINE c == w \o r
  <2>1. /\ c \in Seq(Byte) /\ Len(c) = Len(w) + Len(r)
        /\ \A x \in 1 .. Len(w) + Len(r) : c[x] = IF x <= Len(w) THEN w[x] ELSE r[x - Len(w)]
    BY <1>2, <1>6, ConcatProperties
  <2> HIDE DEF c, w
  <2>2. \A x \in 1 .. Len(w) : c[x] = w[x] BY <1>4, <1>6, <2>1 DEF size
  <2> QED BY <1>2, <2>1, <2>2 DEF c, size
<1> HIDE DEF w
<1>9. Len(w) <= Len(b) BY <1>4, <1>6, <1>8
<1>10. prefix.result = "Success" /\ prefix.value = size /\ prefix.size = Len(w)
  BY <1>4, <1>7, <1>8, <1>9, ReadVarIntWritten DEF w
<1>11. Drop(b, Len(w)) = r
  <2>1. Drop(w, Len(w)) = <<>> BY <1>6, DropAll
  <2>2. Len(w) \in 0 .. Len(w) BY <1>6
  <2>3. Drop(w, Len(w)) \o r = Drop(w \o r, Len(w)) BY <1>2, <1>6, <2>2, DropConcat
  <2>4. <<>> \o r = r BY <1>2, ConcatEmptySeq
  <2> QED BY <1>2, <2>1, <2>3, <2>4
<1>12. FrameStart(i) =
         [result |-> IF prefix.result = "Success" /\ prefix.value > MaxReadSize
                     THEN "TooLong" ELSE prefix.result,
          length |-> prefix.value, rest |-> Drop(b, prefix.size)]
  BY DEF FrameStart, b
<1> HIDE DEF prefix
<1>13. ~ (size > MaxReadSize) BY <1>4, <1>5
<1>14. /\ FrameStart(i).result = "Success" /\ FrameStart(i).length = size
       /\ FrameStart(i).rest = r
  BY <1>10, <1>11, <1>12, <1>13
<1>15. size \in 0 .. MaxReadSize BY <1>4, <1>5
<1>16. Len(b) >= size BY <1>4, <1>6, <1>8
<1>17. Take(r, size) = r /\ Drop(r, size) = <<>> BY <1>2, TakeAll, DropAll DEF size
<1> QED BY <1>2, <1>14, <1>15, <1>16, <1>17 DEF r, size, b

(* What holds before a call of Read of a pipe behind another.               *)
LEMMA InnerPipeBefore ==
  ASSUME IInv, Undisturbed, at \in 2 .. PacketPipe
  PROVE  /\ status \in {"open", "handler"}
         /\ \A x \in 2 .. PacketPipe :
              nextReadFrameLength[x] = 0 /\ (x # at => buffers[x] = <<>>)
         /\ \E k \in 0 .. Len(sent) :
              /\ Place(frames, nextReadFrameLength[1], Consumed, k, Len(sent))
              /\ \/ /\ handled = NonEmpty(Take(sent, k)) /\ buffers[at] = <<>>
                    /\ FrameStart(at).result = "IncompleteVarIntErrorable"
                    /\ FrameStart(at).rest = <<>>
                 \/ LET r == Wrapped(sent[k], at + 1, PacketPipe) IN
                    /\ k >= 1 /\ handled = NonEmpty(Take(sent, k - 1))
                    /\ r \in Seq(Byte)
                    /\ FrameStart(at).result = "Success"
                    /\ FrameStart(at).length = Len(r) /\ FrameStart(at).rest = r
                    /\ Len(r) \in 0 .. MaxReadSize /\ Len(buffers[at]) >= Len(r)
                    /\ Take(r, Len(r)) = r /\ Drop(r, Len(r)) = <<>>
<1> DEFINE n == PacketPipe
<1>1. TypeOK /\ ChainInv /\ InOrder /\ conforming BY DEF IInv, ReadInv, Undisturbed
<1>2. /\ sent \in Seq(Seq(Byte)) /\ frames \in Seq(FrameRecord) /\ n \in Nat \ {0}
  BY <1>1, StateTypes
<1>3. Chained(frames, sent, n) BY <1>1 DEF ChainInv
<1>4. \A x \in 2 .. n : nextReadFrameLength[x] = 0 /\ (x # at => buffers[x] = <<>>)
  BY <1>1 DEF InOrder, Inner
<1>5. PICK k \in 0 .. Len(sent) :
               /\ Place(frames, nextReadFrameLength[1], Consumed, k, Len(sent))
               /\ Carried(sent, handled, at, buffers, n, k)
  BY <1>1 DEF InOrder
<1> HIDE DEF n
<1>6. at \in 2 .. n /\ at \in 1 .. n /\ ~ (at <= 1) BY <1>2 DEF n
<1>7. CASE handled = NonEmpty(Take(sent, k)) /\ buffers[at] = <<>>
  <2>1. /\ FrameStart(at).result = "IncompleteVarIntErrorable"
        /\ FrameStart(at).rest = <<>>
    BY <1>4, <1>6, <1>7, InnerPipeEmpty
  <2> QED BY <1>1, <1>4, <1>5, <1>7, <2>1 DEF InOrder, n
<1>8. CASE /\ k >= 1 /\ buffers[at] = Wrapped(sent[k], at, n)
           /\ handled = NonEmpty(Take(sent, k - 1))
  <2> DEFINE r == Wrapped(sent[k], at + 1, n)
             p == sent[k]
  <2>1. k \in 1 .. Len(sent)
    <3>1. Len(sent) \in Nat BY <1>2, LenProperties
    <3> QED BY <1>8, <3>1
  <2>2. p \in Seq(Byte) /\ Len(Wrapped(p, 2, n)) <= MaxReadSize
    <3>1. FrameOf(frames[k], p, n) BY <1>3, <2>1 DEF Chained
    <3> QED BY <1>2, <2>1, <3>1, ElementOfSeq DEF FrameOf
  <2>3. n \in Nat /\ nextReadFrameLength[at] = 0 /\ buffers[at] = Wrapped(p, at, n)
    BY <1>2, <1>4, <1>6, <1>8
  <2> HIDE DEF p
  <2>4. LET q == Wrapped(p, at + 1, n) IN
        /\ q \in Seq(Byte)
        /\ FrameStart(at).result = "Success"
        /\ FrameStart(at).length = Len(q) /\ FrameStart(at).rest = q
        /\ Len(q) \in 0 .. MaxReadSize /\ Len(buffers[at]) >= Len(q)
        /\ Take(q, Len(q)) = q /\ Drop(q, Len(q)) = <<>>
    BY <1>6, <2>2, <2>3, InnerPipeFull
  <2>5. /\ r \in Seq(Byte)
        /\ FrameStart(at).result = "Success"
        /\ FrameStart(at).length = Len(r) /\ FrameStart(at).rest = r
        /\ Len(r) \in 0 .. MaxReadSize /\ Len(buffers[at]) >= Len(r)
        /\ Take(r, Len(r)) = r /\ Drop(r, Len(r)) = <<>>
    BY <2>4 DEF p
  <2> HIDE DEF r
  <2> QED BY <1>1, <1>4, <1>5, <1>8, <2>5 DEF InOrder, n, r
<1> QED BY <1>5, <1>6, <1>7, <1>8 DEF Carried

LEMMA InnerByteRead ==
  ASSUME IInv, Undisturbed, at \in 2 .. pipes,
         ByteReadFails \/ ByteReadWaits \/ ByteReadDecodes
  PROVE  InOrder'
<1> DEFINE f == FrameStart(at)
           n == PacketPipe
           ls == nextReadFrameLength
           N == 1 .. MaxPipes + 1
           r(k) == Wrapped(sent[k], at + 1, n)
<1>1. TypeOK BY DEF IInv
<1>2. /\ n \in Nat /\ n = pipes + 1 /\ n <= MaxPipes + 1 /\ MaxPipes \in Nat /\ pipes \in Nat
  BY <1>1, StateTypes, FramedPipesAssumption
<1>3. buffers \in [N -> Seq(Byte)] /\ ls \in [N -> 0 .. MaxReadSize]
  BY <1>1 DEF TypeOK
<1>4. /\ at \in 2 .. n /\ at \in N /\ at + 1 \in 2 .. n /\ at + 1 \in N
      /\ at # 1 /\ at + 1 # 1 /\ at + 1 # at /\ 1 \in N
      /\ ~ (at + 1 <= 1) /\ at + 1 >= 2
  BY <1>2
<1>5. /\ status \in {"open", "handler"}
      /\ \A x \in 2 .. n : ls[x] = 0 /\ (x # at => buffers[x] = <<>>)
  BY <1>4, InnerPipeBefore
<1>6. PICK k \in 0 .. Len(sent) :
               /\ Place(frames, ls[1], Consumed, k, Len(sent))
               /\ \/ /\ handled = NonEmpty(Take(sent, k)) /\ buffers[at] = <<>>
                     /\ f.result = "IncompleteVarIntErrorable"
                     /\ f.rest = <<>>
                  \/ /\ k >= 1 /\ handled = NonEmpty(Take(sent, k - 1))
                     /\ r(k) \in Seq(Byte)
                     /\ f.result = "Success"
                     /\ f.length = Len(r(k)) /\ f.rest = r(k)
                     /\ Len(r(k)) \in 0 .. MaxReadSize /\ Len(buffers[at]) >= Len(r(k))
                     /\ Take(r(k), Len(r(k))) = r(k) /\ Drop(r(k), Len(r(k))) = <<>>
  BY <1>4, InnerPipeBefore
<1> HIDE DEF n, r
<1>7. CASE ByteReadFails
  <2>1. /\ f.result # "Success" /\ buffers' = [buffers EXCEPT ![at] = f.rest] /\ at' = at + 1
        /\ UNCHANGED <<pipes, peerVars, nextReadFrameLength, handled, status, cuts>>
    BY <1>7 DEF ByteReadFails
  <2>2. UNCHANGED <<pipes, sent, frames, handled, status>> /\ ls' = ls BY <2>1 DEF peerVars
  <2>3. handled = NonEmpty(Take(sent, k)) /\ buffers[at] = <<>> /\ f.rest = <<>>
    BY <1>6, <2>1
  <2>4. buffers' = buffers BY <1>3, <1>4, <2>1, <2>3
  <2>5. Consumed' = Consumed BY <2>1, <2>4, AfterNothing
  <2>6. Inner(at + 1, buffers, ls, n) BY <1>5, <2>3 DEF Inner
  <2>7. Carried(sent, handled, at + 1, buffers, n, k) BY <1>4, <1>5, <2>3 DEF Carried
  <2> QED BY <1>5, <1>6, <2>1, <2>2, <2>4, <2>5, <2>6, <2>7, InOrderNext DEF n
<1>8. ~ ByteReadWaits
  <2> SUFFICES ASSUME ByteReadWaits PROVE FALSE OBVIOUS
  <2>1. f.result = "Success" /\ Len(f.rest) < f.length BY DEF ByteReadWaits
  <2> DEFINE x == Len(f.rest)
  <2>2. x = f.length BY <1>6, <2>1
  <2>3. x \in 0 .. MaxReadSize BY <1>6, <2>1
  <2>4. x < x BY <2>1, <2>2
  <2>5. MaxReadSize \in Nat BY FramedPipesAssumption
  <2> HIDE DEF x
  <2> QED BY <2>3, <2>4, <2>5
<1>9. CASE ByteReadDecodes
  <2> DEFINE t == Take(f.rest, f.length)
             d == Drop(f.rest, f.length)
             cs == [buffers EXCEPT ![at] = d, ![at + 1] = @ \o t]
             ms == [ls EXCEPT ![at] = 0]
             q == r(k)
  <2>1. /\ f.result = "Success" /\ at' = at + 1 /\ buffers' = cs /\ ls' = ms
        /\ UNCHANGED <<pipes, peerVars, handled, status, cuts>>
    BY <1>9 DEF ByteReadDecodes
  <2>2. UNCHANGED <<pipes, sent, frames, handled, status>> BY <2>1 DEF peerVars
  <2>3. /\ k >= 1 /\ handled = NonEmpty(Take(sent, k - 1)) /\ q \in Seq(Byte)
        /\ t = q /\ d = <<>>
    BY <1>6, <2>1
  <2> HIDE DEF t, d
  <2>4. cs[at] = d /\ cs[at + 1] = buffers[at + 1] \o t
        /\ \A x \in N : x # at /\ x # at + 1 => cs[x] = buffers[x]
    BY <1>3, <1>4
  <2>5. \A x \in N : ms[x] = IF x = at THEN 0 ELSE ls[x] BY <1>3, <1>4
  <2> HIDE DEF cs, ms, f, q
  <2>6. cs[at + 1] = q
    <3>1. buffers[at + 1] = <<>> BY <1>4, <1>5
    <3>2. <<>> \o q = q BY <2>3, ConcatEmptySeq
    <3> QED BY <2>3, <2>4, <3>1, <3>2
  <2>7. 2 .. n \subseteq N BY <1>2 DEF n
  <2>8. Inner(at + 1, cs, ms, n)
    <3>1. \A x \in 2 .. n : ms[x] = 0 BY <1>5, <2>5, <2>7
    <3>2. \A x \in 2 .. n : x # at + 1 => cs[x] = <<>> BY <1>5, <2>3, <2>4, <2>7
    <3> QED BY <3>1, <3>2 DEF Inner
  <2>9. Carried(sent, handled, at + 1, cs, n, k)
    BY <1>4, <2>3, <2>6 DEF Carried, q, r
  <2>10. buffers'[1] = buffers[1] BY <1>4, <2>1, <2>4
  <2>11. Consumed' = Consumed BY <2>1, <2>10, AfterNothing
  <2>12. ms[1] = ls[1] BY <1>4, <2>5
  <2> QED BY <1>5, <1>6, <2>1, <2>2, <2>8, <2>9, <2>11, <2>12, InOrderNext DEF n
<1> QED BY <1>7, <1>8, <1>9

LEMMA InnerPacketRead ==
  ASSUME IInv, Undisturbed, at >= 2, at = PacketPipe,
         \/ PacketReadInvalid \/ PacketReadWaits \/ ReadPacketFails
         \/ \E success \in BOOLEAN : ReadPacketSucceeds(success)
  PROVE  InOrder'
<1> DEFINE f == FrameStart(at)
           n == PacketPipe
           ls == nextReadFrameLength
           N == 1 .. MaxPipes + 1
           r(k) == Wrapped(sent[k], at + 1, n)
<1>1. TypeOK BY DEF IInv
<1>2. /\ n \in Nat /\ n <= MaxPipes + 1 /\ MaxPipes \in Nat /\ sent \in Seq(Seq(Byte))
  BY <1>1, StateTypes, FramedPipesAssumption
<1>3. buffers \in [N -> Seq(Byte)] /\ ls \in [N -> 0 .. MaxReadSize]
  BY <1>1 DEF TypeOK
<1>4. at \in 2 .. n /\ at \in N /\ at # 1 /\ 1 \in N /\ 2 .. n \subseteq N BY <1>2
<1>5. /\ status \in {"open", "handler"}
      /\ \A x \in 2 .. n : ls[x] = 0 /\ (x # at => buffers[x] = <<>>)
  BY <1>4, InnerPipeBefore
<1>6. PICK k \in 0 .. Len(sent) :
               /\ Place(frames, ls[1], Consumed, k, Len(sent))
               /\ \/ /\ handled = NonEmpty(Take(sent, k)) /\ buffers[at] = <<>>
                     /\ f.result = "IncompleteVarIntErrorable"
                     /\ f.rest = <<>>
                  \/ /\ k >= 1 /\ handled = NonEmpty(Take(sent, k - 1))
                     /\ r(k) \in Seq(Byte)
                     /\ f.result = "Success"
                     /\ f.length = Len(r(k)) /\ f.rest = r(k)
                     /\ Len(r(k)) \in 0 .. MaxReadSize /\ Len(buffers[at]) >= Len(r(k))
                     /\ Take(r(k), Len(r(k))) = r(k) /\ Drop(r(k), Len(r(k))) = <<>>
  BY <1>4, InnerPipeBefore
<1>7. ASSUME k >= 1
      PROVE  /\ r(k) = sent[k] /\ handled = NonEmpty(Take(sent, k - 1)) =>
                  /\ handled \in Seq(Seq(Byte))
                  /\ NonEmpty(Take(sent, k)) =
                       IF sent[k] = <<>> THEN handled ELSE Append(handled, sent[k])
             /\ r(k) = sent[k]
  <2> DEFINE j == k - 1
  <2>1. j \in Nat /\ j + 1 = k /\ j + 1 <= Len(sent) /\ j \in 0 .. Len(sent)
    <3>1. Len(sent) \in Nat BY <1>2, LenProperties
    <3> QED BY <1>7, <3>1
  <2> HIDE DEF j
  <2>2. sent[j + 1] \in Seq(Byte) /\ Take(sent, j + 1) = Append(Take(sent, j), sent[j + 1])
    BY <1>2, <2>1, TakeOneMore
  <2>3. Take(sent, j) \in Seq(Seq(Byte)) BY <1>2, <2>1, TakeProperties
  <2>4. /\ NonEmpty(Take(sent, j)) \in Seq(Seq(Byte))
        /\ NonEmpty(Append(Take(sent, j), sent[j + 1])) =
             IF sent[j + 1] = <<>> THEN NonEmpty(Take(sent, j))
                                   ELSE Append(NonEmpty(Take(sent, j)), sent[j + 1])
    BY <2>2, <2>3, NonEmptyAppend
  <2>5. r(k) = sent[k]
    <3> DEFINE p == sent[k]
    <3>1. p \in Seq(Byte) BY <2>1, <2>2
    <3> HIDE DEF p
    <3>2. Wrapped(p, n + 1, n) = p BY <1>2, <3>1, WrappedSteps
    <3> QED BY <3>2 DEF p
  <2>6. Take(sent, k - 1) = Take(sent, j) BY DEF j
  <2> QED BY <2>1, <2>2, <2>4, <2>5, <2>6
<1> HIDE DEF n, r
<1>c. CallsReadPacket(f) <=> f.result = "Success" /\ f.length # 0 /\ Len(buffers[at]) >= f.length
  BY DEF CallsReadPacket
<1>8. ~ PacketReadInvalid
  <2> SUFFICES ASSUME PacketReadInvalid PROVE FALSE OBVIOUS
  <2>1. f.result \in {"TooLong", "InvalidVarIntErrorable"} BY DEF PacketReadInvalid
  <2> QED BY <1>6, <2>1
<1>9. ASSUME NEW cs, NEW ms, \A x \in N : ms[x] = ls[x], \A x \in N : x # at => cs[x] = buffers[x],
             cs[at] = <<>>, buffers' = cs, ls' = ms, at' = 0,
             UNCHANGED <<pipes, peerVars, cuts>>,
             status' \in {"open", "handler"}, handled' = NonEmpty(Take(sent, k))
      PROVE  InOrder'
  <2>1. UNCHANGED <<pipes, sent, frames>> BY <1>9 DEF peerVars
  <2>2. \A x \in 2 .. n : x \in N /\ ms[x] = 0 /\ cs[x] = <<>> BY <1>4, <1>5, <1>9
  <2>3. Inner(0, cs, ms, n) BY <2>2 DEF Inner
  <2>4. Carried(sent, handled', 0, cs, n, k) BY <1>9 DEF Carried
  <2>5. buffers'[1] = buffers[1] /\ ms[1] = ls[1] BY <1>4, <1>9
  <2>6. Consumed' = Consumed BY <1>9, <2>5, AfterNothing
  <2> DEFINE h == handled'
             c == Consumed'
  <2>7. Place(frames, ms[1], c, k, Len(sent)) BY <1>6, <2>5, <2>6
  <2>8. InOrder'
    BY <1>9, <2>1, <2>3, <2>4, <2>5, <2>6, <2>7, <1>6 DEF InOrder, n, PacketPipe
  <2> QED BY <2>8
<1>10. CASE PacketReadWaits
  <2> DEFINE cs == [buffers EXCEPT ![at] = f.rest]
             l == IF f.result = "Success" THEN f.length ELSE 0
             ms == [ls EXCEPT ![at] = l]
  <2>1. /\ ~ CallsReadPacket(f) /\ at' = 0 /\ buffers' = cs /\ ls' = ms
        /\ UNCHANGED <<pipes, peerVars, handled, status, cuts>>
    BY <1>10 DEF PacketReadWaits
  <2>2. /\ cs[at] = f.rest /\ \A x \in N : x # at => cs[x] = buffers[x]
        /\ \A x \in N : ms[x] = IF x = at THEN l ELSE ls[x]
    BY <1>3, <1>4
  <2> HIDE DEF cs, ms
  <2>3. f.rest = <<>> /\ l = 0 /\ handled = NonEmpty(Take(sent, k))
    <3>1. CASE f.result # "Success" BY <1>6, <3>1
    <3>2. CASE f.result = "Success"
      <4>1. /\ k >= 1 /\ handled = NonEmpty(Take(sent, k - 1)) /\ r(k) \in Seq(Byte)
            /\ f.length = Len(r(k)) /\ f.rest = r(k) /\ Len(buffers[at]) >= f.length
        BY <1>6, <3>2
      <4>2. f.length = 0 BY <1>c, <2>1, <3>2, <4>1
      <4>3. r(k) = <<>> BY <4>1, <4>2, EmptySeq
      <4>4. sent[k] = <<>> BY <1>7, <4>1, <4>3
      <4>5. handled = NonEmpty(Take(sent, k)) BY <1>7, <4>1, <4>4
      <4> QED BY <3>2, <4>1, <4>2, <4>3, <4>5
    <3> QED BY <3>1, <3>2
  <2>4. \A x \in N : ms[x] = ls[x] BY <1>4, <1>5, <2>2, <2>3
  <2>5. status' \in {"open", "handler"} /\ handled' = NonEmpty(Take(sent, k))
    BY <1>5, <2>1, <2>3
  <2> QED BY <1>9, <2>1, <2>2, <2>3, <2>4, <2>5
<1>a. ASSUME CallsReadPacket(f)
      PROVE  /\ k >= 1 /\ handled = NonEmpty(Take(sent, k - 1)) /\ f.rest = sent[k]
             /\ f.length = Len(f.rest) /\ f.length # 0 /\ f.length \in Nat
             /\ Take(f.rest, f.length) = sent[k] /\ Drop(f.rest, f.length) = <<>>
  <2>1. f.result = "Success" /\ f.length # 0 BY <1>a, <1>c
  <2>2. /\ k >= 1 /\ handled = NonEmpty(Take(sent, k - 1)) /\ r(k) \in Seq(Byte)
        /\ f.length = Len(r(k)) /\ f.rest = r(k)
        /\ Take(r(k), Len(r(k))) = r(k) /\ Drop(r(k), Len(r(k))) = <<>>
    BY <1>6, <2>1
  <2>3. r(k) = sent[k] BY <1>7, <2>2
  <2>4. Len(r(k)) \in Nat BY <2>2, LenProperties
  <2> QED BY <2>1, <2>2, <2>3, <2>4
<1>11. ~ ReadPacketFails
  <2> SUFFICES ASSUME ReadPacketFails PROVE FALSE OBVIOUS
  <2>1. CallsReadPacket(f) /\ Len(f.rest) < f.length BY DEF ReadPacketFails
  <2> DEFINE x == f.length
  <2>2. x \in Nat /\ x < x BY <1>a, <2>1
  <2> HIDE DEF x
  <2> QED BY <2>2
<1>12. ASSUME NEW success \in BOOLEAN, ReadPacketSucceeds(success) PROVE InOrder'
  <2> DEFINE t == Take(f.rest, f.length)
             cs == [buffers EXCEPT ![at] = Drop(f.rest, f.length)]
             ms == [ls EXCEPT ![at] = 0]
  <2>1. /\ CallsReadPacket(f) /\ at' = 0 /\ buffers' = cs /\ ls' = ms
        /\ handled' = Append(handled, t) /\ status' \in {status, "handler"}
        /\ UNCHANGED <<pipes, peerVars, cuts>>
    BY <1>12 DEF ReadPacketSucceeds, Close
  <2>2. /\ cs[at] = Drop(f.rest, f.length) /\ \A x \in N : x # at => cs[x] = buffers[x]
        /\ \A x \in N : ms[x] = IF x = at THEN 0 ELSE ls[x]
    BY <1>3, <1>4
  <2>3. \A x \in N : ms[x] = ls[x] BY <1>4, <1>5, <2>2
  <2> HIDE DEF cs, ms, f
  <2>4. k >= 1 /\ handled = NonEmpty(Take(sent, k - 1)) /\ t = sent[k] /\ cs[at] = <<>>
    BY <1>a, <2>1, <2>2
  <2>5. sent[k] # <<>>
    <3>1. Len(sent[k]) # 0 BY <1>a, <2>1
    <3> QED BY <3>1, EmptySeq
  <2>6. handled' = NonEmpty(Take(sent, k)) BY <1>7, <2>1, <2>4, <2>5
  <2>7. status' \in {"open", "handler"} BY <1>5, <2>1
  <2> QED BY <1>9, <2>1, <2>2, <2>3, <2>4, <2>6, <2>7
<1> QED BY <1>8, <1>10, <1>11, <1>12

(* Whatever has been sent, a call of Read takes bytes from the front of the *)
(* first pipe's buffer or leaves it alone.                                  *)
LEMMA FrameStartDrops ==
  ASSUME NEW i, buffers[i] \in Seq(Byte)
  PROVE  \E m \in 0 .. Len(buffers[i]) : FrameStart(i).rest = Drop(buffers[i], m)
<1> DEFINE b == buffers[i]
           prefix == ReadVarInt(b)
<1>1. prefix.size \in 0 .. Len(b) BY ReadVarIntType
<1>2. Drop(b, 0) = b /\ 0 \in 0 .. Len(b)
  <2>1. Len(b) \in Nat BY LenProperties
  <2> QED BY <2>1, DropNone
<1>3. FrameStart(i).rest = IF nextReadFrameLength[i] # 0 THEN b ELSE Drop(b, prefix.size)
  BY DEF FrameStart
<1> HIDE DEF b, prefix
<1> QED BY <1>1, <1>2, <1>3 DEF b

LEMMA ReadDrops ==
  ASSUME TypeOK, Read
  PROVE  /\ UNCHANGED <<pipes, peerVars, cuts>>
         /\ \E m \in 0 .. Len(buffers[1]) : buffers'[1] = Drop(buffers[1], m)
<1> DEFINE b == buffers[1]
           f == FrameStart(at)
           N == 1 .. MaxPipes + 1
<1>1. /\ b \in Seq(Byte) /\ Len(b) \in Nat /\ pipes \in Nat /\ PacketPipe = pipes + 1
      /\ PacketPipe <= MaxPipes + 1 /\ MaxPipes \in Nat /\ 1 \in N
  BY StateTypes, FramedPipesAssumption
<1>2. buffers \in [N -> Seq(Byte)] /\ nextReadFrameLength \in [N -> 0 .. MaxReadSize]
  BY DEF TypeOK
<1>3. UNCHANGED <<pipes, peerVars, cuts>>
  BY DEF Read, ByteReadFails, ByteReadWaits, ByteReadDecodes, PacketReadInvalid,
     PacketReadWaits, ReadPacketFails, ReadPacketSucceeds
<1>4. at \in 1 .. PacketPipe
  <2>1. at \in 1 .. pipes \/ at = PacketPipe
    BY DEF Read, ByteReadFails, ByteReadWaits, ByteReadDecodes, PacketReadInvalid,
       PacketReadWaits, ReadPacketFails, ReadPacketSucceeds
  <2> QED BY <1>1, <2>1
<1>5. /\ at \in N /\ at \in Nat /\ at >= 1 /\ at + 1 # 1 /\ at + 1 # at
      /\ at \in 1 .. pipes => at + 1 \in N
  BY <1>1, <1>4
<1>6. f.rest \in Seq(Byte) /\ Len(f.rest) \in Nat /\ f.length \in Nat
  BY <1>2, <1>5, FrameStartType, LenProperties
<1>7. \/ buffers' = [buffers EXCEPT ![at] = f.rest]
      \/ /\ f.length <= Len(f.rest)
         /\ \/ buffers' = [buffers EXCEPT ![at] = Drop(f.rest, f.length)]
            \/ /\ at \in 1 .. pipes
               /\ buffers' = [buffers EXCEPT ![at] = Drop(f.rest, f.length),
                                             ![at + 1] = @ \o Take(f.rest, f.length)]
  <2>1. CASE ByteReadDecodes BY <1>6, <2>1 DEF ByteReadDecodes
  <2>2. ASSUME NEW success \in BOOLEAN, ReadPacketSucceeds(success)
        PROVE  /\ f.length <= Len(f.rest)
               /\ buffers' = [buffers EXCEPT ![at] = Drop(f.rest, f.length)]
    BY <1>6, <2>2 DEF ReadPacketSucceeds
  <2>3. CASE \/ ByteReadFails \/ ByteReadWaits \/ PacketReadInvalid \/ PacketReadWaits
             \/ ReadPacketFails
    BY <2>3 DEF ByteReadFails, ByteReadWaits, PacketReadInvalid, PacketReadWaits,
       ReadPacketFails
  <2> QED BY <2>1, <2>2, <2>3 DEF Read
<1> DEFINE d == Drop(f.rest, f.length)
           t == Take(f.rest, f.length)
           rest == f.rest
<1>8. \/ buffers'[at] = rest
      \/ f.length <= Len(rest) /\ buffers'[at] = d
  <2> HIDE DEF d, t, rest
  <2>1. ASSUME at \in 1 .. pipes, buffers' = [buffers EXCEPT ![at] = d, ![at + 1] = @ \o t]
        PROVE  buffers'[at] = d
    BY <1>2, <1>5, <2>1
  <2>2. \A x : buffers' = [buffers EXCEPT ![at] = x] => buffers'[at] = x BY <1>2, <1>5
  <2> QED BY <1>7, <2>1, <2>2 DEF d, t, rest
<1>9. CASE at = 1
  <2> HIDE DEF b, rest
  <2>1. PICK m \in 0 .. Len(b) : rest = Drop(b, m)
    BY <1>1, <1>9, FrameStartDrops DEF b, rest
  <2>2. CASE buffers'[at] = rest BY <1>3, <1>9, <2>1, <2>2 DEF b
  <2>3. CASE f.length <= Len(rest) /\ buffers'[at] = d
    <3> DEFINE l == f.length
    <3>1. Len(rest) = Len(b) - m BY <1>1, <2>1, DropProperties
    <3>2. l \in Nat /\ l <= Len(rest) BY <1>6, <2>3
    <3> HIDE DEF l
    <3>3. l \in 0 .. Len(b) - m BY <1>1, <2>1, <3>1, <3>2
    <3>4. Drop(Drop(b, m), l) = Drop(b, m + l) /\ m + l \in 0 .. Len(b)
      BY <1>1, <2>1, <3>3, DropTwice
    <3>5. buffers'[1] = Drop(b, m + l) BY <1>9, <2>1, <2>3, <3>4 DEF l, rest
    <3> QED BY <1>3, <3>4, <3>5 DEF b
  <2> QED BY <1>8, <2>2, <2>3
<1>10. CASE at # 1
  <2>1. buffers'[1] = b
    <3> HIDE DEF d, t, rest
    <3>1. ASSUME at \in 1 .. pipes, buffers' = [buffers EXCEPT ![at] = d, ![at + 1] = @ \o t]
          PROVE  buffers'[1] = b
      BY <1>1, <1>2, <1>5, <1>10, <3>1
    <3>2. \A x : buffers' = [buffers EXCEPT ![at] = x] => buffers'[1] = b
      BY <1>1, <1>2, <1>5, <1>10
    <3> QED BY <1>7, <3>1, <3>2 DEF d, t, rest
  <2>2. b = Drop(b, 0) /\ 0 \in 0 .. Len(b) BY <1>1, DropNone
  <2> QED BY <1>3, <2>1, <2>2
<1> QED BY <1>9, <1>10

LEMMA ReadKeeps ==
  ASSUME IInv, Read
  PROVE  ChainInv' /\ StreamInv' /\ CutInv' /\ ReadInv'
<1>1. TypeOK BY DEF IInv
<1>2. /\ ChainInv' /\ StreamInv' /\ CutInv' /\ Undisturbed' = Undisturbed
  <2>1. UNCHANGED <<pipes, peerVars, cuts>> BY <1>1, ReadDrops
  <2>2. PICK m \in 0 .. Len(buffers[1]) : buffers'[1] = Drop(buffers[1], m)
    BY <1>1, ReadDrops
  <2> QED BY <2>1, <2>2, Consumes
<1>3. ASSUME Undisturbed PROVE InOrder'
  <2>1. pipes \in Nat /\ PacketPipe = pipes + 1 BY <1>1, StateTypes
  <2>2. CASE ByteReadFails \/ ByteReadWaits \/ ByteReadDecodes
    <3>1. at \in 1 .. pipes BY <2>2 DEF ByteReadFails, ByteReadWaits, ByteReadDecodes
    <3>2. CASE at = 1
      <4>1. pipes >= 1 BY <2>1, <3>1, <3>2
      <4> QED BY <1>3, <2>2, <3>2, <4>1, FirstByteRead
    <3>3. CASE at # 1
      <4>1. at \in 2 .. pipes BY <2>1, <3>1, <3>3
      <4> QED BY <1>3, <2>2, <4>1, InnerByteRead
    <3> QED BY <3>2, <3>3
  <2>3. CASE \/ PacketReadInvalid \/ PacketReadWaits \/ ReadPacketFails
             \/ \E success \in BOOLEAN : ReadPacketSucceeds(success)
    <3>1. at = PacketPipe
      BY <2>3 DEF PacketReadInvalid, PacketReadWaits, ReadPacketFails, ReadPacketSucceeds
    <3>2. CASE at = 1
      <4>1. pipes = 0 BY <2>1, <3>1, <3>2
      <4> QED BY <1>3, <2>3, <3>2, <4>1, FirstPacketRead
    <3>3. CASE at # 1
      <4>1. at >= 2 BY <2>1, <3>1, <3>3
      <4> QED BY <1>3, <2>3, <3>1, <4>1, InnerPacketRead
    <3> QED BY <3>2, <3>3
  <2> QED BY <2>2, <2>3 DEF Read
<1> QED BY <1>2, <1>3 DEF ReadInv

LEMMA StutterKeeps ==
  ASSUME IInv, UNCHANGED vars
  PROVE  ChainInv' /\ StreamInv' /\ CutInv' /\ ReadInv'
<1>1. UNCHANGED <<pipes, network, sent, frames, conforming, at, buffers,
                  nextReadFrameLength, handled, status, cuts>>
  BY DEF vars, peerVars, pipeVars
<1>2. Total' = Total /\ PacketPipe' = PacketPipe /\ Unread' = Unread
  BY <1>1 DEF Total, PacketPipe, Unread
<1>3. Consumed' = Consumed /\ Arrived' = Arrived BY <1>1, <1>2 DEF Consumed, Arrived
<1>4. Undisturbed' = Undisturbed BY <1>1 DEF Undisturbed, HarmfulCuts
<1>5. InOrder' = InOrder BY <1>1, <1>2, <1>3 DEF InOrder
<1> QED BY <1>1, <1>2, <1>3, <1>4, <1>5 DEF IInv, ChainInv, StreamInv, CutInv, ReadInv

(* The inductive invariant holds in every state: as long as no cut is        *)
(* harmful, every pipe is at the start of a frame or behind its length       *)
(* prefix, and what it holds is what its frame contains.                     *)
THEOREM InvariantHolds == Spec => []IInv
<1>1. Init => IInv BY InvInit
<1>2. IInv /\ [Next]_vars => IInv'
  <2> SUFFICES ASSUME IInv, [Next]_vars PROVE IInv' OBVIOUS
  <2>1. TypeOK' BY TypeStep DEF IInv
  <2>2. ASSUME NEW p \in Packets, PeerSend(p)
        PROVE  ChainInv' /\ StreamInv' /\ CutInv' /\ ReadInv'
    BY <2>2, PeerSendKeeps
  <2>3. CASE PeerAnnounce BY <2>1, <2>3, PeerAnnounceKeeps DEF IInv
  <2>4. ASSUME NEW n \in 0 .. Len(network), HandleNewBytes(n)
        PROVE  ChainInv' /\ StreamInv' /\ CutInv' /\ ReadInv'
    BY <2>4, HandleNewBytesKeeps
  <2>5. CASE Read BY <2>1, <2>5, ReadKeeps DEF IInv
  <2>6. CASE UNCHANGED vars BY <2>1, <2>6, StutterKeeps DEF IInv
  <2> QED BY <2>1, <2>2, <2>3, <2>4, <2>5, <2>6 DEF Next, Loop, IInv
<1> QED BY <1>1, <1>2, PTL DEF Spec

-----------------------------------------------------------------------------
(* What follows. *)

(* Whatever the peer's packets, however many pipes it goes through and      *)
(* wherever the reads of HandleNewBytes cut it, a stream that is not cut    *)
(* inside a length prefix, nor (for a packet pipe that reads from the       *)
(* network) just before the end of a frame, is handled packet by packet as  *)
(* it was sent.                                                             *)
THEOREM PacketsHandledInOrder == Spec => []PacketsInOrder
<1>1. IInv => PacketsInOrder
  <2> SUFFICES ASSUME IInv, Undisturbed
               PROVE  Len(handled) <= Len(Expected) /\ handled = Take(Expected, Len(handled))
    BY DEF PacketsInOrder
  <2>1. TypeOK /\ InOrder BY DEF IInv, ReadInv
  <2>2. sent \in Seq(Seq(Byte)) BY <2>1, StateTypes
  <2>3. PICK k \in 0 .. Len(sent) : Carried(sent, handled, at, buffers, PacketPipe, k)
    BY <2>1 DEF InOrder
  <2>4. \E i \in 0 .. Len(sent) : handled = NonEmpty(Take(sent, i))
    <3>1. CASE handled = NonEmpty(Take(sent, k)) BY <3>1
    <3>2. CASE k >= 1 /\ handled = NonEmpty(Take(sent, k - 1))
      <4>1. Len(sent) \in Nat BY <2>2, LenProperties
      <4>2. k - 1 \in 0 .. Len(sent) BY <3>2, <4>1
      <4> QED BY <3>2, <4>2
    <3> QED BY <2>3, <3>1, <3>2 DEF Carried
  <2>5. Begins(handled, NonEmpty(sent)) BY <2>2, <2>4, NonEmptyBegins
  <2> QED BY <2>5 DEF Begins, Expected
<1> QED BY <1>1, InvariantHolds, PTL

(* On such a stream a conforming peer is disconnected by a handler only:    *)
(* no call of Read returns InvalidFrameErrorable, and ReadPacket finds all  *)
(* the bytes it was promised.                                               *)
THEOREM NeverAFalseError == Spec => []NoFalseError
<1>1. IInv => NoFalseError BY DEF IInv, ReadInv, InOrder, NoFalseError
<1> QED BY <1>1, InvariantHolds, PTL

(* On such a stream a pipe behind another one finds a whole frame or        *)
(* nothing and leaves nothing behind: only the first pipe has to wait.      *)
THEOREM InnerPipesNeverWait == Spec => []InnerPipesSeeWholeFrames
<1>1. IInv => InnerPipesSeeWholeFrames
  <2> SUFFICES ASSUME IInv, Undisturbed, NEW i \in 2 .. PacketPipe
               PROVE  /\ nextReadFrameLength[i] = 0
                      /\ \/ buffers[i] = <<>>
                         \/ at = i /\ \E k \in 1 .. Len(sent) : buffers[i] = Framed(sent[k], i)
    BY DEF InnerPipesSeeWholeFrames
  <2>1. TypeOK /\ InOrder BY DEF IInv, ReadInv
  <2>2. nextReadFrameLength[i] = 0 /\ (i # at => buffers[i] = <<>>)
    BY <2>1 DEF InOrder, Inner
  <2>3. CASE i = at
    <3>1. PICK k \in 0 .. Len(sent) : Carried(sent, handled, at, buffers, PacketPipe, k)
      BY <2>1 DEF InOrder
    <3>2. CASE buffers[at] = <<>> BY <2>2, <2>3, <3>2
    <3>3. CASE k >= 1 /\ buffers[at] = Wrapped(sent[k], at, PacketPipe)
      <4>1. Len(sent) \in Nat BY <2>1, StateTypes, LenProperties
      <4>2. k \in 1 .. Len(sent) BY <3>3, <4>1
      <4>3. buffers[i] = Framed(sent[k], i) BY <2>3, <3>3, FramedIsWrapped
      <4> QED BY <2>2, <2>3, <4>2, <4>3
    <3>4. ~ (at <= 1)
      <4>1. PacketPipe \in Nat BY <2>1, StateTypes
      <4> QED BY <2>3, <4>1
    <3> QED BY <3>1, <3>2, <3>3, <3>4 DEF Carried
  <2>4. CASE i # at BY <2>2, <2>4
  <2> QED BY <2>3, <2>4
<1> QED BY <1>1, InvariantHolds, PTL

-----------------------------------------------------------------------------
(* Shifting by places of base values, one place at a time. *)

ShiftedBy(f, input, base, n) ==
  /\ f[0] = input
  /\ \A k \in 1 .. n : f[k] = f[k - 1] \div base

LEMMA DivBy ==
  ASSUME NEW n \in Nat, NEW base \in Nat, base > 1
  PROVE  /\ n \div base \in Nat /\ n % base \in 0 .. base - 1
         /\ n = base * (n \div base) + (n % base)
BY SMTT(30)

LEMMA ShiftedValues ==
  ASSUME NEW input \in Nat, NEW base \in Nat, base > 1, NEW n \in Nat
  PROVE  \E f : /\ ShiftedBy(f, input, base, n)
                /\ \A k \in 0 .. n : f[k] \in Nat
                /\ Shifted(input, base, n) = f[n]
<1> DEFINE list == [i \in 1 .. n |-> 0]
           act == [x \in {0} |-> [r \in Nat |-> r \div base]]
           G(g) == [k \in 0 .. n |-> IF k = 0 THEN input ELSE g[k - 1] \div base]
           h == CHOOSE g : g = G(g)
<1>1. list \in Seq({0}) /\ Len(list) = n /\ \A i \in 1 .. n : list[i] = 0
  <2>1. list \in [1 .. n -> {0}] OBVIOUS
  <2>2. \A i \in 1 .. n : list[i] = 0 OBVIOUS
  <2> HIDE DEF list
  <2> QED BY <2>1, <2>2, SeqDef
<1>2. act \in [{0} -> [Nat -> Nat]]
  <2>1. \A r \in Nat : r \div base \in Nat BY DivBy
  <2> QED BY <2>1
<1>3. \A r \in Nat : act[0][r] = r \div base OBVIOUS
<1> HIDE DEF list, act
<1>4. PICK f \in [0 .. n -> Nat] : FoldedBy(f, act, input, list)
  BY <1>1, <1>2, FoldExists
<1>5. f = G(f)
  <2> SUFFICES ASSUME NEW k \in 0 .. n PROVE f[k] = G(f)[k] OBVIOUS
  <2>1. f[k] = IF k = 0 THEN input ELSE act[list[k]][f[k - 1]]
    BY <1>1, <1>4 DEF FoldedBy
  <2>2. CASE k = 0 BY <2>1, <2>2
  <2>3. CASE k # 0
    <3>1. k \in 1 .. n /\ k - 1 \in 0 .. n BY <2>3
    <3>2. f[k - 1] \in Nat BY <3>1
    <3> QED BY <1>1, <1>3, <2>1, <2>3, <3>1, <3>2
  <2> QED BY <2>2, <2>3
<1>6. h = G(h)
  <2> HIDE DEF G
  <2> QED BY <1>5, Zenon
<1>7. Shifted(input, base, n) = h[n] BY DEF Shifted
<1> HIDE DEF h
<1>8. h[0] = input
  <2>1. G(h)[0] = input OBVIOUS
  <2> HIDE DEF G
  <2> QED BY <1>6, <2>1
<1>9. ASSUME NEW k \in 1 .. n PROVE h[k] = h[k - 1] \div base
  <2>1. G(h)[k] = h[k - 1] \div base OBVIOUS
  <2> HIDE DEF G
  <2> QED BY <1>6, <2>1
<1>10. Steps(h, Nat, act, input, list)
  BY <1>1, <1>3, <1>8, <1>9 DEF Steps
<1>11. \A k \in 0 .. n : h[k] \in Nat BY <1>1, <1>2, <1>10, FoldValues
<1> QED BY <1>7, <1>8, <1>9, <1>11 DEF ShiftedBy

LEMMA ShiftedAgree ==
  ASSUME NEW input, NEW base, NEW n \in Nat, NEW m \in Nat, n <= m, NEW f, NEW g,
         ShiftedBy(f, input, base, n), ShiftedBy(g, input, base, m)
  PROVE  f[n] = g[n]
<1> DEFINE S == {k \in Nat : k <= n => f[k] = g[k]}
<1>1. 0 \in S BY DEF ShiftedBy
<1>2. ASSUME NEW k \in Nat, k \in S, k + 1 <= n PROVE f[k + 1] = g[k + 1]
  <2>1. k + 1 \in 1 .. n /\ k + 1 \in 1 .. m /\ (k + 1) - 1 = k /\ k <= n BY <1>2
  <2>2. f[k] = g[k] BY <1>2, <2>1
  <2>3. f[k + 1] = f[k] \div base /\ g[k + 1] = g[k] \div base
    BY <2>1 DEF ShiftedBy
  <2> QED BY <2>2, <2>3
<1>3. Nat \subseteq S
  <2>1. \A k \in Nat : k \in S => k + 1 \in S BY <1>2
  <2> HIDE DEF S
  <2> QED BY <1>1, <2>1, SetInduction
<1> QED BY <1>3

(* The first place, and one place more. *)
LEMMA ShiftedSteps ==
  ASSUME NEW input \in Nat, NEW base \in Nat, base > 1, NEW n \in Nat
  PROVE  /\ Shifted(input, base, n) \in Nat
         /\ Shifted(input, base, 0) = input
         /\ Shifted(input, base, n + 1) = Shifted(input, base, n) \div base
<1>1. PICK f : /\ ShiftedBy(f, input, base, n)
               /\ \A k \in 0 .. n : f[k] \in Nat
               /\ Shifted(input, base, n) = f[n]
  BY ShiftedValues
<1>2. PICK g : /\ ShiftedBy(g, input, base, n + 1)
               /\ Shifted(input, base, n + 1) = g[n + 1]
  <2> DEFINE m == n + 1
  <2>1. m \in Nat OBVIOUS
  <2> HIDE DEF m
  <2>2. \E g : /\ ShiftedBy(g, input, base, m)
               /\ \A k \in 0 .. m : g[k] \in Nat
               /\ Shifted(input, base, m) = g[m]
    BY <2>1, ShiftedValues
  <2> QED BY <2>2 DEF m
<1>3. PICK e : /\ ShiftedBy(e, input, base, 0)
               /\ Shifted(input, base, 0) = e[0]
  BY ShiftedValues
<1>4. f[n] = g[n]
  <2>1. n <= n + 1 /\ n + 1 \in Nat OBVIOUS
  <2> QED BY <1>1, <1>2, <2>1, ShiftedAgree
<1>5. g[n + 1] = g[n] \div base
  <2>1. n + 1 \in 1 .. n + 1 /\ (n + 1) - 1 = n OBVIOUS
  <2> QED BY <1>2, <2>1 DEF ShiftedBy
<1>6. e[0] = input BY <1>3 DEF ShiftedBy
<1>7. f[n] \in Nat
  <2>1. n \in 0 .. n OBVIOUS
  <2> QED BY <1>1, <2>1
<1> QED BY <1>1, <1>2, <1>3, <1>4, <1>5, <1>6, <1>7

(* It does not matter which place goes first. *)
LEMMA ShiftedFirst ==
  ASSUME NEW input \in Nat, NEW base \in Nat, base > 1
  PROVE  \A n \in Nat : Shifted(input, base, n + 1) = Shifted(input \div base, base, n)
<1> DEFINE rest == input \div base
           S == {n \in Nat : Shifted(input, base, n + 1) = Shifted(rest, base, n)}
<1>1. rest \in Nat BY DivBy
<1> HIDE DEF rest
<1>2. 0 \in S
  <2>1. Shifted(input, base, 0 + 1) = Shifted(input, base, 0) \div base
    BY ShiftedSteps
  <2>2. Shifted(input, base, 0) = input /\ Shifted(rest, base, 0) = rest
    BY <1>1, ShiftedSteps
  <2> QED BY <2>1, <2>2 DEF rest
<1>3. ASSUME NEW n \in Nat, n \in S PROVE n + 1 \in S
  <2>1. n + 1 \in Nat OBVIOUS
  <2>2. Shifted(input, base, (n + 1) + 1) = Shifted(input, base, n + 1) \div base
    BY <2>1, ShiftedSteps
  <2>3. Shifted(rest, base, n + 1) = Shifted(rest, base, n) \div base
    BY <1>1, ShiftedSteps
  <2>4. Shifted(input, base, n + 1) = Shifted(rest, base, n) BY <1>3
  <2> QED BY <2>2, <2>3, <2>4
<1>4. Nat \subseteq S
  <2> HIDE DEF S
  <2> QED BY <1>2, <1>3, SetInduction
<1> QED BY <1>4 DEF rest

LEMMA ShiftedNothing ==
  ASSUME NEW base \in Nat, base > 1
  PROVE  \A n \in Nat : Shifted(0, base, n) = 0
<1> DEFINE S == {n \in Nat : Shifted(0, base, n) = 0}
<1>1. 0 \in S BY ShiftedSteps
<1>2. ASSUME NEW n \in Nat, n \in S PROVE n + 1 \in S
  <2>1. Shifted(0, base, n + 1) = Shifted(0, base, n) \div base BY ShiftedSteps
  <2>2. 0 \div base = 0 BY SMTT(30)
  <2> QED BY <1>2, <2>1, <2>2
<1>3. Nat \subseteq S
  <2> HIDE DEF S
  <2> QED BY <1>1, <1>2, SetInduction
<1> QED BY <1>3

-----------------------------------------------------------------------------
(* GroupsNeeded counts the groups WriteVarInt writes. *)

LEMMA GroupsBound ==
  \A n \in Nat : \A input \in Nat :
    Shifted(input, Base, n + 1) = 0 <=> Len(WriteVarInt[input]) <= n + 1
<1> DEFINE L(m) == Len(WriteVarInt[m])
           S == {n \in Nat : \A input \in Nat :
                   Shifted(input, Base, n + 1) = 0 <=> L(input) <= n + 1}
<1>b. Base \in Nat /\ Base > 1 BY VarIntAssumption
<1>1. ASSUME NEW m \in Nat
      PROVE  /\ L(m) \in Nat \ {0} /\ m \div Base \in Nat
             /\ m < Base => L(m) = 1 /\ m \div Base = 0
             /\ m >= Base => L(m) = 1 + L(m \div Base) /\ m \div Base # 0
  <2>1. m \div Base \in Nat BY DivMod
  <2>2. ASSUME m < Base PROVE m \div Base = 0
    <3> DEFINE q == m \div Base
               r == m % Base
    <3>1. q \in Nat /\ r \in Nat /\ m = Base * q + r BY <1>b, DivMod
    <3> HIDE DEF q, r
    <3>2. SUFFICES ASSUME q >= 1 PROVE FALSE BY <3>1 DEF q
    <3>3. Base * q >= Base BY <1>b, <3>1, <3>2, SMTT(30)
    <3>4. Base * q \in Nat BY <1>b, <3>1
    <3> QED BY <1>b, <2>2, <3>1, <3>3, <3>4
  <2>3. ASSUME m >= Base PROVE m \div Base # 0
    <3>1. m \div Base \in 1 .. m - 1 BY <2>3, DivSmaller
    <3> QED BY <3>1
  <2> QED BY <2>1, <2>2, <2>3, WriteVarIntSteps
<1> HIDE DEF L
<1>2. 0 \in S
  <2> SUFFICES ASSUME NEW m \in Nat PROVE Shifted(m, Base, 0 + 1) = 0 <=> L(m) <= 0 + 1
    OBVIOUS
  <2>1. Shifted(m, Base, 0 + 1) = Shifted(m, Base, 0) \div Base /\ Shifted(m, Base, 0) = m
    BY <1>b, ShiftedSteps
  <2>2. Shifted(m, Base, 0 + 1) = m \div Base BY <2>1
  <2>3. CASE m < Base BY <1>1, <2>2, <2>3
  <2>4. CASE m >= Base
    <3>1. L(m \div Base) \in Nat \ {0} BY <1>1
    <3>2. L(m) = 1 + L(m \div Base) /\ m \div Base # 0 BY <1>1, <2>4
    <3>3. ~ (L(m) <= 0 + 1) BY <3>1, <3>2
    <3> QED BY <2>2, <3>2, <3>3
  <2> QED BY <1>b, <2>3, <2>4
<1>3. ASSUME NEW n \in Nat, n \in S PROVE n + 1 \in S
  <2> SUFFICES ASSUME NEW m \in Nat
               PROVE  Shifted(m, Base, (n + 1) + 1) = 0 <=> L(m) <= (n + 1) + 1
    OBVIOUS
  <2>1. n + 1 \in Nat OBVIOUS
  <2>2. Shifted(m, Base, (n + 1) + 1) = Shifted(m \div Base, Base, n + 1)
    BY <1>b, <2>1, ShiftedFirst
  <2>3. CASE m < Base
    <3>1. m \div Base = 0 /\ L(m) = 1 BY <1>1, <2>3
    <3>2. Shifted(0, Base, n + 1) = 0 BY <1>b, <2>1, ShiftedNothing
    <3> QED BY <2>2, <3>1, <3>2
  <2>4. CASE m >= Base
    <3> DEFINE q == m \div Base
    <3>1. q \in Nat /\ L(q) \in Nat /\ L(m) = 1 + L(q) BY <1>1, <2>4
    <3> HIDE DEF q
    <3>2. Shifted(q, Base, n + 1) = 0 <=> L(q) <= n + 1 BY <1>3, <3>1
    <3>3. L(q) <= n + 1 <=> L(m) <= (n + 1) + 1 BY <3>1
    <3> QED BY <2>2, <3>2, <3>3 DEF q
  <2> QED BY <1>b, <2>3, <2>4
<1>4. Nat \subseteq S
  <2> HIDE DEF S
  <2> QED BY <1>2, <1>3, SetInduction
<1> QED BY <1>4 DEF L

LEMMA GroupsCounted ==
  ASSUME NEW groups \in Nat \ {0}, NEW input \in Nat, Len(WriteVarInt[input]) <= groups
  PROVE  GroupsNeeded(input, groups) = Len(WriteVarInt[input])
<1> DEFINE N == Len(WriteVarInt[input])
           S == {n \in 1 .. groups : n = groups \/ Shifted(input, Base, n) = 0}
<1>1. N \in Nat \ {0} BY WriteVarIntSteps
<1>2. \A n \in 1 .. groups : Shifted(input, Base, n) = 0 <=> N <= n
  <2> SUFFICES ASSUME NEW n \in 1 .. groups PROVE Shifted(input, Base, n) = 0 <=> N <= n
    OBVIOUS
  <2>1. n - 1 \in Nat /\ (n - 1) + 1 = n OBVIOUS
  <2>2. Shifted(input, Base, (n - 1) + 1) = 0 <=> N <= (n - 1) + 1 BY <2>1, GroupsBound
  <2> HIDE DEF N
  <2> QED BY <2>1, <2>2
<1>3. N <= groups OBVIOUS
<1> HIDE DEF N
<1>4. N \in S /\ \A n \in S : N <= n BY <1>1, <1>2, <1>3
<1>5. S \subseteq Nat OBVIOUS
<1>6. Min(S) = CHOOSE x \in S : \A y \in S : x <= y BY DEF Min
<1>7. GroupsNeeded(input, groups) = Min(S) BY DEF GroupsNeeded
<1> HIDE DEF S
<1>8. Min(S) \in S /\ \A y \in S : Min(S) <= y BY <1>4, <1>6
<1>9. Min(S) = N
  <2>1. Min(S) <= N /\ N <= Min(S) /\ Min(S) \in Nat BY <1>4, <1>5, <1>8
  <2> QED BY <1>1, <2>1
<1> QED BY <1>7, <1>9 DEF N

(* The groups of what is below the modulus. *)
LEMMA GroupsOfVarInt ==
  ASSUME NEW input \in 0 .. Modulus - 1
  PROVE  /\ Len(WriteVarInt[input]) <= MaxGroups
         /\ GroupsNeeded(input, MaxGroups) = Len(WriteVarInt[input])
<1>1. MaxGroups \in Nat \ {0} /\ Modulus \in Nat \ {0} BY VarIntAssumption
<1>2. /\ MaxGroups - 1 \in Nat /\ (MaxGroups - 1) + 1 = MaxGroups
      /\ Modulus - 1 \in Nat /\ input \in Nat /\ input <= Modulus - 1
  BY <1>1
<1>3. Len(WriteVarInt[Modulus - 1]) <= (MaxGroups - 1) + 1
  BY <1>2, GroupsBound, WidthAssumption
<1>4. Len(WriteVarInt[input]) <= Len(WriteVarInt[Modulus - 1])
  BY <1>2, WriteVarIntMonotonic
<1>5. Len(WriteVarInt[input]) \in Nat /\ Len(WriteVarInt[Modulus - 1]) \in Nat
  BY <1>2, WriteVarIntSteps
<1>6. Len(WriteVarInt[input]) <= MaxGroups BY <1>1, <1>3, <1>4, <1>5
<1> QED BY <1>1, <1>2, <1>6, GroupsCounted

LEMMA GroupsOfVarLong ==
  ASSUME NEW input \in 0 .. LongModulus - 1
  PROVE  /\ Len(WriteVarInt[input]) <= LongGroups
         /\ GroupsNeeded(input, LongGroups) = Len(WriteVarInt[input])
<1>1. LongGroups \in Nat \ {0} /\ LongModulus \in Nat \ {0} BY WidthAssumption
<1>2. /\ LongGroups - 1 \in Nat /\ (LongGroups - 1) + 1 = LongGroups
      /\ LongModulus - 1 \in Nat /\ input \in Nat /\ input <= LongModulus - 1
  BY <1>1
<1>3. Len(WriteVarInt[LongModulus - 1]) <= (LongGroups - 1) + 1
  BY <1>2, GroupsBound, WidthAssumption
<1>4. Len(WriteVarInt[input]) <= Len(WriteVarInt[LongModulus - 1])
  BY <1>2, WriteVarIntMonotonic
<1>5. Len(WriteVarInt[input]) \in Nat /\ Len(WriteVarInt[LongModulus - 1]) \in Nat
  BY <1>2, WriteVarIntSteps
<1>6. Len(WriteVarInt[input]) <= LongGroups BY <1>1, <1>3, <1>4, <1>5
<1> QED BY <1>1, <1>2, <1>6, GroupsCounted

-----------------------------------------------------------------------------
(* Numbers of a fixed size, the highest byte first. *)

LEMMA ByteRange == ByteValues \in Nat /\ ByteValues > 1 /\ Byte = 0 .. ByteValues - 1
<1>1. Base \in Nat /\ Base > 1 BY VarIntAssumption
<1> QED BY <1>1 DEF ByteValues, Byte

LEMMA WriteFixedType ==
  ASSUME NEW input \in Nat, NEW size \in Nat
  PROVE  /\ WriteFixed(input, size) \in Seq(Byte)
         /\ Len(WriteFixed(input, size)) = size
         /\ \A i \in 1 .. size : WriteFixed(input, size)[i]
                                   = Shifted(input, ByteValues, size - i) % ByteValues
<1> DEFINE w == WriteFixed(input, size)
<1>1. \A i \in 1 .. size : w[i] = Shifted(input, ByteValues, size - i) % ByteValues
  BY DEF WriteFixed
<1>2. ASSUME NEW i \in 1 .. size
      PROVE  Shifted(input, ByteValues, size - i) % ByteValues \in Byte
  <2>1. size - i \in Nat OBVIOUS
  <2>2. Shifted(input, ByteValues, size - i) \in Nat BY <2>1, ByteRange, ShiftedSteps
  <2> QED BY <2>2, ByteRange, DivBy
<1>3. w \in [1 .. size -> Byte] BY <1>2 DEF WriteFixed
<1> HIDE DEF w
<1>4. w \in Seq(Byte) /\ Len(w) = size BY <1>3, SeqDef
<1> QED BY <1>1, <1>4 DEF w

BigEndianFrom(f, s, n) ==
  /\ f[0] = 0
  /\ \A i \in 1 .. n : f[i] = f[i - 1] * ByteValues + s[i]

LEMMA BigEndianValues ==
  ASSUME NEW n \in Nat, NEW s, \A i \in 1 .. n : s[i] \in Nat
  PROVE  \E f : /\ BigEndianFrom(f, s, n)
                /\ \A i \in 0 .. n : f[i] \in Nat
                /\ BigEndian(s, n) = f[n]
<1> DEFINE list == [i \in 1 .. n |-> s[i]]
           act == [x \in Nat |-> [r \in Nat |-> r * ByteValues + x]]
           G(g) == [i \in 0 .. n |-> IF i = 0 THEN 0 ELSE g[i - 1] * ByteValues + s[i]]
           h == CHOOSE g : g = G(g)
<1>1. list \in Seq(Nat) /\ Len(list) = n /\ \A i \in 1 .. n : list[i] = s[i]
  <2>1. list \in [1 .. n -> Nat] OBVIOUS
  <2>2. \A i \in 1 .. n : list[i] = s[i] OBVIOUS
  <2> HIDE DEF list
  <2> QED BY <2>1, <2>2, SeqDef
<1>2. act \in [Nat -> [Nat -> Nat]]
  <2>1. \A x \in Nat, r \in Nat : r * ByteValues + x \in Nat BY ByteRange
  <2> QED BY <2>1
<1>3. \A x \in Nat, r \in Nat : act[x][r] = r * ByteValues + x OBVIOUS
<1> HIDE DEF list, act
<1>4. PICK f \in [0 .. n -> Nat] : FoldedBy(f, act, 0, list)
  BY <1>1, <1>2, FoldExists
<1>5. f = G(f)
  <2> SUFFICES ASSUME NEW i \in 0 .. n PROVE f[i] = G(f)[i] OBVIOUS
  <2>1. f[i] = IF i = 0 THEN 0 ELSE act[list[i]][f[i - 1]]
    BY <1>1, <1>4 DEF FoldedBy
  <2>2. CASE i = 0 BY <2>1, <2>2
  <2>3. CASE i # 0
    <3>1. i \in 1 .. n /\ i - 1 \in 0 .. n BY <2>3
    <3>2. f[i - 1] \in Nat /\ s[i] \in Nat BY <3>1
    <3> QED BY <1>1, <1>3, <2>1, <2>3, <3>1, <3>2
  <2> QED BY <2>2, <2>3
<1>6. h = G(h)
  <2> HIDE DEF G
  <2> QED BY <1>5, Zenon
<1>7. BigEndian(s, n) = h[n] BY DEF BigEndian
<1> HIDE DEF h
<1>8. h[0] = 0
  <2>1. G(h)[0] = 0 OBVIOUS
  <2> HIDE DEF G
  <2> QED BY <1>6, <2>1
<1>9. ASSUME NEW i \in 1 .. n PROVE h[i] = h[i - 1] * ByteValues + s[i]
  <2>1. G(h)[i] = h[i - 1] * ByteValues + s[i] OBVIOUS
  <2> HIDE DEF G
  <2> QED BY <1>6, <2>1
<1>10. Steps(h, Nat, act, 0, list)
  <2>1. ASSUME NEW i \in 1 .. n, h[i - 1] \in Nat
        PROVE  h[i] = act[list[i]][h[i - 1]]
    <3>1. list[i] = s[i] /\ s[i] \in Nat BY <1>1
    <3>2. act[s[i]][h[i - 1]] = h[i - 1] * ByteValues + s[i] BY <1>3, <2>1, <3>1
    <3> QED BY <1>9, <3>1, <3>2
  <2> QED BY <1>1, <1>8, <2>1 DEF Steps
<1>11. \A i \in 0 .. n : h[i] \in Nat BY <1>1, <1>2, <1>10, FoldValues
<1> QED BY <1>7, <1>8, <1>9, <1>11 DEF BigEndianFrom

(* The shifts of a Read undo those of a Write. *)
LEMMA BigEndianWritten ==
  ASSUME NEW size \in Nat, NEW input \in Unsigned(size), NEW s,
         \A i \in 1 .. size : s[i] = WriteFixed(input, size)[i]
  PROVE  BigEndian(s, size) = input
<1> DEFINE shifted(k) == Shifted(input, ByteValues, k)
<1>1. input \in Nat /\ shifted(size) = 0 BY DEF Unsigned
<1>2. \A i \in 1 .. size : s[i] = shifted(size - i) % ByteValues
  BY <1>1, WriteFixedType
<1>3. \A i \in 1 .. size : s[i] \in Nat
  <2> SUFFICES ASSUME NEW i \in 1 .. size PROVE s[i] \in Nat OBVIOUS
  <2>1. WriteFixed(input, size) \in Seq(Byte) /\ Len(WriteFixed(input, size)) = size
    BY <1>1, WriteFixedType
  <2> QED BY <2>1, BytesAreNaturals
<1>4. PICK f : /\ BigEndianFrom(f, s, size)
               /\ BigEndian(s, size) = f[size]
  BY <1>3, BigEndianValues
<1>5. \A k \in Nat : /\ shifted(k) \in Nat
                     /\ shifted(k + 1) = shifted(k) \div ByteValues
  BY <1>1, ByteRange, ShiftedSteps
<1>6. shifted(0) = input BY <1>1, ByteRange, ShiftedSteps
<1> HIDE DEF shifted
<1> DEFINE S == {i \in Nat : i <= size => f[i] = shifted(size - i)}
<1>7. 0 \in S
  <2>1. size - 0 = size OBVIOUS
  <2>2. f[0] = 0 BY <1>4 DEF BigEndianFrom
  <2> QED BY <1>1, <2>1, <2>2
<1>8. ASSUME NEW i \in Nat, i \in S, i + 1 <= size PROVE f[i + 1] = shifted(size - (i + 1))
  <2> DEFINE k == size - (i + 1)
  <2>1. /\ k \in Nat /\ size - i = k + 1
        /\ i + 1 \in 1 .. size /\ (i + 1) - 1 = i /\ i <= size
    BY <1>8
  <2>2. f[i + 1] = f[i] * ByteValues + s[i + 1] BY <1>4, <2>1 DEF BigEndianFrom
  <2>3. s[i + 1] = shifted(k) % ByteValues BY <1>2, <2>1
  <2>4. f[i] = shifted(k + 1) BY <1>8, <2>1
  <2> HIDE DEF k
  <2>5. shifted(k) \in Nat /\ f[i] = shifted(k) \div ByteValues BY <1>5, <2>1, <2>4
  <2> DEFINE n == shifted(k)
             q == n \div ByteValues
             r == n % ByteValues
  <2>7. f[i + 1] = q * ByteValues + r BY <2>2, <2>3, <2>5
  <2>10. n \in Nat BY <2>5
  <2> HIDE DEF n
  <2>11. r \in 0 .. ByteValues - 1 /\ q \in Nat /\ n = ByteValues * q + r
    BY <2>10, ByteRange, DivBy
  <2>12. r \in Nat BY <2>11, ByteRange
  <2>6. n = ByteValues * q + r /\ q \in Nat /\ r \in Nat BY <2>11, <2>12
  <2> HIDE DEF q, r, n
  <2>8. q * ByteValues = ByteValues * q BY <2>6, ByteRange, SMTT(30)
  <2>9. f[i + 1] = n BY <2>6, <2>7, <2>8
  <2> QED BY <2>9 DEF n, k
<1>9. Nat \subseteq S
  <2>1. \A i \in Nat : i \in S => i + 1 \in S BY <1>8
  <2> HIDE DEF S
  <2> QED BY <1>7, <2>1, SetInduction
<1>10. f[size] = shifted(size - size) /\ size - size = 0 BY <1>9
<1> QED BY <1>4, <1>6, <1>10

-----------------------------------------------------------------------------
(* What is written, and what is counted. *)

LEMMA FixedSizes ==
  /\ FixedTypes = {"Boolean", "Byte", "Short", "Medium", "Int", "Float", "Long", "Double"}
  /\ \A t \in FixedTypes : Size[t] \in Nat \ {0}
  /\ Size["Boolean"] = 1 /\ Size["Int"] = 4 /\ Size["Long"] = 8
BY DEF FixedTypes, Size

PartTypes == {"VarInt", "VarLong", "UUID", "UUIDIntArray", "String", "ByteArray"}

LEMMA TypesDiffer == \A t \in PartTypes : t \notin FixedTypes
BY FixedSizes DEF PartTypes

LEMMA FieldTypes ==
  ASSUME NEW f \in Fields PROVE f.type \in FixedTypes \cup PartTypes
BY FieldsAssumption DEF PartTypes

LEMMA WrittenCases ==
  ASSUME NEW f
  PROVE  /\ f.type \in FixedTypes => Written(f) = WriteFixed(f.value, Size[f.type])
         /\ f.type = "VarInt" => Written(f) = WriteVarInt[f.value]
         /\ f.type = "VarLong" => Written(f) = WriteVarInt[f.value]
         /\ f.type = "UUID" => Written(f) = WriteUUID(f.value)
         /\ f.type = "UUIDIntArray" => Written(f) = WriteUUIDIntArray(f.value)
         /\ f.type \in {"String", "ByteArray"} => Written(f) = WriteArray(f.value)
<1>1. CASE f.type \in FixedTypes
  <2>1. f.type \notin PartTypes BY <1>1, TypesDiffer
  <2> QED BY <1>1, <2>1 DEF Written, PartTypes
<1>2. CASE f.type \notin FixedTypes
  <2> QED BY <1>2 DEF Written, WriteVarLong
<1> QED BY <1>1, <1>2

LEMMA CountedCases ==
  ASSUME NEW f
  PROVE  /\ f.type \in FixedTypes => Counted(f) = Size[f.type]
         /\ f.type = "VarInt" => Counted(f) = VarIntBytes(f.value)
         /\ f.type = "VarLong" => Counted(f) = VarLongBytes(f.value)
         /\ f.type \in {"UUID", "UUIDIntArray"} => Counted(f) = 16
         /\ f.type \in {"String", "ByteArray"} => Counted(f) = ArrayBytes(Len(f.value))
<1>1. UUID_SIZE = 16 BY FixedSizes DEF UUID_SIZE
<1>2. CASE f.type \in FixedTypes
  <2>1. f.type \notin PartTypes BY <1>2, TypesDiffer
  <2> QED BY <1>2, <2>1 DEF Counted, PartTypes
<1>3. CASE f.type \notin FixedTypes
  <2> QED BY <1>1, <1>3 DEF Counted
<1> QED BY <1>2, <1>3

(* Concatenation, for bytes. *)
IsConcat(s, a, b) ==
  /\ s \in Seq(Byte) /\ Len(s) = Len(a) + Len(b)
  /\ \A i \in 1 .. Len(a) + Len(b) : s[i] = IF i <= Len(a) THEN a[i] ELSE b[i - Len(a)]

LEMMA BytesConcat ==
  ASSUME NEW a \in Seq(Byte), NEW b \in Seq(Byte)
  PROVE  IsConcat(a \o b, a, b)
BY ConcatProperties DEF IsConcat

LEMMA ConcatBytes ==
  ASSUME NEW a \in Seq(Byte), NEW b \in Seq(Byte)
  PROVE  a \o b \in Seq(Byte) /\ Len(a \o b) = Len(a) + Len(b)
<1>1. IsConcat(a \o b, a, b) BY BytesConcat
<1> DEFINE s == a \o b
<1> HIDE DEF s
<1>2. IsConcat(s, a, b) BY <1>1 DEF s
<1>3. s \in Seq(Byte) /\ Len(s) = Len(a) + Len(b) BY <1>2 DEF IsConcat
<1> QED BY <1>3 DEF s

LEMMA WriteLongType ==
  ASSUME NEW v \in Nat
  PROVE  WriteLong(v) \in Seq(Byte) /\ Len(WriteLong(v)) = 8
<1>1. 8 \in Nat OBVIOUS
<1> QED BY <1>1, FixedSizes, WriteFixedType DEF WriteLong

LEMMA WriteIntType ==
  ASSUME NEW v \in Nat
  PROVE  WriteInt(v) \in Seq(Byte) /\ Len(WriteInt(v)) = 4
<1>1. 4 \in Nat OBVIOUS
<1> QED BY <1>1, FixedSizes, WriteFixedType DEF WriteInt

LEMMA WriteUUIDType ==
  ASSUME NEW v, v[1] \in Nat, v[2] \in Nat
  PROVE  WriteUUID(v) \in Seq(Byte) /\ Len(WriteUUID(v)) = 16
<1> DEFINE a == WriteLong(v[1])
           b == WriteLong(v[2])
<1>1. a \in Seq(Byte) /\ Len(a) = 8 BY WriteLongType
<1>2. b \in Seq(Byte) /\ Len(b) = 8 BY WriteLongType
<1>3. WriteUUID(v) = a \o b BY DEF WriteUUID
<1> HIDE DEF a, b
<1>4. a \o b \in Seq(Byte) /\ Len(a \o b) = Len(a) + Len(b) BY <1>1, <1>2, ConcatBytes
<1> QED BY <1>1, <1>2, <1>3, <1>4

LEMMA WriteUUIDIntArrayType ==
  ASSUME NEW v, v[1] \in Nat, v[2] \in Nat
  PROVE  WriteUUIDIntArray(v) \in Seq(Byte) /\ Len(WriteUUIDIntArray(v)) = 16
<1> DEFINE left(long) == Shifted(long, ByteValues, Size["Int"])
           a == WriteInt(left(v[1]))
           b == WriteInt(v[1])
           c == WriteInt(left(v[2]))
           d == WriteInt(v[2])
<1>1. left(v[1]) \in Nat /\ left(v[2]) \in Nat
  <2>1. Size["Int"] \in Nat BY FixedSizes
  <2> QED BY <2>1, ByteRange, ShiftedSteps
<1> HIDE DEF left
<1>2. a \in Seq(Byte) /\ Len(a) = 4 BY <1>1, WriteIntType
<1>3. b \in Seq(Byte) /\ Len(b) = 4 BY WriteIntType
<1>4. c \in Seq(Byte) /\ Len(c) = 4 BY <1>1, WriteIntType
<1>5. d \in Seq(Byte) /\ Len(d) = 4 BY WriteIntType
<1>6. WriteUUIDIntArray(v) = ((a \o b) \o c) \o d BY DEF WriteUUIDIntArray, left
<1> HIDE DEF a, b, c, d
<1> DEFINE ab == a \o b
<1>7. ab \in Seq(Byte) /\ Len(ab) = Len(a) + Len(b) BY <1>2, <1>3, ConcatBytes
<1>8. WriteUUIDIntArray(v) = (ab \o c) \o d BY <1>6
<1> HIDE DEF ab
<1> DEFINE abc == ab \o c
<1>9. abc \in Seq(Byte) /\ Len(abc) = Len(ab) + Len(c) BY <1>4, <1>7, ConcatBytes
<1>10. WriteUUIDIntArray(v) = abc \o d BY <1>8
<1> HIDE DEF abc
<1>11. abc \o d \in Seq(Byte) /\ Len(abc \o d) = Len(abc) + Len(d) BY <1>5, <1>9, ConcatBytes
<1> QED BY <1>2, <1>3, <1>4, <1>5, <1>7, <1>9, <1>10, <1>11

(* The length of an array is within what a VarInt holds. *)
LEMMA ArrayLength ==
  ASSUME NEW v \in Seq(Byte), Len(v) <= MaxLength
  PROVE  Len(v) \in 0 .. Modulus - 1
<1>1. Len(v) \in Nat BY LenProperties
<1>2. MaxLength \in 0 .. Modulus - 1 /\ Modulus \in Nat BY WidthAssumption, VarIntAssumption
<1> QED BY <1>1, <1>2

LEMMA WriteArrayType ==
  ASSUME NEW v \in Seq(Byte), Len(v) <= MaxLength
  PROVE  WriteArray(v) \in Seq(Byte) /\ Len(WriteArray(v)) = ArrayBytes(Len(v))
<1> DEFINE n == Len(v)
           w == WriteVarInt[n]
<1>1. n \in 0 .. Modulus - 1 BY ArrayLength
<1>2. n \in Nat BY LenProperties
<1>3. GroupsNeeded(n, MaxGroups) = Len(w) BY <1>1, GroupsOfVarInt
<1>4. w \in Seq(Byte) BY <1>2, WriteVarIntSteps
<1>5. ArrayBytes(n) = Len(w) + n BY <1>3 DEF ArrayBytes, VarIntBytes
<1>6. WriteArray(v) = w \o v BY DEF WriteArray
<1> HIDE DEF w
<1>7. w \o v \in Seq(Byte) /\ Len(w \o v) = Len(w) + Len(v) BY <1>4, ConcatBytes
<1> QED BY <1>5, <1>6, <1>7

(* ByteCounter counts the bytes ByteBuffer writes, field by field. *)
LEMMA WrittenCounted ==
  ASSUME NEW f \in Fields
  PROVE  Written(f) \in Seq(Byte) /\ Len(Written(f)) = Counted(f)
<1>1. CASE f.type \in FixedTypes
  <2> DEFINE size == Size[f.type]
  <2>1. f.value \in Unsigned(size) BY <1>1, FieldsAssumption
  <2>2. f.value \in Nat /\ size \in Nat BY <1>1, <2>1, FixedSizes DEF Unsigned
  <2>3. Written(f) = WriteFixed(f.value, size) /\ Counted(f) = size
    BY <1>1, WrittenCases, CountedCases
  <2> HIDE DEF size
  <2> DEFINE v == f.value
  <2> HIDE DEF v
  <2>4. v \in Nat /\ size \in Nat BY <2>2 DEF v
  <2>5. WriteFixed(v, size) \in Seq(Byte) /\ Len(WriteFixed(v, size)) = size
    BY <2>4, WriteFixedType
  <2> QED BY <2>3, <2>5 DEF v
<1>2. CASE f.type = "VarInt"
  <2>1. f.value \in 0 .. Modulus - 1 BY <1>2, FieldsAssumption
  <2>2. f.value \in Nat BY <2>1, VarIntAssumption
  <2>3. WriteVarInt[f.value] \in Seq(Byte) BY <2>2, WriteVarIntSteps
  <2>4. Written(f) = WriteVarInt[f.value] /\ Counted(f) = VarIntBytes(f.value)
    BY <1>2, WrittenCases, CountedCases
  <2> QED BY <2>1, <2>3, <2>4, GroupsOfVarInt DEF VarIntBytes
<1>3. CASE f.type = "VarLong"
  <2>1. f.value \in 0 .. LongModulus - 1 BY <1>3, FieldsAssumption
  <2>2. f.value \in Nat BY <2>1, WidthAssumption
  <2>3. WriteVarInt[f.value] \in Seq(Byte) BY <2>2, WriteVarIntSteps
  <2>4. Written(f) = WriteVarInt[f.value] /\ Counted(f) = VarLongBytes(f.value)
    BY <1>3, WrittenCases, CountedCases
  <2> QED BY <2>1, <2>3, <2>4, GroupsOfVarLong DEF VarLongBytes
<1>4. CASE f.type \in {"UUID", "UUIDIntArray"}
  <2> DEFINE v == f.value
  <2>1. v \in Unsigned(Size["Long"]) \X Unsigned(Size["Long"]) BY <1>4, FieldsAssumption
  <2>2. Unsigned(Size["Long"]) \subseteq Nat BY DEF Unsigned
  <2>3. v[1] \in Nat /\ v[2] \in Nat BY <2>1, <2>2
  <2>4. Counted(f) = 16 BY <1>4, CountedCases
  <2>5. \/ Written(f) = WriteUUID(v)
        \/ Written(f) = WriteUUIDIntArray(v)
    BY <1>4, WrittenCases
  <2> HIDE DEF v
  <2> QED BY <2>3, <2>4, <2>5, WriteUUIDType, WriteUUIDIntArrayType
<1>5. CASE f.type \in {"String", "ByteArray"}
  <2>1. f.value \in Seq(Byte) /\ Len(f.value) <= MaxLength BY <1>5, FieldsAssumption
  <2>2. Written(f) = WriteArray(f.value) /\ Counted(f) = ArrayBytes(Len(f.value))
    BY <1>5, WrittenCases, CountedCases
  <2> QED BY <2>1, <2>2, WriteArrayType
<1> QED BY <1>1, <1>2, <1>3, <1>4, <1>5, FieldTypes DEF PartTypes

LEMMA CountedType ==
  ASSUME NEW f \in Fields PROVE Counted(f) \in Nat
<1>1. Written(f) \in Seq(Byte) /\ Len(Written(f)) = Counted(f) BY WrittenCounted
<1>2. Len(Written(f)) \in Nat BY <1>1, LenProperties
<1> QED BY <1>1, <1>2

-----------------------------------------------------------------------------
(* The bytes of a list of fields. *)

AppendBytes == [x \in Fields |-> [r \in Seq(Byte) |-> r \o Written(x)]]

LEMMA AppendBytesType == AppendBytes \in [Fields -> [Seq(Byte) -> Seq(Byte)]]
<1>1. ASSUME NEW x \in Fields, NEW r \in Seq(Byte) PROVE r \o Written(x) \in Seq(Byte)
  <2>1. Written(x) \in Seq(Byte) BY WrittenCounted
  <2> QED BY <2>1, ConcatBytes
<1>2. ASSUME NEW x \in Fields
      PROVE  [r \in Seq(Byte) |-> r \o Written(x)] \in [Seq(Byte) -> Seq(Byte)]
  BY <1>1
<1> QED BY <1>2, Zenon DEF AppendBytes

LEMMA BytesOfFolds ==
  ASSUME NEW q \in Seq(Fields)
  PROVE  \E f : /\ FoldedBy(f, AppendBytes, <<>>, q)
                /\ BytesOf(q) = f[Len(q)]
                /\ BytesOf(q) \in Seq(Byte)
<1> DEFINE N == Len(q)
           act == AppendBytes
           G(g) == [n \in 0 .. N |-> IF n = 0 THEN <<>> ELSE g[n - 1] \o Written(q[n])]
           h == CHOOSE g : g = G(g)
<1>0. N \in Nat BY LenProperties
<1>1. act \in [Fields -> [Seq(Byte) -> Seq(Byte)]] BY AppendBytesType
<1>2. <<>> \in Seq(Byte) BY EmptySeq
<1>3. PICK f \in [0 .. N -> Seq(Byte)] : FoldedBy(f, act, <<>>, q)
  <2> HIDE DEF act
  <2> QED BY <1>1, <1>2, FoldExists
<1>4. ASSUME NEW n \in 1 .. N, NEW s \in Seq(Byte)
      PROVE  act[q[n]][s] = s \o Written(q[n])
  <2>1. q[n] \in Fields BY ElementOfSeq
  <2> QED BY <2>1 DEF AppendBytes
<1> HIDE DEF act
<1>5. f = G(f)
  <2> SUFFICES ASSUME NEW n \in 0 .. N PROVE f[n] = G(f)[n] OBVIOUS
  <2>1. CASE n = 0 BY <1>3, <2>1 DEF FoldedBy
  <2>2. CASE n # 0
    <3>1. n \in 1 .. N /\ n - 1 \in 0 .. N BY <1>0, <2>2
    <3>2. f[n - 1] \in Seq(Byte) BY <3>1
    <3>3. f[n] = act[q[n]][f[n - 1]] BY <1>3, <2>2 DEF FoldedBy
    <3>4. f[n] = f[n - 1] \o Written(q[n]) BY <1>4, <3>1, <3>2, <3>3
    <3> QED BY <2>2, <3>4
  <2> QED BY <2>1, <2>2
<1>6. h = G(h)
  <2> HIDE DEF G
  <2> QED BY <1>5, Zenon
<1>7. BytesOf(q) = h[N] BY DEF BytesOf
<1> HIDE DEF h
<1>8. h[0] = <<>>
  <2>1. G(h)[0] = <<>> BY <1>0
  <2> HIDE DEF G
  <2> QED BY <1>6, <2>1
<1>9. ASSUME NEW n \in 1 .. N, h[n - 1] \in Seq(Byte)
      PROVE  h[n] = act[q[n]][h[n - 1]]
  <2>1. n \in 0 .. N /\ n # 0 BY <1>0
  <2>2. G(h)[n] = h[n - 1] \o Written(q[n]) BY <2>1
  <2> HIDE DEF G
  <2> QED BY <1>4, <1>6, <1>9, <2>2
<1>10. FoldedBy(h, act, <<>>, q) /\ \A n \in 0 .. N : h[n] \in Seq(Byte)
  <2>1. Steps(h, Seq(Byte), act, <<>>, q) BY <1>8, <1>9 DEF Steps
  <2> QED BY <1>1, <1>2, <2>1, FoldValues
<1>11. N \in 0 .. N BY <1>0
<1> QED BY <1>7, <1>10, <1>11 DEF act

LEMMA BytesOfNone == BytesOf(<<>>) = <<>>
<1>1. <<>> \in Seq(Fields) /\ Len(<<>>) = 0 BY EmptySeq
<1>2. PICK f : FoldedBy(f, AppendBytes, <<>>, <<>>) /\ BytesOf(<<>>) = f[Len(<<>>)]
  BY <1>1, BytesOfFolds
<1>3. f[0] = <<>> BY <1>1, <1>2 DEF FoldedBy
<1> QED BY <1>1, <1>2, <1>3

LEMMA BytesOfAppend ==
  ASSUME NEW q \in Seq(Fields), NEW x \in Fields
  PROVE  /\ BytesOf(q) \in Seq(Byte) /\ BytesOf(Append(q, x)) \in Seq(Byte)
         /\ BytesOf(Append(q, x)) = BytesOf(q) \o Written(x)
<1> DEFINE act == AppendBytes
<1>1. PICK f : /\ FoldedBy(f, act, <<>>, q) /\ BytesOf(q) = f[Len(q)]
               /\ BytesOf(q) \in Seq(Byte)
  BY BytesOfFolds
<1>2. Append(q, x) \in Seq(Fields) BY AppendProperties
<1>3. PICK g : /\ FoldedBy(g, act, <<>>, Append(q, x))
               /\ BytesOf(Append(q, x)) = g[Len(Append(q, x))]
               /\ BytesOf(Append(q, x)) \in Seq(Byte)
  BY <1>2, BytesOfFolds
<1>4. \A s \in Seq(Byte) : act[x][s] = s \o Written(x) BY DEF AppendBytes
<1> HIDE DEF act
<1>5. g[Len(Append(q, x))] = act[x][f[Len(q)]] BY <1>1, <1>3, FoldAppend
<1> QED BY <1>1, <1>3, <1>4, <1>5

LEMMA BytesOfType ==
  ASSUME NEW q \in Seq(Fields) PROVE BytesOf(q) \in Seq(Byte)
<1>1. PICK f : FoldedBy(f, AppendBytes, <<>>, q) /\ BytesOf(q) \in Seq(Byte)
  BY BytesOfFolds
<1> QED BY <1>1

(* The bytes of one list after another. *)
LEMMA BytesOfConcat ==
  ASSUME NEW p \in Seq(Fields)
  PROVE  \A q \in Seq(Fields) : BytesOf(p \o q) = BytesOf(p) \o BytesOf(q)
<1> DEFINE S == {q \in Seq(Fields) : BytesOf(p \o q) = BytesOf(p) \o BytesOf(q)}
<1>0. BytesOf(p) \in Seq(Byte) BY BytesOfType
<1>1. <<>> \in S
  <2>1. <<>> \in Seq(Fields) BY EmptySeq
  <2>2. p \o <<>> = p BY ConcatEmptySeq
  <2>3. BytesOf(p) \o <<>> = BytesOf(p) BY <1>0, ConcatEmptySeq
  <2> QED BY <2>1, <2>2, <2>3, BytesOfNone
<1>2. ASSUME NEW q \in Seq(Fields), NEW x \in Fields, q \in S PROVE Append(q, x) \in S
  <2> DEFINE pq == p \o q
             b == BytesOf(p)
             c == BytesOf(q)
             w == Written(x)
  <2>1. pq \in Seq(Fields) BY ConcatProperties
  <2>2. p \o Append(q, x) = Append(pq, x)
    <3> DEFINE one == <<x>>
    <3>1. one \in Seq(Fields) /\ Append(q, x) = q \o one BY AppendIsConcat
    <3>2. Append(pq, x) = pq \o one BY <2>1, AppendIsConcat
    <3> HIDE DEF one
    <3>3. (p \o q) \o one = p \o (q \o one) BY <3>1, ConcatAssociative
    <3> QED BY <3>1, <3>2, <3>3
  <2>3. BytesOf(pq) = b \o c BY <1>2
  <2> HIDE DEF pq
  <2>4. BytesOf(Append(pq, x)) = BytesOf(pq) \o w BY <2>1, BytesOfAppend
  <2>5. BytesOf(Append(q, x)) = c \o w BY BytesOfAppend
  <2>6. c \in Seq(Byte) /\ w \in Seq(Byte) BY BytesOfType, WrittenCounted
  <2>7. Append(q, x) \in Seq(Fields) BY AppendProperties
  <2> HIDE DEF b, c, w
  <2>8. b \in Seq(Byte) BY <1>0 DEF b
  <2>9. (b \o c) \o w = b \o (c \o w) BY <2>6, <2>8, BytesAssociative
  <2>10. BytesOf(p \o Append(q, x)) = b \o BytesOf(Append(q, x))
    BY <2>2, <2>3, <2>4, <2>5, <2>9
  <2> QED BY <2>7, <2>10 DEF b
<1>3. Seq(Fields) \subseteq S
  <2> HIDE DEF S
  <2> QED BY <1>1, <1>2, SeqInduction
<1> QED BY <1>3

LEMMA RestIsDrop == ASSUME NEW s, NEW n PROVE Rest(s, n) = Drop(s, n)
BY DEF Rest, Drop

(* The bytes of the first field left, and of the others. *)
LEMMA BytesOfRest ==
  ASSUME NEW q \in Seq(Fields), NEW k \in Nat, k < Len(q)
  PROVE  /\ q[k + 1] \in Fields /\ Rest(q, k + 1) \in Seq(Fields)
         /\ BytesOf(Rest(q, k)) = Written(q[k + 1]) \o BytesOf(Rest(q, k + 1))
<1> DEFINE d == Drop(q, k)
           f == q[k + 1]
           one == <<f>>
           e == Drop(q, k + 1)
<1>1. Len(q) \in Nat BY LenProperties
<1>2. k \in 0 .. Len(q) /\ k + 1 \in 0 .. Len(q) /\ k + 1 \in 1 .. Len(q) BY <1>1
<1>3. f \in Fields BY <1>2, ElementOfSeq
<1>4. /\ d \in Seq(Fields) /\ Len(d) = Len(q) - k
      /\ \A i \in 1 .. Len(q) - k : d[i] = q[k + i]
  BY <1>2, DropProperties
<1>5. /\ e \in Seq(Fields) /\ Len(e) = Len(q) - (k + 1)
      /\ \A i \in 1 .. Len(q) - (k + 1) : e[i] = q[(k + 1) + i]
  BY <1>2, DropProperties
<1>6. one \in Seq(Fields) /\ Len(one) = 1 /\ one[1] = f BY <1>3
<1> HIDE DEF d, e, one, f
<1> DEFINE c == one \o e
<1>7. /\ c \in Seq(Fields) /\ Len(c) = Len(one) + Len(e)
      /\ \A i \in 1 .. Len(one) + Len(e) : c[i] = IF i <= Len(one) THEN one[i] ELSE e[i - Len(one)]
  BY <1>5, <1>6, ConcatProperties
<1> HIDE DEF c
<1>8. Len(c) = Len(d) BY <1>1, <1>4, <1>5, <1>6, <1>7
<1>9. ASSUME NEW i \in 1 .. Len(d) PROVE c[i] = d[i]
  <2>1. i \in 1 .. Len(q) - k /\ i \in 1 .. Len(one) + Len(e)
    BY <1>1, <1>4, <1>5, <1>6
  <2>2. d[i] = q[k + i] BY <1>4, <2>1
  <2>3. CASE i = 1
    <3>1. c[i] = one[i] BY <1>6, <1>7, <2>1, <2>3
    <3> QED BY <1>6, <2>2, <2>3, <3>1 DEF f
  <2>4. CASE i # 1
    <3>1. /\ ~ (i <= Len(one)) /\ i - Len(one) = i - 1
          /\ i - 1 \in 1 .. Len(q) - (k + 1) /\ (k + 1) + (i - 1) = k + i
      BY <1>1, <1>6, <2>1, <2>4
    <3>2. c[i] = e[i - 1] BY <1>7, <2>1, <3>1
    <3>3. e[i - 1] = q[(k + 1) + (i - 1)] BY <1>5, <3>1
    <3> QED BY <2>2, <3>1, <3>2, <3>3
  <2> QED BY <2>3, <2>4
<1>10. d = c BY <1>4, <1>7, <1>8, <1>9, SeqEqual
<1>11. BytesOf(c) = BytesOf(one) \o BytesOf(e) BY <1>5, <1>6, BytesOfConcat DEF c
<1>12. BytesOf(one) = Written(f)
  <2>1. <<>> \in Seq(Fields) /\ Append(<<>>, f) = one BY EmptySeq DEF one
  <2>2. BytesOf(Append(<<>>, f)) = BytesOf(<<>>) \o Written(f) BY <1>3, <2>1, BytesOfAppend
  <2>3. Written(f) \in Seq(Byte) BY <1>3, WrittenCounted
  <2>4. <<>> \o Written(f) = Written(f) BY <2>3, ConcatEmptySeq
  <2> QED BY <2>1, <2>2, <2>4, BytesOfNone
<1>13. Rest(q, k) = d /\ Rest(q, k + 1) = e BY RestIsDrop DEF d, e
<1> QED BY <1>3, <1>5, <1>10, <1>11, <1>12, <1>13 DEF f

(* One field more. *)
LEMMA RestAppend ==
  ASSUME NEW q \in Seq(Fields), NEW x \in Fields, NEW k \in 0 .. Len(q)
  PROVE  /\ Rest(q, k) \in Seq(Fields)
         /\ Rest(Append(q, x), k) = Append(Rest(q, k), x)
<1> DEFINE one == <<x>>
           d == Drop(q, k)
<1>1. one \in Seq(Fields) /\ Append(q, x) = q \o one BY AppendIsConcat
<1>2. d \in Seq(Fields) BY DropProperties
<1>3. Append(d, x) = d \o one BY <1>2, AppendIsConcat
<1> HIDE DEF one, d
<1>4. Drop(q, k) \o one = Drop(q \o one, k) BY <1>1, DropConcat
<1>5. Rest(q, k) = d /\ Rest(Append(q, x), k) = Drop(Append(q, x), k)
  BY RestIsDrop DEF d
<1>6. Rest(Append(q, x), k) = d \o one BY <1>1, <1>4, <1>5 DEF d
<1> QED BY <1>2, <1>3, <1>5, <1>6

-----------------------------------------------------------------------------
(* Reading what was written, or the part of it that has arrived. *)

(* s and w are the same as far as both go. *)
Agree(s, w) == \A i \in 1 .. Len(s) : i <= Len(w) => s[i] = w[i]

(* r, read from s, has taken w and only w, if it is a success. *)
Takes(r, s, w) == r.ok => r.size = Len(w) /\ Len(w) <= Len(s)

LEMMA AgreeConcat ==
  ASSUME NEW s \in Seq(Byte), NEW a \in Seq(Byte), NEW b \in Seq(Byte), Agree(s, a \o b)
  PROVE  /\ Agree(s, a)
         /\ Len(a) <= Len(s) => Agree(Rest(s, Len(a)), b)
<1> DEFINE w == a \o b
<1>1. Len(s) \in Nat /\ Len(a) \in Nat /\ Len(b) \in Nat BY LenProperties
<1>2. IsConcat(w, a, b) BY BytesConcat
<1>3. Agree(s, w) OBVIOUS
<1> HIDE DEF w
<1>4. /\ Len(w) = Len(a) + Len(b)
      /\ \A i \in 1 .. Len(a) + Len(b) : w[i] = IF i <= Len(a) THEN a[i] ELSE b[i - Len(a)]
  BY <1>2 DEF IsConcat
<1>5. ASSUME NEW i \in 1 .. Len(s), i <= Len(a) PROVE s[i] = a[i]
  <2>1. i \in 1 .. Len(a) + Len(b) /\ i <= Len(w) BY <1>1, <1>4, <1>5
  <2>2. s[i] = w[i] BY <1>3, <2>1 DEF Agree
  <2> QED BY <1>4, <1>5, <2>1, <2>2
<1>6. ASSUME Len(a) <= Len(s) PROVE Agree(Rest(s, Len(a)), b)
  <2> DEFINE d == Drop(s, Len(a))
             n == Len(a)
  <2>1. n \in 0 .. Len(s) BY <1>1, <1>6
  <2>2. d \in Seq(Byte) /\ Len(d) = Len(s) - n /\ \A i \in 1 .. Len(s) - n : d[i] = s[n + i]
    BY <2>1, DropProperties
  <2> HIDE DEF d
  <2>3. ASSUME NEW i \in 1 .. Len(d), i <= Len(b) PROVE d[i] = b[i]
    <3>1. /\ i \in 1 .. Len(s) - n /\ n + i \in 1 .. Len(s)
          /\ n + i \in 1 .. Len(a) + Len(b) /\ n + i <= Len(w)
          /\ ~ (n + i <= Len(a)) /\ (n + i) - Len(a) = i
      BY <1>1, <1>4, <2>1, <2>2, <2>3
    <3>2. d[i] = s[n + i] BY <2>2, <3>1
    <3>3. s[n + i] = w[n + i] BY <1>3, <3>1 DEF Agree
    <3>4. w[n + i] = b[i] BY <1>4, <3>1
    <3> QED BY <3>2, <3>3, <3>4
  <2>4. Agree(d, b) BY <2>3 DEF Agree
  <2> QED BY <2>4, RestIsDrop DEF d
<1> QED BY <1>5, <1>6 DEF Agree

LEMMA RestType ==
  ASSUME NEW s \in Seq(Byte), NEW n \in 0 .. Len(s)
  PROVE  Rest(s, n) \in Seq(Byte) /\ Len(Rest(s, n)) = Len(s) - n
<1>1. Drop(s, n) \in Seq(Byte) /\ Len(Drop(s, n)) = Len(s) - n BY DropProperties
<1> QED BY <1>1, RestIsDrop

LEMMA ReadFixedType ==
  ASSUME NEW s \in Seq(Byte), NEW size \in Nat
  PROVE  LET r == ReadFixed(s, size) IN
         /\ r.ok <=> size <= Len(s)
         /\ r.size = (IF size <= Len(s) THEN size ELSE 0)
         /\ r.size \in 0 .. Len(s)
         /\ r.ok => r.value = BigEndian(s, size)
<1>1. Len(s) \in Nat BY LenProperties
<1>2. CASE Len(s) < size
  <2>1. ReadFixed(s, size) = [ok |-> FALSE, value |-> 0, size |-> 0]
    BY <1>2 DEF ReadFixed, Failure
  <2> QED BY <1>1, <1>2, <2>1
<1>3. CASE ~ (Len(s) < size)
  <2>1. ReadFixed(s, size) = [ok |-> TRUE, value |-> BigEndian(s, size), size |-> size]
    BY <1>3 DEF ReadFixed, Success
  <2> QED BY <1>1, <1>3, <2>1
<1> QED BY <1>2, <1>3

LEMMA ReadFixedWritten ==
  ASSUME NEW s \in Seq(Byte), NEW size \in Nat, NEW v \in Unsigned(size),
         Agree(s, WriteFixed(v, size))
  PROVE  /\ Takes(ReadFixed(s, size), s, WriteFixed(v, size))
         /\ ReadFixed(s, size).ok => ReadFixed(s, size).value = v
<1> DEFINE w == WriteFixed(v, size)
           r == ReadFixed(s, size)
<1>1. v \in Nat BY DEF Unsigned
<1>2. w \in Seq(Byte) /\ Len(w) = size BY <1>1, WriteFixedType
<1>3. Len(s) \in Nat BY LenProperties
<1>4. /\ r.ok <=> size <= Len(s)
      /\ r.size = (IF size <= Len(s) THEN size ELSE 0)
      /\ r.ok => r.value = BigEndian(s, size)
  BY ReadFixedType
<1>5. Agree(s, w) OBVIOUS
<1> HIDE DEF r
<1>6. ASSUME r.ok PROVE r.value = v
  <2>1. \A i \in 1 .. size : i \in 1 .. Len(s) /\ i <= Len(w) BY <1>2, <1>3, <1>4, <1>6
  <2>2. \A i \in 1 .. size : s[i] = w[i] BY <1>5, <2>1 DEF Agree
  <2>3. BigEndian(s, size) = v BY <2>2, BigEndianWritten
  <2> QED BY <1>4, <1>6, <2>3
<1> HIDE DEF w
<1>7. Takes(r, s, w) BY <1>2, <1>4 DEF Takes
<1> QED BY <1>6, <1>7 DEF r, w

LEMMA FromGroupsType ==
  ASSUME NEW s \in Seq(Byte), NEW groups \in Nat \ {0}, NEW modulus \in Nat \ {0}
  PROVE  LET r == FromVarInt(ReadGroups(s, groups, modulus)) IN
         /\ r.size \in 0 .. Len(s)
         /\ r.value \in Nat
         /\ r.ok <=> ReadGroups(s, groups, modulus).result = "Success"
<1> DEFINE g == ReadGroups(s, groups, modulus)
<1>1. g.size \in 0 .. Len(s) /\ g.value \in Nat BY ReadGroupsType
<1> HIDE DEF g
<1>2. FromVarInt(g) = IF g.result = "Success"
                      THEN [ok |-> TRUE, value |-> g.value, size |-> g.size]
                      ELSE [ok |-> FALSE, value |-> 0, size |-> g.size]
  BY DEF FromVarInt, Success, Failure
<1>3. FromVarInt(g).size \in 0 .. Len(s) BY <1>1, <1>2
<1>4. FromVarInt(g).value \in Nat BY <1>1, <1>2
<1>5. FromVarInt(g).ok <=> g.result = "Success" BY <1>2
<1> QED BY <1>3, <1>4, <1>5 DEF g

(* r is the success that takes the bytes of w and returns v. *)
Returns(r, v, w) == r.result = "Success" /\ r.value = v /\ r.size = Len(w)

LEMMA WrittenIsRead ==
  ASSUME NEW s \in Seq(Byte), NEW groups \in Nat \ {0}, NEW modulus \in Nat \ {0},
         NEW v \in Nat, v < modulus, Len(WriteVarInt[v]) <= groups,
         Len(WriteVarInt[v]) <= Len(s), Agree(s, WriteVarInt[v])
  PROVE  Returns(ReadGroups(s, groups, modulus), v, WriteVarInt[v])
<1>0. /\ s \in Seq(Byte) /\ groups \in Nat \ {0} /\ modulus \in Nat \ {0} /\ v \in Nat
      /\ v < modulus /\ Len(WriteVarInt[v]) <= groups /\ Len(WriteVarInt[v]) <= Len(s)
  OBVIOUS
<1>1. Len(s) \in Nat BY LenProperties
<1>2. Len(WriteVarInt[v]) \in Nat BY WriteVarIntSteps, LenProperties
<1>3. \A x \in 1 .. Len(WriteVarInt[v]) : x \in 1 .. Len(s) /\ x <= Len(WriteVarInt[v])
  BY <1>1, <1>2
<1>4. \A x \in 1 .. Len(WriteVarInt[v]) : s[x] = WriteVarInt[v][x]
  BY <1>3 DEF Agree
<1>5. /\ ReadGroups(s, groups, modulus).result = "Success"
      /\ ReadGroups(s, groups, modulus).value = v
      /\ ReadGroups(s, groups, modulus).size = Len(WriteVarInt[v])
  BY ONLY <1>0, <1>4, ReadGroupsWritten
<1> QED BY <1>5 DEF Returns

LEMMA FromGroupsWritten ==
  ASSUME NEW s \in Seq(Byte), NEW groups \in Nat \ {0}, NEW modulus \in Nat \ {0},
         NEW v \in Nat, v < modulus, Len(WriteVarInt[v]) <= groups,
         Agree(s, WriteVarInt[v])
  PROVE  LET r == FromVarInt(ReadGroups(s, groups, modulus)) IN
         Takes(r, s, WriteVarInt[v]) /\ (r.ok => r.value = v)
<1> DEFINE g == ReadGroups(s, groups, modulus)
           w == WriteVarInt[v]
<1>1. Len(s) \in Nat BY LenProperties
<1>2. w \in Seq(Byte) /\ Len(w) \in Nat BY WriteVarIntSteps
<1>3. CASE Len(s) < Len(w)
  <2>1. \A x \in 1 .. Len(s) : s[x] = w[x]
    <3> HIDE DEF w
    <3>1. \A x \in 1 .. Len(s) : x <= Len(w) BY <1>1, <1>2, <1>3
    <3>2. Agree(s, w) BY DEF w
    <3> QED BY <3>1, <3>2 DEF Agree
  <2>2. g.result # "Success" BY <1>3, <2>1, ReadGroupsShort
  <2> HIDE DEF g
  <2>3. FromVarInt(g) = [ok |-> FALSE, value |-> 0, size |-> g.size]
    BY <2>2 DEF FromVarInt, Failure
  <2> QED BY <2>3 DEF Takes, g
<1>4. CASE Len(w) <= Len(s)
  <2>1. Returns(g, v, w) BY <1>4, WrittenIsRead
  <2> HIDE DEF g, w
  <2>2. g.result = "Success" /\ g.value = v /\ g.size = Len(w) BY <2>1 DEF Returns
  <2>3. FromVarInt(g) = [ok |-> TRUE, value |-> g.value, size |-> g.size]
    BY <2>2 DEF FromVarInt, Success
  <2> QED BY <1>4, <2>2, <2>3 DEF Takes, g, w
<1> QED BY <1>1, <1>2, <1>3, <1>4

LEMMA ReadUUIDType ==
  ASSUME NEW s \in Seq(Byte)
  PROVE  LET r == ReadUUID(s) IN
         /\ r.ok <=> 16 <= Len(s)
         /\ r.size \in 0 .. Len(s)
         /\ r.ok => /\ r.size = 16
                    /\ r.value = <<BigEndian(s, 8), BigEndian(Rest(s, 8), 8)>>
<1> DEFINE most == ReadLong(s)
           rest == Rest(s, most.size)
           least == ReadLong(rest)
           r == ReadUUID(s)
<1>1. Len(s) \in Nat /\ 8 \in Nat BY LenProperties
<1>2. most = ReadFixed(s, 8) /\ least = ReadFixed(rest, 8) BY FixedSizes DEF ReadLong
<1>3. r = CASE ~ most.ok  -> [ok |-> FALSE, value |-> 0, size |-> 0]
            [] ~ least.ok -> [ok |-> FALSE, value |-> 0, size |-> most.size]
            [] OTHER      -> [ok |-> TRUE, value |-> <<most.value, least.value>>,
                              size |-> most.size + least.size]
  BY DEF ReadUUID, Success, Failure
<1>4. /\ most.ok <=> 8 <= Len(s)
      /\ most.size = (IF 8 <= Len(s) THEN 8 ELSE 0)
      /\ most.ok => most.value = BigEndian(s, 8)
  BY <1>1, <1>2, ReadFixedType
<1> HIDE DEF most
<1>5. most.size \in 0 .. Len(s) BY <1>1, <1>4
<1>6. rest \in Seq(Byte) /\ Len(rest) = Len(s) - most.size BY <1>5, RestType
<1> HIDE DEF rest
<1>7. /\ least.ok <=> 8 <= Len(rest)
      /\ least.size = (IF 8 <= Len(rest) THEN 8 ELSE 0)
      /\ least.ok => least.value = BigEndian(rest, 8)
  BY <1>1, <1>2, <1>6, ReadFixedType
<1> HIDE DEF least, r
<1>8. CASE ~ most.ok
  <2>0. most.size = 0 BY <1>1, <1>4, <1>8
  <2>1. r = [ok |-> FALSE, value |-> 0, size |-> 0] BY <1>3, <1>8, <2>0
  <2>2. r.ok = FALSE /\ r.size = 0 BY <2>1
  <2>3. ~ (16 <= Len(s)) /\ 0 \in 0 .. Len(s) BY <1>1, <1>4, <1>8
  <2> QED BY <2>2, <2>3 DEF r
<1>9. CASE most.ok /\ ~ least.ok
  <2>1. r = [ok |-> FALSE, value |-> 0, size |-> most.size] BY <1>3, <1>9
  <2>2. r.ok = FALSE /\ r.size = most.size BY <2>1
  <2>3. ~ (16 <= Len(s)) BY <1>1, <1>4, <1>6, <1>7, <1>9
  <2> QED BY <1>5, <2>2, <2>3 DEF r
<1>10. CASE most.ok /\ least.ok
  <2>1. r = [ok |-> TRUE, value |-> <<most.value, least.value>>,
             size |-> most.size + least.size]
    BY <1>3, <1>10
  <2>2. /\ r.ok = TRUE /\ r.size = most.size + least.size
        /\ r.value = <<most.value, least.value>>
    BY <2>1
  <2>3. most.size = 8 /\ least.size = 8 /\ 16 <= Len(s)
    BY <1>1, <1>4, <1>6, <1>7, <1>10
  <2>4. rest = Rest(s, 8) BY <2>3 DEF rest
  <2>5. r.value = <<BigEndian(s, 8), BigEndian(Rest(s, 8), 8)>>
    BY <1>4, <1>7, <1>10, <2>2, <2>4
  <2>6. r.size = 16 /\ 16 \in 0 .. Len(s) BY <1>1, <2>2, <2>3
  <2> QED BY <2>2, <2>3, <2>5, <2>6 DEF r
<1> QED BY <1>8, <1>9, <1>10

LEMMA ReadUUIDWritten ==
  ASSUME NEW v \in Unsigned(8) \X Unsigned(8), NEW s \in Seq(Byte),
         Agree(s, WriteUUID(v))
  PROVE  /\ Takes(ReadUUID(s), s, WriteUUID(v))
         /\ ReadUUID(s).ok => ReadUUID(s).value = v
<1> DEFINE x == v[1]
           y == v[2]
           a == WriteFixed(x, 8)
           b == WriteFixed(y, 8)
           rest == Rest(s, 8)
           r == ReadUUID(s)
<1>1. x \in Unsigned(8) /\ y \in Unsigned(8) /\ v = <<x, y>> OBVIOUS
<1>2. x \in Nat /\ y \in Nat /\ 8 \in Nat BY <1>1 DEF Unsigned
<1>3. Len(s) \in Nat BY LenProperties
<1>4. WriteUUID(v) = a \o b BY FixedSizes DEF WriteUUID, WriteLong
<1>5. Len(WriteUUID(v)) = 16 BY <1>2, WriteUUIDType
<1>6. a \in Seq(Byte) /\ Len(a) = 8 /\ b \in Seq(Byte) BY <1>2, WriteFixedType
<1>7. /\ r.ok <=> 16 <= Len(s)
      /\ r.ok => r.size = 16 /\ r.value = <<BigEndian(s, 8), BigEndian(rest, 8)>>
  BY ReadUUIDType
<1>8. Takes(r, s, WriteUUID(v)) BY <1>5, <1>7 DEF Takes
<1>9. ASSUME r.ok PROVE r.value = v
  <2>1. Agree(s, a \o b) BY <1>4
  <2>2. 8 \in 0 .. Len(s) /\ 16 <= Len(s) BY <1>3, <1>7, <1>9
  <2>3. rest \in Seq(Byte) /\ Len(rest) = Len(s) - 8 BY <2>2, RestType
  <2>4. 8 <= Len(s) /\ 8 <= Len(rest) BY <1>3, <2>2, <2>3
  <2> DEFINE n == Len(a)
  <2>5. Agree(s, a) /\ (n <= Len(s) => Agree(Rest(s, n), b))
    <3> HIDE DEF a, b
    <3> QED BY <1>6, <2>1, AgreeConcat
  <2>6. Agree(rest, b) BY <1>6, <2>4, <2>5
  <2>7. ReadFixed(s, 8).ok => ReadFixed(s, 8).value = x
    BY <1>1, <1>2, <2>5, ReadFixedWritten
  <2>8. ReadFixed(rest, 8).ok => ReadFixed(rest, 8).value = y
    <3> HIDE DEF rest
    <3> QED BY <1>1, <1>2, <2>3, <2>6, ReadFixedWritten
  <2>9. ReadFixed(s, 8).ok /\ ReadFixed(s, 8).value = BigEndian(s, 8)
    BY <1>2, <2>4, ReadFixedType
  <2>10. ReadFixed(rest, 8).ok /\ ReadFixed(rest, 8).value = BigEndian(rest, 8)
    <3> HIDE DEF rest
    <3> QED BY <1>2, <2>3, <2>4, ReadFixedType
  <2> HIDE DEF x, y, rest, r
  <2>11. r.value = <<x, y>> BY <1>7, <1>9, <2>7, <2>8, <2>9, <2>10
  <2> QED BY <1>1, <2>11
<1> QED BY <1>8, <1>9

LEMMA ReadUUIDIntArrayType ==
  ASSUME NEW s \in Seq(Byte)
  PROVE  LET r == ReadUUIDIntArray(s) IN
         /\ r.ok <=> 16 <= Len(s)
         /\ r.size \in 0 .. Len(s)
         /\ r.ok => r.size = 16
<1> DEFINE ints == Len(s) \div 4
           r == ReadUUIDIntArray(s)
<1>1. Len(s) \in Nat BY LenProperties
<1>2. ints \in Nat /\ ints * 4 <= Len(s) /\ Len(s) < ints * 4 + 4 BY <1>1
<1>3. CASE ints < 4
  <2>1. r = [ok |-> FALSE, value |-> 0, size |-> ints * 4]
    BY <1>3, FixedSizes DEF ReadUUIDIntArray, Failure
  <2> HIDE DEF r
  <2>2. r.ok = FALSE /\ r.size = ints * 4 BY <2>1
  <2> HIDE DEF ints
  <2>3. ~ (16 <= Len(s)) /\ ints * 4 \in 0 .. Len(s) BY <1>1, <1>2, <1>3
  <2> QED BY <2>2, <2>3 DEF r
<1>4. CASE ~ (ints < 4)
  <2>1. PICK value : r = [ok |-> TRUE, value |-> value, size |-> 4 * 4]
    BY <1>4, FixedSizes DEF ReadUUIDIntArray, Success
  <2> HIDE DEF r
  <2>2. r.ok = TRUE /\ r.size = 16 BY <2>1
  <2> HIDE DEF ints
  <2>3. 16 <= Len(s) /\ 16 \in 0 .. Len(s) BY <1>1, <1>2, <1>4
  <2> QED BY <2>2, <2>3 DEF r
<1> QED BY <1>3, <1>4

LEMMA VarIntWidths ==
  /\ MaxGroups \in Nat \ {0} /\ Modulus \in Nat \ {0}
  /\ LongGroups \in Nat \ {0} /\ LongModulus \in Nat \ {0}
BY VarIntAssumption, WidthAssumption

(* An array is as long as the VarInt before it says. *)
LEMMA ReadArrayType ==
  ASSUME NEW s \in Seq(Byte)
  PROVE  LET r == ReadArray(s)
             length == FromVarInt(ReadVarInt(s)) IN
         /\ r.size \in 0 .. Len(s)
         /\ r.ok => /\ length.ok
                    /\ r.size = length.size + length.value
<1> DEFINE r == ReadArray(s)
           length == FromVarInt(ReadVarInt(s))
           rest == Rest(s, length.size)
<1>1. Len(s) \in Nat BY LenProperties
<1>2. length.size \in 0 .. Len(s) /\ length.value \in Nat
  BY VarIntWidths, FromGroupsType DEF ReadVarInt
<1>3. r = IF ~ length.ok \/ length.value > MaxLength \/ Len(rest) < length.value
          THEN [ok |-> FALSE, value |-> 0, size |-> length.size]
          ELSE [ok |-> TRUE, value |-> SubSeq(rest, 1, length.value),
                size |-> length.size + length.value]
  BY DEF ReadArray, Success, Failure
<1> HIDE DEF length
<1>4. Len(rest) = Len(s) - length.size BY <1>2, RestType
<1> HIDE DEF r, rest
<1>5. CASE ~ length.ok \/ length.value > MaxLength \/ Len(rest) < length.value
  <2>1. r = [ok |-> FALSE, value |-> 0, size |-> length.size] BY <1>3, <1>5
  <2>2. r.ok = FALSE /\ r.size = length.size BY <2>1
  <2> QED BY <1>2, <2>2 DEF r
<1>6. CASE length.ok /\ ~ (length.value > MaxLength) /\ ~ (Len(rest) < length.value)
  <2>1. r = [ok |-> TRUE, value |-> SubSeq(rest, 1, length.value),
             size |-> length.size + length.value]
    BY <1>3, <1>6
  <2>2. r.size = length.size + length.value BY <2>1
  <2>3. length.size + length.value \in 0 .. Len(s) BY <1>1, <1>2, <1>4, <1>6
  <2> QED BY <1>6, <2>2, <2>3 DEF r, length
<1> QED BY <1>5, <1>6

LEMMA ReadArrayWritten ==
  ASSUME NEW v \in Seq(Byte), Len(v) <= MaxLength, NEW s \in Seq(Byte),
         Agree(s, WriteArray(v))
  PROVE  Takes(ReadArray(s), s, WriteArray(v))
<1> DEFINE n == Len(v)
           w == WriteVarInt[n]
           r == ReadArray(s)
           length == FromVarInt(ReadVarInt(s))
<1>1. Len(s) \in Nat BY LenProperties
<1>2. n \in 0 .. Modulus - 1 BY ArrayLength
<1>3. n \in Nat /\ n < Modulus BY <1>2, VarIntWidths
<1>4. w \in Seq(Byte) /\ Len(w) \in Nat BY <1>3, WriteVarIntSteps
<1>5. WriteArray(v) = w \o v BY DEF WriteArray
<1>6. Len(w) <= MaxGroups BY <1>2, GroupsOfVarInt
<1>7. Agree(s, w \o v) BY <1>5
<1>8. r.size \in 0 .. Len(s) /\ (r.ok => length.ok /\ r.size = length.size + length.value)
  BY ReadArrayType
<1>9. Takes(length, s, w) /\ (length.ok => length.value = n)
  <2>1. Agree(s, w)
    <3> HIDE DEF w
    <3> QED BY <1>4, <1>7, AgreeConcat
  <2> QED BY <1>3, <1>6, <2>1, VarIntWidths, FromGroupsWritten DEF ReadVarInt
<1> HIDE DEF w, length, r
<1>10. Len(w \o v) = Len(w) + n BY <1>4, ConcatBytes
<1>11. r.ok => r.size = Len(w) + n BY <1>8, <1>9 DEF Takes
<1>12. Takes(r, s, w \o v) BY <1>1, <1>4, <1>8, <1>10, <1>11 DEF Takes
<1> QED BY <1>5, <1>12 DEF r

(* Every Read consumes bytes that are there, whatever they are. *)
LEMMA ReadAsCases ==
  ASSUME NEW t \in FixedTypes \cup PartTypes, NEW s
  PROVE  /\ t = "Boolean" =>
              ReadAs(t, s) = [ReadFixed(s, 1) EXCEPT !.value = IF @ = 0 THEN 0 ELSE 1]
         /\ t \in FixedTypes \ {"Boolean"} => ReadAs(t, s) = ReadFixed(s, Size[t])
         /\ t = "VarInt" => ReadAs(t, s) = FromVarInt(ReadGroups(s, MaxGroups, Modulus))
         /\ t = "VarLong" => ReadAs(t, s) = FromVarInt(ReadGroups(s, LongGroups, LongModulus))
         /\ t = "UUID" => ReadAs(t, s) = ReadUUID(s)
         /\ t = "UUIDIntArray" => ReadAs(t, s) = ReadUUIDIntArray(s)
         /\ t = "String" => ReadAs(t, s) = ReadString(s)
         /\ t = "ByteArray" => ReadAs(t, s) = ReadByteArray(s)
<1>1. CASE t = "Boolean"
  <2>1. t \in FixedTypes /\ t \notin PartTypes BY <1>1, FixedSizes, TypesDiffer
  <2>2. ReadAs(t, s) = [ReadFixed(s, 1) EXCEPT !.value = IF @ = 0 THEN 0 ELSE 1]
    BY <1>1 DEF ReadAs
  <2> QED BY <1>1, <2>1, <2>2 DEF PartTypes
<1>2. CASE t \in FixedTypes \ {"Boolean"}
  <2>1. t \notin PartTypes BY <1>2, TypesDiffer
  <2> QED BY <1>2, <2>1 DEF ReadAs, PartTypes
<1>3. CASE t \notin FixedTypes
  <2>1. "Boolean" \in FixedTypes BY FixedSizes
  <2> QED BY <1>3, <2>1 DEF ReadAs, ReadVarInt, ReadVarLong
<1> QED BY <1>1, <1>2, <1>3

(* A Boolean takes its byte as a Byte does. *)
LEMMA ReadBooleanType ==
  ASSUME NEW s \in Seq(Byte)
  PROVE  LET r == ReadAs("Boolean", s)
             b == ReadFixed(s, 1) IN
         /\ r.ok = b.ok /\ r.size = b.size
         /\ r.value = IF b.value = 0 THEN 0 ELSE 1
<1> DEFINE b == ReadFixed(s, 1)
           r == ReadAs("Boolean", s)
<1>1. "Boolean" \in FixedTypes BY FixedSizes
<1>2. r = [b EXCEPT !.value = IF @ = 0 THEN 0 ELSE 1] BY <1>1, ReadAsCases
<1>3. \/ b = [ok |-> FALSE, value |-> 0, size |-> 0]
      \/ b = [ok |-> TRUE, value |-> BigEndian(s, 1), size |-> 1]
  BY DEF ReadFixed, Success, Failure
<1> HIDE DEF b, r
<1>4. r = [ok |-> b.ok, value |-> IF b.value = 0 THEN 0 ELSE 1, size |-> b.size]
  BY <1>2, <1>3
<1> QED BY <1>4 DEF b, r

LEMMA ReadStringType ==
  ASSUME NEW s
  PROVE  /\ ReadString(s).ok = ReadArray(s).ok /\ ReadString(s).size = ReadArray(s).size
         /\ ReadByteArray(s).ok = ReadArray(s).ok
         /\ ReadByteArray(s).size = ReadArray(s).size
<1> DEFINE b == ReadArray(s)
<1>1. b.ok \in BOOLEAN
  BY DEF ReadArray, Success, Failure
<1>2. ReadString(s) = IF b.ok THEN [ok |-> TRUE, value |-> Unspecified, size |-> b.size] ELSE b
  BY DEF ReadString, Success
<1>3. ReadByteArray(s) = IF b.ok THEN [ok |-> TRUE, value |-> <<>>, size |-> b.size] ELSE b
  BY DEF ReadByteArray, Success
<1> HIDE DEF b
<1>4. CASE b.ok
  <2>1. b.ok = TRUE BY <1>1, <1>4
  <2>2. ReadString(s) = [ok |-> TRUE, value |-> Unspecified, size |-> b.size]
    BY <1>2, <1>4
  <2>3. ReadByteArray(s) = [ok |-> TRUE, value |-> <<>>, size |-> b.size]
    BY <1>3, <1>4
  <2>4. ReadString(s).ok = TRUE /\ ReadString(s).size = b.size BY <2>2
  <2>5. ReadByteArray(s).ok = TRUE /\ ReadByteArray(s).size = b.size BY <2>3
  <2> QED BY <2>1, <2>4, <2>5 DEF b
<1>5. CASE ~ b.ok
  <2>1. ReadString(s) = b /\ ReadByteArray(s) = b BY <1>2, <1>3, <1>5
  <2> QED BY <2>1 DEF b
<1> QED BY <1>4, <1>5

LEMMA ReadSized ==
  ASSUME NEW t \in FixedTypes \cup PartTypes, NEW s \in Seq(Byte)
  PROVE  ReadAs(t, s).size \in 0 .. Len(s)
<1>1. CASE t = "Boolean"
  <2>1. 1 \in Nat OBVIOUS
  <2>2. ReadFixed(s, 1).size \in 0 .. Len(s) BY <2>1, ReadFixedType
  <2> QED BY <1>1, <2>2, ReadBooleanType
<1>2. CASE t \in FixedTypes \ {"Boolean"}
  <2>1. Size[t] \in Nat BY <1>2, FixedSizes
  <2>2. ReadFixed(s, Size[t]).size \in 0 .. Len(s) BY <2>1, ReadFixedType
  <2> QED BY <1>2, <2>2, ReadAsCases
<1>3. CASE t = "VarInt"
  <2>1. FromVarInt(ReadGroups(s, MaxGroups, Modulus)).size \in 0 .. Len(s)
    BY VarIntWidths, FromGroupsType
  <2> QED BY <1>3, <2>1, ReadAsCases
<1>4. CASE t = "VarLong"
  <2>1. FromVarInt(ReadGroups(s, LongGroups, LongModulus)).size \in 0 .. Len(s)
    BY VarIntWidths, FromGroupsType
  <2> QED BY <1>4, <2>1, ReadAsCases
<1>5. CASE t = "UUID" BY <1>5, ReadUUIDType, ReadAsCases
<1>6. CASE t = "UUIDIntArray" BY <1>6, ReadUUIDIntArrayType, ReadAsCases
<1>7. CASE t \in {"String", "ByteArray"}
  BY <1>7, ReadArrayType, ReadStringType, ReadAsCases
<1> QED BY <1>1, <1>2, <1>3, <1>4, <1>5, <1>6, <1>7 DEF PartTypes

(* A failed Read of a type of fixed size can be repeated. *)
LEMMA FixedFails ==
  ASSUME NEW t \in FixedTypes, NEW s \in Seq(Byte), ~ ReadAs(t, s).ok
  PROVE  ReadAs(t, s).size = 0
<1>1. CASE t = "Boolean"
  <2>1. 1 \in Nat OBVIOUS
  <2>2. ~ ReadFixed(s, 1).ok BY <1>1, ReadBooleanType
  <2>3. ReadFixed(s, 1).size = 0 BY <2>1, <2>2, ReadFixedType
  <2> QED BY <1>1, <2>3, ReadBooleanType
<1>2. CASE t # "Boolean"
  <2>1. Size[t] \in Nat BY FixedSizes
  <2>2. ReadAs(t, s) = ReadFixed(s, Size[t]) BY <1>2, ReadAsCases
  <2>3. ReadFixed(s, Size[t]).size = 0 BY <2>1, <2>2, ReadFixedType
  <2> QED BY <2>2, <2>3
<1> QED BY <1>1, <1>2

(* A successful Read of a field whose bytes are next takes these bytes and  *)
(* returns its value, unless its type is a damaged one.                     *)
LEMMA FieldRead ==
  ASSUME NEW f \in Fields, NEW s \in Seq(Byte), Agree(s, Written(f)),
         ReadAs(f.type, s).ok
  PROVE  /\ ReadAs(f.type, s).size = Len(Written(f))
         /\ Len(Written(f)) <= Len(s)
         /\ f.type \notin Damaged => ReadAs(f.type, s).value = f.value
<1> DEFINE t == f.type
           v == f.value
           r == ReadAs(f.type, s)
<1>0. t \in FixedTypes \cup PartTypes BY FieldTypes
<1>1. CASE t = "Boolean"
  <2> DEFINE b == ReadFixed(s, 1)
             w == WriteFixed(v, 1)
  <2>1. t \in FixedTypes /\ Size[t] = 1 /\ 1 \in Nat BY <1>1, FixedSizes
  <2>2. v \in Unsigned(1) /\ v \in {0, 1} BY <1>1, <2>1, FieldsAssumption
  <2>3. Written(f) = w BY <2>1, WrittenCases
  <2>4. Takes(b, s, w) /\ (b.ok => b.value = v) BY <2>1, <2>2, <2>3, ReadFixedWritten
  <2>5. r.ok = b.ok /\ r.size = b.size /\ r.value = IF b.value = 0 THEN 0 ELSE 1
    BY <1>1, ReadBooleanType
  <2> HIDE DEF b, w, v
  <2>6. r.size = Len(w) /\ Len(w) <= Len(s) BY <2>4, <2>5 DEF Takes
  <2>7. r.value = v BY <2>2, <2>4, <2>5
  <2> QED BY <2>3, <2>6, <2>7 DEF v
<1>2. CASE t \in FixedTypes \ {"Boolean"}
  <2> DEFINE size == Size[t]
             w == WriteFixed(v, size)
  <2>1. size \in Nat BY <1>2, FixedSizes
  <2>2. v \in Unsigned(size) BY <1>2, FieldsAssumption
  <2>3. Written(f) = w BY <1>2, WrittenCases
  <2>4. r = ReadFixed(s, size) BY <1>0, <1>2, ReadAsCases
  <2> HIDE DEF size
  <2>5. Takes(ReadFixed(s, size), s, w)
        /\ (ReadFixed(s, size).ok => ReadFixed(s, size).value = v)
    BY <2>1, <2>2, <2>3, ReadFixedWritten
  <2> HIDE DEF w
  <2> QED BY <2>3, <2>4, <2>5 DEF Takes
<1>3. CASE t = "VarInt"
  <2> DEFINE w == WriteVarInt[v]
             g == FromVarInt(ReadGroups(s, MaxGroups, Modulus))
  <2>1. v \in 0 .. Modulus - 1 BY <1>3, FieldsAssumption
  <2>2. v \in Nat /\ v < Modulus BY <2>1, VarIntWidths
  <2>3. Len(w) <= MaxGroups BY <2>1, GroupsOfVarInt
  <2>4. Written(f) = w BY <1>3, WrittenCases
  <2>5. r = g BY <1>0, <1>3, ReadAsCases
  <2>6. Takes(g, s, w) /\ (g.ok => g.value = v)
    BY <2>2, <2>3, <2>4, VarIntWidths, FromGroupsWritten
  <2> HIDE DEF w, g
  <2> QED BY <2>4, <2>5, <2>6 DEF Takes
<1>4. CASE t = "VarLong"
  <2> DEFINE w == WriteVarInt[v]
             g == FromVarInt(ReadGroups(s, LongGroups, LongModulus))
  <2>1. v \in 0 .. LongModulus - 1 BY <1>4, FieldsAssumption
  <2>2. v \in Nat /\ v < LongModulus BY <2>1, VarIntWidths
  <2>3. Len(w) <= LongGroups BY <2>1, GroupsOfVarLong
  <2>4. Written(f) = w BY <1>4, WrittenCases
  <2>5. r = g BY <1>0, <1>4, ReadAsCases
  <2>6. Takes(g, s, w) /\ (g.ok => g.value = v)
    BY <2>2, <2>3, <2>4, VarIntWidths, FromGroupsWritten
  <2> HIDE DEF w, g
  <2> QED BY <2>4, <2>5, <2>6 DEF Takes
<1>5. CASE t = "UUID"
  <2>1. v \in Unsigned(8) \X Unsigned(8) BY <1>5, FieldsAssumption, FixedSizes
  <2>2. Written(f) = WriteUUID(v) BY <1>5, WrittenCases
  <2>3. r = ReadUUID(s) BY <1>0, <1>5, ReadAsCases
  <2>4. Takes(ReadUUID(s), s, WriteUUID(v)) /\ (ReadUUID(s).ok => ReadUUID(s).value = v)
    BY <2>1, <2>2, ReadUUIDWritten
  <2> QED BY <2>2, <2>3, <2>4 DEF Takes
<1>6. CASE t = "UUIDIntArray"
  <2>1. v \in Unsigned(8) \X Unsigned(8) BY <1>6, FieldsAssumption, FixedSizes
  <2>2. v[1] \in Nat /\ v[2] \in Nat BY <2>1 DEF Unsigned
  <2>3. Written(f) = WriteUUIDIntArray(v) BY <1>6, WrittenCases
  <2>4. Len(Written(f)) = 16 BY <2>2, <2>3, WriteUUIDIntArrayType
  <2>5. r = ReadUUIDIntArray(s) BY <1>0, <1>6, ReadAsCases
  <2>6. r.size = 16 /\ 16 <= Len(s) BY <2>5, ReadUUIDIntArrayType
  <2>7. t \in Damaged BY <1>6 DEF Damaged
  <2> QED BY <2>4, <2>6, <2>7
<1>7. CASE t \in {"String", "ByteArray"}
  <2>1. v \in Seq(Byte) /\ Len(v) <= MaxLength BY <1>7, FieldsAssumption
  <2>2. Written(f) = WriteArray(v) BY <1>7, WrittenCases
  <2>3. Takes(ReadArray(s), s, WriteArray(v)) BY <2>1, <2>2, ReadArrayWritten
  <2>4. r = ReadString(s) \/ r = ReadByteArray(s) BY <1>0, <1>7, ReadAsCases
  <2>5. r.ok = ReadArray(s).ok /\ r.size = ReadArray(s).size BY <2>4, ReadStringType
  <2>6. t \in Damaged BY <1>7 DEF Damaged
  <2> QED BY <2>2, <2>3, <2>5, <2>6 DEF Takes
<1> QED BY <1>0, <1>1, <1>2, <1>3, <1>4, <1>5, <1>6, <1>7 DEF PartTypes

-----------------------------------------------------------------------------
(* The steps of sender, network and receiver. *)

(* got is a sequence, whatever kinds of value it holds. *)
GotIsSequence ==
  Len(got) \in Nat /\ got = [i \in 1 .. Len(got) |-> got[i]]

(* The inductive invariant.  ValuesRoundTrip is not inductive without       *)
(* ReaderInStep: that a Read returns the value written depends on the bytes *)
(* before it.                                                               *)
TypedInv ==
  /\ TypedTypeOK
  /\ GotIsSequence
  /\ ReaderInStep
  /\ ValuesRoundTrip
  /\ CounterAgrees

LEMMA TypedTypes ==
  ASSUME TypedTypeOK, GotIsSequence
  PROVE  /\ fields \in Seq(Fields) /\ Len(fields) \in Nat
         /\ writerIndex \in Nat /\ wire \in Seq(Byte) /\ Len(wire) \in Nat
         /\ buffer \in Seq(Byte) /\ Len(buffer) \in Nat
         /\ Len(got) \in Nat /\ Len(got) \in 0 .. Len(fields)
         /\ readerIndex \in Nat /\ disturbed \in BOOLEAN
<1>1. /\ fields \in Seq(Fields) /\ wire \in Seq(Byte) /\ buffer \in Seq(Byte)
      /\ writerIndex \in Nat /\ readerIndex \in Nat /\ disturbed \in BOOLEAN
      /\ Len(got) <= Len(fields)
  BY DEF TypedTypeOK
<1>2. Len(fields) \in Nat /\ Len(wire) \in Nat /\ Len(buffer) \in Nat
  BY <1>1, LenProperties
<1>3. Len(got) \in Nat BY DEF GotIsSequence
<1>4. Len(got) \in 0 .. Len(fields) BY <1>1, <1>2, <1>3
<1> QED BY <1>1, <1>2, <1>3, <1>4

LEMMA GotAppend ==
  ASSUME GotIsSequence, NEW v, got' = Append(got, v)
  PROVE  /\ GotIsSequence' /\ Len(got') = Len(got) + 1
         /\ \A i \in 1 .. Len(got) : got'[i] = got[i]
         /\ got'[Len(got) + 1] = v
<1> DEFINE n == Len(got)
           S == {got[i] : i \in 1 .. n} \cup {v}
<1>1. n \in Nat /\ got = [i \in 1 .. n |-> got[i]] BY DEF GotIsSequence
<1>2. \A i \in 1 .. n : got[i] \in S OBVIOUS
<1>3. v \in S OBVIOUS
<1> HIDE DEF S
<1>4. got \in Seq(S)
  <2>1. [i \in 1 .. n |-> got[i]] \in [1 .. n -> S] BY <1>2
  <2>2. got \in [1 .. n -> S] BY <1>1, <2>1
  <2> HIDE DEF n
  <2> QED BY <1>1, <2>2, SeqDef
<1>5. /\ got' \in Seq(S) /\ Len(got') = n + 1
      /\ \A i \in 1 .. n : got'[i] = got[i]
      /\ got'[n + 1] = v
  BY <1>3, <1>4, AppendProperties
<1>6. Len(got') \in Nat /\ got' \in [1 .. Len(got') -> S] BY <1>5, LenProperties
<1>7. got' = [i \in 1 .. Len(got') |-> got'[i]] BY <1>6
<1> QED BY <1>5, <1>6, <1>7 DEF GotIsSequence

(* In step, the bytes in the buffer are those of the field to read next, as *)
(* far as they have arrived.                                                *)
LEMMA NextBytes ==
  ASSUME TypedTypeOK, GotIsSequence, ReaderInStep, ~ disturbed,
         NEW f, f = fields[Len(got) + 1], Len(got) < Len(fields)
  PROVE  /\ f \in Fields
         /\ Agree(buffer, Written(f))
         /\ buffer \o wire = Written(f) \o BytesOf(Rest(fields, Len(got) + 1))
<1> DEFINE w == Written(f)
           b == BytesOf(Rest(fields, Len(got) + 1))
           s == buffer \o wire
<1>1. /\ fields \in Seq(Fields) /\ Len(got) \in Nat
      /\ buffer \in Seq(Byte) /\ Len(buffer) \in Nat /\ wire \in Seq(Byte)
      /\ Len(wire) \in Nat
  BY TypedTypes
<1>2. /\ f \in Fields /\ Rest(fields, Len(got) + 1) \in Seq(Fields)
      /\ BytesOf(Rest(fields, Len(got))) = w \o b
  BY <1>1, BytesOfRest
<1>3. w \in Seq(Byte) BY <1>2, WrittenCounted
<1>4. b \in Seq(Byte) BY <1>2, BytesOfType
<1>5. buffer \o wire = w \o b BY <1>2 DEF ReaderInStep
<1> HIDE DEF w, b, s
<1>6. IsConcat(s, buffer, wire) BY <1>1, BytesConcat DEF s
<1>7. IsConcat(s, w, b) BY <1>3, <1>4, <1>5, BytesConcat DEF s
<1>8. Len(w) \in Nat /\ Len(b) \in Nat BY <1>3, <1>4, LenProperties
<1>9. ASSUME NEW i \in 1 .. Len(buffer), i <= Len(w) PROVE buffer[i] = w[i]
  <2>1. i \in 1 .. Len(buffer) + Len(wire) /\ i <= Len(buffer) BY <1>1
  <2>2. i \in 1 .. Len(w) + Len(b) BY <1>1, <1>8, <1>9
  <2>3. s[i] = buffer[i] BY <1>6, <2>1 DEF IsConcat
  <2>4. s[i] = w[i] BY <1>7, <1>9, <2>2 DEF IsConcat
  <2> QED BY <2>3, <2>4
<1>10. Agree(buffer, w) BY <1>9 DEF Agree
<1> QED BY <1>2, <1>5, <1>10 DEF w, b

LEMMA DropNothing == ASSUME NEW T, NEW s \in Seq(T) PROVE Drop(s, 0) = s
<1>1. SubSeq(s, 0 + 1, Len(s)) = SubSeq(s, 1, Len(s)) OBVIOUS
<1> QED BY <1>1, SubSeqFull DEF Drop

LEMMA TypedInitially == TypedInit => TypedInv
<1> SUFFICES ASSUME TypedInit PROVE TypedInv OBVIOUS
<1>1. /\ fields = <<>> /\ writerIndex = 0 /\ wire = <<>> /\ buffer = <<>>
      /\ readerIndex = 0 /\ got = <<>> /\ disturbed = FALSE
  BY DEF TypedInit
<1>2. <<>> \in Seq(Fields) /\ <<>> \in Seq(Byte) /\ Len(<<>>) = 0 BY EmptySeq
<1>3. TypedTypeOK
  <2>1. fields \in Seq(Fields) /\ wire \in Seq(Byte) /\ buffer \in Seq(Byte)
    BY <1>1, <1>2
  <2>2. Len(got) = 0 /\ Len(fields) = 0 BY <1>1, <1>2
  <2>3. writerIndex \in Nat /\ Len(got) <= Len(fields) BY <1>1, <2>2
  <2>4. disturbed \in BOOLEAN /\ readerIndex \in Nat BY <1>1
  <2>5. readerIndex + Len(buffer) + Len(wire) = Len(BytesOf(fields))
    BY <1>1, <1>2, BytesOfNone
  <2> QED BY <2>1, <2>3, <2>4, <2>5 DEF TypedTypeOK
<1>4. GotIsSequence
  <2>1. got \in Seq(Byte) BY <1>1, <1>2
  <2>2. Len(got) \in Nat /\ got \in [1 .. Len(got) -> Byte] BY <2>1, LenProperties
  <2> QED BY <2>2 DEF GotIsSequence
<1>5. Rest(fields, Len(got)) = <<>>
  <2>1. Drop(<<>>, 0) = <<>> BY <1>2, DropNothing
  <2>2. Rest(<<>>, 0) = Drop(<<>>, 0) BY RestIsDrop
  <2>3. Len(got) = 0 BY <1>1, <1>2
  <2> QED BY <1>1, <2>1, <2>2, <2>3
<1>6. ReaderInStep
  <2>1. <<>> \o <<>> = <<>> BY <1>2, ConcatEmptySeq
  <2> QED BY <1>1, <1>5, <2>1, BytesOfNone DEF ReaderInStep
<1>7. ValuesRoundTrip BY <1>1, <1>2 DEF ValuesRoundTrip
<1>8. CounterAgrees BY <1>1, <1>2, BytesOfNone DEF CounterAgrees
<1> QED BY <1>3, <1>4, <1>6, <1>7, <1>8 DEF TypedInv

LEMMA WriteFieldKeeps ==
  ASSUME TypedInv, NEW f \in Fields, WriteField(f)
  PROVE  TypedInv'
<1> DEFINE w == Written(f)
           k == Len(got)
<1>1. /\ TypedTypeOK /\ GotIsSequence /\ ReaderInStep /\ ValuesRoundTrip
      /\ CounterAgrees
  BY DEF TypedInv
<1>2. /\ fields' = Append(fields, f) /\ writerIndex' = writerIndex + Counted(f)
      /\ wire' = wire \o w /\ buffer' = buffer /\ got' = got /\ disturbed' = disturbed
      /\ readerIndex' = readerIndex
  BY DEF WriteField
<1>3. /\ fields \in Seq(Fields) /\ Len(fields) \in Nat
      /\ writerIndex \in Nat /\ wire \in Seq(Byte) /\ buffer \in Seq(Byte)
      /\ Len(wire) \in Nat /\ Len(buffer) \in Nat /\ readerIndex \in Nat
      /\ k \in Nat /\ k \in 0 .. Len(fields) /\ disturbed \in BOOLEAN
  BY <1>1, TypedTypes
<1>4. w \in Seq(Byte) /\ Len(w) = Counted(f) /\ Len(w) \in Nat
  BY WrittenCounted, LenProperties
<1> HIDE DEF w
<1>5. /\ fields' \in Seq(Fields) /\ Len(fields') = Len(fields) + 1
      /\ \A i \in 1 .. Len(fields) : fields'[i] = fields[i]
  BY <1>2, <1>3, AppendProperties
<1>6. /\ BytesOf(fields) \in Seq(Byte) /\ BytesOf(fields') = BytesOf(fields) \o w
  BY <1>2, <1>3, BytesOfAppend DEF w
<1>7. TypedTypeOK'
  <2>1. wire' \in Seq(Byte) BY <1>2, <1>3, <1>4, ConcatBytes
  <2>2. writerIndex' \in Nat BY <1>2, <1>3, <1>4
  <2>3. Len(got') <= Len(fields') BY <1>2, <1>3, <1>5
  <2>4. Len(wire') = Len(wire) + Len(w) BY <1>2, <1>3, <1>4, ConcatBytes
  <2>5. Len(BytesOf(fields')) = Len(BytesOf(fields)) + Len(w)
    BY <1>4, <1>6, ConcatBytes
  <2>6. readerIndex + Len(buffer) + Len(wire) = Len(BytesOf(fields))
    BY <1>1 DEF TypedTypeOK
  <2>7. readerIndex' + Len(buffer') + Len(wire') = Len(BytesOf(fields'))
    <3> DEFINE sum == Len(BytesOf(fields))
               a == readerIndex
               b == Len(buffer)
               c == Len(wire)
               n == Len(w)
    <3>1. sum \in Nat BY <1>6, LenProperties
    <3>2. a \in Nat /\ b \in Nat /\ c \in Nat /\ n \in Nat BY <1>3, <1>4
    <3>3. readerIndex' = a /\ Len(buffer') = b BY <1>2
    <3>4. Len(wire') = c + n /\ Len(BytesOf(fields')) = sum + n BY <2>4, <2>5
    <3>5. a + b + c = sum BY <2>6
    <3> HIDE DEF sum, a, b, c, n
    <3>6. a + b + (c + n) = sum + n BY <3>1, <3>2, <3>5
    <3> QED BY <3>3, <3>4, <3>6, Zenon
  <2> QED BY <1>2, <1>3, <1>5, <2>1, <2>2, <2>3, <2>7 DEF TypedTypeOK
<1>8. GotIsSequence' BY <1>1, <1>2 DEF GotIsSequence
<1>9. ReaderInStep'
  <2> SUFFICES ASSUME ~ disturbed'
               PROVE  buffer' \o wire' = BytesOf(Rest(fields', Len(got')))
    BY DEF ReaderInStep
  <2> DEFINE rest == Rest(fields, k)
  <2>1. rest \in Seq(Fields) /\ Rest(fields', k) = Append(rest, f)
    BY <1>2, <1>3, RestAppend
  <2>2. buffer \o wire = BytesOf(rest) BY <1>1, <1>2 DEF ReaderInStep
  <2> HIDE DEF rest
  <2>3. BytesOf(Append(rest, f)) = BytesOf(rest) \o w BY <2>1, BytesOfAppend DEF w
  <2>4. (buffer \o wire) \o w = buffer \o (wire \o w) BY <1>3, <1>4, BytesAssociative
  <2> QED BY <1>2, <2>1, <2>2, <2>3, <2>4
<1>10. ValuesRoundTrip'
  <2> SUFFICES ASSUME ~ disturbed', NEW i \in 1 .. Len(got'),
                      fields'[i].type \notin Damaged
               PROVE  got'[i] = fields'[i].value
    BY DEF ValuesRoundTrip
  <2>1. i \in 1 .. Len(got) /\ i \in 1 .. Len(fields) BY <1>2, <1>3
  <2>2. fields'[i] = fields[i] BY <1>5, <2>1
  <2> QED BY <1>1, <1>2, <2>1, <2>2 DEF ValuesRoundTrip
<1>11. CounterAgrees'
  <2>1. Len(BytesOf(fields) \o w) = Len(BytesOf(fields)) + Len(w)
    BY <1>4, <1>6, ConcatBytes
  <2>2. writerIndex = Len(BytesOf(fields)) BY <1>1 DEF CounterAgrees
  <2>3. writerIndex' = Len(BytesOf(fields')) BY <1>2, <1>4, <1>6, <2>1, <2>2
  <2> QED BY <2>3 DEF CounterAgrees
<1> QED BY <1>7, <1>8, <1>9, <1>10, <1>11 DEF TypedInv

LEMMA ArriveKeeps ==
  ASSUME TypedInv, NEW n \in 1 .. Len(wire), Arrive(n)
  PROVE  TypedInv'
<1> DEFINE t == Take(wire, n)
           d == Drop(wire, n)
<1>1. /\ TypedTypeOK /\ GotIsSequence /\ ReaderInStep /\ ValuesRoundTrip
      /\ CounterAgrees
  BY DEF TypedInv
<1>2. /\ buffer' = buffer \o t /\ wire' = d
      /\ fields' = fields /\ writerIndex' = writerIndex /\ got' = got
      /\ disturbed' = disturbed /\ readerIndex' = readerIndex
  BY RestIsDrop DEF Arrive, Take
<1>3. /\ wire \in Seq(Byte) /\ buffer \in Seq(Byte) /\ Len(wire) \in Nat
      /\ Len(buffer) \in Nat /\ readerIndex \in Nat
  BY <1>1, TypedTypes
<1>4. n \in 0 .. Len(wire) BY <1>3
<1>5. t \in Seq(Byte) /\ Len(t) = n BY <1>3, <1>4, TakeProperties
<1>6. d \in Seq(Byte) /\ Len(d) = Len(wire) - n BY <1>3, <1>4, DropProperties
<1>7. t \o d = wire BY <1>3, <1>4, TakeThenDrop
<1> HIDE DEF t, d
<1>8. (buffer \o t) \o d = buffer \o (t \o d) BY <1>3, <1>5, <1>6, BytesAssociative
<1>9. buffer \o t \in Seq(Byte) /\ Len(buffer \o t) = Len(buffer) + Len(t)
  BY <1>3, <1>5, ConcatBytes
<1>10. buffer' \o wire' = buffer \o wire BY <1>2, <1>7, <1>8
<1>11. TypedTypeOK'
  <2>1. readerIndex + Len(buffer) + Len(wire) = Len(BytesOf(fields))
    BY <1>1 DEF TypedTypeOK
  <2>2. Len(buffer') = Len(buffer) + n /\ Len(wire') = Len(wire) - n
    BY <1>2, <1>5, <1>6, <1>9
  <2>3. readerIndex' + Len(buffer') + Len(wire') = Len(BytesOf(fields'))
    <3>1. n \in Nat BY <1>3
    <3>2. readerIndex' = readerIndex /\ Len(BytesOf(fields')) = Len(BytesOf(fields))
      BY <1>2
    <3> QED BY <1>3, <2>1, <2>2, <3>1, <3>2
  <2> QED BY <1>1, <1>2, <1>6, <1>9, <2>3 DEF TypedTypeOK
<1>12. GotIsSequence' BY <1>1, <1>2 DEF GotIsSequence
<1>13. ReaderInStep' BY <1>1, <1>2, <1>10 DEF ReaderInStep
<1>14. ValuesRoundTrip' BY <1>1, <1>2 DEF ValuesRoundTrip
<1>15. CounterAgrees' BY <1>1, <1>2 DEF CounterAgrees
<1> QED BY <1>11, <1>12, <1>13, <1>14, <1>15 DEF TypedInv

(* What a Read consumes is there. *)
LEMMA NextRead ==
  ASSUME TypedTypeOK, GotIsSequence, Len(got) < Len(fields)
  PROVE  /\ NextType \in FixedTypes \cup PartTypes
         /\ ReadAs(NextType, buffer).size \in 0 .. Len(buffer)
         /\ Rest(buffer, ReadAs(NextType, buffer).size) \in Seq(Byte)
         /\ Len(Rest(buffer, ReadAs(NextType, buffer).size))
              = Len(buffer) - ReadAs(NextType, buffer).size
<1>1. /\ fields \in Seq(Fields) /\ Len(fields) \in Nat /\ Len(got) \in Nat
      /\ buffer \in Seq(Byte)
  BY TypedTypes
<1>2. Len(got) + 1 \in 1 .. Len(fields) BY <1>1
<1>3. fields[Len(got) + 1] \in Fields BY <1>1, <1>2, ElementOfSeq
<1>4. NextType \in FixedTypes \cup PartTypes BY <1>3, FieldTypes DEF NextType
<1>5. ReadAs(NextType, buffer).size \in 0 .. Len(buffer) BY <1>1, <1>4, ReadSized
<1>6. /\ Rest(buffer, ReadAs(NextType, buffer).size) \in Seq(Byte)
      /\ Len(Rest(buffer, ReadAs(NextType, buffer).size))
           = Len(buffer) - ReadAs(NextType, buffer).size
  <2> DEFINE m == ReadAs(NextType, buffer).size
  <2>1. m \in 0 .. Len(buffer) BY <1>5
  <2> HIDE DEF m
  <2>2. Rest(buffer, m) \in Seq(Byte) /\ Len(Rest(buffer, m)) = Len(buffer) - m
    BY <1>1, <2>1, RestType
  <2> QED BY <2>2 DEF m
<1> QED BY <1>4, <1>5, <1>6

(* A Read moves readerIndex by the bytes it takes from the buffer. *)
LEMMA ReadMoves ==
  ASSUME TypedTypeOK, GotIsSequence, Len(got) < Len(fields),
         NEW n, n = ReadAs(NextType, buffer).size,
         buffer' = Rest(buffer, n), readerIndex' = readerIndex + n,
         fields' = fields, wire' = wire
  PROVE  /\ buffer' \in Seq(Byte) /\ readerIndex' \in Nat
         /\ readerIndex' + Len(buffer') + Len(wire') = Len(BytesOf(fields'))
<1>1. /\ buffer \in Seq(Byte) /\ Len(buffer) \in Nat /\ Len(wire) \in Nat
      /\ readerIndex \in Nat
  BY TypedTypes
<1>2. /\ n \in 0 .. Len(buffer) /\ Rest(buffer, n) \in Seq(Byte)
      /\ Len(Rest(buffer, n)) = Len(buffer) - n
  BY NextRead
<1>3. readerIndex + Len(buffer) + Len(wire) = Len(BytesOf(fields)) BY DEF TypedTypeOK
<1>4. Len(buffer') = Len(buffer) - n BY <1>2
<1>5. n \in Nat /\ readerIndex' \in Nat BY <1>1, <1>2
<1>6. readerIndex' + Len(buffer') + Len(wire') = Len(BytesOf(fields'))
  <2> DEFINE sum == Len(BytesOf(fields))
             a == readerIndex
             b == Len(buffer)
             c == Len(wire)
  <2>1. a \in Nat /\ b \in Nat /\ c \in Nat /\ n \in Nat BY <1>1, <1>5
  <2>2. a + b + c = sum BY <1>3
  <2>3. readerIndex' = a + n /\ Len(buffer') = b - n BY <1>4
  <2>4. Len(wire') = c /\ Len(BytesOf(fields')) = sum OBVIOUS
  <2> HIDE DEF sum, a, b, c
  <2>5. (a + n) + (b - n) + c = sum BY <2>1, <2>2
  <2> QED BY <2>3, <2>4, <2>5, Zenon
<1> QED BY <1>2, <1>5, <1>6

LEMMA ReadFieldKeeps ==
  ASSUME TypedInv, ReadField
  PROVE  TypedInv'
<1> DEFINE f == fields[Len(got) + 1]
           r == ReadAs(f.type, buffer)
           w == Written(f)
           k == Len(got)
           rest == Rest(fields, k + 1)
<1>1. /\ TypedTypeOK /\ GotIsSequence /\ ReaderInStep /\ ValuesRoundTrip
      /\ CounterAgrees
  BY DEF TypedInv
<1>2. /\ Len(got) < Len(fields) /\ r.ok
      /\ got' = Append(got, r.value) /\ buffer' = Rest(buffer, r.size)
      /\ readerIndex' = readerIndex + r.size
      /\ fields' = fields /\ writerIndex' = writerIndex /\ wire' = wire
      /\ disturbed' = disturbed
  BY DEF ReadField, NextType
<1>3. /\ fields \in Seq(Fields) /\ Len(fields) \in Nat /\ k \in Nat
      /\ buffer \in Seq(Byte) /\ Len(buffer) \in Nat /\ wire \in Seq(Byte)
  BY <1>1, TypedTypes
<1>4. /\ buffer' \in Seq(Byte) /\ readerIndex' \in Nat
      /\ readerIndex' + Len(buffer') + Len(wire') = Len(BytesOf(fields'))
  <2> DEFINE n == r.size
  <2>1. /\ n = ReadAs(NextType, buffer).size /\ buffer' = Rest(buffer, n)
        /\ readerIndex' = readerIndex + n
    BY <1>2 DEF NextType
  <2> HIDE DEF n
  <2> QED BY <1>1, <1>2, <2>1, ReadMoves
<1>5. /\ GotIsSequence' /\ Len(got') = k + 1
      /\ \A i \in 1 .. k : got'[i] = got[i]
      /\ got'[k + 1] = r.value
  <2> DEFINE v == r.value
  <2>1. got' = Append(got, v) BY <1>2
  <2> HIDE DEF v
  <2>2. /\ GotIsSequence' /\ Len(got') = Len(got) + 1
        /\ \A i \in 1 .. Len(got) : got'[i] = got[i]
        /\ got'[Len(got) + 1] = v
    BY <1>1, <2>1, GotAppend
  <2> QED BY <2>2 DEF v
<1>6. TypedTypeOK'
  <2>1. Len(got') <= Len(fields') BY <1>2, <1>3, <1>5
  <2> HIDE DEF r
  <2> QED BY <1>1, <1>2, <1>4, <2>1 DEF TypedTypeOK
<1>7. ASSUME ~ disturbed
      PROVE  /\ r.size = Len(w) /\ Len(w) <= Len(buffer) /\ w \in Seq(Byte)
             /\ f.type \notin Damaged => r.value = f.value
             /\ buffer \o wire = w \o BytesOf(rest)
             /\ BytesOf(rest) \in Seq(Byte)
  <2>1. /\ f \in Fields /\ Agree(buffer, w) /\ buffer \o wire = w \o BytesOf(rest)
    BY <1>1, <1>2, <1>7, NextBytes
  <2>2. rest \in Seq(Fields) BY <1>2, <1>3, BytesOfRest
  <2>3. BytesOf(rest) \in Seq(Byte) BY <2>2, BytesOfType
  <2>4. w \in Seq(Byte) BY <2>1, WrittenCounted
  <2>5. /\ r.size = Len(w) /\ Len(w) <= Len(buffer)
        /\ f.type \notin Damaged => r.value = f.value
    BY <1>2, <1>3, <2>1, FieldRead
  <2> QED BY <2>1, <2>3, <2>4, <2>5
<1> HIDE DEF r, w, rest, f
<1>8. ReaderInStep'
  <2> SUFFICES ASSUME ~ disturbed'
               PROVE  buffer' \o wire' = BytesOf(Rest(fields', Len(got')))
    BY DEF ReaderInStep
  <2> DEFINE n == Len(w)
             b == BytesOf(rest)
  <2>1. ~ disturbed BY <1>2
  <2>2. /\ r.size = n /\ n <= Len(buffer) /\ w \in Seq(Byte)
        /\ buffer \o wire = w \o b /\ b \in Seq(Byte)
    BY <1>7, <2>1
  <2>3. n \in Nat BY <2>2, LenProperties
  <2>4. n \in 0 .. Len(buffer) /\ n \in 0 .. Len(w) BY <1>3, <2>2, <2>3
  <2> HIDE DEF b
  <2>5. Drop(buffer, n) \o wire = Drop(buffer \o wire, n)
    BY <1>3, <2>4, DropConcat
  <2>6. Drop(w \o b, n) = Drop(w, n) \o b BY <2>2, <2>4, DropConcat
  <2>7. Drop(w, n) \in Seq(Byte) /\ Len(Drop(w, n)) = Len(w) - n
    BY <2>2, <2>4, DropProperties
  <2>8. Drop(w, n) = <<>> BY <2>3, <2>7, EmptySeq
  <2>9. <<>> \o b = b BY <2>2, ConcatEmptySeq
  <2>10. buffer' = Drop(buffer, n) BY <1>2, <2>2, RestIsDrop
  <2>11. Rest(fields', Len(got')) = rest BY <1>2, <1>5 DEF rest
  <2> QED BY <1>2, <2>2, <2>5, <2>6, <2>8, <2>9, <2>10, <2>11 DEF b
<1>9. ValuesRoundTrip'
  <2> SUFFICES ASSUME ~ disturbed', NEW i \in 1 .. Len(got'),
                      fields'[i].type \notin Damaged
               PROVE  got'[i] = fields'[i].value
    BY DEF ValuesRoundTrip
  <2>1. ~ disturbed BY <1>2
  <2>2. CASE i = k + 1
    <3>1. fields'[i] = f BY <1>2, <2>2 DEF f
    <3> QED BY <1>5, <1>7, <2>1, <2>2, <3>1
  <2>3. CASE i # k + 1
    <3>1. i \in 1 .. k BY <1>3, <1>5, <2>3
    <3>2. got[i] = fields[i].value BY <1>1, <1>2, <2>1, <3>1 DEF ValuesRoundTrip
    <3> QED BY <1>2, <1>5, <3>1, <3>2
  <2> QED BY <2>2, <2>3
<1>10. CounterAgrees' BY <1>1, <1>2 DEF CounterAgrees
<1> QED BY <1>5, <1>6, <1>8, <1>9, <1>10 DEF TypedInv

LEMMA ReadFieldFailsKeeps ==
  ASSUME TypedInv, ReadFieldFails
  PROVE  TypedInv'
<1> DEFINE r == ReadAs(NextType, buffer)
<1>1. /\ TypedTypeOK /\ GotIsSequence /\ ReaderInStep /\ ValuesRoundTrip
      /\ CounterAgrees
  BY DEF TypedInv
<1>2. /\ Len(got) < Len(fields) /\ ~ r.ok
      /\ buffer' = Rest(buffer, r.size)
      /\ readerIndex' = readerIndex + r.size
      /\ disturbed' = (disturbed \/ NextType \notin FixedTypes)
      /\ fields' = fields /\ writerIndex' = writerIndex /\ wire' = wire
      /\ got' = got
  BY DEF ReadFieldFails
<1>3. buffer \in Seq(Byte) /\ Len(buffer) \in Nat BY <1>1, TypedTypes
<1>4. /\ buffer' \in Seq(Byte) /\ readerIndex' \in Nat
      /\ readerIndex' + Len(buffer') + Len(wire') = Len(BytesOf(fields'))
  <2> DEFINE n == r.size
  <2>1. /\ n = ReadAs(NextType, buffer).size /\ buffer' = Rest(buffer, n)
        /\ readerIndex' = readerIndex + n
    BY <1>2
  <2> HIDE DEF n
  <2> QED BY <1>1, <1>2, <2>1, ReadMoves
<1>5. NextType \in FixedTypes => r.size = 0 BY <1>2, <1>3, FixedFails
<1> HIDE DEF r
<1>6. disturbed' \in BOOLEAN BY <1>1, <1>2 DEF TypedTypeOK
<1>7. TypedTypeOK' BY <1>1, <1>2, <1>4, <1>6 DEF TypedTypeOK
<1>8. GotIsSequence' BY <1>1, <1>2 DEF GotIsSequence
<1>9. ReaderInStep'
  <2> SUFFICES ASSUME ~ disturbed'
               PROVE  buffer' \o wire' = BytesOf(Rest(fields', Len(got')))
    BY DEF ReaderInStep
  <2>1. ~ disturbed /\ r.size = 0 BY <1>2, <1>5
  <2>2. Drop(buffer, 0) = buffer BY <1>3, DropNothing
  <2>3. buffer' = buffer BY <1>2, <2>1, <2>2, RestIsDrop
  <2> QED BY <1>1, <1>2, <2>1, <2>3 DEF ReaderInStep
<1>10. ValuesRoundTrip' BY <1>1, <1>2 DEF ValuesRoundTrip
<1>11. CounterAgrees' BY <1>1, <1>2 DEF CounterAgrees
<1> QED BY <1>7, <1>8, <1>9, <1>10, <1>11 DEF TypedInv

LEMMA TypedStutterKeeps == ASSUME TypedInv, UNCHANGED typedVars PROVE TypedInv'
<1>1. /\ fields' = fields /\ writerIndex' = writerIndex /\ wire' = wire
      /\ buffer' = buffer /\ readerIndex' = readerIndex /\ got' = got
      /\ disturbed' = disturbed
  BY DEF typedVars
<1>2. /\ TypedTypeOK /\ GotIsSequence /\ ReaderInStep /\ ValuesRoundTrip
      /\ CounterAgrees
  BY DEF TypedInv
<1>3. TypedTypeOK' /\ GotIsSequence' BY <1>1, <1>2 DEF TypedTypeOK, GotIsSequence
<1>4. ReaderInStep' /\ ValuesRoundTrip' BY <1>1, <1>2 DEF ReaderInStep, ValuesRoundTrip
<1>5. CounterAgrees' BY <1>1, <1>2 DEF CounterAgrees
<1> QED BY <1>3, <1>4, <1>5 DEF TypedInv

(* The inductive invariant holds in every state, for every set of fields    *)
(* whose values fit their types and every way to cut the stream.            *)
THEOREM TypedInvariantHolds == TypedSpec => []TypedInv
<1>1. TypedInit => TypedInv BY TypedInitially
<1>2. TypedInv /\ [TypedNext]_typedVars => TypedInv'
  <2> SUFFICES ASSUME TypedInv, [TypedNext]_typedVars PROVE TypedInv' OBVIOUS
  <2>1. ASSUME NEW f \in Fields, WriteField(f) PROVE TypedInv'
    BY <2>1, WriteFieldKeeps
  <2>2. ASSUME NEW n \in 1 .. Len(wire), Arrive(n) PROVE TypedInv'
    BY <2>2, ArriveKeeps
  <2>3. CASE ReadField BY <2>3, ReadFieldKeeps
  <2>4. CASE ReadFieldFails BY <2>4, ReadFieldFailsKeeps
  <2>5. CASE UNCHANGED typedVars BY <2>5, TypedStutterKeeps
  <2> QED BY <2>1, <2>2, <2>3, <2>4, <2>5 DEF TypedNext
<1> QED BY <1>1, <1>2, PTL DEF TypedSpec

(* A Read, whether it succeeds or fails, consumes only bytes that are       *)
(* there: the bytes consumed, readable and on their way are together those  *)
(* that were written, for every kind of field and every way the stream is   *)
(* cut (the tests of GetReadableBytes from ByteBuffer.cpp:161 on).  No more *)
(* values are read than fields were written.                                *)
THEOREM TypedTypeCorrect == TypedSpec => []TypedTypeOK
<1>1. TypedInv => TypedTypeOK BY DEF TypedInv
<1> QED BY <1>1, TypedInvariantHolds, PTL

(* Until a Read that works in several parts fails, what the receiver has    *)
(* not read yet is exactly the bytes of the fields it has not read yet: a   *)
(* successful Read takes its field's bytes and no more, and a failed Read   *)
(* of a type of fixed size takes none.                                      *)
THEOREM ReaderStaysInStep == TypedSpec => []ReaderInStep
<1>1. TypedInv => ReaderInStep BY DEF TypedInv
<1> QED BY <1>1, TypedInvariantHolds, PTL

(* As long, the numbers, VarInts, VarLongs and UUIDs read are those that    *)
(* were written, for every value their types hold.                          *)
THEOREM ValuesAreRead == TypedSpec => []ValuesRoundTrip
<1>1. TypedInv => ValuesRoundTrip BY DEF TypedInv
<1> QED BY <1>1, TypedInvariantHolds, PTL

(* ByteCounter counts exactly the bytes ByteBuffer writes, its ladder of    *)
(* masks included: what Serializable::Size promises is what Write delivers. *)
THEOREM CounterIsExact == TypedSpec => []CounterAgrees
<1>1. TypedInv => CounterAgrees BY DEF TypedInv
<1> QED BY <1>1, TypedInvariantHolds, PTL

=============================================================================
