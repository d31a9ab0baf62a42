------------------------- MODULE SocketWriter_proofs -------------------------
(***************************************************************************)
(* Proofs about SocketWriter, for every chunk capacity, every set of       *)
(* pipes, packet sizes and addresses, every size of the kernel's send      *)
(* buffer and any number of calls and edits.                               *)
(***************************************************************************)
EXTENDS SocketWriter, ByteBufferImpl_proofs, SequenceTheorems, SetInduction

Packet == [id : Nat, size : Nat]

-----------------------------------------------------------------------------
(* The recursive functions: what they return for the empty list and for a  *)
(* list with one element more.                                             *)

Filter(T, set) ==
  [x \in T |-> [s \in Seq(T) |-> IF x \in set THEN s ELSE Append(s, x)]]

LEMMA FilterType ==
  ASSUME NEW T, NEW set
  PROVE  Filter(T, set) \in [T -> [Seq(T) -> Seq(T)]]
<1>1. ASSUME NEW x \in T, NEW s \in Seq(T)
      PROVE  (IF x \in set THEN s ELSE Append(s, x)) \in Seq(T)
  BY AppendProperties
<1>2. ASSUME NEW x \in T
      PROVE  [s \in Seq(T) |-> IF x \in set THEN s ELSE Append(s, x)] \in [Seq(T) -> Seq(T)]
  BY <1>1
<1> QED BY <1>2, Zenon DEF Filter

LEMMA WithoutFolds ==
  ASSUME NEW T, NEW list \in Seq(T), NEW set
  PROVE  \E f : /\ FoldedBy(f, Filter(T, set), <<>>, list)
                /\ Without(list, set) = f[Len(list)]
                /\ Without(list, set) \in Seq(T)
<1> DEFINE N == Len(list)
           act == Filter(T, set)
           G(g) == [n \in 0 .. N |->
                     IF n = 0 THEN <<>>
                     ELSE IF list[n] \in set THEN g[n - 1] ELSE Append(g[n - 1], list[n])]
           h == CHOOSE g : g = G(g)
<1>0. N \in Nat BY LenProperties
<1>1. act \in [T -> [Seq(T) -> Seq(T)]] BY FilterType
<1>2. <<>> \in Seq(T) BY EmptySeq
<1>3. PICK f \in [0 .. N -> Seq(T)] : FoldedBy(f, act, <<>>, list)
  <2> HIDE DEF act
  <2> QED BY <1>1, <1>2, FoldExists
<1>4. ASSUME NEW n \in 1 .. N, NEW s \in Seq(T)
      PROVE  act[list[n]][s] = IF list[n] \in set THEN s ELSE Append(s, list[n])
  <2>1. list[n] \in T BY ElementOfSeq
  <2> QED BY <2>1 DEF Filter
<1> HIDE DEF act
<1>5. f = G(f)
  <2> SUFFICES ASSUME NEW n \in 0 .. N PROVE f[n] = G(f)[n] OBVIOUS
  <2>1. CASE n = 0 BY <1>3, <2>1 DEF FoldedBy
  <2>2. CASE n # 0
    <3>1. n \in 1 .. N /\ n - 1 \in 0 .. N BY <1>0, <2>2
    <3>2. f[n - 1] \in Seq(T) BY <3>1
    <3>3. f[n] = act[list[n]][f[n - 1]] BY <1>3, <2>2 DEF FoldedBy
    <3>4. f[n] = IF list[n] \in set THEN f[n - 1] ELSE Append(f[n - 1], list[n])
      BY <1>4, <3>1, <3>2, <3>3
    <3> QED BY <2>2, <3>4
  <2> QED BY <2>1, <2>2
<1>6. h = G(h)
  <2> HIDE DEF G
  <2> QED BY <1>5, Zenon
<1>7. Without(list, set) = h[N] BY DEF Without
<1> HIDE DEF h
<1>8. h[0] = <<>>
  <2>1. G(h)[0] = <<>> BY <1>0
  <2> HIDE DEF G
  <2> QED BY <1>6, <2>1
<1>9. ASSUME NEW n \in 1 .. N, h[n - 1] \in Seq(T)
      PROVE  h[n] = act[list[n]][h[n - 1]]
  <2>1. n \in 0 .. N /\ n # 0 BY <1>0
  <2>2. G(h)[n] = IF list[n] \in set THEN h[n - 1] ELSE Append(h[n - 1], list[n])
    BY <2>1
  <2> HIDE DEF G
  <2> QED BY <1>4, <1>6, <1>9, <2>2
<1>10. FoldedBy(h, act, <<>>, list) /\ \A n \in 0 .. N : h[n] \in Seq(T)
  <2>1. Steps(h, Seq(T), act, <<>>, list) BY <1>8, <1>9 DEF Steps
  <2> QED BY <1>1, <1>2, <2>1, FoldValues
<1>11. h[N] \in Seq(T) BY <1>0, <1>10
<1> QED BY <1>7, <1>10, <1>11 DEF act

LEMMA WithoutEmpty ==
  ASSUME NEW set
  PROVE  Without(<<>>, set) = <<>>
<1> DEFINE e == <<>>
<1>1. e \in Seq(Nat) /\ Len(e) = 0 BY EmptySeq
<1> HIDE DEF e
<1>2. PICK f : /\ FoldedBy(f, Filter(Nat, set), <<>>, e)
               /\ Without(e, set) = f[Len(e)]
  BY <1>1, WithoutFolds
<1>3. f[0] = <<>> BY <1>1, <1>2 DEF FoldedBy
<1>4. Without(e, set) = <<>> BY <1>1, <1>2, <1>3
<1> QED BY <1>4 DEF e

(* What one more element adds. *)
Kept(q, x, set) ==
  Without(Append(q, x), set)
    = IF x \in set THEN Without(q, set) ELSE Append(Without(q, set), x)

LEMMA WithoutAppend ==
  ASSUME NEW T, NEW q \in Seq(T), NEW x \in T, NEW set
  PROVE  /\ Without(q, set) \in Seq(T)
         /\ Without(Append(q, x), set)
              = IF x \in set THEN Without(q, set) ELSE Append(Without(q, set), x)
<1> DEFINE act == Filter(T, set)
<1>1. PICK f : /\ FoldedBy(f, act, <<>>, q)
               /\ Without(q, set) = f[Len(q)]
               /\ Without(q, set) \in Seq(T)
  BY WithoutFolds
<1>2. Append(q, x) \in Seq(T) BY AppendProperties
<1>3. PICK g : /\ FoldedBy(g, act, <<>>, Append(q, x))
               /\ Without(Append(q, x), set) = g[Len(Append(q, x))]
  BY <1>2, WithoutFolds
<1>4. \A s \in Seq(T) : act[x][s] = IF x \in set THEN s ELSE Append(s, x)
  BY DEF Filter
<1> HIDE DEF act
<1>5. g[Len(Append(q, x))] = act[x][f[Len(q)]] BY <1>1, <1>3, FoldAppend
<1> QED BY <1>1, <1>3, <1>4, <1>5

(* The same for the sum of the sizes. *)
Add == [p \in Packet |-> [s \in Nat |-> s + p.size]]

LEMMA BytesFolds ==
  ASSUME NEW list \in Seq(Packet)
  PROVE  \E f : /\ FoldedBy(f, Add, 0, list)
                /\ Bytes(list) = f[Len(list)]
                /\ Bytes(list) \in Nat
<1> DEFINE N == Len(list)
           G(g) == [n \in 0 .. N |-> IF n = 0 THEN 0 ELSE g[n - 1] + list[n].size]
           h == CHOOSE g : g = G(g)
<1>0. N \in Nat BY LenProperties
<1>1. Add \in [Packet -> [Nat -> Nat]]
  <2>1. ASSUME NEW p \in Packet, NEW s \in Nat PROVE s + p.size \in Nat BY DEF Packet
  <2> QED BY <2>1 DEF Add
<1>3. PICK f \in [0 .. N -> Nat] : FoldedBy(f, Add, 0, list) BY <1>1, FoldExists
<1>4. ASSUME NEW n \in 1 .. N, NEW s \in Nat
      PROVE  Add[list[n]][s] = s + list[n].size
  <2>1. list[n] \in Packet BY ElementOfSeq
  <2> QED BY <2>1 DEF Add
<1>5. f = G(f)
  <2> SUFFICES ASSUME NEW n \in 0 .. N PROVE f[n] = G(f)[n] OBVIOUS
  <2>1. CASE n = 0 BY <1>3, <2>1 DEF FoldedBy
  <2>2. CASE n # 0
    <3>1. n \in 1 .. N /\ n - 1 \in 0 .. N BY <1>0, <2>2
    <3>2. f[n - 1] \in Nat BY <3>1
    <3>3. f[n] = Add[list[n]][f[n - 1]] BY <1>3, <2>2 DEF FoldedBy
    <3>4. f[n] = f[n - 1] + list[n].size BY <1>4, <3>1, <3>2, <3>3
    <3> QED BY <2>2, <3>4
  <2> QED BY <2>1, <2>2
<1>6. h = G(h)
  <2> HIDE DEF G
  <2> QED BY <1>5, Zenon
<1>7. Bytes(list) = h[N] BY DEF Bytes
<1> HIDE DEF h
<1>8. h[0] = 0
  <2>1. G(h)[0] = 0 BY <1>0
  <2> HIDE DEF G
  <2> QED BY <1>6, <2>1
<1>9. ASSUME NEW n \in 1 .. N, h[n - 1] \in Nat
      PROVE  h[n] = Add[list[n]][h[n - 1]]
  <2>1. n \in 0 .. N /\ n # 0 BY <1>0
  <2>2. G(h)[n] = h[n - 1] + list[n].size BY <2>1
  <2> HIDE DEF G
  <2> QED BY <1>4, <1>6, <1>9, <2>2
<1>10. FoldedBy(h, Add, 0, list) /\ \A n \in 0 .. N : h[n] \in Nat
  <2>1. Steps(h, Nat, Add, 0, list) BY <1>8, <1>9 DEF Steps
  <2> QED BY <1>1, <2>1, FoldValues
<1>11. h[N] \in Nat BY <1>0, <1>10
<1> QED BY <1>7, <1>10, <1>11

LEMMA BytesEmpty == Bytes(<<>>) = 0
<1>1. <<>> \in Seq(Packet) /\ Len(<<>>) = 0 BY EmptySeq
<1>2. PICK f : /\ FoldedBy(f, Add, 0, <<>>)
               /\ Bytes(<<>>) = f[Len(<<>>)]
  BY <1>1, BytesFolds
<1>3. f[0] = 0 BY <1>1, <1>2 DEF FoldedBy
<1> QED BY <1>1, <1>2, <1>3

LEMMA BytesAppend ==
  ASSUME NEW q \in Seq(Packet), NEW p \in Packet
  PROVE  Bytes(q) \in Nat /\ Bytes(Append(q, p)) = Bytes(q) + p.size
<1>1. PICK f : /\ FoldedBy(f, Add, 0, q)
               /\ Bytes(q) = f[Len(q)]
               /\ Bytes(q) \in Nat
  BY BytesFolds
<1>2. Append(q, p) \in Seq(Packet) BY AppendProperties
<1>3. PICK g : /\ FoldedBy(g, Add, 0, Append(q, p))
               /\ Bytes(Append(q, p)) = g[Len(Append(q, p))]
  BY <1>2, BytesFolds
<1>4. \A s \in Nat : Add[p][s] = s + p.size BY DEF Add
<1>5. g[Len(Append(q, p))] = Add[p][f[Len(q)]] BY <1>1, <1>3, FoldAppend
<1> QED BY <1>1, <1>3, <1>4, <1>5

-----------------------------------------------------------------------------
(* Concatenation. *)

(* What a function on lists does to t it does to the end of s \o t. *)
LEMMA WithoutKeeps ==
  ASSUME NEW T, NEW q \in Seq(T), NEW x \in T, NEW set
  PROVE  Kept(q, x, set)
BY WithoutAppend DEF Kept

LEMMA AppendToConcat ==
  ASSUME NEW T, NEW s \in Seq(T), NEW q \in Seq(T), NEW x \in T
  PROVE  s \o Append(q, x) = Append(s \o q, x)
<1> DEFINE one == <<x>>
<1>1. one \in Seq(T) /\ Append(q, x) = q \o one BY AppendIsConcat
<1>2. s \o q \in Seq(T) BY ConcatProperties
<1>3. Append(s \o q, x) = (s \o q) \o one BY <1>2, AppendIsConcat
<1> HIDE DEF one
<1>4. Associates(s, q, one) BY <1>1, ConcatAssociates
<1> QED BY <1>1, <1>3, <1>4 DEF Associates

Prepends(s, q, x) == s \o Append(q, x) = Append(s \o q, x)

LEMMA AppendPrepends ==
  ASSUME NEW T, NEW s \in Seq(T), NEW q \in Seq(T), NEW x \in T
  PROVE  Prepends(s, q, x)
BY AppendToConcat DEF Prepends

Distributes(s, t, set) == Without(s \o t, set) = Without(s, set) \o Without(t, set)

LEMMA WithoutConcat ==
  ASSUME NEW T, NEW s \in Seq(T), NEW t \in Seq(T), NEW set
  PROVE  Without(s \o t, set) = Without(s, set) \o Without(t, set)
<1> DEFINE S == {q \in Seq(T) :
                   /\ Without(q, set) \in Seq(T)
                   /\ Without(s \o q, set) = Without(s, set) \o Without(q, set)}
<1>0. Without(s, set) \in Seq(T) BY WithoutFolds
<1>1. <<>> \in S
  <2>1. <<>> \in Seq(T) BY EmptySeq
  <2>2. s \o <<>> = s BY ConcatEmptySeq
  <2>3. Without(s, set) \o <<>> = Without(s, set) BY <1>0, ConcatEmptySeq
  <2> QED BY <2>1, <2>2, <2>3, WithoutEmpty
<1>2. ASSUME NEW q \in Seq(T), NEW x \in T, q \in S PROVE Append(q, x) \in S
  <2> DEFINE a == Without(s, set)
             b == Without(q, set)
  <2>1. b \in Seq(T) /\ Without(s \o q, set) = a \o b BY <1>2
  <2>2. s \o q \in Seq(T) BY ConcatProperties
  <2>3. Without(Append(q, x), set) = IF x \in set THEN b ELSE Append(b, x)
    BY WithoutAppend
  <2>4. Without(Append(s \o q, x), set) = IF x \in set THEN a \o b ELSE Append(a \o b, x)
    <3> DEFINE sq == s \o q
    <3>1. sq \in Seq(T) /\ Without(sq, set) = a \o b BY <2>1, <2>2
    <3> HIDE DEF sq, a, b
    <3>2. Without(Append(sq, x), set)
            = IF x \in set THEN Without(sq, set) ELSE Append(Without(sq, set), x)
      <4>1. sq \in Seq(T) BY <3>1
      <4> QED BY ONLY <4>1, x \in T, WithoutAppend
    <3> QED BY <3>1, <3>2 DEF sq
  <2>5. s \o Append(q, x) = Append(s \o q, x) BY AppendToConcat
  <2> HIDE DEF a, b
  <2>6. a \o Append(b, x) = Append(a \o b, x) BY <1>0, <2>1, AppendToConcat DEF a
  <2>7. Append(q, x) \in Seq(T) /\ Append(b, x) \in Seq(T) BY <2>1, AppendProperties
  <2>8. Without(s \o Append(q, x), set) = a \o Without(Append(q, x), set)
    BY <2>3, <2>4, <2>5, <2>6
  <2> QED BY <2>1, <2>3, <2>7, <2>8 DEF a
<1>3. Seq(T) \subseteq S
  <2> HIDE DEF S
  <2> QED BY <1>1, <1>2, SeqInduction
<1> QED BY <1>3

LEMMA WithoutDistributes ==
  ASSUME NEW T, NEW s \in Seq(T), NEW t \in Seq(T), NEW set
  PROVE  Distributes(s, t, set)
BY WithoutConcat DEF Distributes

LEMMA BytesConcat ==
  ASSUME NEW s \in Seq(Packet), NEW t \in Seq(Packet)
  PROVE  /\ Bytes(s) \in Nat /\ Bytes(t) \in Nat
         /\ Bytes(s \o t) = Bytes(s) + Bytes(t)
<1> DEFINE S == {q \in Seq(Packet) :
                   Bytes(q) \in Nat /\ Bytes(s \o q) = Bytes(s) + Bytes(q)}
<1>0. Bytes(s) \in Nat BY BytesFolds
<1>1. <<>> \in S
  <2>1. <<>> \in Seq(Packet) BY EmptySeq
  <2>2. s \o <<>> = s BY ConcatEmptySeq
  <2> QED BY <1>0, <2>1, <2>2, BytesEmpty
<1>2. ASSUME NEW q \in Seq(Packet), NEW x \in Packet, q \in S
      PROVE  Append(q, x) \in S
  <2>1. s \o q \in Seq(Packet) BY ConcatProperties
  <2>2. x.size \in Nat BY DEF Packet
  <2>3. Bytes(q) \in Nat /\ Bytes(Append(q, x)) = Bytes(q) + x.size BY BytesAppend
  <2>4. Bytes(Append(s \o q, x)) = Bytes(s \o q) + x.size BY <2>1, BytesAppend
  <2>5. s \o Append(q, x) = Append(s \o q, x) BY AppendToConcat
  <2>6. Append(q, x) \in Seq(Packet) BY AppendProperties
  <2>7. Bytes(s \o Append(q, x)) = Bytes(s) + Bytes(Append(q, x))
    <3>1. Bytes(s \o q) = Bytes(s) + Bytes(q) BY <1>2
    <3> QED BY <1>0, <2>2, <2>3, <2>4, <2>5, <3>1
  <2>8. Bytes(Append(q, x)) \in Nat BY <2>2, <2>3
  <2> QED BY <2>6, <2>7, <2>8
<1>3. Seq(Packet) \subseteq S
  <2> HIDE DEF S
  <2> QED BY <1>1, <1>2, SeqInduction
<1> QED BY <1>0, <1>3

(* A list of members of the set leaves nothing. *)
LEMMA WithoutAll ==
  ASSUME NEW T, NEW s \in Seq(T), NEW set, \A i \in 1 .. Len(s) : s[i] \in set
  PROVE  Without(s, set) = <<>>
<1> DEFINE S == {q \in Seq(T) : (\A i \in 1 .. Len(q) : q[i] \in set) => Without(q, set) = <<>>}
<1>1. <<>> \in S
  <2>1. <<>> \in Seq(T) BY EmptySeq
  <2> QED BY <2>1, WithoutEmpty
<1>2. ASSUME NEW q \in Seq(T), NEW x \in T, q \in S PROVE Append(q, x) \in S
  <2> DEFINE r == Append(q, x)
  <2>1. /\ r \in Seq(T) /\ Len(r) = Len(q) + 1 /\ Len(q) \in Nat
        /\ \A i \in 1 .. Len(q) : r[i] = q[i]
        /\ r[Len(q) + 1] = x
    BY AppendProperties, LenProperties
  <2>2. Without(r, set) = IF x \in set THEN Without(q, set) ELSE Append(Without(q, set), x)
    BY WithoutAppend
  <2> HIDE DEF r
  <2>3. ASSUME \A i \in 1 .. Len(r) : r[i] \in set PROVE Without(r, set) = <<>>
    <3>1. x \in set BY <2>1, <2>3
    <3>2. \A i \in 1 .. Len(q) : q[i] \in set BY <2>1, <2>3
    <3> QED BY <1>2, <2>2, <3>1, <3>2
  <2>4. r \in S BY <2>1, <2>3
  <2> QED BY <2>4 DEF r
<1>3. Seq(T) \subseteq S
  <2> HIDE DEF S
  <2> QED BY <1>1, <1>2, SeqInduction
<1> QED BY <1>3

(* Leaving out more. *)
LEMMA WithoutMore ==
  ASSUME NEW T, NEW s \in Seq(T), NEW t \in Seq(T), NEW D, NEW E, D \subseteq E,
         Without(s, D) = Without(t, D)
  PROVE  Without(s, E) = Without(t, E)
<1> DEFINE S == {q \in Seq(T) : Without(q, E) = Without(Without(q, D), E)}
<1>1. <<>> \in S
  <2>1. <<>> \in Seq(T) BY EmptySeq
  <2> QED BY <2>1, WithoutEmpty
<1>2. ASSUME NEW q \in Seq(T), NEW x \in T, q \in S PROVE Append(q, x) \in S
  <2> DEFINE a == Without(q, D)
  <2>1. /\ a \in Seq(T)
        /\ Without(Append(q, x), D) = IF x \in D THEN a ELSE Append(a, x)
    <3>1. Kept(q, x, D) BY WithoutKeeps
    <3>2. a \in Seq(T) BY WithoutFolds
    <3> QED BY <3>1, <3>2 DEF Kept
  <2>2. Without(Append(q, x), E)
          = IF x \in E THEN Without(q, E) ELSE Append(Without(q, E), x)
    <3>1. Kept(q, x, E) BY WithoutKeeps
    <3> QED BY <3>1 DEF Kept
  <2>3. Without(q, E) = Without(a, E) BY <1>2
  <2> HIDE DEF a
  <2>4. Without(Append(a, x), E)
          = IF x \in E THEN Without(a, E) ELSE Append(Without(a, E), x)
    <3>1. a \in Seq(T) BY <2>1
    <3> QED BY ONLY <3>1, x \in T, WithoutAppend
  <2>5. Append(q, x) \in Seq(T) BY AppendProperties
  <2>6. Without(Append(q, x), E) = Without(Without(Append(q, x), D), E)
    BY <2>1, <2>2, <2>3, <2>4
  <2> QED BY <2>5, <2>6
<1>3. Seq(T) \subseteq S
  <2> HIDE DEF S
  <2> QED BY <1>1, <1>2, SeqInduction
<1> QED BY <1>3

-----------------------------------------------------------------------------
(* The frames inside a list of pipes. *)

Join(T) == [x \in Seq(T) |-> [s \in Seq(T) |-> s \o x]]

LEMMA JoinType ==
  ASSUME NEW T
  PROVE  Join(T) \in [Seq(T) -> [Seq(T) -> Seq(T)]]
<1>1. ASSUME NEW x \in Seq(T), NEW s \in Seq(T) PROVE s \o x \in Seq(T)
  BY ConcatProperties
<1>2. ASSUME NEW x \in Seq(T) PROVE [s \in Seq(T) |-> s \o x] \in [Seq(T) -> Seq(T)]
  BY <1>1
<1> QED BY <1>2, Zenon DEF Join

LEMMA FlattenFolds ==
  ASSUME NEW T, NEW list \in Seq(Seq(T))
  PROVE  \E f : /\ FoldedBy(f, Join(T), <<>>, list)
                /\ FlattenSeq(list) = f[Len(list)]
                /\ FlattenSeq(list) \in Seq(T)
<1> DEFINE N == Len(list)
           X == Seq(T)
           act == Join(T)
           G(g) == [i \in 1 .. N |-> IF i = 1 THEN list[i] ELSE g[i - 1] \o list[i]]
           h == CHOOSE g : g = G(g)
           k == [n \in 0 .. N |-> IF n = 0 THEN <<>> ELSE h[n]]
<1>0. N \in Nat BY LenProperties
<1>1. act \in [X -> [X -> X]] BY JoinType
<1>2. <<>> \in X BY EmptySeq
<1>3. ASSUME NEW n \in 1 .. N PROVE list[n] \in X /\ <<>> \o list[n] = list[n]
  <2>1. list[n] \in Seq(T) BY ElementOfSeq
  <2> QED BY <2>1, ConcatEmptySeq
<1>4. ASSUME NEW n \in 1 .. N, NEW s \in X PROVE act[list[n]][s] = s \o list[n]
  BY <1>3 DEF Join
<1> HIDE DEF act, X
<1>5. PICK f \in [0 .. N -> X] : FoldedBy(f, act, <<>>, list)
  BY <1>1, <1>2, FoldExists DEF X
<1> DEFINE e == [n \in 1 .. N |-> f[n]]
<1>6. ASSUME NEW n \in 1 .. N PROVE f[n] = f[n - 1] \o list[n]
  <2>1. n \in 0 .. N /\ n - 1 \in 0 .. N /\ n # 0 BY <1>0
  <2>2. f[n - 1] \in X BY <2>1
  <2>3. f[n] = act[list[n]][f[n - 1]] BY <1>5, <2>1 DEF FoldedBy
  <2> QED BY <1>4, <2>2, <2>3
<1>7. f[0] = <<>> BY <1>0, <1>5 DEF FoldedBy
<1>8. e = G(e)
  <2> SUFFICES ASSUME NEW n \in 1 .. N PROVE e[n] = G(e)[n] OBVIOUS
  <2>1. CASE n = 1
    <3>1. f[n] = f[n - 1] \o list[n] BY <1>6
    <3>2. f[n - 1] = <<>> BY <1>7, <2>1
    <3>3. f[n] = list[n] BY <1>3, <3>1, <3>2, Zenon
    <3> QED BY <2>1, <3>3
  <2>2. CASE n # 1
    <3>1. n - 1 \in 1 .. N BY <1>0, <2>2
    <3> QED BY <1>6, <2>2, <3>1
  <2> QED BY <2>1, <2>2
<1>9. h = G(h)
  <2> HIDE DEF G, e
  <2> QED BY <1>8, Zenon
<1>10. N # 0 => FlattenSeq(list) = h[N] BY DEF FlattenSeq
<1>11. N = 0 => FlattenSeq(list) = <<>>
  <2>1. N = 0 => FlattenSeq(list) = list BY DEF FlattenSeq
  <2>2. N = 0 => list = <<>> BY EmptySeq
  <2> QED BY <2>1, <2>2
<1> HIDE DEF h
<1>12. \A n \in 1 .. N : h[n] = IF n = 1 THEN list[n] ELSE h[n - 1] \o list[n]
  <2>1. \A n \in 1 .. N : G(h)[n] = IF n = 1 THEN list[n] ELSE h[n - 1] \o list[n]
    OBVIOUS
  <2> HIDE DEF G
  <2> QED BY <1>9, <2>1
<1>13. /\ k[0] = <<>>
       /\ \A n \in 1 .. N : k[n] = h[n]
  BY <1>0
<1> HIDE DEF k
<1>14. ASSUME NEW n \in 1 .. N, k[n - 1] \in X
       PROVE  k[n] = act[list[n]][k[n - 1]]
  <2>1. act[list[n]][k[n - 1]] = k[n - 1] \o list[n] BY <1>4, <1>14
  <2>2. CASE n = 1
    <3>1. k[n - 1] = <<>> BY <1>13, <2>2
    <3>2. k[n] = list[n] BY <1>12, <1>13, <2>2
    <3> QED BY <1>3, <2>1, <3>1, <3>2
  <2>3. CASE n # 1
    <3>1. n - 1 \in 1 .. N BY <1>0, <2>3
    <3> QED BY <1>12, <1>13, <2>1, <2>3, <3>1
  <2> QED BY <2>2, <2>3
<1>15. FoldedBy(k, act, <<>>, list) /\ \A n \in 0 .. N : k[n] \in X
  <2>1. Steps(k, X, act, <<>>, list) BY <1>13, <1>14 DEF Steps
  <2> QED BY <1>1, <1>2, <2>1, FoldValues DEF X
<1>16. FlattenSeq(list) = k[N]
  <2>1. N # 0 => N \in 1 .. N BY <1>0
  <2> QED BY <1>10, <1>11, <1>13, <2>1
<1>17. k[N] \in X BY <1>0, <1>15
<1> QED BY <1>15, <1>16, <1>17 DEF act, X

LEMMA FlattenAppend ==
  ASSUME NEW T, NEW q \in Seq(Seq(T)), NEW x \in Seq(T)
  PROVE  FlattenSeq(Append(q, x)) = FlattenSeq(q) \o x
<1> DEFINE act == Join(T)
           X == Seq(T)
<1>1. PICK f : /\ FoldedBy(f, act, <<>>, q)
               /\ FlattenSeq(q) = f[Len(q)]
               /\ FlattenSeq(q) \in X
  BY FlattenFolds
<1>2. Append(q, x) \in Seq(X) BY AppendProperties
<1>3. PICK g : /\ FoldedBy(g, act, <<>>, Append(q, x))
               /\ FlattenSeq(Append(q, x)) = g[Len(Append(q, x))]
  BY <1>2, FlattenFolds
<1>4. \A s \in X : act[x][s] = s \o x BY DEF Join
<1> HIDE DEF act, X
<1>5. g[Len(Append(q, x))] = act[x][f[Len(q)]] BY <1>1, <1>3, FoldAppend
<1> QED BY <1>1, <1>3, <1>4, <1>5

(* What the pipes of a list hold, in the order of the list. *)
Contents(q, buffers) == FlattenSeq([i \in 1 .. Len(q) |-> buffers[q[i]]])

PipeBuffers == [Pipes -> Seq(Packet)]

LEMMA BuffersOf ==
  ASSUME NEW q \in Seq(Pipes), NEW B \in PipeBuffers
  PROVE  [i \in 1 .. Len(q) |-> B[q[i]]] \in Seq(Seq(Packet))
<1>1. ASSUME NEW i \in 1 .. Len(q) PROVE B[q[i]] \in Seq(Packet)
  BY ElementOfSeq DEF PipeBuffers
<1> QED BY <1>1, LenProperties, IsASeq

LEMMA ContentsType ==
  ASSUME NEW q \in Seq(Pipes), NEW B \in PipeBuffers
  PROVE  Contents(q, B) \in Seq(Packet)
BY BuffersOf, FlattenFolds DEF Contents

LEMMA ContentsEmpty ==
  ASSUME NEW B \in PipeBuffers
  PROVE  Contents(<<>>, B) = <<>>
<1> DEFINE e == <<>>
           b == [i \in 1 .. Len(e) |-> B[e[i]]]
<1>1. e \in Seq(Pipes) /\ Len(e) = 0 BY EmptySeq
<1> HIDE DEF e
<1>2. b \in Seq(Seq(Packet)) BY <1>1, BuffersOf
<1>3. Len(b) = 0 BY <1>1
<1> HIDE DEF b
<1>4. b = <<>> BY <1>2, <1>3, EmptySeq
<1>5. FlattenSeq(b) = b BY <1>3 DEF FlattenSeq
<1>6. Contents(e, B) = FlattenSeq(b) BY DEF Contents, b
<1> QED BY <1>4, <1>5, <1>6 DEF e

LEMMA ContentsAppend ==
  ASSUME NEW q \in Seq(Pipes), NEW p \in Pipes, NEW B \in PipeBuffers
  PROVE  Contents(Append(q, p), B) = Contents(q, B) \o B[p]
<1> DEFINE N == Len(q)
           r == Append(q, p)
           b == [i \in 1 .. N |-> B[q[i]]]
           c == [i \in 1 .. Len(r) |-> B[r[i]]]
<1>1. /\ r \in Seq(Pipes) /\ Len(r) = N + 1 /\ N \in Nat
      /\ \A i \in 1 .. N : r[i] = q[i]
      /\ r[N + 1] = p
  BY AppendProperties, LenProperties
<1> HIDE DEF r
<1>2. b \in Seq(Seq(Packet)) /\ c \in Seq(Seq(Packet)) BY <1>1, BuffersOf
<1>3. B[p] \in Seq(Packet) BY DEF PipeBuffers
<1>4. /\ Len(b) = N /\ Len(c) = N + 1
      /\ \A i \in 1 .. N : b[i] = c[i]
      /\ c[N + 1] = B[p]
  BY <1>1
<1> HIDE DEF b, c
<1> DEFINE x == B[p]
           X == Seq(Packet)
<1> HIDE DEF x, X
<1>5. /\ Append(b, x) \in Seq(X) /\ Len(Append(b, x)) = N + 1
      /\ \A i \in 1 .. N : Append(b, x)[i] = b[i]
      /\ Append(b, x)[N + 1] = x
  BY <1>2, <1>3, <1>4, AppendProperties DEF x, X
<1>6. \A i \in 1 .. Len(c) : c[i] = Append(b, x)[i] BY <1>1, <1>4, <1>5 DEF x
<1>7. c = Append(b, x) BY <1>2, <1>4, <1>5, <1>6, SeqEqual DEF X
<1>8. FlattenSeq(c) = FlattenSeq(b) \o x BY <1>2, <1>3, <1>7, FlattenAppend DEF x, X
<1> QED BY <1>8 DEF Contents, b, c, r, x

LEMMA ContentsConcat ==
  ASSUME NEW s \in Seq(Pipes), NEW t \in Seq(Pipes), NEW B \in PipeBuffers
  PROVE  Contents(s \o t, B) = Contents(s, B) \o Contents(t, B)
<1> DEFINE S == {q \in Seq(Pipes) : Contents(s \o q, B) = Contents(s, B) \o Contents(q, B)}
<1>0. Contents(s, B) \in Seq(Packet) BY ContentsType
<1>1. <<>> \in S
  <2>1. <<>> \in Seq(Pipes) BY EmptySeq
  <2>2. s \o <<>> = s BY ConcatEmptySeq
  <2>3. Contents(s, B) \o <<>> = Contents(s, B) BY <1>0, ConcatEmptySeq
  <2> QED BY <2>1, <2>2, <2>3, ContentsEmpty
<1>2. ASSUME NEW q \in Seq(Pipes), NEW p \in Pipes, q \in S PROVE Append(q, p) \in S
  <2>1. s \o q \in Seq(Pipes) BY ConcatProperties
  <2>2. Contents(Append(q, p), B) = Contents(q, B) \o B[p] BY ContentsAppend
  <2>3. Contents(Append(s \o q, p), B) = Contents(s \o q, B) \o B[p]
    BY <2>1, ContentsAppend
  <2>4. s \o Append(q, p) = Append(s \o q, p) BY AppendToConcat
  <2>5. Append(q, p) \in Seq(Pipes) BY AppendProperties
  <2>6. Contents(q, B) \in Seq(Packet) /\ B[p] \in Seq(Packet)
    BY ContentsType DEF PipeBuffers
  <2>7. (Contents(s, B) \o Contents(q, B)) \o B[p] = Contents(s, B) \o (Contents(q, B) \o B[p])
    <3>1. ASSUME NEW c \in Seq(Packet), NEW d \in Seq(Packet), NEW e \in Seq(Packet)
          PROVE  (c \o d) \o e = c \o (d \o e)
      <4>1. Associates(c, d, e) BY ConcatAssociates
      <4> QED BY <4>1 DEF Associates
    <3> QED BY <1>0, <2>6, <3>1
  <2>8. Contents(s \o Append(q, p), B) = Contents(s, B) \o Contents(Append(q, p), B)
    BY <1>2, <2>2, <2>3, <2>4, <2>7
  <2> QED BY <2>5, <2>8
<1>3. Seq(Pipes) \subseteq S
  <2> HIDE DEF S
  <2> QED BY <1>1, <1>2, SeqInduction
<1> QED BY <1>3

LEMMA ContentsOne ==
  ASSUME NEW p \in Pipes, NEW B \in PipeBuffers
  PROVE  /\ <<p>> \in Seq(Pipes)
         /\ Contents(<<p>>, B) = B[p]
<1> DEFINE e == <<>>
<1>1. e \in Seq(Pipes) /\ Append(e, p) = <<p>> BY EmptySeq
<1>2. Contents(e, B) = <<>> BY ContentsEmpty
<1>3. B[p] \in Seq(Packet) BY DEF PipeBuffers
<1>4. <<>> \o B[p] = B[p] BY <1>3, ConcatEmptySeq
<1> HIDE DEF e
<1>5. Contents(Append(e, p), B) = B[p] BY <1>1, <1>2, <1>4, ContentsAppend
<1>6. Append(e, p) \in Seq(Pipes) BY <1>1, AppendProperties
<1> QED BY <1>1, <1>5, <1>6

LEMMA ContentsAgree ==
  ASSUME NEW q \in Seq(Pipes), NEW B \in PipeBuffers, NEW C \in PipeBuffers,
         \A i \in 1 .. Len(q) : B[q[i]] = C[q[i]]
  PROVE  Contents(q, B) = Contents(q, C)
<1>1. [i \in 1 .. Len(q) |-> B[q[i]]] = [i \in 1 .. Len(q) |-> C[q[i]]] OBVIOUS
<1> QED BY <1>1, Zenon DEF Contents

(* Taking a pipe out whose frames are left out anyway. *)
LEMMA ContentsWithout ==
  ASSUME NEW q \in Seq(Pipes), NEW B \in PipeBuffers, NEW x \in Pipes, NEW D,
         Without(B[x], D) = <<>>
  PROVE  /\ Without(q, {x}) \in Seq(Pipes)
         /\ Without(Contents(Without(q, {x}), B), D) = Without(Contents(q, B), D)
<1> DEFINE S == {s \in Seq(Pipes) :
                  /\ Without(s, {x}) \in Seq(Pipes)
                  /\ Without(Contents(Without(s, {x}), B), D) = Without(Contents(s, B), D)}
<1>1. <<>> \in S
  <2>1. <<>> \in Seq(Pipes) BY EmptySeq
  <2> QED BY <2>1, WithoutEmpty
<1>2. ASSUME NEW s \in Seq(Pipes), NEW p \in Pipes, s \in S PROVE Append(s, p) \in S
  <2> DEFINE r == Without(s, {x})
  <2>1. r \in Seq(Pipes) /\ Without(Contents(r, B), D) = Without(Contents(s, B), D) BY <1>2
  <2>2. Without(Append(s, p), {x}) = IF p \in {x} THEN r ELSE Append(r, p)
    <3>1. ASSUME NEW set
          PROVE  Without(Append(s, p), set)
                   = IF p \in set THEN Without(s, set) ELSE Append(Without(s, set), p)
      BY WithoutAppend
    <3> QED BY <3>1, Zenon
  <2> HIDE DEF r
  <2>3. /\ Contents(Append(s, p), B) = Contents(s, B) \o B[p]
        /\ Contents(Append(r, p), B) = Contents(r, B) \o B[p]
    BY <2>1, ContentsAppend
  <2>4. /\ Contents(s, B) \in Seq(Packet) /\ Contents(r, B) \in Seq(Packet)
        /\ B[p] \in Seq(Packet)
    BY <2>1, ContentsType DEF PipeBuffers
  <2>5. /\ Without(Contents(s, B) \o B[p], D) = Without(Contents(s, B), D) \o Without(B[p], D)
        /\ Without(Contents(r, B) \o B[p], D) = Without(Contents(r, B), D) \o Without(B[p], D)
    <3>1. ASSUME NEW t \in Seq(Packet), NEW u \in Seq(Packet)
          PROVE  Without(t \o u, D) = Without(t, D) \o Without(u, D)
      BY WithoutDistributes DEF Distributes
    <3> QED BY <2>4, <3>1
  <2>6. Append(s, p) \in Seq(Pipes) /\ Append(r, p) \in Seq(Pipes) BY <2>1, AppendProperties
  <2>7. CASE p = x
    <3>1. Without(Contents(s, B), D) \in Seq(Packet) BY <2>4, WithoutFolds
    <3>2. Without(Contents(s, B), D) \o <<>> = Without(Contents(s, B), D)
      BY <3>1, ConcatEmptySeq
    <3> QED BY <2>1, <2>2, <2>3, <2>5, <2>6, <2>7, <3>2
  <2>8. CASE p # x BY <2>1, <2>2, <2>3, <2>5, <2>6, <2>8
  <2> QED BY <2>7, <2>8
<1>3. Seq(Pipes) \subseteq S
  <2> HIDE DEF S
  <2> QED BY <1>1, <1>2, SeqInduction
<1> QED BY <1>3

-----------------------------------------------------------------------------
(* The inductive invariant. *)

WriterTypes ==
  /\ pipeline \in Seq(Pipes) /\ IsInjective(pipeline)
  /\ packetBuffer \in Seq(Packet) /\ Len(packetBuffer) <= 1
  /\ pipeBuffer \in PipeBuffers
  /\ handed \in Seq(Packet) /\ accepted \in Seq(Packet)
  /\ calls \in Nat
  /\ pc \in {"idle", "write", "copy", "chunks", "rest", "searching"}
  /\ at \in 0 .. Len(pipeline)
  /\ pc # "write" => at = 0
  /\ closed \in BOOLEAN

(* The count of the bytes, and what keeps write() inside its chunk even     *)
(* when the cursor is spoiled.                                              *)
BufferInv ==
  /\ buf \in ByteBuffers
  /\ buf.localReaderIndex < SingleCapacity
  /\ left \in Nat
  /\ pc # "copy" => left = 0
  /\ room \in 0 .. Room
  /\ reset \in BOOLEAN
  /\ wire \in Seq(Int)
  /\ pc = "rest" => buf.localReaderIndex + buf.readableBytes < SingleCapacity
  /\ EveryByteCounted

(* Until a write() spoils the cursor the buffer stores the stream and the   *)
(* cursor stands where the socket has got to.                               *)
CursorInv ==
  /\ exact = Unspoiled =>
       /\ Good(buf, Len(wire) + buf.readableBytes, 0)
       /\ Len(wire) % SingleCapacity = buf.localReaderIndex
       /\ \A i \in 1 .. Len(wire) : wire[i] = i - 1
  /\ exact # Unspoiled =>
       /\ exact \in Nat /\ exact <= Len(wire)
       /\ \A i \in 1 .. exact : wire[i] = i - 1

(* Packets move towards writerBuffer without overtaking each other; a pipe  *)
(* outside the pipeline holds nothing but frames it was removed with.       *)
FlowInv ==
  /\ \A p \in Unused : Without(pipeBuffer[p], dropped) = <<>>
  /\ ~ closed =>
       /\ packetBuffer # <<>> => pc = "write" /\ at = Len(pipeline)
       /\ Without((handed \o Contents(pipeline, pipeBuffer)) \o packetBuffer, dropped)
            = Without(accepted, dropped)

IInv == WriterTypes /\ BufferInv /\ CursorInv /\ FlowInv

-----------------------------------------------------------------------------
(* Edits of the pipeline. *)

LEMMA ConcatIndices ==
  ASSUME NEW T, NEW s \in Seq(T), NEW t \in Seq(T)
  PROVE  /\ Len(s) \in Nat /\ Len(t) \in Nat
         /\ DOMAIN s = 1 .. Len(s) /\ DOMAIN t = 1 .. Len(t)
         /\ DOMAIN (s \o t) = 1 .. Len(s) + Len(t)
         /\ \A i \in 1 .. Len(s) : i \in 1 .. Len(s) + Len(t) /\ (s \o t)[i] = s[i]
         /\ \A i \in 1 .. Len(t) : /\ Len(s) + i \in 1 .. Len(s) + Len(t)
                                   /\ (s \o t)[Len(s) + i] = t[i]
         /\ \A i \in 1 .. Len(s) + Len(t) :
              i \in 1 .. Len(s) \/ \E j \in 1 .. Len(t) : i = Len(s) + j
<1> DEFINE M == Len(s)
           N == Len(t)
           r == s \o t
<1>1. M \in Nat /\ N \in Nat /\ DOMAIN s = 1 .. M /\ DOMAIN t = 1 .. N BY LenProperties
<1>2. /\ r \in Seq(T) /\ Len(r) = M + N
      /\ \A i \in 1 .. M + N : r[i] = IF i <= M THEN s[i] ELSE t[i - M]
  BY ConcatProperties
<1> HIDE DEF M, N, r
<1>3. DOMAIN r = 1 .. M + N BY <1>2, LenProperties
<1>4. \A i \in 1 .. M : i \in 1 .. M + N /\ r[i] = s[i] BY <1>1, <1>2
<1>5. ASSUME NEW i \in 1 .. N PROVE M + i \in 1 .. M + N /\ r[M + i] = t[i]
  <2>1. M + i \in 1 .. M + N /\ ~ (M + i <= M) /\ (M + i) - M = i BY <1>1
  <2> QED BY <1>2, <2>1
<1>6. ASSUME NEW i \in 1 .. M + N PROVE i \in 1 .. M \/ \E j \in 1 .. N : i = M + j
  <2>1. CASE i <= M BY <1>1, <2>1
  <2>2. CASE ~ (i <= M)
    <3>1. i - M \in 1 .. N /\ i = M + (i - M) BY <1>1, <2>2
    <3> QED BY <3>1
  <2> QED BY <2>1, <2>2
<1> QED BY <1>1, <1>3, <1>4, <1>5, <1>6 DEF M, N, r

LEMMA RangeConcat ==
  ASSUME NEW T, NEW s \in Seq(T), NEW t \in Seq(T)
  PROVE  Range(s \o t) = Range(s) \cup Range(t)
<1> DEFINE M == Len(s)
           N == Len(t)
           r == s \o t
<1>1. /\ DOMAIN s = 1 .. M /\ DOMAIN t = 1 .. N /\ DOMAIN r = 1 .. M + N
      /\ \A i \in 1 .. M : i \in 1 .. M + N /\ r[i] = s[i]
      /\ \A i \in 1 .. N : M + i \in 1 .. M + N /\ r[M + i] = t[i]
      /\ \A i \in 1 .. M + N : i \in 1 .. M \/ \E j \in 1 .. N : i = M + j
  BY ConcatIndices
<1> HIDE DEF M, N, r
<1>2. ASSUME NEW x \in Range(r) PROVE x \in Range(s) \cup Range(t)
  <2>1. PICK i \in 1 .. M + N : x = r[i] BY <1>1, <1>2 DEF Range
  <2>2. CASE i \in 1 .. M BY <1>1, <2>1, <2>2 DEF Range
  <2>3. CASE \E j \in 1 .. N : i = M + j
    <3>1. PICK j \in 1 .. N : i = M + j BY <2>3
    <3>2. x = t[j] BY <1>1, <2>1, <3>1
    <3> QED BY <1>1, <3>2 DEF Range
  <2> QED BY <1>1, <2>2, <2>3
<1>3. ASSUME NEW x \in Range(s) PROVE x \in Range(r)
  <2>1. PICK i \in 1 .. M : x = s[i] BY <1>1, <1>3 DEF Range
  <2>2. i \in DOMAIN r /\ x = r[i] BY <1>1, <2>1
  <2> QED BY <2>2 DEF Range
<1>4. ASSUME NEW x \in Range(t) PROVE x \in Range(r)
  <2>1. PICK i \in 1 .. N : x = t[i] BY <1>1, <1>4 DEF Range
  <2>2. M + i \in DOMAIN r /\ x = r[M + i] BY <1>1, <2>1
  <2> QED BY <2>2 DEF Range
<1>5. Range(r) = Range(s) \cup Range(t) BY <1>2, <1>3, <1>4
<1> QED BY <1>5 DEF r

LEMMA InjectiveParts ==
  ASSUME NEW T, NEW s \in Seq(T), NEW t \in Seq(T), IsInjective(s \o t)
  PROVE  IsInjective(s) /\ IsInjective(t) /\ Range(s) \cap Range(t) = {}
<1> DEFINE M == Len(s)
           N == Len(t)
           r == s \o t
<1>1. /\ DOMAIN s = 1 .. M /\ DOMAIN t = 1 .. N /\ DOMAIN r = 1 .. M + N
      /\ \A i \in 1 .. M : i \in 1 .. M + N /\ r[i] = s[i]
      /\ \A i \in 1 .. N : M + i \in 1 .. M + N /\ r[M + i] = t[i]
      /\ M \in Nat /\ N \in Nat
  BY ConcatIndices
<1>2. \A i, j \in 1 .. M + N : r[i] = r[j] => i = j BY <1>1 DEF IsInjective
<1> HIDE DEF M, N, r
<1>3. IsInjective(s) BY <1>1, <1>2 DEF IsInjective
<1>4. IsInjective(t)
  <2> SUFFICES ASSUME NEW i \in 1 .. N, NEW j \in 1 .. N, t[i] = t[j] PROVE i = j
    BY <1>1 DEF IsInjective
  <2>1. /\ M + i \in 1 .. M + N /\ M + j \in 1 .. M + N
        /\ r[M + i] = r[M + j]
    BY <1>1
  <2>2. M + i = M + j BY <1>2, <2>1
  <2> QED BY <1>1, <2>2
<1>5. ASSUME NEW x \in Range(s), x \in Range(t) PROVE FALSE
  <2>1. PICK i \in 1 .. M : x = s[i] BY <1>1, <1>5 DEF Range
  <2>2. PICK j \in 1 .. N : x = t[j] BY <1>1, <1>5 DEF Range
  <2>3. /\ i \in 1 .. M + N /\ M + j \in 1 .. M + N
        /\ r[i] = r[M + j]
    BY <1>1, <2>1, <2>2
  <2>4. i = M + j BY <1>2, <2>3
  <2> QED BY <1>1, <2>4
<1> QED BY <1>3, <1>4, <1>5

LEMMA InjectiveJoined ==
  ASSUME NEW T, NEW s \in Seq(T), NEW t \in Seq(T),
         IsInjective(s), IsInjective(t), Range(s) \cap Range(t) = {}
  PROVE  IsInjective(s \o t)
<1> DEFINE M == Len(s)
           N == Len(t)
           r == s \o t
<1>1. /\ DOMAIN s = 1 .. M /\ DOMAIN t = 1 .. N /\ DOMAIN r = 1 .. M + N
      /\ \A i \in 1 .. M : i \in 1 .. M + N /\ r[i] = s[i]
      /\ \A i \in 1 .. N : M + i \in 1 .. M + N /\ r[M + i] = t[i]
      /\ \A i \in 1 .. M + N : i \in 1 .. M \/ \E j \in 1 .. N : i = M + j
  BY ConcatIndices
<1>2. ASSUME NEW i \in 1 .. M, NEW j \in 1 .. N PROVE s[i] # t[j]
  <2>1. s[i] \in Range(s) /\ t[j] \in Range(t) BY <1>1 DEF Range
  <2> QED BY <2>1
<1> HIDE DEF M, N, r
<1>3. ASSUME NEW i \in 1 .. M + N, NEW j \in 1 .. M + N, r[i] = r[j] PROVE i = j
  <2>1. CASE i \in 1 .. M /\ j \in 1 .. M BY <1>1, <1>3, <2>1 DEF IsInjective
  <2>2. CASE i \in 1 .. M /\ \E k \in 1 .. N : j = M + k
    <3>1. PICK k \in 1 .. N : j = M + k BY <2>2
    <3>2. r[i] = s[i] /\ r[j] = t[k] BY <1>1, <2>2, <3>1
    <3> QED BY <1>2, <1>3, <2>2, <3>2
  <2>3. CASE j \in 1 .. M /\ \E k \in 1 .. N : i = M + k
    <3>1. PICK k \in 1 .. N : i = M + k BY <2>3
    <3>2. r[j] = s[j] /\ r[i] = t[k] BY <1>1, <2>3, <3>1
    <3> QED BY <1>2, <1>3, <2>3, <3>2
  <2>4. CASE (\E k \in 1 .. N : i = M + k) /\ (\E k \in 1 .. N : j = M + k)
    <3>1. PICK k \in 1 .. N : i = M + k BY <2>4
    <3>2. PICK l \in 1 .. N : j = M + l BY <2>4
    <3>3. t[k] = t[l] BY <1>1, <1>3, <3>1, <3>2
    <3>4. k = l BY <1>1, <3>3 DEF IsInjective
    <3> QED BY <3>1, <3>2, <3>4
  <2> QED BY <1>1, <2>1, <2>2, <2>3, <2>4
<1>4. IsInjective(r) BY <1>1, <1>3 DEF IsInjective
<1> QED BY <1>4 DEF r

LEMMA OneElement ==
  ASSUME NEW T, NEW x \in T, NEW one, one = <<x>>
  PROVE  one \in Seq(T) /\ Range(one) = {x} /\ IsInjective(one)
<1>1. one \in Seq(T) /\ DOMAIN one = 1 .. 1 /\ one[1] = x OBVIOUS
<1>2. \A i \in 1 .. 1 : i = 1 OBVIOUS
<1> QED BY <1>1, <1>2 DEF Range, IsInjective

LEMMA WithoutRange ==
  ASSUME NEW T, NEW q \in Seq(T), NEW set
  PROVE  /\ Range(Without(q, set)) = Range(q) \ set
         /\ IsInjective(q) => IsInjective(Without(q, set))
<1> DEFINE S == {s \in Seq(T) :
                  /\ Range(Without(s, set)) = Range(s) \ set
                  /\ IsInjective(s) => IsInjective(Without(s, set))}
<1>1. <<>> \in S
  <2>1. <<>> \in Seq(T) BY EmptySeq
  <2>2. Range(<<>>) = {} BY DEF Range
  <2>3. Range(<<>>) = Range(<<>>) \ set BY <2>2
  <2> QED BY <2>1, <2>3, WithoutEmpty
<1>2. ASSUME NEW s \in Seq(T), NEW x \in T, s \in S PROVE Append(s, x) \in S
  <2> DEFINE one == <<x>>
             r == Append(s, x)
             u == Without(s, set)
             v == Append(u, x)
  <2>1. /\ u \in Seq(T) /\ Without(r, set) = IF x \in set THEN u ELSE v
    <3>1. Kept(s, x, set) BY WithoutKeeps
    <3>2. u \in Seq(T) BY WithoutFolds
    <3> QED BY <3>1, <3>2 DEF Kept
  <2>2. /\ Range(u) = Range(s) \ set
        /\ IsInjective(s) => IsInjective(u)
    BY <1>2
  <2> HIDE DEF u
  <2>3. one \in Seq(T) /\ Range(one) = {x} /\ IsInjective(one) BY OneElement
  <2>4. /\ r \in Seq(T) /\ r = s \o one
        /\ v \in Seq(T) /\ v = u \o one
    BY <2>1, AppendProperties, AppendIsConcat
  <2> HIDE DEF one, r, v
  <2>5. /\ Range(r) = Range(s) \cup {x}
        /\ IsInjective(r) => IsInjective(s) /\ x \notin Range(s)
    <3>1. Range(r) = Range(s) \cup {x} BY <2>3, <2>4, RangeConcat
    <3>2. ASSUME IsInjective(r) PROVE IsInjective(s) /\ x \notin Range(s)
      <4>1. IsInjective(s) /\ Range(s) \cap Range(one) = {}
        BY <2>3, <2>4, <3>2, InjectiveParts
      <4> QED BY <2>3, <4>1
    <3> QED BY <3>1, <3>2
  <2>6. /\ Range(v) = Range(u) \cup {x}
        /\ IsInjective(u) /\ x \notin Range(u) => IsInjective(v)
    <3>1. Range(v) = Range(u) \cup {x} BY <2>1, <2>3, <2>4, RangeConcat
    <3>2. ASSUME IsInjective(u), x \notin Range(u) PROVE IsInjective(v)
      <4>1. Range(u) \cap Range(one) = {} BY <2>3, <3>2
      <4> QED BY <2>1, <2>3, <2>4, <3>2, <4>1, InjectiveJoined
    <3> QED BY <3>1, <3>2
  <2>7. CASE x \in set
    <3>1. Without(r, set) = u BY <2>1, <2>7
    <3> QED BY <2>2, <2>4, <2>5, <2>7, <3>1 DEF r
  <2>8. CASE x \notin set
    <3>1. Without(r, set) = v BY <2>1, <2>8
    <3> QED BY <2>2, <2>4, <2>5, <2>6, <2>8, <3>1 DEF r
  <2> QED BY <2>7, <2>8
<1>3. Seq(T) \subseteq S
  <2> HIDE DEF S
  <2> QED BY <1>1, <1>2, SeqInduction
<1> QED BY <1>3

(* One pipe more, somewhere in the pipeline. *)
InsertedIn(new, old, p) ==
  \E s, t \in Seq(Pipes) : old = s \o t /\ new = (s \o <<p>>) \o t

LEMMA InsertionKeeps ==
  ASSUME NEW old \in Seq(Pipes), NEW p \in Pipes, NEW new, InsertedIn(new, old, p),
         IsInjective(old), p \notin Range(old)
  PROVE  /\ new \in Seq(Pipes) /\ IsInjective(new)
         /\ Range(new) = Range(old) \cup {p}
<1> DEFINE one == <<p>>
<1>1. PICK s \in Seq(Pipes), t \in Seq(Pipes) : old = s \o t /\ new = (s \o one) \o t
  BY DEF InsertedIn
<1>2. one \in Seq(Pipes) /\ Range(one) = {p} /\ IsInjective(one) BY OneElement
<1> HIDE DEF one
<1> DEFINE so == s \o one
<1>3. so \in Seq(Pipes) /\ new = so \o t BY <1>1, <1>2, ConcatProperties
<1>4. /\ Range(old) = Range(s) \cup Range(t)
      /\ IsInjective(s) /\ IsInjective(t) /\ Range(s) \cap Range(t) = {}
  BY <1>1, RangeConcat, InjectiveParts
<1>5. Range(so) = Range(s) \cup {p} /\ IsInjective(so)
  <2>1. Range(s) \cap Range(one) = {} BY <1>2, <1>4
  <2>2. Range(so) = Range(s) \cup {p} BY <1>2, RangeConcat
  <2> QED BY <1>2, <1>4, <2>1, <2>2, InjectiveJoined
<1> HIDE DEF so
<1>6. new \in Seq(Pipes) BY <1>3, ConcatProperties
<1>7. Range(so) \cap Range(t) = {} BY <1>4, <1>5
<1>8. Range(new) = Range(so) \cup Range(t) BY <1>3, RangeConcat
<1>9. IsInjective(new) BY <1>3, <1>4, <1>5, <1>7, InjectiveJoined
<1> QED BY <1>4, <1>5, <1>6, <1>8, <1>9

LEMMA InsertionContents ==
  ASSUME NEW old \in Seq(Pipes), NEW p \in Pipes, NEW new, InsertedIn(new, old, p),
         NEW B \in PipeBuffers, NEW D, Without(B[p], D) = <<>>
  PROVE  Without(Contents(new, B), D) = Without(Contents(old, B), D)
<1> DEFINE one == <<p>>
<1>1. PICK s \in Seq(Pipes), t \in Seq(Pipes) : old = s \o t /\ new = (s \o one) \o t
  BY DEF InsertedIn
<1>2. one \in Seq(Pipes) /\ Contents(one, B) = B[p] BY ContentsOne
<1> HIDE DEF one
<1> DEFINE so == s \o one
           cs == Contents(s, B)
           ct == Contents(t, B)
           b == B[p]
<1>3. so \in Seq(Pipes) /\ new = so \o t BY <1>1, <1>2, ConcatProperties
<1>0. ASSUME NEW x \in Seq(Pipes), NEW y \in Seq(Pipes)
      PROVE  Contents(x \o y, B) = Contents(x, B) \o Contents(y, B)
  BY ContentsConcat
<1>4. Contents(so, B) = cs \o b BY <1>0, <1>2
<1> HIDE DEF so
<1>5. Contents(new, B) = (cs \o b) \o ct BY <1>0, <1>3, <1>4
<1>6. Contents(old, B) = cs \o ct BY <1>0, <1>1
<1>7. cs \in Seq(Packet) /\ ct \in Seq(Packet) /\ b \in Seq(Packet)
  BY ContentsType DEF PipeBuffers
<1> HIDE DEF cs, ct, b
<1>8. cs \o b \in Seq(Packet) BY <1>7, ConcatProperties
<1>9. ASSUME NEW x \in Seq(Packet), NEW y \in Seq(Packet)
      PROVE  Without(x \o y, D) = Without(x, D) \o Without(y, D)
  BY WithoutDistributes DEF Distributes
<1>10. Without(cs, D) \in Seq(Packet) BY <1>7, WithoutFolds
<1>11. Without(cs, D) \o <<>> = Without(cs, D) BY <1>10, ConcatEmptySeq
<1>12. Without(cs \o b, D) = Without(cs, D) BY <1>7, <1>9, <1>11 DEF b
<1>13. Without((cs \o b) \o ct, D) = Without(cs \o b, D) \o Without(ct, D)
  BY <1>7, <1>8, <1>9
<1> QED BY <1>5, <1>6, <1>7, <1>9, <1>12, <1>13

-----------------------------------------------------------------------------
(* The steps, with the four ways to add a pipe taken together. *)

Insert(p) ==
  /\ pc = "idle" /\ p \in Unused
  /\ InsertedIn(pipeline', pipeline, p)
  /\ UNCHANGED <<packetBuffer, pipeBuffer, at, calls, accepted, handed, dropped,
                 socketVars, pc>>

LEMMA InsertsAtEnd ==
  ASSUME NEW p \in Pipes, pipeline \in Seq(Pipes), AppendByteBytePipe(p)
  PROVE  Insert(p)
<1> DEFINE e == <<>>
           one == <<p>>
<1>1. e \in Seq(Pipes) /\ pipeline \o e = pipeline BY EmptySeq, ConcatEmptySeq
<1>2. one \in Seq(Pipes) /\ Append(pipeline, p) = pipeline \o one BY AppendIsConcat
<1>3. pipeline' = Append(pipeline, p) BY DEF AppendByteBytePipe, Edit
<1> HIDE DEF e, one
<1>4. pipeline \o one \in Seq(Pipes) BY <1>2, ConcatProperties
<1>5. (pipeline \o one) \o e = pipeline \o one BY <1>4, ConcatEmptySeq DEF e
<1>6. InsertedIn(pipeline', pipeline, p)
  <2>1. pipeline = pipeline \o e /\ pipeline' = (pipeline \o one) \o e BY <1>1, <1>2, <1>3, <1>5
  <2> QED BY <1>1, <2>1 DEF InsertedIn, one
<1> QED BY <1>6 DEF Insert, AppendByteBytePipe, Edit, socketVars

LEMMA InsertsAtStart ==
  ASSUME NEW p \in Pipes, pipeline \in Seq(Pipes), PrependByteBytePipe(p)
  PROVE  Insert(p)
<1> DEFINE e == <<>>
           one == <<p>>
<1>1. e \in Seq(Pipes) /\ e \o pipeline = pipeline BY EmptySeq, ConcatEmptySeq
<1>2. one \in Seq(Pipes) /\ e \o one = one BY ConcatEmptySeq
<1>3. pipeline' = one \o pipeline BY DEF PrependByteBytePipe, Edit
<1> HIDE DEF e, one
<1>4. InsertedIn(pipeline', pipeline, p)
  <2>1. pipeline = e \o pipeline /\ pipeline' = (e \o one) \o pipeline BY <1>1, <1>2, <1>3
  <2> QED BY <1>1, <2>1 DEF InsertedIn, one
<1> QED BY <1>4 DEF Insert, PrependByteBytePipe, Edit, socketVars

LEMMA InsertsAfterFirst ==
  ASSUME NEW p \in Pipes, NEW ordinal \in Pipes, pipeline \in Seq(Pipes),
         AppendByteBytePipeAfter(p, ordinal)
  PROVE  Insert(p)
<1> DEFINE first == <<ordinal>>
           rest == Tail(pipeline)
           one == <<p>>
<1>1. pipeline # <<>> /\ Head(pipeline) = ordinal BY DEF AppendByteBytePipeAfter, Found
<1>2. first \in Seq(Pipes) /\ one \in Seq(Pipes) /\ first \o one = <<ordinal, p>>
  <2>1. first \in Seq(Pipes) /\ one \in Seq(Pipes) OBVIOUS
  <2>2. Append(first, p) = first \o one BY <2>1, AppendIsConcat
  <2>3. Append(first, p) = <<ordinal, p>>
    <3> DEFINE two == <<ordinal, p>>
    <3>1. two \in Seq(Pipes) /\ Len(two) = 2 /\ two[1] = ordinal /\ two[2] = p OBVIOUS
    <3>2. Len(first) = 1 /\ first[1] = ordinal OBVIOUS
    <3> HIDE DEF two, first
    <3>3. /\ Append(first, p) \in Seq(Pipes) /\ Len(Append(first, p)) = 2
          /\ Append(first, p)[1] = ordinal /\ Append(first, p)[2] = p
      <4>1. /\ Append(first, p) \in Seq(Pipes)
            /\ Len(Append(first, p)) = Len(first) + 1
            /\ \A i \in 1 .. Len(first) : Append(first, p)[i] = first[i]
            /\ Append(first, p)[Len(first) + 1] = p
        BY <2>1, AppendProperties
      <4> QED BY <3>2, <4>1
    <3>4. \A i \in 1 .. 2 : i = 1 \/ i = 2 OBVIOUS
    <3>5. \A i \in 1 .. 2 : Append(first, p)[i] = two[i] BY <3>1, <3>3, <3>4
    <3>6. Append(first, p) = two BY <3>1, <3>3, <3>5, SeqEqual
    <3> QED BY <3>6 DEF two
  <2> QED BY <2>1, <2>2, <2>3
<1>3. rest \in Seq(Pipes) /\ pipeline = first \o rest
  BY <1>1
<1>4. pipeline' = <<ordinal, p>> \o rest BY DEF AppendByteBytePipeAfter, Edit
<1> HIDE DEF first, rest, one
<1>5. pipeline' = (first \o one) \o rest BY <1>2, <1>4
<1>6. InsertedIn(pipeline', pipeline, p) BY <1>2, <1>3, <1>5 DEF InsertedIn, one
<1> QED BY <1>6 DEF Insert, AppendByteBytePipeAfter, Edit, socketVars

LEMMA NextCases ==
  ASSUME pipeline \in Seq(Pipes), [Next]_vars
  PROVE  \/ \E size \in Sizes : WritePacket(size)
         \/ WritePacketSkipped \/ WritePacketFails
         \/ \E p \in Pipes : Insert(p)
         \/ \E ordinal \in Pipes : SearchFails(ordinal)
         \/ \E ordinal \in Pipes : RemoveByteBytePipe(ordinal)
         \/ Flush \/ CloseCall
         \/ PipeWrites \/ PipeHolds \/ PipeFails
         \/ WriteDirect \/ CopyChunk \/ CopyRest
         \/ SocketTakes \/ NextLoop \/ FlushReturns
         \/ SocketFull \/ SocketFault \/ SocketReset
         \/ PeerReads \/ PeerResets
         \/ UNCHANGED vars
<1>1. \A p, ordinal \in Pipes : PrependByteBytePipeBefore(p, ordinal) => PrependByteBytePipe(p)
  BY DEF PrependByteBytePipeBefore, PrependByteBytePipe
<1>2. ASSUME \E p \in Pipes : AppendByteBytePipe(p) \/ PrependByteBytePipe(p)
      PROVE  \E p \in Pipes : Insert(p)
  BY <1>2, InsertsAtEnd, InsertsAtStart
<1>3. ASSUME \E p, ordinal \in Pipes :
               AppendByteBytePipeAfter(p, ordinal) \/ PrependByteBytePipeBefore(p, ordinal)
      PROVE  \E p \in Pipes : Insert(p)
  BY <1>1, <1>3, InsertsAtStart, InsertsAfterFirst
<1> QED BY <1>2, <1>3, Zenon DEF Next, Application, Thread

-----------------------------------------------------------------------------
(* Frames on their way through the pipes. *)

LEMMA ConcatAssoc3 ==
  \A x, y, z \in Seq(Packet) :
    x \o y \in Seq(Packet) /\ (x \o y) \o z = x \o (y \o z)
<1> SUFFICES ASSUME NEW x \in Seq(Packet), NEW y \in Seq(Packet), NEW z \in Seq(Packet)
             PROVE  x \o y \in Seq(Packet) /\ (x \o y) \o z = x \o (y \o z)
  OBVIOUS
<1>1. Associates(x, y, z) BY ConcatAssociates
<1>2. x \o y \in Seq(Packet) BY ConcatProperties
<1> QED BY <1>1, <1>2 DEF Associates

(* A list is what stands before its k-th element, the element, and the rest. *)
Splits(T, q, k, one) ==
  \E s \in Seq(T), t \in Seq(T) : Len(s) = k - 1 /\ q = (s \o one) \o t

LEMMA SplitAt ==
  ASSUME NEW T, NEW q \in Seq(T), NEW k \in 1 .. Len(q)
  PROVE  Splits(T, q, k, <<q[k]>>)
<1> DEFINE N == Len(q)
           s == SubSeq(q, 1, k - 1)
           t == SubSeq(q, k + 1, N)
           so == SubSeq(q, 1, k)
<1>0. N \in Nat /\ k \in Nat BY LenProperties
<1>1. \A i \in 1 .. N : q[i] \in T BY ElementOfSeq
<1>2. s \in Seq(T) /\ Len(s) = k - 1
  <2>1. \A i \in 1 .. k - 1 : q[i] \in T BY <1>0, <1>1
  <2> QED BY <1>0, <2>1, SubSeqProperties
<1>3. t \in Seq(T)
  <2>1. \A i \in k + 1 .. N : q[i] \in T BY <1>0, <1>1
  <2> QED BY <1>0, <2>1, SubSeqProperties
<1>4. so = s \o <<q[k]>>
  <2>1. 1 \in 1 .. N /\ k \in 1 .. N BY <1>0
  <2> QED BY <2>1, SubSeqRecursiveSecond
<1>5. so \o t = SubSeq(q, 1, N)
  <2>1. 1 \in 1 .. N + 1 /\ k \in 1 - 1 .. N /\ N \in k .. N BY <1>0
  <2> QED BY <2>1, ConcatAdjacentSubSeq
<1>6. SubSeq(q, 1, N) = q BY SubSeqFull
<1> HIDE DEF so, s, t
<1>7. q = (s \o <<q[k]>>) \o t BY <1>4, <1>5, <1>6
<1> QED BY <1>2, <1>3, <1>7 DEF Splits

(* The contents of a pipeline without repetition, pulled apart at one pipe. *)
Parted(q, k, s, t) ==
  /\ Len(s) = k - 1 /\ Len(q) = k + Len(t)
  /\ IsInjective(s)
  /\ \A i \in 1 .. Len(s) : s[i] = q[i] /\ s[i] \in Pipes /\ s[i] # q[k]
  /\ \A i \in 1 .. Len(t) : t[i] \in Pipes /\ t[i] # q[k] /\ t[i] \notin Range(s)
  /\ \A D \in PipeBuffers :
       Contents(q, D) = (Contents(s, D) \o D[q[k]]) \o Contents(t, D)

LEMMA ContentsAt ==
  ASSUME NEW q \in Seq(Pipes), IsInjective(q), NEW k \in 1 .. Len(q)
  PROVE  \E s, t \in Seq(Pipes) : Parted(q, k, s, t)
<1> DEFINE one == <<q[k]>>
<1>1. PICK s \in Seq(Pipes), t \in Seq(Pipes) : Len(s) = k - 1 /\ q = (s \o one) \o t
  <2>1. Splits(Pipes, q, k, one) BY SplitAt
  <2> HIDE DEF one
  <2> QED BY <2>1 DEF Splits
<1>2. q[k] \in Pipes BY ElementOfSeq
<1>3. /\ one \in Seq(Pipes) /\ Range(one) = {q[k]} /\ Len(one) = 1
      /\ \A D \in PipeBuffers : Contents(one, D) = D[q[k]]
  BY <1>2, OneElement, ContentsOne
<1> HIDE DEF one
<1> DEFINE so == s \o one
<1>4. so \in Seq(Pipes) /\ Len(so) = Len(s) + 1
  <2>1. so \in Seq(Pipes) /\ Len(so) = Len(s) + Len(one) BY <1>3, ConcatProperties
  <2> QED BY <1>3, <2>1
<1>5. q = so \o t BY <1>1
<1>6. IsInjective(so) /\ Range(so) \cap Range(t) = {}
  <2> HIDE DEF so
  <2>1. IsInjective(so \o t) BY <1>5
  <2> QED BY <1>4, <2>1, InjectiveParts
<1>7. IsInjective(s) /\ Range(s) \cap Range(one) = {} /\ Range(so) = Range(s) \cup Range(one)
  BY <1>3, <1>6, InjectiveParts, RangeConcat
<1>8. /\ \A i \in 1 .. Len(s) : s[i] \in Range(s) /\ s[i] \in Pipes
      /\ \A i \in 1 .. Len(t) : t[i] \in Range(t) /\ t[i] \in Pipes
  <2>1. DOMAIN s = 1 .. Len(s) /\ DOMAIN t = 1 .. Len(t) BY LenProperties
  <2> QED BY <2>1, ElementOfSeq DEF Range
<1>9. ASSUME NEW D \in PipeBuffers
      PROVE  Contents(q, D) = (Contents(s, D) \o D[q[k]]) \o Contents(t, D)
  <2>1. Contents(so, D) = Contents(s, D) \o Contents(one, D) BY <1>3, ContentsConcat
  <2> HIDE DEF so
  <2>2. Contents(so \o t, D) = Contents(so, D) \o Contents(t, D) BY <1>4, ContentsConcat
  <2> QED BY <1>3, <1>5, <2>1, <2>2
<1>10. \A i \in 1 .. Len(s) : s[i] = q[i]
  <2>1. \A i \in 1 .. Len(s) : i \in 1 .. Len(so) /\ so[i] = s[i]
    <3>1. \A i \in 1 .. Len(s) : i \in 1 .. Len(s) + Len(one) /\ so[i] = s[i]
      BY <1>3, ConcatIndices
    <3> QED BY <1>3, <1>4, <3>1
  <2> HIDE DEF so
  <2>2. \A i \in 1 .. Len(so) : (so \o t)[i] = so[i] BY <1>4, ConcatIndices
  <2> QED BY <1>5, <2>1, <2>2
<1>11. Len(q) = k + Len(t)
  <2> HIDE DEF so
  <2>1. Len(so \o t) = Len(so) + Len(t) BY <1>4, ConcatProperties
  <2>2. Len(t) \in Nat /\ Len(s) \in Nat BY LenProperties
  <2> QED BY <1>1, <1>4, <1>5, <2>1, <2>2
<1> HIDE DEF so
<1>12. \A i \in 1 .. Len(s) : s[i] # q[k] BY <1>3, <1>7, <1>8
<1>13. \A i \in 1 .. Len(t) : t[i] # q[k] /\ t[i] \notin Range(s) BY <1>3, <1>6, <1>7, <1>8
<1>14. Parted(q, k, s, t)
  BY <1>1, <1>7, <1>8, <1>9, <1>10, <1>11, <1>12, <1>13 DEF Parted
<1> QED BY <1>14

(* The head of one list becomes the end of the one before it. *)
LEMMA HeadMoves ==
  ASSUME NEW x \in Seq(Packet), NEW y \in Seq(Packet), y # <<>>
  PROVE  Append(x, Head(y)) \o Tail(y) = x \o y
<1> DEFINE one == <<Head(y)>>
<1>1. Head(y) \in Packet /\ Tail(y) \in Seq(Packet) BY HeadTailProperties
<1>2. one \in Seq(Packet) /\ y = one \o Tail(y) BY <1>1
<1>3. Append(x, Head(y)) = x \o one BY <1>1, AppendIsConcat
<1> DEFINE rest == Tail(y)
<1> HIDE DEF one, rest
<1>4. one \in Seq(Packet) /\ rest \in Seq(Packet) BY <1>1, <1>2 DEF rest
<1>5. Associates(x, one, rest) BY <1>4, ConcatAssociates
<1>6. y = one \o rest BY <1>2 DEF rest
<1>7. Append(x, Head(y)) \o rest = x \o y BY <1>3, <1>5, <1>6 DEF Associates
<1> QED BY <1>7 DEF rest

LEMMA NothingIn ==
  ASSUME NEW r \in Seq(Pipes), Len(r) = 0, NEW D \in PipeBuffers
  PROVE  Contents(r, D) = <<>>
<1>1. r = <<>> BY EmptySeq
<1> QED BY <1>1, ContentsEmpty

(* A frame goes into the last pipe of a list. *)
LEMMA FrameEnters ==
  ASSUME NEW q \in Seq(Pipes), IsInjective(q), NEW k \in 1 .. Len(q), k = Len(q),
         NEW B \in PipeBuffers, NEW C \in PipeBuffers, NEW h \in Packet,
         C[q[k]] = Append(B[q[k]], h),
         \A i \in 1 .. Len(q) : i # k => C[q[i]] = B[q[i]]
  PROVE  Contents(q, C) = Append(Contents(q, B), h)
<1>1. PICK s \in Seq(Pipes), t \in Seq(Pipes) : Parted(q, k, s, t) BY ContentsAt
<1>2. Len(s) \in Nat /\ Len(t) \in Nat /\ k \in Nat BY LenProperties
<1>3. Len(s) = k - 1 /\ Len(q) = k + Len(t) BY <1>1 DEF Parted
<1>4. Len(t) = 0 BY <1>2, <1>3
<1>5. Contents(s, C) = Contents(s, B)
  <2>a. Len(q) \in Nat BY LenProperties
  <2>b. ASSUME NEW i \in 1 .. Len(s) PROVE i \in 1 .. Len(q) /\ i # k
    <3> DEFINE m == Len(s)
               n == Len(q)
    <3>1. m \in Nat /\ n \in Nat /\ m = k - 1 /\ k = n BY <1>2, <1>3, <2>a
    <3>2. i \in 1 .. m OBVIOUS
    <3> HIDE DEF m, n
    <3>3. i \in 1 .. n /\ i # k BY <1>2, <3>1, <3>2
    <3> QED BY <3>3 DEF n
  <2>1. \A i \in 1 .. Len(s) : i \in 1 .. Len(q) /\ i # k BY <2>b
  <2>2. \A i \in 1 .. Len(s) : s[i] = q[i] BY <1>1 DEF Parted
  <2>3. \A i \in 1 .. Len(s) : C[s[i]] = B[s[i]] BY <2>1, <2>2
  <2> QED BY <2>3, ContentsAgree
<1> DEFINE x == Contents(s, B)
           b == B[q[k]]
<1>6. x \in Seq(Packet) /\ b \in Seq(Packet)
  <2>1. q[k] \in Pipes BY ElementOfSeq
  <2> QED BY <2>1, ContentsType DEF PipeBuffers
<1>7. Contents(q, B) = (x \o b) \o <<>>
  <2>1. Contents(t, B) = <<>> BY <1>4, NothingIn
  <2> QED BY <1>1, <2>1 DEF Parted
<1>8. Contents(q, C) = (x \o Append(b, h)) \o <<>>
  <2>1. Contents(t, C) = <<>> BY <1>4, NothingIn
  <2>2. Contents(q, C) = (Contents(s, C) \o C[q[k]]) \o Contents(t, C) BY <1>1 DEF Parted
  <2> QED BY <1>5, <2>1, <2>2
<1> HIDE DEF x, b
<1>a. Prepends(x, b, h) BY <1>6, AppendPrepends
<1>9. x \o Append(b, h) = Append(x \o b, h) BY <1>a DEF Prepends
<1>10. x \o b \in Seq(Packet) BY <1>6, ConcatProperties
<1>11. Append(x \o b, h) \in Seq(Packet) BY <1>10, AppendProperties
<1>12. (x \o b) \o <<>> = x \o b BY <1>10, ConcatEmptySeq
<1>13. Append(x \o b, h) \o <<>> = Append(x \o b, h) BY <1>11, ConcatEmptySeq
<1> QED BY <1>7, <1>8, <1>9, <1>12, <1>13

(* A frame goes from one pipe to the one before it. *)
LEMMA FrameMoves ==
  ASSUME NEW q \in Seq(Pipes), IsInjective(q), NEW k \in 1 .. Len(q), k + 1 \in 1 .. Len(q),
         NEW B \in PipeBuffers, NEW C \in PipeBuffers,
         B[q[k + 1]] # <<>>,
         C[q[k]] = Append(B[q[k]], Head(B[q[k + 1]])),
         C[q[k + 1]] = Tail(B[q[k + 1]]),
         \A p \in Pipes : p # q[k] /\ p # q[k + 1] => C[p] = B[p]
  PROVE  Contents(q, C) = Contents(q, B)
<1> DEFINE b == B[q[k + 1]]
<1>0. q[k] \in Pipes /\ q[k + 1] \in Pipes BY ElementOfSeq
<1>1. b \in Seq(Packet) /\ b # <<>> BY <1>0 DEF PipeBuffers
<1>2. PICK s \in Seq(Pipes), t \in Seq(Pipes) : Parted(q, k + 1, s, t) BY ContentsAt
<1>3. k \in Nat /\ Len(s) \in Nat BY LenProperties
<1>4. Len(s) = k /\ IsInjective(s)
  <2>1. Len(s) = (k + 1) - 1 /\ IsInjective(s) BY <1>2 DEF Parted
  <2> QED BY <1>3, <2>1
<1>5. /\ \A i \in 1 .. k : s[i] = q[i] /\ s[i] \in Pipes /\ s[i] # q[k + 1]
      /\ \A i \in 1 .. Len(t) : t[i] \in Pipes /\ t[i] # q[k + 1] /\ t[i] \notin Range(s)
  BY <1>2, <1>4 DEF Parted
<1>6. k \in 1 .. Len(s) BY <1>3, <1>4
<1>7. s[k] = q[k] BY <1>4, <1>5, <1>6
<1>8. Contents(s, C) = Append(Contents(s, B), Head(b))
  <2>1. \A i \in 1 .. Len(s) : i # k => s[i] # s[k] BY <1>4, <1>6, LenProperties DEF IsInjective
  <2>2. \A i \in 1 .. Len(s) : i # k => C[s[i]] = B[s[i]] BY <1>4, <1>5, <1>7, <2>1
  <2>3. Head(b) \in Packet BY <1>1, HeadTailProperties
  <2>4. C[s[k]] = Append(B[s[k]], Head(b)) BY <1>7
  <2> HIDE DEF b
  <2> QED BY <1>4, <1>6, <2>2, <2>3, <2>4, FrameEnters
<1>9. Contents(t, C) = Contents(t, B)
  <2>1. s[k] \in Range(s)
    <3>1. k \in DOMAIN s BY <1>6, LenProperties
    <3> QED BY <3>1 DEF Range
  <2>2. \A i \in 1 .. Len(t) : C[t[i]] = B[t[i]] BY <1>5, <1>7, <2>1
  <2> QED BY <2>2, ContentsAgree
<1>10. /\ Contents(q, B) = (Contents(s, B) \o b) \o Contents(t, B)
       /\ Contents(q, C) = (Contents(s, C) \o Tail(b)) \o Contents(t, C)
  BY <1>2 DEF Parted
<1>11. Contents(s, B) \in Seq(Packet) BY ContentsType
<1> HIDE DEF b
<1>12. Append(Contents(s, B), Head(b)) \o Tail(b) = Contents(s, B) \o b
  BY <1>1, <1>11, HeadMoves
<1> QED BY <1>8, <1>9, <1>10, <1>12

(* The first pipe is emptied. *)
LEMMA FirstPipeEmptied ==
  ASSUME NEW q \in Seq(Pipes), IsInjective(q), 1 \in 1 .. Len(q),
         NEW B \in PipeBuffers, NEW C \in PipeBuffers,
         C[q[1]] = <<>>, \A p \in Pipes : p # q[1] => C[p] = B[p]
  PROVE  B[q[1]] \o Contents(q, C) = Contents(q, B)
<1>1. PICK s \in Seq(Pipes), t \in Seq(Pipes) : Parted(q, 1, s, t) BY ContentsAt
<1>2. Len(s) = 0 BY <1>1 DEF Parted
<1>3. Contents(t, C) = Contents(t, B)
  <2>1. \A i \in 1 .. Len(t) : C[t[i]] = B[t[i]] BY <1>1 DEF Parted
  <2> QED BY <2>1, ContentsAgree
<1> DEFINE b == B[q[1]]
           y == Contents(t, B)
<1>4. b \in Seq(Packet) /\ y \in Seq(Packet)
  <2>1. q[1] \in Pipes BY ElementOfSeq
  <2> QED BY <2>1, ContentsType DEF PipeBuffers
<1>5. Contents(s, B) = <<>> /\ Contents(s, C) = <<>> BY <1>2, NothingIn
<1>6. /\ Contents(q, B) = (<<>> \o b) \o y
      /\ Contents(q, C) = (<<>> \o <<>>) \o y
  BY <1>1, <1>3, <1>5 DEF Parted
<1> HIDE DEF b, y
<1>7. <<>> \o b = b BY <1>4, ConcatEmptySeq
<1>8. <<>> \o <<>> = <<>>
  <2>1. <<>> \in Seq(Packet) BY EmptySeq
  <2> QED BY <2>1, ConcatEmptySeq
<1>9. <<>> \o y = y BY <1>4, ConcatEmptySeq
<1> QED BY <1>6, <1>7, <1>8, <1>9 DEF b

-----------------------------------------------------------------------------
(* The steps that move frames, in one formula: a frame, or all of them,     *)
(* leaves Input; it goes to the pipe before, or to writerBuffer.            *)

LEMMA InputType ==
  ASSUME WriterTypes
  PROVE  Input \in Seq(Packet)
<1>1. pipeline \in Seq(Pipes) /\ packetBuffer \in Seq(Packet) /\ pipeBuffer \in PipeBuffers
  BY DEF WriterTypes
<1>2. at \in 0 .. Len(pipeline) /\ Len(pipeline) \in Nat BY LenProperties DEF WriterTypes
<1>3. CASE at = Len(pipeline) BY <1>1, <1>3 DEF Input
<1>4. CASE at # Len(pipeline)
  <2>1. at + 1 \in 1 .. Len(pipeline) BY <1>2, <1>4
  <2>2. pipeline[at + 1] \in Pipes BY <1>1, <2>1, ElementOfSeq
  <2> QED BY <1>1, <1>4, <2>2 DEF Input, PipeBuffers
<1> QED BY <1>3, <1>4

(* What Encode leaves in the buffers. *)
Encoded ==
  /\ packetBuffer' \in Seq(Packet) /\ Len(packetBuffer') <= 1
  /\ pipeBuffer' \in PipeBuffers
  /\ \A p \in Unused : pipeBuffer'[p] = pipeBuffer[p]
  /\ at = Len(pipeline) => packetBuffer' = <<>>
  /\ at # Len(pipeline) => packetBuffer' = packetBuffer
  /\ Contents(pipeline, pipeBuffer') \o packetBuffer'
       = Contents(pipeline, pipeBuffer) \o packetBuffer

LEMMA EncodeMovesAFrame ==
  ASSUME WriterTypes, Encode
  PROVE  Encoded
<1> DEFINE q == pipeline
           B == pipeBuffer
           C == pipeBuffer'
           k == at
           y == Input
           M == [B EXCEPT ![q[k]] = Append(B[q[k]], Head(y))]
<1>1. /\ q \in Seq(Pipes) /\ IsInjective(q) /\ B \in PipeBuffers
      /\ packetBuffer \in Seq(Packet) /\ Len(packetBuffer) <= 1
      /\ k \in 0 .. Len(q)
  BY DEF WriterTypes
<1>2. Len(q) \in Nat BY <1>1, LenProperties
<1>3. k > 0 /\ y # <<>> /\ InputBecomes(Tail(y), M) BY DEF Encode
<1>4. k \in 1 .. Len(q) BY <1>1, <1>2, <1>3
<1>5. q[k] \in Pipes BY <1>1, <1>4, ElementOfSeq
<1>6. y \in Seq(Packet) BY InputType
<1>7. Head(y) \in Packet /\ Tail(y) \in Seq(Packet) /\ Len(Tail(y)) = Len(y) - 1
  BY <1>3, <1>6, HeadTailProperties
<1>8. B[q[k]] \in Seq(Packet) BY <1>1, <1>5 DEF PipeBuffers
<1>9. Append(B[q[k]], Head(y)) \in Seq(Packet) BY <1>7, <1>8, AppendProperties
<1>10. /\ M \in PipeBuffers
       /\ M[q[k]] = Append(B[q[k]], Head(y))
       /\ \A p \in Pipes : p # q[k] => M[p] = B[p]
  BY <1>1, <1>5, <1>9 DEF PipeBuffers
<1> HIDE DEF M
<1>11. \A i \in 1 .. Len(q) : q[i] \in Pipes /\ q[i] \in Range(q)
  <2>1. DOMAIN q = 1 .. Len(q) BY <1>1, LenProperties
  <2> QED BY <1>1, <2>1, ElementOfSeq DEF Range
<1>12. \A p \in Unused : p \in Pipes /\ \A i \in 1 .. Len(q) : p # q[i]
  BY <1>11 DEF Unused
<1>13. CASE k = Len(q)
  <2>1. y = packetBuffer BY <1>13 DEF Input
  <2>2. packetBuffer' = Tail(y) /\ C = M BY <1>3, <1>13 DEF InputBecomes
  <2>3. Len(y) \in Nat /\ Len(y) <= 1 BY <1>1, <1>6, <2>1, LenProperties
  <2>4. Len(y) # 0 BY <1>3, <1>6, EmptySeq
  <2>5. Len(Tail(y)) = 0 BY <1>7, <2>3, <2>4
  <2>6. Tail(y) = <<>> BY <1>7, <2>5, EmptySeq
  <2>7. \A i \in 1 .. Len(q) : i # k => M[q[i]] = B[q[i]]
    <3>1. \A i \in 1 .. Len(q) : i # k => q[i] # q[k]
      BY <1>1, <1>4, LenProperties DEF IsInjective
    <3> QED BY <1>10, <1>11, <3>1
  <2>8. Contents(q, M) = Append(Contents(q, B), Head(y))
    BY <1>1, <1>4, <1>7, <1>10, <1>13, <2>7, FrameEnters
  <2>9. Contents(q, B) \in Seq(Packet) BY <1>1, ContentsType
  <2>10. Append(Contents(q, B), Head(y)) \o Tail(y) = Contents(q, B) \o y
    BY <1>3, <1>6, <2>9, HeadMoves
  <2>11. \A p \in Unused : M[p] = B[p] BY <1>4, <1>10, <1>12
  <2>12. packetBuffer' \in Seq(Packet) /\ Len(packetBuffer') <= 1 BY <1>7, <2>2, <2>5
  <2> QED BY <1>10, <1>13, <2>1, <2>2, <2>6, <2>8, <2>10, <2>11, <2>12 DEF Encoded
<1>14. CASE k # Len(q)
  <2>1. k + 1 \in 1 .. Len(q) BY <1>2, <1>4, <1>14
  <2>2. y = B[q[k + 1]] BY <1>14 DEF Input
  <2>3. C = [M EXCEPT ![q[k + 1]] = Tail(y)] /\ packetBuffer' = packetBuffer
    BY <1>3, <1>14 DEF InputBecomes
  <2>4. q[k + 1] \in Pipes /\ q[k + 1] # q[k]
    <3>1. k + 1 # k BY <1>4
    <3> QED BY <1>1, <1>4, <1>11, <2>1, <3>1, LenProperties DEF IsInjective
  <2>5. /\ C \in PipeBuffers
        /\ C[q[k + 1]] = Tail(y)
        /\ \A p \in Pipes : p # q[k + 1] => C[p] = M[p]
    BY <1>7, <1>10, <2>3, <2>4 DEF PipeBuffers
  <2>6. /\ C[q[k]] = Append(B[q[k]], Head(B[q[k + 1]]))
        /\ C[q[k + 1]] = Tail(B[q[k + 1]])
        /\ \A p \in Pipes : p # q[k] /\ p # q[k + 1] => C[p] = B[p]
        /\ B[q[k + 1]] # <<>>
    BY <1>3, <1>5, <1>10, <2>2, <2>4, <2>5
  <2>7. Contents(q, C) = Contents(q, B)
    BY <1>1, <1>4, <2>1, <2>5, <2>6, FrameMoves
  <2>8. \A p \in Unused : C[p] = B[p] BY <1>4, <1>12, <2>1, <2>6
  <2> QED BY <1>1, <1>14, <2>3, <2>5, <2>7, <2>8 DEF Encoded
<1> QED BY <1>13, <1>14

(* What WriteDirect leaves in the buffers. *)
MovedOut ==
  /\ packetBuffer' = <<>> \/ (packetBuffer' = packetBuffer /\ at # Len(pipeline))
  /\ packetBuffer' \in Seq(Packet) /\ Len(packetBuffer') <= 1
  /\ pipeBuffer' \in PipeBuffers
  /\ \A p \in Unused : pipeBuffer'[p] = pipeBuffer[p]
  /\ handed' \in Seq(Packet)
  /\ Stream' = Stream + Bytes(Input)
  /\ (handed' \o Contents(pipeline, pipeBuffer')) \o packetBuffer'
       = (handed \o Contents(pipeline, pipeBuffer)) \o packetBuffer

LEMMA WriteDirectMovesAll ==
  ASSUME WriterTypes, WriteDirect
  PROVE  MovedOut
<1> DEFINE q == pipeline
           B == pipeBuffer
           C == pipeBuffer'
           y == Input
<1>1. /\ q \in Seq(Pipes) /\ IsInjective(q) /\ B \in PipeBuffers
      /\ packetBuffer \in Seq(Packet) /\ Len(packetBuffer) <= 1
      /\ handed \in Seq(Packet)
  BY DEF WriterTypes
<1>2. at = 0 /\ InputBecomes(<<>>, B) /\ handed' = handed \o y BY DEF WriteDirect
<1>3. y \in Seq(Packet) BY InputType
<1>4. handed' \in Seq(Packet) BY <1>1, <1>2, <1>3, ConcatProperties
<1>5. Stream' = Stream + Bytes(Input) BY <1>1, <1>2, <1>3, BytesConcat DEF Stream
<1>6. Len(q) \in Nat BY <1>1, LenProperties
<1>7. <<>> \in Seq(Packet) /\ Len(<<>>) = 0 BY EmptySeq
<1>8. CASE Len(q) = 0
  <2>1. y = packetBuffer /\ packetBuffer' = <<>> /\ C = B BY <1>2, <1>8 DEF Input, InputBecomes
  <2>2. Contents(q, B) = <<>> BY <1>1, <1>8, NothingIn
  <2>3. handed \o y \in Seq(Packet) BY <1>2, <1>4
  <2>4. /\ (handed \o y) \o <<>> = handed \o y
        /\ handed \o <<>> = handed
    BY <1>1, <2>3, ConcatEmptySeq
  <2>5. (handed' \o Contents(q, C)) \o packetBuffer'
          = (handed \o Contents(q, B)) \o packetBuffer
    BY <1>2, <2>1, <2>2, <2>4
  <2>6. \A p \in Unused : C[p] = B[p] BY <2>1
  <2>7. packetBuffer' \in Seq(Packet) /\ Len(packetBuffer') <= 1 BY <1>7, <2>1
  <2>8. C \in PipeBuffers BY <1>1, <2>1
  <2> QED BY <1>4, <1>5, <2>1, <2>5, <2>6, <2>7, <2>8 DEF MovedOut
<1>9. CASE Len(q) # 0
  <2>1. 1 \in 1 .. Len(q) /\ at # Len(q) /\ at + 1 = 1 BY <1>2, <1>6, <1>9
  <2>2. y = B[q[1]] /\ C = [B EXCEPT ![q[1]] = <<>>] /\ packetBuffer' = packetBuffer
    BY <1>2, <2>1 DEF Input, InputBecomes
  <2>3. q[1] \in Pipes BY <1>1, <2>1, ElementOfSeq
  <2>4. /\ C \in PipeBuffers /\ C[q[1]] = <<>>
        /\ \A p \in Pipes : p # q[1] => C[p] = B[p]
    BY <1>1, <1>7, <2>2, <2>3 DEF PipeBuffers
  <2>5. B[q[1]] \o Contents(q, C) = Contents(q, B)
    BY <1>1, <2>1, <2>4, FirstPipeEmptied
  <2>6. Contents(q, C) \in Seq(Packet) BY <1>1, <2>4, ContentsType
  <2>7. (handed \o y) \o Contents(q, C) = handed \o (y \o Contents(q, C))
    <3>1. ASSUME NEW c \in Seq(Packet), NEW d \in Seq(Packet), NEW e \in Seq(Packet)
          PROVE  (c \o d) \o e = c \o (d \o e)
      <4>1. Associates(c, d, e) BY ConcatAssociates
      <4> QED BY <4>1 DEF Associates
    <3> QED BY <1>1, <1>3, <2>6, <3>1
  <2>8. q[1] \in Range(q)
    <3>1. 1 \in DOMAIN q BY <1>1, <2>1, LenProperties
    <3> QED BY <3>1 DEF Range
  <2>9. \A p \in Unused : C[p] = B[p] BY <2>4, <2>8 DEF Unused
  <2>10. handed' \o Contents(q, C) = handed \o Contents(q, B) BY <1>2, <2>2, <2>5, <2>7
  <2> QED BY <1>1, <1>4, <1>5, <2>1, <2>2, <2>4, <2>9, <2>10 DEF MovedOut
<1> QED BY <1>8, <1>9

-----------------------------------------------------------------------------
(* The inductive invariant, conjunct by conjunct. *)

States == {"idle", "write", "copy", "chunks", "rest", "searching"}

(* Steps of the thread outside a Write, of the peer and of the application  *)
(* that leave the pipes alone.                                              *)
PipesAlone ==
  /\ UNCHANGED pipeVars
  /\ (pc' \in States /\ pc' # "write") \/ pc' = pc
  /\ pc # "write" \/ pc' = pc
  /\ closed' \in BOOLEAN /\ (closed => closed')

LEMMA WhoLeavesPipesAlone ==
  ASSUME WriterTypes,
         \/ Flush \/ CloseCall \/ CopyChunk \/ CopyRest \/ SocketTakes
         \/ NextLoop \/ FlushReturns \/ SocketFull \/ SocketFault \/ SocketReset
         \/ PeerReads \/ PeerResets \/ UNCHANGED vars
  PROVE  PipesAlone
<1>1. closed \in BOOLEAN /\ (pc # "write" => at = 0) BY DEF WriterTypes
<1> USE DEF PipesAlone, States
<1>2. CASE Flush BY <1>1, <1>2 DEF Flush, socketVars
<1>3. CASE CloseCall BY <1>1, <1>3 DEF CloseCall, Close
<1>4. CASE CopyChunk BY <1>1, <1>4 DEF CopyChunk
<1>5. CASE CopyRest BY <1>1, <1>5 DEF CopyRest
<1>6. CASE SocketTakes BY <1>1, <1>6 DEF SocketTakes
<1>7. CASE NextLoop BY <1>1, <1>7 DEF NextLoop, socketVars
<1>8. CASE FlushReturns BY <1>1, <1>8 DEF FlushReturns, socketVars
<1>9. CASE SocketFull BY <1>1, <1>9 DEF SocketFull, Sending, socketVars
<1>10. CASE SocketFault BY <1>1, <1>10 DEF SocketFault, Sending, socketVars
<1>11. CASE SocketReset BY <1>1, <1>11 DEF SocketReset, Sending, Close
<1>12. CASE PeerReads BY <1>1, <1>12 DEF PeerReads
<1>13. CASE PeerResets BY <1>1, <1>13 DEF PeerResets
<1>14. CASE UNCHANGED vars BY <1>1, <1>14 DEF vars, socketVars
<1> QED BY <1>2, <1>3, <1>4, <1>5, <1>6, <1>7, <1>8, <1>9, <1>10, <1>11, <1>12, <1>13, <1>14

LEMMA WriterTypesStep ==
  ASSUME WriterTypes, [Next]_vars
  PROVE  WriterTypes'
<1>1. /\ pipeline \in Seq(Pipes) /\ IsInjective(pipeline)
      /\ packetBuffer \in Seq(Packet) /\ Len(packetBuffer) <= 1
      /\ pipeBuffer \in PipeBuffers
      /\ handed \in Seq(Packet) /\ accepted \in Seq(Packet)
      /\ calls \in Nat
      /\ pc \in States
      /\ at \in 0 .. Len(pipeline)
      /\ pc # "write" => at = 0
      /\ closed \in BOOLEAN
  BY DEF WriterTypes, States
<1>2. Len(pipeline) \in Nat /\ 0 \in 0 .. Len(pipeline) BY <1>1, LenProperties
<1>3. <<>> \in Seq(Packet) /\ Len(<<>>) = 0 BY EmptySeq
<1>4. CASE \E size \in Sizes : WritePacket(size)
  <2>1. PICK size \in Sizes : WritePacket(size) BY <1>4
  <2> DEFINE packet == [id |-> calls + 1, size |-> size]
             one == <<packet>>
  <2>2. packet \in Packet BY <1>1, SizesAssumption DEF Packet
  <2>3. /\ packetBuffer' = one /\ accepted' = Append(accepted, packet)
        /\ calls' = calls + 1 /\ at' = Len(pipeline) /\ pc' = "write"
        /\ UNCHANGED <<pipeline, pipeBuffer, handed, closed>>
    BY <2>1 DEF WritePacket, FirstPipe, socketVars
  <2> HIDE DEF packet
  <2>4. one \in Seq(Packet) /\ Len(one) = 1 BY <2>2
  <2>5. accepted' \in Seq(Packet) BY <1>1, <2>2, <2>3, AppendProperties
  <2> HIDE DEF one
  <2>6. packetBuffer' \in Seq(Packet) /\ Len(packetBuffer') <= 1 BY <2>3, <2>4
  <2> QED BY <1>1, <1>2, <2>3, <2>5, <2>6 DEF WriterTypes, States
<1>5. CASE WritePacketSkipped \/ WritePacketFails
  <2>1. /\ packetBuffer' = <<>> /\ calls' = calls + 1
        /\ UNCHANGED <<pipeline, pipeBuffer, at, accepted, handed, pc>>
        /\ closed' \in BOOLEAN
    BY <1>1, <1>5 DEF WritePacketSkipped, WritePacketFails, Close, socketVars
  <2>2. packetBuffer' \in Seq(Packet) /\ Len(packetBuffer') <= 1 BY <1>3, <2>1
  <2> QED BY <1>1, <2>1, <2>2 DEF WriterTypes, States
<1>6. ASSUME UNCHANGED <<packetBuffer, pipeBuffer, at, calls, accepted, handed, closed>>,
             pc = "idle", pc' \in {"idle", "searching"},
             pipeline' \in Seq(Pipes), IsInjective(pipeline')
      PROVE  WriterTypes'
  <2>1. Len(pipeline') \in Nat /\ at' = 0 /\ pc' # "write" BY <1>1, <1>6, LenProperties
  <2>2. at' \in 0 .. Len(pipeline') BY <2>1
  <2> QED BY <1>1, <1>6, <2>1, <2>2 DEF WriterTypes, States
<1>7. CASE \E p \in Pipes : Insert(p)
  <2>1. PICK p \in Pipes : Insert(p) BY <1>7
  <2>2. /\ pipeline' \in Seq(Pipes) /\ IsInjective(pipeline')
    BY <1>1, <2>1, InsertionKeeps DEF Insert, Unused
  <2> QED BY <1>6, <2>1, <2>2 DEF Insert, socketVars
<1>8. CASE \E ordinal \in Pipes : SearchFails(ordinal)
  <2>1. /\ pipeline' = pipeline /\ pc = "idle" /\ pc' \in {"idle", "searching"}
        /\ UNCHANGED <<packetBuffer, pipeBuffer, at, calls, accepted, handed, closed>>
    BY <1>8 DEF SearchFails, Edit, socketVars
  <2> QED BY <1>1, <1>6, <2>1
<1>9. CASE \E ordinal \in Pipes : RemoveByteBytePipe(ordinal)
  <2>1. PICK ordinal \in Pipes : RemoveByteBytePipe(ordinal) BY <1>9
  <2> DEFINE set == {ordinal}
  <2>2. /\ pipeline' = Without(pipeline, set) /\ pc = "idle" /\ pc' = pc
        /\ UNCHANGED <<packetBuffer, pipeBuffer, at, calls, accepted, handed, closed>>
    BY <2>1 DEF RemoveByteBytePipe, Edit, socketVars
  <2> HIDE DEF set
  <2>3. Without(pipeline, set) \in Seq(Pipes) /\ IsInjective(Without(pipeline, set))
    BY <1>1, WithoutFolds, WithoutRange
  <2> QED BY <1>6, <2>2, <2>3
<1>10. CASE PipeWrites \/ PipeHolds
  <2>1. Encode /\ UNCHANGED <<pipeline, calls, accepted, handed, closed>>
    BY <1>10 DEF PipeWrites, PipeHolds, socketVars
  <2>2. Encoded BY <2>1, EncodeMovesAFrame
  <2>3. at > 0 /\ pc = "write" BY <2>1 DEF Encode
  <2>4. at' \in 0 .. Len(pipeline) /\ pc' \in States /\ (pc' # "write" => at' = 0)
    BY <1>1, <1>2, <1>10, <2>3 DEF PipeWrites, PipeHolds, States
  <2> QED BY <1>1, <2>1, <2>2, <2>4 DEF WriterTypes, Encoded, States
<1>11. CASE PipeFails
  BY <1>1, <1>2, <1>11 DEF PipeFails, Close, WriterTypes, States
<1>12. CASE WriteDirect
  <2>1. MovedOut BY <1>12, WriteDirectMovesAll
  <2>2. /\ UNCHANGED <<pipeline, at, calls, accepted, closed>>
        /\ pc' = "copy" /\ at = 0
    BY <1>12 DEF WriteDirect
  <2> QED BY <1>1, <2>1, <2>2 DEF WriterTypes, MovedOut, States
<1>13. ASSUME PipesAlone PROVE WriterTypes'
  <2>1. UNCHANGED <<pipeline, packetBuffer, pipeBuffer, at, calls, accepted, handed>>
    BY <1>13 DEF PipesAlone, pipeVars
  <2>2. pc' \in States /\ (pc' # "write" => at' = 0) /\ closed' \in BOOLEAN
    BY <1>1, <1>13, <2>1 DEF PipesAlone
  <2> QED BY <1>1, <2>1, <2>2 DEF WriterTypes, States
<1> QED
  BY <1>1, <1>4, <1>5, <1>7, <1>8, <1>9, <1>10, <1>11, <1>12, <1>13, NextCases,
     WhoLeavesPipesAlone, Zenon

(* Steps that leave the byte buffer alone. *)
BufferAlone ==
  /\ UNCHANGED <<buf, left, wire, exact, handed>>
  /\ room' \in 0 .. Room /\ reset' \in BOOLEAN
  /\ pc = "copy" <=> pc' = "copy"
  /\ pc' = "rest" => pc = "rest" \/ (pc = "chunks" /\ ~ Sending)

LEMMA WhoLeavesBufferAlone ==
  ASSUME room \in 0 .. Room, reset \in BOOLEAN,
         \/ \E size \in Sizes : WritePacket(size)
         \/ WritePacketSkipped \/ WritePacketFails
         \/ \E p \in Pipes : Insert(p)
         \/ \E ordinal \in Pipes : SearchFails(ordinal)
         \/ \E ordinal \in Pipes : RemoveByteBytePipe(ordinal)
         \/ Flush \/ CloseCall \/ PipeWrites \/ PipeHolds \/ PipeFails
         \/ NextLoop \/ FlushReturns \/ SocketFull \/ SocketFault \/ SocketReset
         \/ PeerReads \/ PeerResets \/ UNCHANGED vars
  PROVE  BufferAlone
<1> USE DEF BufferAlone
<1>1. CASE \E size \in Sizes : WritePacket(size) BY <1>1 DEF WritePacket, socketVars
<1>2. CASE WritePacketSkipped BY <1>2 DEF WritePacketSkipped, socketVars
<1>3. CASE WritePacketFails BY <1>3 DEF WritePacketFails, Close
<1>4. CASE \E p \in Pipes : Insert(p) BY <1>4 DEF Insert, socketVars
<1>5. CASE \E ordinal \in Pipes : SearchFails(ordinal)
  BY <1>5 DEF SearchFails, Edit, socketVars
<1>6. CASE \E ordinal \in Pipes : RemoveByteBytePipe(ordinal)
  BY <1>6 DEF RemoveByteBytePipe, Edit, socketVars
<1>7. CASE Flush BY <1>7 DEF Flush, pipeVars, socketVars
<1>8. CASE CloseCall BY <1>8 DEF CloseCall, Close, pipeVars
<1>9. CASE PipeWrites BY <1>9 DEF PipeWrites, socketVars
<1>10. CASE PipeHolds BY <1>10 DEF PipeHolds, Encode, socketVars
<1>11. CASE PipeFails BY <1>11 DEF PipeFails, Close
<1>12. CASE NextLoop BY <1>12 DEF NextLoop, pipeVars, socketVars
<1>13. CASE FlushReturns BY <1>13 DEF FlushReturns, pipeVars, socketVars
<1>14. CASE SocketFull BY <1>14 DEF SocketFull, Sending, pipeVars, socketVars
<1>15. CASE SocketFault BY <1>15 DEF SocketFault, Sending, pipeVars, socketVars
<1>16. CASE SocketReset BY <1>16 DEF SocketReset, Sending, Close, pipeVars
<1>17. CASE PeerReads
  <2>1. Room \in 0 .. Room BY RoomAssumption
  <2> QED BY <1>17, <2>1 DEF PeerReads, pipeVars
<1>18. CASE PeerResets BY <1>18 DEF PeerResets, pipeVars
<1>19. CASE UNCHANGED vars BY <1>19 DEF vars, pipeVars, socketVars
<1> QED
  BY <1>1, <1>2, <1>3, <1>4, <1>5, <1>6, <1>7, <1>8, <1>9, <1>10, <1>11, <1>12, <1>13,
     <1>14, <1>15, <1>16, <1>17, <1>18, <1>19

LEMMA MinOfTwo ==
  ASSUME NEW a \in Int, NEW b \in Int
  PROVE  /\ Min({a, b}) \in Int /\ Min({a, b}) <= a /\ Min({a, b}) <= b
         /\ Min({a, b}) = a \/ Min({a, b}) = b
<1>1. CASE a <= b
  <2>1. \E x \in {a, b} : \A y \in {a, b} : x <= y BY <1>1
  <2> QED BY <2>1 DEF Min
<1>2. CASE ~ (a <= b)
  <2>1. \E x \in {a, b} : \A y \in {a, b} : x <= y BY <1>2
  <2> QED BY <2>1 DEF Min
<1> QED BY <1>1, <1>2

LEMMA Multiple ==
  ASSUME NEW k \in Nat, NEW m \in Nat, m > 0
  PROVE  ((m * k) % m) = 0
BY SMTT(30)

LEMMA PartMore ==
  ASSUME NEW k \in Nat, NEW m \in Nat, m > 0, NEW n \in Nat, n < m
  PROVE  ((m * k + n) % m) = n
BY SMTT(30)

LEMMA Quotient ==
  ASSUME NEW a \in Nat, NEW m \in Nat, m > 0
  PROVE  /\ a \div m \in Int
         /\ a = m * (a \div m) + (a % m)
         /\ a \div m >= 0
BY SMTT(30)

(* Where the socket is in its chunk after n bytes from the start of one. *)
LEMMA Whole ==
  ASSUME NEW a \in Nat, NEW m \in Nat, m > 0, (a % m) = 0
  PROVE  /\ ((a + m) % m) = 0
         /\ \A n \in Nat : n < m => ((a + n) % m) = n
<1> DEFINE k == a \div m
<1>1. k \in Nat /\ a = m * k
  <2>1. k \in Int /\ k >= 0 /\ a = m * k + (a % m) BY Quotient
  <2>2. m * k \in Int BY <2>1
  <2> HIDE DEF k
  <2>3. a = m * k BY <2>1, <2>2
  <2> QED BY <2>1, <2>3
<1> HIDE DEF k
<1>2. k + 1 \in Nat /\ m * (k + 1) = m * k + m BY <1>1, SMTT(30)
<1>3. ((m * (k + 1)) % m) = 0 BY <1>2, Multiple
<1>4. ASSUME NEW n \in Nat, n < m PROVE ((m * k + n) % m) = n BY <1>1, <1>4, PartMore
<1> QED BY <1>1, <1>2, <1>3, <1>4

LEMMA StreamIsNat ==
  ASSUME WriterTypes
  PROVE  Stream \in Nat
BY BytesFolds DEF WriterTypes, Stream

(* How much the socket takes. *)
LEMMA TakenBytes ==
  ASSUME BufferInv, SocketTakes, NEW n, n = Min({Requested, room})
  PROVE  /\ n \in Nat /\ n >= 1 /\ n <= room
         /\ n <= buf.readableBytes
         /\ buf.localReaderIndex + n <= SingleCapacity
         /\ pc = "rest" => n < SingleCapacity
<1>1. /\ buf \in ByteBuffers /\ buf.localReaderIndex < SingleCapacity
      /\ room \in 0 .. Room
      /\ pc = "rest" => buf.localReaderIndex + buf.readableBytes < SingleCapacity
  BY DEF BufferInv
<1>2. /\ buf.localReaderIndex \in 0 .. SingleCapacity /\ buf.readableBytes \in Nat
  BY <1>1, ByteBufferFields
<1>3. Sending /\ room > 0 BY DEF SocketTakes
<1>4. /\ Requested \in Int /\ Requested >= 1 /\ Requested <= buf.readableBytes
      /\ buf.localReaderIndex + Requested <= SingleCapacity
  BY <1>1, <1>2, <1>3, CapacityAssumption DEF Sending, Requested, RestOfChunk
<1> HIDE DEF Requested
<1>5. room \in Int BY <1>1, RoomAssumption
<1>6. /\ n \in Int /\ n <= Requested /\ n <= room
      /\ n = Requested \/ n = room
  BY <1>4, <1>5, MinOfTwo
<1>7. n >= 1 BY <1>3, <1>4, <1>5, <1>6
<1> QED BY <1>1, <1>2, <1>4, <1>6, <1>7, CapacityAssumption

(* SkipReadBytes, as a move of the read cursor to n. *)
LEMMA SkipSentIsMoveReader ==
  ASSUME NEW b \in ByteBuffers, NEW n \in Nat
  PROVE  SkipSent(b, n) = TryRefreshReaderBuffer(MoveReader(b, n, b.readableBytes - n))
<1> DEFINE c == [b EXCEPT !.readableBytes = @ - n]
<1>1. [c EXCEPT !.localReaderIndex = n] = MoveReader(b, n, b.readableBytes - n)
  BY DEF MoveReader, ByteBuffers
<1>2. SkipSent(b, n) = TryRefreshReaderBuffer([c EXCEPT !.localReaderIndex = n])
  BY DEF SkipSent, SkipInChunk
<1> QED BY <1>1, <1>2

LEMMA SkipSentType ==
  ASSUME NEW b \in ByteBuffers, NEW n \in Nat, n <= SingleCapacity, n <= b.readableBytes
  PROVE  /\ SkipSent(b, n) \in ByteBuffers
         /\ SkipSent(b, n).localReaderIndex = IF n < SingleCapacity THEN n ELSE 0
         /\ SkipSent(b, n).readableBytes = b.readableBytes - n
<1> DEFINE r == b.readableBytes - n
           c == MoveReader(b, n, r)
<1>1. r \in Nat BY ByteBufferFields
<1>2. n \in 0 .. SingleCapacity BY CapacityAssumption
<1>3. SkipSent(b, n) = TryRefreshReaderBuffer(c) BY SkipSentIsMoveReader
<1> HIDE DEF r
<1>4. c \in ByteBuffers /\ c.localReaderIndex = n /\ c.readableBytes = r
  BY <1>1, <1>2, MoveReaderType
<1> HIDE DEF c
<1>5. CASE n < SingleCapacity
  <2>1. TryRefreshReaderBuffer(c) = c BY <1>4, <1>5, CapacityAssumption DEF TryRefreshReaderBuffer
  <2> QED BY <1>3, <1>4, <1>5, <2>1 DEF r
<1>6. CASE ~ (n < SingleCapacity)
  <2>1. TryRefreshReaderBuffer(c) = PopBuffer(c)
    BY <1>4, <1>6, CapacityAssumption DEF TryRefreshReaderBuffer
  <2>2. /\ PopBuffer(c) \in ByteBuffers /\ PopBuffer(c).localReaderIndex = 0
        /\ PopBuffer(c).readableBytes = c.readableBytes
    BY <1>4, PopBufferType
  <2> QED BY <1>3, <1>4, <1>6, <2>1, <2>2 DEF r
<1> QED BY <1>5, <1>6

LEMMA BufferInvStep ==
  ASSUME WriterTypes, BufferInv, [Next]_vars
  PROVE  BufferInv'
<1>1. /\ buf \in ByteBuffers /\ buf.localReaderIndex < SingleCapacity
      /\ left \in Nat /\ (pc # "copy" => left = 0)
      /\ room \in 0 .. Room /\ reset \in BOOLEAN /\ wire \in Seq(Int)
      /\ pc = "rest" => buf.localReaderIndex + buf.readableBytes < SingleCapacity
      /\ Len(wire) + buf.readableBytes + left = Stream
  BY DEF BufferInv, EveryByteCounted
<1>2. /\ buf.localReaderIndex \in 0 .. SingleCapacity
      /\ buf.localWriterIndex \in 0 .. SingleCapacity
      /\ buf.readableBytes \in Nat
  BY <1>1, ByteBufferFields
<1>3. Len(wire) \in Nat BY <1>1, LenProperties
<1>4. Stream \in Nat BY StreamIsNat
<1>5. pipeline \in Seq(Pipes) BY DEF WriterTypes
<1>6. ASSUME BufferAlone PROVE BufferInv'
  <2>1. /\ UNCHANGED <<buf, left, wire, handed>>
        /\ room' \in 0 .. Room /\ reset' \in BOOLEAN
        /\ pc = "copy" <=> pc' = "copy"
        /\ pc' = "rest" => pc = "rest" \/ (pc = "chunks" /\ ~ Sending)
    BY <1>6 DEF BufferAlone
  <2>2. pc = "chunks" /\ ~ Sending => buf.localReaderIndex + buf.readableBytes < SingleCapacity
    BY <1>2, CapacityAssumption DEF Sending, RestOfChunk
  <2>3. Stream' = Stream BY <2>1 DEF Stream
  <2> QED BY <1>1, <2>1, <2>2, <2>3 DEF BufferInv, EveryByteCounted
<1>7. CASE WriteDirect
  <2>1. MovedOut BY <1>7, WriteDirectMovesAll
  <2>2. Stream' = Stream + Bytes(Input) BY <2>1 DEF MovedOut
  <2>3. Bytes(Input) \in Nat BY InputType, BytesFolds
  <2>4. /\ pc = "write" /\ pc' = "copy" /\ Addr \ buf.live # {}
        /\ buf' = TryRefreshWriterBuffer(buf)
        /\ left' = Bytes(Input)
        /\ UNCHANGED <<wire, room, reset>>
    BY <1>7 DEF WriteDirect, MemoryLeft
  <2>5. /\ buf' \in ByteBuffers
        /\ buf'.localReaderIndex = buf.localReaderIndex
        /\ buf'.readableBytes = buf.readableBytes
    BY <1>1, <2>4, RefreshWriterType
  <2>6. Len(wire') + buf'.readableBytes + left' = Stream'
    BY <1>1, <1>2, <1>3, <2>2, <2>3, <2>4, <2>5
  <2> QED BY <1>1, <2>3, <2>4, <2>5, <2>6 DEF BufferInv, EveryByteCounted
<1>8. CASE CopyChunk
  <2> DEFINE copied == SingleCapacity - buf.localWriterIndex
             c == CopyIn(buf, copied, Stream - left)
  <2>1. /\ pc = "copy" /\ left > copied /\ Addr \ buf.live # {}
        /\ buf' = AppendBuffer(c) /\ left' = left - copied
        /\ UNCHANGED <<wire, room, reset, handed, pc>>
    BY <1>8 DEF CopyChunk, MemoryLeft, pipeVars
  <2>2. copied \in Nat /\ buf.localWriterIndex + copied <= SingleCapacity
    BY <1>2, CapacityAssumption
  <2>3. Stream - left \in Int BY <1>1, <1>4
  <2> HIDE DEF copied
  <2>4. /\ c \in ByteBuffers /\ c.live = buf.live
        /\ c.localReaderIndex = buf.localReaderIndex
        /\ c.readableBytes = buf.readableBytes + copied
    BY <1>1, <2>2, <2>3, CopyInType
  <2> HIDE DEF c
  <2>5. /\ buf' \in ByteBuffers
        /\ buf'.localReaderIndex = buf.localReaderIndex
        /\ buf'.readableBytes = buf.readableBytes + copied
    BY <2>1, <2>4, AppendBufferType
  <2>6. left' \in Nat BY <1>1, <2>1, <2>2
  <2>7. Stream' = Stream BY <2>1 DEF Stream
  <2>8. Len(wire') + buf'.readableBytes + left' = Stream'
    <3>1. Len(wire) + (buf.readableBytes + copied) + (left - copied) = Stream
      <4>1. Len(wire) + buf.readableBytes + left = Stream BY <1>1
      <4>2. left \in Nat BY <1>1
      <4> QED BY <1>2, <1>3, <2>2, <4>1, <4>2
    <3> QED BY <2>1, <2>5, <2>7, <3>1
  <2> QED BY <1>1, <2>1, <2>5, <2>6, <2>8 DEF BufferInv, EveryByteCounted
<1>9. CASE CopyRest
  <2> DEFINE c == CopyIn(buf, left, Stream - left)
  <2>1. /\ buf.localWriterIndex + left <= SingleCapacity
        /\ buf' = c /\ left' = 0 /\ pc' = "idle"
        /\ UNCHANGED <<wire, room, reset, handed>>
    BY <1>1, <1>2, <1>9, CapacityAssumption DEF CopyRest, pipeVars
  <2>2. Stream - left \in Int BY <1>1, <1>4
  <2>3. /\ c \in ByteBuffers
        /\ c.localReaderIndex = buf.localReaderIndex
        /\ c.readableBytes = buf.readableBytes + left
    BY <1>1, <2>1, <2>2, CopyInType
  <2> HIDE DEF c
  <2>4. Stream' = Stream BY <2>1 DEF Stream
  <2>5. Len(wire') + buf'.readableBytes + left' = Stream'
    BY <1>1, <1>2, <1>3, <2>1, <2>3, <2>4
  <2> QED BY <1>1, <2>1, <2>3, <2>5 DEF BufferInv, EveryByteCounted
<1>10. CASE SocketTakes
  <2> DEFINE n == Min({Requested, room})
             bytes == DirectBytes(buf, n)
  <2>1. /\ Sending /\ wire' = wire \o bytes /\ room' = room - n
        /\ buf' = SkipSent(buf, n)
        /\ UNCHANGED <<left, reset, handed, pc>>
    BY <1>10 DEF SocketTakes, pipeVars
  <2>2. n = Min({Requested, room}) OBVIOUS
  <2> HIDE DEF n
  <2>3. /\ n \in Nat /\ n >= 1 /\ n <= room /\ n <= buf.readableBytes
        /\ buf.localReaderIndex + n <= SingleCapacity
        /\ pc = "rest" => n < SingleCapacity
    BY <1>10, <2>2, TakenBytes
  <2>4. bytes \in Seq(Int) /\ Len(bytes) = n BY <1>1, <2>3, DirectBytesType
  <2> HIDE DEF bytes
  <2>5. wire' \in Seq(Int) /\ Len(wire') = Len(wire) + n
    <3>1. wire \o bytes \in Seq(Int) /\ Len(wire \o bytes) = Len(wire) + Len(bytes)
      BY <1>1, <2>4, ConcatProperties
    <3> QED BY <2>1, <2>4, <3>1
  <2>6. n <= SingleCapacity BY <1>2, <2>3, CapacityAssumption
  <2>7. /\ buf' \in ByteBuffers
        /\ buf'.localReaderIndex = IF n < SingleCapacity THEN n ELSE 0
        /\ buf'.readableBytes = buf.readableBytes - n
    BY <1>1, <2>1, <2>3, <2>6, SkipSentType
  <2>8. buf'.localReaderIndex < SingleCapacity BY <2>7, CapacityAssumption
  <2>9. room' \in 0 .. Room BY <1>1, <2>1, <2>3, RoomAssumption
  <2>10. Stream' = Stream BY <2>1 DEF Stream
  <2>11. Len(wire') + buf'.readableBytes + left' = Stream'
    BY <1>1, <1>2, <1>3, <2>1, <2>3, <2>5, <2>7, <2>10
  <2>12. pc' = "rest" => buf'.localReaderIndex + buf'.readableBytes < SingleCapacity
    BY <1>1, <1>2, <2>1, <2>3, <2>7, CapacityAssumption
  <2> QED BY <1>1, <2>1, <2>5, <2>7, <2>8, <2>9, <2>11, <2>12 DEF BufferInv, EveryByteCounted
<1> QED
  BY <1>1, <1>5, <1>6, <1>7, <1>8, <1>9, <1>10, NextCases, WhoLeavesBufferAlone, Zenon

LEMMA CursorInvStep ==
  ASSUME WriterTypes, BufferInv, CursorInv, [Next]_vars
  PROVE  CursorInv'
<1>1. /\ buf \in ByteBuffers /\ buf.localReaderIndex < SingleCapacity
      /\ left \in Nat /\ (pc # "copy" => left = 0)
      /\ room \in 0 .. Room /\ reset \in BOOLEAN /\ wire \in Seq(Int)
      /\ Len(wire) + buf.readableBytes + left = Stream
  BY DEF BufferInv, EveryByteCounted
<1>2. /\ buf.localReaderIndex \in 0 .. SingleCapacity
      /\ buf.localWriterIndex \in 0 .. SingleCapacity
      /\ buf.readableBytes \in Nat
  BY <1>1, ByteBufferFields
<1>3. Len(wire) \in Nat BY <1>1, LenProperties
<1>4. Stream \in Nat BY StreamIsNat
<1>5. pipeline \in Seq(Pipes) BY DEF WriterTypes
<1> DEFINE w == Len(wire) + buf.readableBytes
<1>6. w \in Nat /\ Stream - left = w
  <2>1. Len(wire) + buf.readableBytes + left = Stream BY <1>1
  <2>2. left \in Nat BY <1>1
  <2> QED BY <1>2, <1>3, <1>4, <2>1, <2>2
<1>7. exact = Unspoiled =>
        /\ Good(buf, w, 0)
        /\ Len(wire) % SingleCapacity = buf.localReaderIndex
        /\ \A i \in 1 .. Len(wire) : wire[i] = i - 1
  BY DEF CursorInv
<1>8. exact # Unspoiled =>
        /\ exact \in Nat /\ exact <= Len(wire)
        /\ \A i \in 1 .. exact : wire[i] = i - 1
  BY DEF CursorInv
<1>9. ASSUME BufferAlone PROVE CursorInv'
  <2>1. UNCHANGED <<buf, wire, exact>> BY <1>9 DEF BufferAlone
  <2> QED BY <1>7, <1>8, <2>1 DEF CursorInv, Good, DequeOwnsHeap, CursorsInDeque, Stored,
                                Distance, Origin, Before, Chunks, Unspoiled
<1>10. ASSUME UNCHANGED <<wire, exact>>,
              exact = Unspoiled => /\ Good(buf', Len(wire) + buf'.readableBytes, 0)
                                   /\ buf'.localReaderIndex = buf.localReaderIndex
       PROVE  CursorInv'
  <2>1. exact' = Unspoiled => Good(buf', Len(wire') + buf'.readableBytes, 0) BY <1>10
  <2>2. exact' = Unspoiled => Len(wire') % SingleCapacity = buf'.localReaderIndex
    BY <1>7, <1>10
  <2>3. exact' = Unspoiled => \A i \in 1 .. Len(wire') : wire'[i] = i - 1 BY <1>7, <1>10
  <2>4. exact' # Unspoiled => /\ exact' \in Nat /\ exact' <= Len(wire')
                              /\ \A i \in 1 .. exact' : wire'[i] = i - 1
    BY <1>8, <1>10
  <2> QED BY <2>1, <2>2, <2>3, <2>4 DEF CursorInv, Unspoiled
<1> HIDE DEF w
<1>11. CASE WriteDirect
  <2>1. /\ Addr \ buf.live # {} /\ buf' = TryRefreshWriterBuffer(buf)
        /\ UNCHANGED <<wire, exact>>
    BY <1>11 DEF WriteDirect, MemoryLeft
  <2>2. ASSUME exact = Unspoiled
        PROVE  /\ Good(buf', w, 0)
               /\ buf'.localReaderIndex = buf.localReaderIndex
               /\ buf'.readableBytes = buf.readableBytes
    BY <1>6, <1>7, <2>1, <2>2, RefreshWriterGood
  <2> QED BY <1>10, <2>1, <2>2 DEF w
<1>12. CASE CopyChunk
  <2> DEFINE copied == SingleCapacity - buf.localWriterIndex
             c == CopyIn(buf, copied, w)
  <2>1. /\ Addr \ buf.live # {} /\ buf' = AppendBuffer(c)
        /\ UNCHANGED <<wire, exact>>
    BY <1>6, <1>12 DEF CopyChunk, MemoryLeft
  <2>2. copied \in Nat /\ buf.localWriterIndex + copied = SingleCapacity
    BY <1>2, CapacityAssumption
  <2> HIDE DEF copied
  <2>3. ASSUME exact = Unspoiled
        PROVE  /\ Good(buf', w + copied, 0)
               /\ buf'.localReaderIndex = buf.localReaderIndex
               /\ buf'.readableBytes = buf.readableBytes + copied
    <3>1. buf.localWriterIndex + copied <= SingleCapacity BY <2>2, CapacityAssumption
    <3>2. /\ Good(c, w + copied, 0)
          /\ c.localWriterIndex = SingleCapacity
          /\ c.localReaderIndex = buf.localReaderIndex
          /\ c.readableBytes = buf.readableBytes + copied
          /\ c.live = buf.live
      BY <1>6, <1>7, <2>2, <2>3, <3>1, CopyInGood
    <3> HIDE DEF c
    <3>3. w + copied \in Nat BY <1>6, <2>2
    <3> QED BY <2>1, <3>2, <3>3, AppendBufferGood
  <2>4. Len(wire) + (buf.readableBytes + copied) = w + copied BY <1>2, <1>3, <2>2 DEF w
  <2> QED BY <1>10, <2>1, <2>3, <2>4
<1>13. CASE CopyRest
  <2> DEFINE c == CopyIn(buf, left, w)
  <2>1. /\ buf.localWriterIndex + left <= SingleCapacity
        /\ buf' = c /\ UNCHANGED <<wire, exact>>
    BY <1>1, <1>2, <1>6, <1>13, CapacityAssumption DEF CopyRest
  <2>2. ASSUME exact = Unspoiled
        PROVE  /\ Good(c, w + left, 0)
               /\ c.localReaderIndex = buf.localReaderIndex
               /\ c.readableBytes = buf.readableBytes + left
    BY <1>1, <1>6, <1>7, <2>1, <2>2, CopyInGood
  <2> HIDE DEF c
  <2>3. Len(wire) + (buf.readableBytes + left) = w + left BY <1>1, <1>2, <1>3 DEF w
  <2> QED BY <1>10, <2>1, <2>2, <2>3
<1>14. CASE SocketTakes
  <2> DEFINE n == Min({Requested, room})
             bytes == DirectBytes(buf, n)
             spoilt == Spoils(n)
  <2>1. /\ Sending /\ wire' = wire \o bytes
        /\ buf' = SkipSent(buf, n)
        /\ exact' = IF exact = Unspoiled /\ spoilt THEN Len(wire) + n ELSE exact
    BY <1>14 DEF SocketTakes
  <2>2. n = Min({Requested, room}) OBVIOUS
  <2> HIDE DEF n
  <2>3. /\ n \in Nat /\ n >= 1 /\ n <= room /\ n <= buf.readableBytes
        /\ buf.localReaderIndex + n <= SingleCapacity
    BY <1>14, <2>2, TakenBytes
  <2>4. bytes \in Seq(Int) /\ Len(bytes) = n BY <1>1, <2>3, DirectBytesType
  <2>5. ASSUME exact = Unspoiled
        PROVE  bytes = [k \in 1 .. n |-> w - buf.readableBytes + k - 1]
    BY <1>6, <1>7, <2>3, <2>5, DirectBytesAreNext
  <2> HIDE DEF bytes, spoilt
  <2>6. /\ wire' \in Seq(Int) /\ Len(wire') = Len(wire) + n
        /\ \A i \in 1 .. Len(wire) + n :
             wire'[i] = IF i <= Len(wire) THEN wire[i] ELSE bytes[i - Len(wire)]
    <3>1. /\ wire \o bytes \in Seq(Int) /\ Len(wire \o bytes) = Len(wire) + Len(bytes)
          /\ \A i \in 1 .. Len(wire) + Len(bytes) :
               (wire \o bytes)[i] = IF i <= Len(wire) THEN wire[i] ELSE bytes[i - Len(wire)]
      BY <1>1, <2>4, ConcatProperties
    <3> QED BY <2>1, <2>4, <3>1
  <2>7. ASSUME exact = Unspoiled, NEW i \in 1 .. Len(wire) + n PROVE wire'[i] = i - 1
    <3>1. CASE i <= Len(wire) BY <1>3, <1>7, <2>6, <2>7, <3>1
    <3>2. CASE ~ (i <= Len(wire))
      <4>1. i - Len(wire) \in 1 .. n BY <1>3, <2>3, <3>2
      <4>2. bytes[i - Len(wire)] = w - buf.readableBytes + (i - Len(wire)) - 1
        BY <2>5, <2>7, <4>1
      <4>3. w - buf.readableBytes = Len(wire) BY <1>2, <1>3 DEF w
      <4> QED BY <1>3, <2>6, <3>2, <4>2, <4>3
    <3> QED BY <3>1, <3>2
  <2>8. ASSUME exact # Unspoiled PROVE CursorInv'
    <3>1. exact' = exact BY <2>1, <2>8
    <3>2. exact \in Nat /\ exact <= Len(wire) /\ \A i \in 1 .. exact : wire[i] = i - 1
      BY <1>8, <2>8
    <3>3. exact' <= Len(wire') BY <1>3, <2>3, <2>6, <3>1, <3>2
    <3>4. \A i \in 1 .. exact : i \in 1 .. Len(wire) + n /\ i <= Len(wire)
      BY <1>3, <2>3, <3>2
    <3>5. \A i \in 1 .. exact' : wire'[i] = i - 1 BY <2>6, <3>1, <3>2, <3>4
    <3> QED BY <2>8, <3>1, <3>2, <3>3, <3>5 DEF CursorInv, Unspoiled
  <2>9. ASSUME exact = Unspoiled, spoilt PROVE CursorInv'
    <3>1. exact' = Len(wire) + n BY <2>1, <2>9
    <3>2. exact' \in Nat /\ exact' # Unspoiled BY <1>3, <2>3, <3>1 DEF Unspoiled
    <3>3. exact' <= Len(wire') BY <1>3, <2>3, <2>6, <3>1
    <3>4. \A i \in 1 .. exact' : wire'[i] = i - 1 BY <2>7, <2>9, <3>1
    <3> QED BY <3>2, <3>3, <3>4 DEF CursorInv, Unspoiled
  <2>10. ASSUME exact = Unspoiled, ~ spoilt PROVE CursorInv'
    <3>1. exact' = Unspoiled BY <2>1, <2>10
    <3>2. /\ (Len(wire) % SingleCapacity) = 0
          /\ ~ (Len(wire) + n = Stream /\ Stream % SingleCapacity = 0)
      BY <2>10 DEF spoilt, Spoils
    <3>3. buf.localReaderIndex = 0 BY <1>7, <2>10, <3>2
    <3>4. n <= SingleCapacity BY <2>3, <3>3, CapacityAssumption
    <3>5. /\ ((Len(wire) + SingleCapacity) % SingleCapacity) = 0
          /\ \A m \in Nat : m < SingleCapacity => ((Len(wire) + m) % SingleCapacity) = m
      <4> DEFINE sent == Len(wire)
      <4>1. sent \in Nat /\ SingleCapacity \in Nat /\ SingleCapacity > 0
            /\ (sent % SingleCapacity) = 0
        BY <1>3, <3>2, CapacityAssumption
      <4> HIDE DEF sent
      <4>2. /\ ((sent + SingleCapacity) % SingleCapacity) = 0
            /\ \A m \in Nat : m < SingleCapacity => ((sent + m) % SingleCapacity) = m
        BY <4>1, Whole
      <4> QED BY <4>2 DEF sent
    <3> DEFINE r == buf.readableBytes - n
               c == MoveReader(buf, n, r)
    <3>6. r \in Nat /\ n \in 0 .. SingleCapacity /\ 0 \in Nat
          /\ r + 0 + n = buf.readableBytes + 0 + buf.localReaderIndex
      BY <1>2, <2>3, <3>3, <3>4, CapacityAssumption
    <3>7. n < SingleCapacity \/ r > 0
      <4> SUFFICES ASSUME n = SingleCapacity, r = 0 PROVE FALSE
        BY <2>3, <3>4, <3>6, CapacityAssumption
      <4>1. left = 0
        <5>1. pc # "copy" BY <2>1 DEF Sending
        <5> QED BY <1>1, <5>1
      <4>2. Len(wire) + n = Stream
        <5>1. Len(wire) + buf.readableBytes + left = Stream BY <1>1
        <5>2. buf.readableBytes = n BY <1>2, <2>3
        <5> QED BY <1>2, <1>3, <1>4, <4>1, <5>1, <5>2
      <4>3. Stream % SingleCapacity = 0 BY <3>5, <4>2
      <4> QED BY <3>2, <4>2, <4>3
    <3>8. SkipSent(buf, n) = TryRefreshReaderBuffer(c) BY <1>1, <2>3, SkipSentIsMoveReader
    <3> HIDE DEF r
    <3>9. Good(c, w, 0) /\ c.localReaderIndex = n /\ c.readableBytes = r
      BY <1>6, <1>7, <2>3, <2>10, <3>6, MoveReaderGood
    <3> HIDE DEF c
    <3>10. Good(buf', w, 0) BY <1>6, <2>1, <3>6, <3>7, <3>8, <3>9, RefreshReaderGood
    <3>11. /\ buf'.localReaderIndex = IF n < SingleCapacity THEN n ELSE 0
           /\ buf'.readableBytes = r
      BY <1>1, <2>1, <2>3, <3>4, SkipSentType DEF r
    <3>12. Len(wire') + buf'.readableBytes = w BY <1>2, <1>3, <2>3, <2>6, <3>11 DEF r, w
    <3>13. Len(wire') % SingleCapacity = buf'.localReaderIndex
      <4>1. CASE n < SingleCapacity BY <2>3, <2>6, <3>5, <3>11, <4>1
      <4>2. CASE n = SingleCapacity BY <2>6, <3>5, <3>11, <4>2, CapacityAssumption
      <4> QED BY <2>3, <3>4, <4>1, <4>2, CapacityAssumption
    <3>14. \A i \in 1 .. Len(wire') : wire'[i] = i - 1 BY <2>6, <2>7, <2>10
    <3> QED BY <3>1, <3>10, <3>12, <3>13, <3>14 DEF CursorInv, Unspoiled
  <2> QED BY <2>8, <2>9, <2>10
<1> QED
  BY <1>1, <1>5, <1>9, <1>11, <1>12, <1>13, <1>14, NextCases, WhoLeavesBufferAlone, Zenon

LEMMA WithoutThree ==
  \A set : \A x, y, z \in Seq(Packet) :
    Without((x \o y) \o z, set)
      = (Without(x, set) \o Without(y, set)) \o Without(z, set)
<1> SUFFICES ASSUME NEW set, NEW x \in Seq(Packet), NEW y \in Seq(Packet),
                    NEW z \in Seq(Packet)
             PROVE  Without((x \o y) \o z, set)
                      = (Without(x, set) \o Without(y, set)) \o Without(z, set)
  OBVIOUS
<1> DEFINE xy == x \o y
<1>1. xy \in Seq(Packet) BY ConcatProperties
<1>2. Without(xy, set) = Without(x, set) \o Without(y, set)
  <2>1. Distributes(x, y, set) BY WithoutDistributes
  <2> QED BY <2>1 DEF Distributes
<1> HIDE DEF xy
<1>3. Without(xy \o z, set) = Without(xy, set) \o Without(z, set)
  <2>1. Distributes(xy, z, set) BY <1>1, WithoutDistributes
  <2> QED BY <2>1 DEF Distributes
<1> QED BY <1>2, <1>3 DEF xy

LEMMA FlowInvStep ==
  ASSUME WriterTypes, FlowInv, [Next]_vars
  PROVE  FlowInv'
<1> DEFINE q == pipeline
           B == pipeBuffer
           D == dropped
           c == Contents(q, B)
           all == (handed \o c) \o packetBuffer
<1>1. /\ q \in Seq(Pipes) /\ IsInjective(q)
      /\ packetBuffer \in Seq(Packet) /\ B \in PipeBuffers
      /\ handed \in Seq(Packet) /\ accepted \in Seq(Packet)
      /\ calls \in Nat /\ closed \in BOOLEAN
  BY DEF WriterTypes
<1>2. c \in Seq(Packet) BY <1>1, ContentsType
<1>3. all \in Seq(Packet) /\ handed \o c \in Seq(Packet)
  BY <1>1, <1>2, ConcatProperties
<1>4. \A p \in Pipes \ Range(q) : Without(B[p], D) = <<>> BY DEF FlowInv, Unused
<1>5. ~ closed => Without(all, D) = Without(accepted, D) BY DEF FlowInv
<1>6. ~ closed => (packetBuffer # <<>> => pc = "write" /\ at = Len(q)) BY DEF FlowInv
<1>7. ASSUME \A p \in Pipes \ Range(pipeline') : Without(pipeBuffer'[p], dropped') = <<>>,
             ~ closed' => (packetBuffer' # <<>> => pc' = "write" /\ at' = Len(pipeline')),
             ~ closed' => Without((handed' \o Contents(pipeline', pipeBuffer')) \o packetBuffer', dropped')
                            = Without(accepted', dropped')
      PROVE  FlowInv'
  BY <1>7 DEF FlowInv, Unused
<1>8. CASE \E size \in Sizes : WritePacket(size)
  <2>1. PICK size \in Sizes : WritePacket(size) BY <1>8
  <2> DEFINE packet == [id |-> calls + 1, size |-> size]
             one == <<packet>>
             h == handed \o c
  <2>2. packet \in Packet BY <1>1, SizesAssumption DEF Packet
  <2>3. /\ packetBuffer' = one /\ accepted' = Append(accepted, packet) /\ pc = "idle"
        /\ pc' = "write" /\ at' = Len(q)
        /\ UNCHANGED <<pipeline, pipeBuffer, handed, dropped, closed>>
    BY <2>1 DEF WritePacket, socketVars, FirstPipe
  <2> HIDE DEF packet
  <2>4. h \in Seq(Packet) /\ h \o one = Append(h, packet) BY <1>3, <2>2, AppendIsConcat
  <2> HIDE DEF one, c
  <2>5. ~ closed => Without(h, D) = Without(accepted, D)
    <3>1. ~ closed => packetBuffer = <<>> BY <1>6, <2>3
    <3>2. h \o <<>> = h BY <2>4, ConcatEmptySeq
    <3> QED BY <1>5, <3>1, <3>2
  <2> HIDE DEF h
  <2>6. /\ Without(Append(h, packet), D)
             = IF packet \in D THEN Without(h, D) ELSE Append(Without(h, D), packet)
        /\ Without(Append(accepted, packet), D)
             = IF packet \in D THEN Without(accepted, D) ELSE Append(Without(accepted, D), packet)
    <3>1. ASSUME NEW s \in Seq(Packet)
          PROVE  Without(Append(s, packet), D)
                   = IF packet \in D THEN Without(s, D) ELSE Append(Without(s, D), packet)
      BY <2>2, WithoutAppend
    <3> QED BY <1>1, <2>4, <3>1
  <2>7. ~ closed => Without(h \o one, D) = Without(Append(accepted, packet), D)
    BY <2>4, <2>5, <2>6
  <2>8. (handed' \o Contents(pipeline', pipeBuffer')) \o packetBuffer' = h \o one
    BY <2>3 DEF h, c
  <2> QED BY <1>4, <1>7, <2>3, <2>7, <2>8
<1>9. ASSUME UNCHANGED <<pipeline, pipeBuffer, handed, accepted, dropped>>,
             closed => closed', closed' \in BOOLEAN,
             ~ closed' => packetBuffer' = packetBuffer,
             ~ closed' => (packetBuffer' # <<>> => pc' = "write" /\ at' = Len(pipeline'))
      PROVE  FlowInv'
  <2>1. ~ closed' => ~ closed BY <1>9
  <2>2. ~ closed' => (handed' \o Contents(pipeline', pipeBuffer')) \o packetBuffer' = all
    BY <1>9
  <2> QED BY <1>4, <1>5, <1>7, <1>9, <2>1, <2>2
<1>10. CASE WritePacketSkipped \/ WritePacketFails
  <2>1. /\ UNCHANGED <<pipeline, pipeBuffer, handed, accepted, dropped>>
        /\ packetBuffer' = <<>> /\ pc = "idle"
        /\ closed' = closed \/ closed' = TRUE
    BY <1>10 DEF WritePacketSkipped, WritePacketFails, Close, socketVars
  <2>2. ~ closed' => packetBuffer' = packetBuffer BY <1>6, <2>1
  <2>3. closed' \in BOOLEAN /\ (closed => closed') BY <1>1, <2>1, Zenon
  <2> QED BY <1>9, <2>1, <2>2, <2>3
<1>11. CASE PipeFails
  <2>1. /\ UNCHANGED <<pipeline, pipeBuffer, handed, accepted, dropped>>
        /\ closed' = TRUE
    BY <1>11 DEF PipeFails, Close
  <2> QED BY <1>9, <2>1
<1>12. CASE \E ordinal \in Pipes : SearchFails(ordinal)
  <2>1. /\ UNCHANGED <<pipeline, pipeBuffer, packetBuffer, handed, accepted, dropped>>
        /\ pc = "idle" /\ closed' = closed
    BY <1>12 DEF SearchFails, Edit, socketVars
  <2>2. ~ closed' => packetBuffer' = <<>> BY <1>6, <2>1
  <2>3. closed' \in BOOLEAN /\ (closed => closed') BY <1>1, <2>1, Zenon
  <2> QED BY <1>9, <2>1, <2>2, <2>3
<1>13. ASSUME PipesAlone PROVE FlowInv'
  <2>1. /\ UNCHANGED <<pipeline, pipeBuffer, packetBuffer, at, handed, accepted, dropped>>
        /\ pc # "write" \/ pc' = pc
        /\ closed' \in BOOLEAN /\ (closed => closed')
    BY <1>13 DEF PipesAlone, pipeVars
  <2>2. ~ closed' => (packetBuffer' # <<>> => pc' = "write" /\ at' = Len(pipeline'))
    BY <1>6, <2>1
  <2> QED BY <1>9, <2>1, <2>2
<1> HIDE DEF c
<1>14. ASSUME NEW r \in Seq(Packet), NEW E
       PROVE  Without((handed \o r) \o packetBuffer, E)
                = (Without(handed, E) \o Without(r, E)) \o Without(packetBuffer, E)
  <2>1. handed \in Seq(Packet) /\ packetBuffer \in Seq(Packet) BY <1>1
  <2> QED BY <2>1, WithoutThree
<1>15. CASE \E p \in Pipes : Insert(p)
  <2>1. PICK p \in Pipes : Insert(p) BY <1>15
  <2> DEFINE new == pipeline'
             cn == Contents(new, B)
  <2>2. /\ InsertedIn(new, q, p) /\ p \notin Range(q) /\ pc = "idle"
        /\ UNCHANGED <<pipeBuffer, packetBuffer, handed, accepted, dropped, closed>>
    BY <2>1 DEF Insert, Unused, socketVars
  <2>3. new \in Seq(Pipes) /\ Range(new) = Range(q) \cup {p}
    BY <1>1, <2>2, InsertionKeeps
  <2>4. Without(cn, D) = Without(c, D)
    <3>1. Without(B[p], D) = <<>> BY <1>4, <2>2
    <3> QED BY <1>1, <2>2, <3>1, InsertionContents DEF c
  <2>5. cn \in Seq(Packet) BY <1>1, <2>3, ContentsType
  <2> HIDE DEF cn
  <2>6. Without((handed \o cn) \o packetBuffer, D) = Without(all, D)
    BY <1>2, <1>14, <2>4, <2>5
  <2>7. \A x \in Pipes \ Range(new) : Without(B[x], D) = <<>> BY <1>4, <2>3
  <2>8. ~ closed => packetBuffer = <<>> BY <1>6, <2>2
  <2>9. (handed' \o Contents(pipeline', pipeBuffer')) \o packetBuffer'
          = (handed \o cn) \o packetBuffer
    BY <2>2 DEF cn
  <2> QED BY <1>5, <1>7, <2>2, <2>6, <2>7, <2>8, <2>9
<1>16. CASE \E ordinal \in Pipes : RemoveByteBytePipe(ordinal)
  <2>1. PICK ordinal \in Pipes : RemoveByteBytePipe(ordinal) BY <1>16
  <2> DEFINE E == dropped'
             new == Without(q, {ordinal})
             cn == Contents(new, B)
  <2>2. /\ pipeline' = new /\ pc = "idle"
        /\ E = IF ordinal \in Range(q) THEN D \cup Range(B[ordinal]) ELSE D
        /\ UNCHANGED <<pipeBuffer, packetBuffer, handed, accepted, closed>>
    BY <2>1 DEF RemoveByteBytePipe, Edit, socketVars
  <2>3. D \subseteq E BY <2>2
  <2>4. Without(B[ordinal], E) = <<>>
    <3>1. CASE ordinal \in Range(q)
      <4>1. B[ordinal] \in Seq(Packet) BY <1>1 DEF PipeBuffers
      <4>2. \A i \in 1 .. Len(B[ordinal]) : B[ordinal][i] \in Range(B[ordinal])
        BY <4>1, LenProperties DEF Range
      <4>3. \A i \in 1 .. Len(B[ordinal]) : B[ordinal][i] \in E BY <2>2, <3>1, <4>2
      <4> QED BY <4>1, <4>3, WithoutAll
    <3>2. CASE ordinal \notin Range(q) BY <1>4, <2>2, <3>2
    <3> QED BY <3>1, <3>2
  <2>5. ASSUME NEW s \in Seq(Packet), NEW t \in Seq(Packet), Without(s, D) = Without(t, D)
        PROVE  Without(s, E) = Without(t, E)
    BY <2>3, <2>5, WithoutMore
  <2>6. new \in Seq(Pipes) /\ Without(cn, E) = Without(c, E)
    <3> HIDE DEF E
    <3> QED BY <1>1, <2>4, ContentsWithout DEF c
  <2>7. Range(new) = Range(q) \ {ordinal}
    <3> DEFINE set == {ordinal}
    <3> HIDE DEF set
    <3>1. Range(Without(q, set)) = Range(q) \ set BY <1>1, WithoutRange
    <3> QED BY <3>1 DEF set
  <2> HIDE DEF new
  <2>8. cn \in Seq(Packet) BY <1>1, <2>6, ContentsType
  <2> HIDE DEF E, cn
  <2>9. Without((handed \o cn) \o packetBuffer, E) = Without(all, E)
    BY <1>2, <1>14, <2>6, <2>8
  <2>10. ~ closed => Without(all, E) = Without(accepted, E)
    <3> HIDE DEF all
    <3> QED BY <1>1, <1>3, <1>5, <2>5
  <2>11. ASSUME NEW p \in Pipes \ Range(new) PROVE Without(B[p], E) = <<>>
    <3>1. CASE p = ordinal BY <2>4, <3>1
    <3>2. CASE p # ordinal
      <4>1. p \in Pipes \ Range(q) BY <2>7, <2>11, <3>2
      <4>2. Without(B[p], D) = <<>> BY <1>4, <4>1
      <4> DEFINE e == <<>>
      <4>3. e \in Seq(Packet) /\ B[p] \in Seq(Packet) BY <1>1 DEF PipeBuffers
      <4>4. Without(e, D) = e /\ Without(e, E) = e BY WithoutEmpty
      <4> HIDE DEF e
      <4>5. Without(B[p], D) = Without(e, D) BY <4>2, <4>4 DEF e
      <4>6. Without(B[p], E) = Without(e, E) BY <2>5, <4>3, <4>5
      <4> QED BY <4>4, <4>6 DEF e
    <3> QED BY <3>1, <3>2
  <2>12. ~ closed => packetBuffer = <<>> BY <1>6, <2>2
  <2>13. (handed' \o Contents(pipeline', pipeBuffer')) \o packetBuffer'
           = (handed \o cn) \o packetBuffer
    BY <2>2 DEF cn
  <2> QED BY <1>7, <2>2, <2>9, <2>10, <2>11, <2>12, <2>13 DEF E
<1>17. CASE PipeWrites \/ PipeHolds
  <2>1. Encode /\ UNCHANGED <<pipeline, handed, accepted, dropped, closed>>
    BY <1>17 DEF PipeWrites, PipeHolds, socketVars
  <2>2. Encoded BY <2>1, EncodeMovesAFrame
  <2> DEFINE C == pipeBuffer'
             cc == Contents(q, C)
             pb == packetBuffer'
  <2>3. /\ pb \in Seq(Packet) /\ C \in PipeBuffers
        /\ \A p \in Unused : C[p] = B[p]
        /\ pb = <<>> \/ (pb = packetBuffer /\ at # Len(q))
        /\ cc \o pb = c \o packetBuffer
    BY <2>2 DEF Encoded, c
  <2>4. cc \in Seq(Packet) BY <1>1, <2>3, ContentsType
  <2> HIDE DEF cc, pb
  <2>5. (handed \o cc) \o pb = all
    <3>1. ASSUME NEW x \in Seq(Packet), NEW y \in Seq(Packet), NEW z \in Seq(Packet)
          PROVE  (x \o y) \o z = x \o (y \o z)
      <4>1. Associates(x, y, z) BY ConcatAssociates
      <4> QED BY <4>1 DEF Associates
    <3>2. /\ handed \in Seq(Packet) /\ packetBuffer \in Seq(Packet)
          /\ pb \in Seq(Packet)
      BY <1>1, <2>3
    <3>3. (handed \o cc) \o pb = handed \o (cc \o pb) BY <2>4, <3>1, <3>2
    <3>4. all = handed \o (c \o packetBuffer) BY <1>2, <3>1, <3>2
    <3> QED BY <2>3, <3>3, <3>4
  <2>6. ~ closed => pb = <<>> BY <1>6, <2>3
  <2>7. \A p \in Pipes \ Range(q) : Without(C[p], D) = <<>> BY <1>4, <2>3 DEF Unused
  <2>8. (handed' \o Contents(pipeline', pipeBuffer')) \o packetBuffer' = (handed \o cc) \o pb
    BY <2>1 DEF cc, pb
  <2> QED BY <1>5, <1>7, <2>1, <2>5, <2>6, <2>7, <2>8 DEF pb
<1>18. CASE WriteDirect
  <2>1. MovedOut BY <1>18, WriteDirectMovesAll
  <2>2. UNCHANGED <<pipeline, accepted, dropped, closed>> BY <1>18 DEF WriteDirect
  <2>3. /\ packetBuffer' = <<>> \/ (packetBuffer' = packetBuffer /\ at # Len(q))
        /\ \A p \in Unused : pipeBuffer'[p] = B[p]
        /\ (handed' \o Contents(q, pipeBuffer')) \o packetBuffer' = all
    BY <2>1 DEF MovedOut, c
  <2>4. ~ closed => packetBuffer' = <<>> BY <1>6, <2>3
  <2>5. \A p \in Pipes \ Range(q) : Without(pipeBuffer'[p], D) = <<>> BY <1>4, <2>3 DEF Unused
  <2>6. (handed' \o Contents(pipeline', pipeBuffer')) \o packetBuffer' = all BY <2>2, <2>3
  <2> QED BY <1>5, <1>7, <2>2, <2>4, <2>5, <2>6
<1> QED
  BY <1>1, <1>8, <1>10, <1>11, <1>12, <1>13, <1>15, <1>16, <1>17, <1>18, NextCases,
     WhoLeavesPipesAlone, Zenon

LEMMA InitIInv ==
  ASSUME Init
  PROVE  IInv
<1> DEFINE e == <<>>
<1>1. e \in Seq(Packet) /\ e \in Seq(Pipes) /\ e \in Seq(Int) /\ Len(e) = 0 BY EmptySeq
<1>2. /\ pipeline = e /\ packetBuffer = e /\ handed = e /\ accepted = e /\ wire = e
      /\ pipeBuffer = [p \in Pipes |-> e]
      /\ buf = NewByteBuffer /\ left = 0 /\ closed = FALSE /\ pc = "idle" /\ at = 0
      /\ room = Room /\ reset = FALSE /\ calls = 0 /\ dropped = {} /\ exact = Unspoiled
  BY DEF Init
<1>3. Range(e) = {} /\ IsInjective(e)
  <2>1. DOMAIN e = {} OBVIOUS
  <2> QED BY <2>1 DEF Range, IsInjective
<1> HIDE DEF e
<1>4. WriterTypes
  <2>1. pipeBuffer \in PipeBuffers BY <1>1, <1>2 DEF PipeBuffers
  <2>2. /\ pipeline \in Seq(Pipes) /\ packetBuffer \in Seq(Packet) /\ Len(packetBuffer) = 0
        /\ handed \in Seq(Packet) /\ accepted \in Seq(Packet) /\ Len(pipeline) = 0
    BY <1>1, <1>2
  <2>3. IsInjective(pipeline) BY <1>2, <1>3
  <2>4. at \in 0 .. Len(pipeline) /\ Len(packetBuffer) <= 1 /\ calls \in Nat BY <1>2, <2>2
  <2> QED BY <1>2, <2>1, <2>2, <2>3, <2>4 DEF WriterTypes
<1>5. /\ Good(buf, 0, 0) /\ buf \in ByteBuffers
      /\ buf.localReaderIndex = 0 /\ buf.readableBytes = 0
  <2>1. Good(buf, 0, 0) BY <1>2, NewByteBufferGood
  <2>2. buf \in ByteBuffers BY <2>1 DEF Good
  <2>3. buf.localReaderIndex = 0 /\ buf.readableBytes = 0 BY <1>2 DEF NewByteBuffer
  <2> QED BY <2>1, <2>2, <2>3
<1>6. Stream = 0 BY <1>2, BytesEmpty DEF Stream, e
<1>7. BufferInv
  <2>1. Room \in 0 .. Room BY RoomAssumption
  <2>2. wire \in Seq(Int) /\ Len(wire) = 0 BY <1>1, <1>2
  <2>3. Len(wire) + buf.readableBytes + left = Stream BY <1>2, <1>5, <1>6, <2>2
  <2>4. buf.localReaderIndex < SingleCapacity BY <1>5, CapacityAssumption
  <2> QED BY <1>2, <1>5, <2>1, <2>2, <2>3, <2>4 DEF BufferInv, EveryByteCounted
<1>8. CursorInv
  <2>1. (0 % SingleCapacity) = 0 BY CapacityAssumption, SMTT(30)
  <2>2. Len(wire) = 0 /\ Len(wire) + buf.readableBytes = 0 BY <1>1, <1>2, <1>5
  <2> QED BY <1>2, <1>5, <2>1, <2>2 DEF CursorInv, Unspoiled
<1>9. FlowInv
  <2>1. pipeBuffer \in PipeBuffers BY <1>4 DEF WriterTypes
  <2>2. Contents(pipeline, pipeBuffer) = e BY <1>2, <2>1, ContentsEmpty DEF e
  <2>3. e \o e = e BY <1>1, ConcatEmptySeq DEF e
  <2>4. Without(e, {}) = e BY WithoutEmpty DEF e
  <2>5. \A p \in Unused : Without(pipeBuffer[p], dropped) = <<>> BY <1>2, <2>4 DEF Unused, e
  <2>6. packetBuffer = <<>> BY <1>2 DEF e
  <2> QED BY <1>2, <2>2, <2>3, <2>4, <2>5, <2>6 DEF FlowInv
<1> QED BY <1>4, <1>7, <1>8, <1>9 DEF IInv

-----------------------------------------------------------------------------
(* The theorems. *)

(* The four parts of the invariant hold of every reachable state of         *)
(* Connection::Write, Flush and the edits of the pipeline.                  *)
THEOREM InductiveInvariant == Spec => []IInv
<1>1. Init => IInv BY InitIInv
<1>2. IInv /\ [Next]_vars => IInv'
  <2> SUFFICES ASSUME IInv, [Next]_vars PROVE IInv' OBVIOUS
  <2>1. WriterTypes /\ BufferInv /\ CursorInv /\ FlowInv BY DEF IInv
  <2>2. WriterTypes' BY <2>1, WriterTypesStep
  <2>3. BufferInv' BY <2>1, BufferInvStep
  <2>4. CursorInv' BY <2>1, CursorInvStep
  <2>5. FlowInv' BY <2>1, FlowInvStep
  <2> QED BY <2>2, <2>3, <2>4, <2>5 DEF IInv
<1> QED BY <1>1, <1>2, PTL DEF Spec

(* Every variable of the writer keeps its type; a pipe is in the pipeline   *)
(* at most once (Connection.cpp:14-75).                                     *)
THEOREM TypeCorrect == Spec => []TypeOK
<1>1. IInv => TypeOK
  <2> SUFFICES ASSUME IInv PROVE TypeOK OBVIOUS
  <2>1. /\ pipeline \in Seq(Pipes) /\ IsInjective(pipeline) /\ closed \in BOOLEAN
        /\ pc \in {"idle", "write", "copy", "chunks", "rest", "searching"}
        /\ at \in 0 .. Len(pipeline)
    BY DEF IInv, WriterTypes
  <2>2. Range(pipeline) \subseteq Pipes
    <3>1. DOMAIN pipeline = 1 .. Len(pipeline) BY <2>1, LenProperties
    <3>2. \A i \in 1 .. Len(pipeline) : pipeline[i] \in Pipes BY <2>1, ElementOfSeq
    <3> QED BY <3>1, <3>2 DEF Range
  <2>3. buf \in ByteBuffers /\ reset \in BOOLEAN /\ left \in Nat /\ room \in 0 .. Room
    BY DEF IInv, BufferInv
  <2> QED BY <2>1, <2>2, <2>3 DEF TypeOK
<1> QED BY <1>1, InductiveInvariant, PTL

(* UnixReadWriteCloser::Write never sends a byte twice or forgets one: what *)
(* the socket took, what writerBuffer has and what WriteBytes still copies  *)
(* is the stream, even after the cursor is spoiled.                         *)
THEOREM BytesAreCounted == Spec => []EveryByteCounted
<1>1. IInv => EveryByteCounted BY DEF IInv, BufferInv
<1> QED BY <1>1, InductiveInvariant, PTL

(* Over short writes, EAGAIN and any number of flushes the socket gets the  *)
(* stream byte for byte, up to the first write() that spoils the cursor.    *)
THEOREM BytesSentInOrder == Spec => []SentInOrder
<1>1. IInv => SentInOrder
  <2> SUFFICES ASSUME IInv, NEW i \in 1 .. Len(wire), exact = Unspoiled \/ i <= exact
               PROVE  wire[i] = i - 1
    BY DEF SentInOrder
  <2>1. CursorInv BY DEF IInv
  <2>2. CASE exact = Unspoiled BY <2>1, <2>2 DEF CursorInv
  <2>3. CASE exact # Unspoiled
    <3>1. exact \in Nat /\ \A j \in 1 .. exact : wire[j] = j - 1 BY <2>1, <2>3 DEF CursorInv
    <3>2. i \in 1 .. exact BY <2>3, <3>1
    <3> QED BY <3>1, <3>2
  <2> QED BY <2>2, <2>3
<1> QED BY <1>1, InductiveInvariant, PTL

(* Whatever the pipes keep back, however often the pipeline is edited,      *)
(* packets leave it in the order of Connection::Write, none lost or doubled *)
(* but those inside a pipe when it was removed.                             *)
THEOREM PacketsAreConserved == Spec => []PacketsConserved
<1>1. IInv => PacketsConserved
  <2> SUFFICES ASSUME IInv, pc = "idle", ~ closed
               PROVE  Without(handed \o InPipes, dropped) = Without(accepted, dropped)
    BY DEF PacketsConserved
  <2>1. /\ pipeline \in Seq(Pipes) /\ pipeBuffer \in PipeBuffers /\ handed \in Seq(Packet)
    BY DEF IInv, WriterTypes
  <2>2. /\ packetBuffer = <<>>
        /\ Without((handed \o Contents(pipeline, pipeBuffer)) \o packetBuffer, dropped)
             = Without(accepted, dropped)
    BY DEF IInv, FlowInv
  <2> DEFINE c == Contents(pipeline, pipeBuffer)
             h == handed \o c
  <2>3. c \in Seq(Packet) BY <2>1, ContentsType
  <2>4. InPipes = c BY DEF InPipes, Contents
  <2> HIDE DEF c
  <2>5. h \in Seq(Packet) BY <2>1, <2>3, ConcatProperties
  <2> HIDE DEF h
  <2>6. h \o <<>> = h BY <2>5, ConcatEmptySeq
  <2> QED BY <2>2, <2>4, <2>6 DEF h, c
<1> QED BY <1>1, InductiveInvariant, PTL
=============================================================================
