------------------------- MODULE PacketDispatch_proofs -------------------------
(***************************************************************************)
(* The registries, the callback tables and the loop over the handlers: the *)
(* tables keep what was registered, for every Slack and every order of the *)
(* calls, and a packet is offered to the handlers in turn.                 *)
(*                                                                         *)
(* IDsOfList and versionToOrdinalMap are recursive functions; what they    *)
(* compute is shown with SetInduction.                                     *)
(***************************************************************************)
EXTENDS PacketDispatch, SequenceTheorems, SetInduction, TLAPS

-----------------------------------------------------------------------------
(* Tables indexed by ordinals. *)

(* The vector holds what was given for the members of S, a blank where      *)
(* nothing was given, and nothing was given for those behind its end.       *)
Holds(vector, given, S, blank) ==
  \A x \in S :
    IF x < Len(vector)
    THEN vector[x + 1] = IF given[x] = None THEN blank ELSE given[x]
    ELSE given[x] = None

Padded(w, vector, size, blank) ==
  /\ Len(w) = size
  /\ \A i \in 1 .. size : /\ i <= Len(vector) => w[i] = vector[i]
                          /\ i > Len(vector) => w[i] = blank

LEMMA ResizedVector ==
  ASSUME NEW T, NEW vector \in Seq(T), NEW size \in Nat, NEW blank \in T
  PROVE  /\ Resized(vector, size, blank) \in Seq(T)
         /\ Padded(Resized(vector, size, blank), vector, size, blank)
<1> DEFINE f == [i \in 1 .. size |-> IF i <= Len(vector) THEN vector[i] ELSE blank]
<1>1. Resized(vector, size, blank) = f BY DEF Resized
<1>2. ASSUME NEW i \in 1 .. size PROVE (IF i <= Len(vector) THEN vector[i] ELSE blank) \in T
  BY ElementOfSeq
<1>3. f \in [1 .. size -> T] BY <1>2
<1>4. f \in Seq(T) /\ Len(f) = size
  <2> HIDE DEF f
  <2> QED BY <1>3, IsASeq, LenProperties
<1>5. \A i \in 1 .. size : /\ i <= Len(vector) => f[i] = vector[i]
                           /\ i > Len(vector) => f[i] = blank
  OBVIOUS
<1> HIDE DEF f
<1>6. Padded(f, vector, size, blank) BY <1>4, <1>5 DEF Padded
<1> QED BY <1>1, <1>4, <1>6

(* What ResizeVectorAndSet returns: the value at its place, the other       *)
(* elements where they were, blanks behind them.                            *)
Updated(w, vector, at, value, blank) ==
  /\ at < Len(w) /\ Len(vector) <= Len(w)
  /\ w[at + 1] = value
  /\ \A x \in Nat : x < Len(w) /\ x # at =>
       /\ x < Len(vector) => w[x + 1] = vector[x + 1]
       /\ x >= Len(vector) => w[x + 1] = blank

LEMMA ResizeVectorAndSetVector ==
  ASSUME NEW T, NEW vector \in Seq(T), NEW at \in Nat, NEW value \in T, NEW blank \in T
  PROVE  /\ ResizeVectorAndSet(vector, at, value, blank) \in Seq(T)
         /\ Updated(ResizeVectorAndSet(vector, at, value, blank), vector, at, value, blank)
<1> DEFINE size == at + Slack
           room == IF at >= Len(vector) THEN Resized(vector, size, blank) ELSE vector
           w == [room EXCEPT ![at + 1] = value]
<1>1. ResizeVectorAndSet(vector, at, value, blank) = w BY DEF ResizeVectorAndSet
<1>2. size \in Nat /\ size > at /\ Len(vector) \in Nat
  BY SlackAssumption
<1>3. CASE at >= Len(vector)
  <2>1. room = Resized(vector, size, blank) BY <1>3
  <2> HIDE DEF room, size
  <2>2. /\ room \in Seq(T) /\ Len(room) = size
        /\ \A i \in 1 .. size : /\ i <= Len(vector) => room[i] = vector[i]
                                /\ i > Len(vector) => room[i] = blank
    <3>1. room \in Seq(T) /\ Padded(room, vector, size, blank)
      BY <1>2, <2>1, ResizedVector
    <3> QED BY <3>1 DEF Padded
  <2>3. w \in Seq(T) /\ Len(w) = size
    <3>1. at + 1 \in 1 .. Len(room) BY <1>2, <2>2
    <3> QED BY <2>2, <3>1, ExceptSeq
  <2>4. ASSUME NEW x \in Nat, x < size
        PROVE  /\ x = at => w[x + 1] = value
               /\ x # at => w[x + 1] = room[x + 1]
    <3>1. x + 1 \in DOMAIN room BY <1>2, <2>2, <2>4
    <3>2. x = at => x + 1 = at + 1 OBVIOUS
    <3>3. x # at => x + 1 # at + 1 OBVIOUS
    <3> QED BY <3>1, <3>2, <3>3
  <2> HIDE DEF w
  <2>5. ASSUME NEW x \in Nat, x < size, x # at
        PROVE  /\ x < Len(vector) => w[x + 1] = vector[x + 1]
               /\ x >= Len(vector) => w[x + 1] = blank
    <3>1. x + 1 \in 1 .. size BY <1>2, <2>5
    <3>2. w[x + 1] = room[x + 1] BY <2>4, <2>5
    <3> QED BY <1>2, <2>2, <3>1, <3>2
  <2>6. w[at + 1] = value BY <1>2, <2>4
  <2> QED BY <1>1, <1>2, <1>3, <2>3, <2>5, <2>6 DEF Updated
<1>4. CASE ~ (at >= Len(vector))
  <2>1. w = [vector EXCEPT ![at + 1] = value] BY <1>4
  <2>2. at + 1 \in 1 .. Len(vector) BY <1>2, <1>4
  <2>3. w \in Seq(T) /\ Len(w) = Len(vector)
    <3> HIDE DEF w
    <3> QED BY <2>1, <2>2, ExceptSeq
  <2>4. w[at + 1] = value BY <2>1, <2>2
  <2>5. ASSUME NEW x \in Nat, x < Len(vector), x # at PROVE w[x + 1] = vector[x + 1]
    <3>1. x + 1 \in 1 .. Len(vector) /\ x + 1 # at + 1 BY <1>2, <2>5
    <3> QED BY <2>1, <3>1
  <2> HIDE DEF w
  <2> QED BY <1>1, <1>2, <1>4, <2>3, <2>4, <2>5 DEF Updated
<1> QED BY <1>3, <1>4

(* No entry is lost or moved by a registration. *)
LEMMA ResizeVectorAndSetHolds ==
  ASSUME NEW T, NEW vector \in Seq(T), NEW S, S \subseteq Nat, NEW at \in S,
         NEW value \in T, NEW blank \in T, NEW given, NEW given2,
         Holds(vector, given, S, blank),
         value = None => blank = None,
         given2[at] = value,
         \A x \in S : x # at => given2[x] = given[x]
  PROVE  Holds(ResizeVectorAndSet(vector, at, value, blank), given2, S, blank)
<1> DEFINE w == ResizeVectorAndSet(vector, at, value, blank)
<1>1. at \in Nat OBVIOUS
<1>2. w \in Seq(T) /\ Updated(w, vector, at, value, blank)
  BY <1>1, ResizeVectorAndSetVector
<1> HIDE DEF w
<1>3. Len(w) \in Nat /\ Len(vector) \in Nat BY <1>2
<1>4. ASSUME NEW x \in S
      PROVE  IF x < Len(w) THEN w[x + 1] = IF given2[x] = None THEN blank ELSE given2[x]
             ELSE given2[x] = None
  <2>1. x \in Nat OBVIOUS
  <2>2. CASE x = at BY <1>2, <2>2 DEF Updated
  <2>3. CASE x # at
    <3>1. given2[x] = given[x] BY <2>3
    <3>2. IF x < Len(vector)
          THEN vector[x + 1] = IF given[x] = None THEN blank ELSE given[x]
          ELSE given[x] = None
      BY DEF Holds
    <3> QED BY <1>2, <1>3, <2>1, <2>3, <3>1, <3>2 DEF Updated
  <2> QED BY <2>2, <2>3
<1> QED BY <1>4 DEF Holds, w

-----------------------------------------------------------------------------
(* The constructor of VersionRegistry from a list of ordinals. *)

(* A function that computes ordinalToIDMap over the first k ordinals. *)
Builds(IDs, list, k) ==
  IDs = [n \in 0 .. k |-> IF n = 0 THEN <<>>
                          ELSE ResizeVectorAndSet(IDs[n - 1], list[n], n - 1, 0)]

LEMMA BuilderExists ==
  ASSUME NEW list, NEW N \in Nat
  PROVE  \E IDs : Builds(IDs, list, N)
<1> DEFINE S == {k \in Nat : \E IDs : Builds(IDs, list, k)}
<1>1. 0 \in S
  <2>1. Builds([n \in 0 .. 0 |-> <<>>], list, 0) BY DEF Builds
  <2> QED BY <2>1
<1>2. ASSUME NEW k \in Nat, k \in S PROVE k + 1 \in S
  <2>1. PICK f : Builds(f, list, k) BY <1>2
  <2> DEFINE last == ResizeVectorAndSet(f[k], list[k + 1], k, 0)
             g == [n \in 0 .. k + 1 |-> IF n <= k THEN f[n] ELSE last]
  <2>2. ASSUME NEW n \in 0 .. k + 1
        PROVE  g[n] = IF n = 0 THEN <<>> ELSE ResizeVectorAndSet(g[n - 1], list[n], n - 1, 0)
    <3>1. CASE n = 0
      <4>1. g[0] = f[0] OBVIOUS
      <4>2. f[0] = <<>> BY <2>1 DEF Builds
      <4> QED BY <3>1, <4>1, <4>2
    <3>2. CASE n \in 1 .. k
      <4>1. g[n] = f[n] /\ g[n - 1] = f[n - 1] BY <3>2
      <4>2. f[n] = ResizeVectorAndSet(f[n - 1], list[n], n - 1, 0) BY <2>1, <3>2 DEF Builds
      <4> HIDE DEF g
      <4> QED BY <3>2, <4>1, <4>2
    <3>3. CASE n = k + 1
      <4>1. g[n] = last /\ g[n - 1] = f[k] /\ n - 1 = k BY <3>3
      <4> HIDE DEF g
      <4> QED BY <3>3, <4>1
    <3> QED BY <3>1, <3>2, <3>3
  <2>3. Builds(g, list, k + 1)
    <3>1. g = [n \in 0 .. k + 1 |-> g[n]] OBVIOUS
    <3> HIDE DEF g
    <3> QED BY <2>2, <3>1, Zenon DEF Builds
  <2> QED BY <2>3
<1>3. Nat \subseteq S
  <2> HIDE DEF S
  <2> QED BY <1>1, <1>2, SetInduction
<1> QED BY <1>3

(* i is the last of the first n positions of the list with ordinal o. *)
IsLast(list, n, o, i) ==
  /\ i \in 1 .. n /\ list[i] = o
  /\ \A j \in i + 1 .. n : list[j] # o

(* The map after n ordinals: the last position of each, counted from 0. *)
Built(ids, list, n) ==
  /\ ids \in Seq(Nat)
  /\ \A o \in Ordinals :
       \/ \E i : IsLast(list, n, o, i) /\ o < Len(ids) /\ ids[o + 1] = i - 1
       \/ /\ \A i \in 1 .. n : list[i] # o
          /\ o < Len(ids) => ids[o + 1] = 0

LEMMA BuiltNext ==
  ASSUME NEW list \in Seq(Ordinals), NEW n \in Nat, n < Len(list), NEW ids,
         Built(ids, list, n)
  PROVE  Built(ResizeVectorAndSet(ids, list[n + 1], n, 0), list, n + 1)
<1> DEFINE at == list[n + 1]
           w == ResizeVectorAndSet(ids, at, n, 0)
<1>1. at \in Ordinals /\ at \in Nat /\ Len(list) \in Nat
  <2>1. n + 1 \in 1 .. Len(list) OBVIOUS
  <2>2. at \in Ordinals BY <2>1, ElementOfSeq
  <2>3. Len(list) \in Nat OBVIOUS
  <2> HIDE DEF at
  <2> QED BY <2>2, <2>3, RegistryAssumption
<1>2. ids \in Seq(Nat) BY DEF Built
<1>3. w \in Seq(Nat) /\ Updated(w, ids, at, n, 0)
  <2> HIDE DEF at
  <2> QED BY <1>1, <1>2, ResizeVectorAndSetVector
<1>4. IsLast(list, n + 1, at, n + 1) BY DEF IsLast
<1> HIDE DEF w
<1>5. Len(w) \in Nat /\ Len(ids) \in Nat BY <1>2, <1>3
<1>6. ASSUME NEW o \in Ordinals
      PROVE  \/ \E i : IsLast(list, n + 1, o, i) /\ o < Len(w) /\ w[o + 1] = i - 1
             \/ /\ \A i \in 1 .. n + 1 : list[i] # o
                /\ o < Len(w) => w[o + 1] = 0
  <2>1. o \in Nat BY RegistryAssumption
  <2>2. CASE o = at
    <3>1. o < Len(w) /\ w[o + 1] = n BY <1>3, <2>2 DEF Updated
    <3>2. n = (n + 1) - 1 OBVIOUS
    <3> QED BY <1>4, <2>2, <3>1, <3>2
  <2>3. CASE o # at
    <3>1. /\ o < Len(ids) => o < Len(w) /\ w[o + 1] = ids[o + 1]
          /\ o >= Len(ids) /\ o < Len(w) => w[o + 1] = 0
      BY <1>3, <1>5, <2>1, <2>3 DEF Updated
    <3>2. CASE \E i : IsLast(list, n, o, i) /\ o < Len(ids) /\ ids[o + 1] = i - 1
      <4>1. PICK i : IsLast(list, n, o, i) /\ o < Len(ids) /\ ids[o + 1] = i - 1
        BY <3>2
      <4>2. IsLast(list, n + 1, o, i)
        <5>1. i \in 1 .. n + 1 /\ list[i] = o BY <4>1 DEF IsLast
        <5>2. ASSUME NEW j \in i + 1 .. n + 1 PROVE list[j] # o
          <6>1. CASE j = n + 1 BY <2>3, <6>1
          <6>2. CASE j # n + 1
            <7>1. j \in i + 1 .. n BY <5>1, <6>2
            <7> QED BY <4>1, <7>1 DEF IsLast
          <6> QED BY <6>1, <6>2
        <5> QED BY <5>1, <5>2 DEF IsLast
      <4> QED BY <3>1, <4>1, <4>2
    <3>3. CASE (\A i \in 1 .. n : list[i] # o) /\ (o < Len(ids) => ids[o + 1] = 0)
      <4>1. \A i \in 1 .. n + 1 : list[i] # o BY <2>3, <3>3
      <4> QED BY <1>5, <2>1, <3>1, <3>3, <4>1
    <3> QED BY <3>2, <3>3 DEF Built
  <2> QED BY <2>2, <2>3
<1>7. Built(w, list, n + 1) BY <1>3, <1>6 DEF Built
<1> QED BY <1>7 DEF w

LEMMA IDsOfListBuilt ==
  ASSUME NEW list \in Seq(Ordinals)
  PROVE  Built(IDsOfList(list), list, Len(list))
<1> DEFINE N == Len(list)
           f == CHOOSE IDs : Builds(IDs, list, N)
<1>1. N \in Nat OBVIOUS
<1>2. IDsOfList(list) = f[N] BY DEF IDsOfList, Builds
<1>3. Builds(f, list, N) BY <1>1, BuilderExists
<1> HIDE DEF f
<1> DEFINE S == {n \in Nat : n <= N => Built(f[n], list, n)}
<1>4. 0 \in S
  <2>1. f[0] = <<>> BY <1>1, <1>3 DEF Builds
  <2>2. Built(<<>>, list, 0) BY RegistryAssumption DEF Built
  <2> QED BY <2>1, <2>2
<1>5. ASSUME NEW n \in Nat, n \in S PROVE n + 1 \in S
  <2> SUFFICES ASSUME n + 1 <= N PROVE Built(f[n + 1], list, n + 1) OBVIOUS
  <2>1. Built(f[n], list, n) /\ n < Len(list) BY <1>1, <1>5
  <2>2. f[n + 1] = ResizeVectorAndSet(f[n], list[n + 1], n, 0)
    <3>1. n + 1 \in 0 .. N /\ n + 1 # 0 /\ (n + 1) - 1 = n BY <1>1
    <3>2. f[n + 1] = ResizeVectorAndSet(f[(n + 1) - 1], list[n + 1], (n + 1) - 1, 0)
      <4> DEFINE m == n + 1
      <4>1. m \in 0 .. N /\ m # 0 BY <3>1
      <4> HIDE DEF m
      <4>2. f[m] = ResizeVectorAndSet(f[m - 1], list[m], m - 1, 0)
        BY <1>3, <4>1 DEF Builds
      <4> QED BY <4>2 DEF m
    <3> QED BY <3>1, <3>2
  <2> QED BY <2>1, <2>2, BuiltNext
<1>6. Nat \subseteq S
  <2> HIDE DEF S
  <2> QED BY <1>4, <1>5, SetInduction
<1> QED BY <1>1, <1>2, <1>6

(* The constructor's map agrees with what was given last. *)
LEMMA IDsOfListHolds ==
  ASSUME NEW list \in Seq(Ordinals)
  PROVE  /\ IDsOfList(list) \in Seq(Nat)
         /\ Holds(IDsOfList(list), [o \in Ordinals |-> Latest(list, o)], Ordinals, 0)
         /\ \A o \in Ordinals : Latest(list, o) \in Nat \cup {None}
<1> DEFINE ids == IDsOfList(list)
           N == Len(list)
<1>1. Built(ids, list, N) /\ N \in Nat BY IDsOfListBuilt
<1>2. ASSUME NEW o \in Ordinals
      PROVE  /\ Latest(list, o) \in Nat \cup {None}
             /\ IF o < Len(ids)
                THEN ids[o + 1] = IF Latest(list, o) = None THEN 0 ELSE Latest(list, o)
                ELSE Latest(list, o) = None
  <2> HIDE DEF ids
  <2>1. CASE \E i : IsLast(list, N, o, i) /\ o < Len(ids) /\ ids[o + 1] = i - 1
    <3>1. PICK i : IsLast(list, N, o, i) /\ o < Len(ids) /\ ids[o + 1] = i - 1
      BY <2>1
    <3>2. i \in 1 .. N /\ list[i] = o /\ \A j \in i + 1 .. N : list[j] # o
      BY <3>1 DEF IsLast
    <3> DEFINE c == CHOOSE k \in 1 .. N : list[k] = o /\ \A j \in k + 1 .. N : list[j] # o
    <3>3. c \in 1 .. N /\ list[c] = o /\ \A j \in c + 1 .. N : list[j] # o
      BY <3>2
    <3>4. Latest(list, o) = c - 1 BY <3>2 DEF Latest
    <3> HIDE DEF c
    <3>5. c = i
      <4>1. ~ (c < i) BY <1>1, <3>2, <3>3
      <4>2. ~ (i < c) BY <1>1, <3>2, <3>3
      <4> QED BY <1>1, <3>2, <3>3, <4>1, <4>2
    <3>6. Latest(list, o) \in Nat BY <1>1, <3>2, <3>4, <3>5
    <3>7. Latest(list, o) # None BY <3>6, RegistryAssumption
    <3> QED BY <3>1, <3>4, <3>5, <3>6, <3>7
  <2>2. CASE (\A i \in 1 .. N : list[i] # o) /\ (o < Len(ids) => ids[o + 1] = 0)
    <3>1. Latest(list, o) = None BY <2>2 DEF Latest
    <3> QED BY <2>2, <3>1
  <2> QED BY <1>1, <2>1, <2>2 DEF Built
<1>3. ids \in Seq(Nat) BY <1>1 DEF Built
<1> HIDE DEF ids
<1>4. Holds(ids, [o \in Ordinals |-> Latest(list, o)], Ordinals, 0)
  BY <1>2 DEF Holds
<1> QED BY <1>2, <1>3, <1>4 DEF ids

-----------------------------------------------------------------------------
(* The constructor of VersionedRegistry. *)

LEMMA VersionBounds ==
  /\ MinimumVersion \in Versions /\ \A v \in Versions : MinimumVersion <= v
  /\ MaximumVersion \in Versions /\ \A v \in Versions : v <= MaximumVersion
<1>1. Versions \subseteq Nat /\ VersionMap \in Seq(Versions) /\ VersionMap # <<>>
  BY VersionsAssumption
<1>2. VersionMap[1] \in Versions
  <2>1. 1 \in 1 .. Len(VersionMap) BY <1>1
  <2> QED BY <1>1, <2>1, ElementOfSeq
<1>3. \E v \in Versions : \A w \in Versions : v <= w BY <1>1, <1>2, LeastNatural
<1>4. \E v \in Versions : \A w \in Versions : w <= v BY VersionsAssumption
<1>5. MinimumVersion \in Versions /\ \A v \in Versions : MinimumVersion <= v
  BY <1>3, Zenon DEF MinimumVersion
<1>6. MaximumVersion \in Versions /\ \A v \in Versions : v <= MaximumVersion
  BY <1>4, Zenon DEF MaximumVersion
<1> QED BY <1>5, <1>6

(* VersionMap is a sequence of increasing versions. *)
LEMMA RangeStarts ==
  /\ Len(VersionMap) \in Nat /\ Len(VersionMap) >= 1
  /\ \A i \in 1 .. Len(VersionMap) : VersionMap[i] \in Versions /\ VersionMap[i] \in Nat
  /\ \A i, j \in 1 .. Len(VersionMap) : i < j => VersionMap[i] < VersionMap[j]
<1>1. Versions \subseteq Nat /\ VersionMap \in Seq(Versions) /\ VersionMap # <<>>
  BY VersionsAssumption
<1>2. \A i \in 1 .. Len(VersionMap) : VersionMap[i] \in Versions BY <1>1, ElementOfSeq
<1>3. Len(VersionMap) \in Nat /\ Len(VersionMap) >= 1 BY <1>1
<1> QED BY <1>1, <1>2, <1>3, VersionsAssumption

(* i is the range of version v. *)
IsRange(v, i) ==
  /\ i \in 1 .. Len(VersionMap) /\ VersionMap[i] <= v
  /\ \A j \in i + 1 .. Len(VersionMap) : v < VersionMap[j]

(* Every version has one range. *)
LEMMA BeginsIsRange ==
  ASSUME NEW v \in Versions
  PROVE  IsRange(v, Begins(v)) /\ \A i : IsRange(v, i) => i = Begins(v)
<1> DEFINE N == Len(VersionMap)
           T == {N - i : i \in {k \in 1 .. N : VersionMap[k] <= v}}
<1>1. v \in Nat BY VersionsAssumption
<1>2. N \in Nat /\ N >= 1 BY RangeStarts
<1>3. VersionMap[1] <= v BY VersionBounds, VersionsAssumption
<1>4. T \subseteq Nat BY <1>2
<1>5. N - 1 \in T BY <1>2, <1>3
<1>6. PICK d \in T : \A m \in T : d <= m
  <2> HIDE DEF T
  <2> QED BY <1>4, <1>5, LeastNatural
<1>7. PICK i \in 1 .. N : VersionMap[i] <= v /\ d = N - i OBVIOUS
<1>8. ASSUME NEW j \in i + 1 .. N PROVE v < VersionMap[j]
  <2>1. j \in 1 .. N /\ VersionMap[j] \in Nat BY <1>2, RangeStarts
  <2>2. SUFFICES ASSUME VersionMap[j] <= v PROVE FALSE BY <1>1, <2>1
  <2>3. N - j \in T BY <2>1, <2>2
  <2>4. d <= N - j BY <1>6, <2>3
  <2> QED BY <1>2, <1>7, <2>4
<1>9. IsRange(v, i) BY <1>7, <1>8 DEF IsRange
<1>10. IsRange(v, Begins(v)) BY <1>9 DEF Begins, IsRange
<1>11. ASSUME NEW k, NEW l, IsRange(v, k), IsRange(v, l), k < l PROVE FALSE
  <2>1. k \in 1 .. N /\ l \in 1 .. N BY <1>11 DEF IsRange
  <2>2. l \in k + 1 .. N BY <1>2, <1>11, <2>1
  <2>3. v < VersionMap[l] /\ VersionMap[l] <= v BY <1>11, <2>2 DEF IsRange
  <2> QED BY <1>1, <2>1, <2>3, RangeStarts
<1>12. ASSUME NEW k, IsRange(v, k) PROVE k = Begins(v)
  <2>1. k \in Nat /\ Begins(v) \in Nat BY <1>2, <1>10, <1>12 DEF IsRange
  <2>2. ~ (k < Begins(v)) /\ ~ (Begins(v) < k) BY <1>10, <1>11, <1>12
  <2> QED BY <2>1, <2>2
<1> QED BY <1>10, <1>12

Previous(n) == VersionMap[IF n = 1 THEN 1 ELSE n - 1]

(* A function that computes the map over the first k range starts. *)
Fills(Filled, k) ==
  Filled = [n \in 0 .. k |->
              IF n = 0 THEN [v \in 0 .. MaximumVersion |-> Garbage]
              ELSE Fill(Filled[n - 1], Previous(n), VersionMap[n], n - 1)]

LEMMA FillerExists ==
  ASSUME NEW N \in Nat
  PROVE  \E Filled : Fills(Filled, N)
<1> DEFINE first == [v \in 0 .. MaximumVersion |-> Garbage]
           S == {k \in Nat : \E Filled : Fills(Filled, k)}
<1>1. 0 \in S
  <2>1. Fills([n \in 0 .. 0 |-> first], 0) BY DEF Fills
  <2> QED BY <2>1
<1>2. ASSUME NEW k \in Nat, k \in S PROVE k + 1 \in S
  <2>1. PICK f : Fills(f, k) BY <1>2
  <2> HIDE DEF first
  <2> DEFINE last == Fill(f[k], Previous(k + 1), VersionMap[k + 1], k)
             g == [n \in 0 .. k + 1 |-> IF n <= k THEN f[n] ELSE last]
  <2>2. ASSUME NEW n \in 0 .. k + 1
        PROVE  g[n] = IF n = 0 THEN first
                      ELSE Fill(g[n - 1], Previous(n), VersionMap[n], n - 1)
    <3>1. CASE n = 0
      <4>1. g[0] = f[0] OBVIOUS
      <4>2. f[0] = first BY <2>1 DEF Fills, first
      <4> QED BY <3>1, <4>1, <4>2
    <3>2. CASE n \in 1 .. k
      <4>1. g[n] = f[n] /\ g[n - 1] = f[n - 1] BY <3>2
      <4>2. f[n] = Fill(f[n - 1], Previous(n), VersionMap[n], n - 1)
        <5>1. n \in 0 .. k /\ n # 0 BY <3>2
        <5> HIDE DEF g
        <5> QED BY <2>1, <5>1 DEF Fills
      <4> HIDE DEF g
      <4> QED BY <3>2, <4>1, <4>2
    <3>3. CASE n = k + 1
      <4>1. g[n] = last /\ g[n - 1] = f[k] /\ n - 1 = k BY <3>3
      <4> HIDE DEF g
      <4> QED BY <3>3, <4>1
    <3> QED BY <3>1, <3>2, <3>3
  <2>3. Fills(g, k + 1)
    <3>1. g = [n \in 0 .. k + 1 |-> g[n]] OBVIOUS
    <3> HIDE DEF g
    <3> QED BY <2>2, <3>1, Zenon DEF Fills, first
  <2> QED BY <2>3
<1>3. Nat \subseteq S
  <2> HIDE DEF S
  <2> QED BY <1>1, <1>2, SetInduction
<1> QED BY <1>3

(* After n turns of the loop the ranges before the n-th start have their    *)
(* numbers.                                                                 *)
FilledTo(map, n) ==
  /\ DOMAIN map = 0 .. MaximumVersion
  /\ \A i \in 1 .. n - 1 : \A v \in 0 .. MaximumVersion :
       VersionMap[i] <= v /\ v < VersionMap[i + 1] => map[v] = i

LEMMA FilledNext ==
  ASSUME NEW n \in 1 .. Len(VersionMap), NEW map, FilledTo(map, n - 1)
  PROVE  FilledTo(Fill(map, Previous(n), VersionMap[n], n - 1), n)
<1> DEFINE N == Len(VersionMap)
           new == Fill(map, Previous(n), VersionMap[n], n - 1)
<1>1. N \in Nat /\ MaximumVersion \in Nat BY RangeStarts, VersionBounds, VersionsAssumption
<1>2. DOMAIN map = 0 .. MaximumVersion BY DEF FilledTo
<1>3. /\ DOMAIN new = 0 .. MaximumVersion
      /\ \A v \in 0 .. MaximumVersion :
           new[v] = IF Previous(n) <= v /\ v < VersionMap[n] THEN n - 1 ELSE map[v]
  BY <1>2 DEF Fill
<1> HIDE DEF new
<1>4. ASSUME NEW i \in 1 .. n - 1, NEW v \in 0 .. MaximumVersion,
             VersionMap[i] <= v, v < VersionMap[i + 1]
      PROVE  new[v] = i
  <2>1. n # 1 /\ n - 1 \in 1 .. N /\ i + 1 \in 1 .. N /\ i \in 1 .. N BY <1>1
  <2>2. Previous(n) = VersionMap[n - 1] BY <2>1 DEF Previous
  <2>3. CASE i = n - 1
    <3>1. i + 1 = n BY <2>3
    <3> QED BY <1>3, <1>4, <2>2, <2>3, <3>1
  <2>4. CASE i # n - 1
    <3>1. i \in 1 .. (n - 1) - 1 /\ (i + 1 < n - 1 \/ i + 1 = n - 1) BY <1>1, <2>4
    <3>2. VersionMap[i + 1] \in Nat /\ VersionMap[n - 1] \in Nat BY <2>1, RangeStarts
    <3>3. VersionMap[i + 1] <= VersionMap[n - 1]
      <4>1. i + 1 < n - 1 => VersionMap[i + 1] < VersionMap[n - 1]
        BY <2>1, RangeStarts
      <4> QED BY <3>1, <3>2, <4>1
    <3>4. v \in Nat BY <1>1
    <3>5. ~ (VersionMap[n - 1] <= v) BY <1>4, <3>2, <3>3, <3>4
    <3>6. new[v] = map[v] BY <1>3, <2>2, <3>5
    <3>7. map[v] = i BY <1>4, <3>1 DEF FilledTo
    <3> QED BY <3>6, <3>7
  <2> QED BY <2>3, <2>4
<1> QED BY <1>3, <1>4 DEF FilledTo, new

(* The map the constructor makes has the range of every version. *)
LEMMA VersionToOrdinalIsRange ==
  ASSUME NEW v \in Versions
  PROVE  VersionToOrdinal(v) = Begins(v)
<1> DEFINE N == Len(VersionMap)
           f == CHOOSE Filled : Fills(Filled, N)
<1>1. N \in Nat /\ N >= 1 /\ N \in 1 .. N BY RangeStarts
<1>2. versionToOrdinalMap = Fill(f[N], VersionMap[N], MaximumVersion + 1, N)
  BY Zenon DEF versionToOrdinalMap, Fills, Previous
<1>3. Fills(f, N) BY <1>1, FillerExists
<1> HIDE DEF f
<1>4. MaximumVersion \in Nat /\ v \in Nat /\ v <= MaximumVersion
  BY VersionBounds, VersionsAssumption
<1> DEFINE S == {n \in Nat : n <= N => FilledTo(f[n], n)}
<1>5. 0 \in S
  <2>1. f[0] = [w \in 0 .. MaximumVersion |-> Garbage] BY <1>1, <1>3 DEF Fills
  <2>2. FilledTo(f[0], 0) BY <2>1 DEF FilledTo
  <2> QED BY <2>2
<1>6. ASSUME NEW n \in Nat, n \in S PROVE n + 1 \in S
  <2> SUFFICES ASSUME n + 1 <= N PROVE FilledTo(f[n + 1], n + 1) OBVIOUS
  <2> DEFINE m == n + 1
  <2>1. m \in 0 .. N /\ m # 0 /\ m \in 1 .. N /\ m - 1 = n BY <1>1
  <2>2. FilledTo(f[m - 1], m - 1) BY <1>1, <1>6, <2>1
  <2> HIDE DEF m
  <2>3. f[m] = Fill(f[m - 1], Previous(m), VersionMap[m], m - 1) BY <1>3, <2>1 DEF Fills
  <2>4. FilledTo(f[m], m) BY <2>1, <2>2, <2>3, FilledNext
  <2> QED BY <2>4 DEF m
<1>7. FilledTo(f[N], N)
  <2>1. Nat \subseteq S
    <3> HIDE DEF S
    <3> QED BY <1>5, <1>6, SetInduction
  <2> QED BY <1>1, <2>1
<1>8. \A w \in 0 .. MaximumVersion :
        versionToOrdinalMap[w] =
          IF VersionMap[N] <= w /\ w < MaximumVersion + 1 THEN N ELSE f[N][w]
  BY <1>2, <1>7 DEF Fill, FilledTo
<1>9. VersionToOrdinal(v) = versionToOrdinalMap[v]
  <2>1. v # Unknown BY <1>4, RegistryAssumption
  <2> QED BY <2>1 DEF VersionToOrdinal
<1>10. IsRange(v, Begins(v)) BY BeginsIsRange
<1>11. CASE Begins(v) = N
  <2>1. VersionMap[N] <= v /\ v < MaximumVersion + 1 BY <1>4, <1>10, <1>11 DEF IsRange
  <2> QED BY <1>4, <1>8, <1>9, <1>11, <2>1
<1>12. CASE Begins(v) # N
  <2> DEFINE i == Begins(v)
  <2>1. i \in 1 .. N - 1 /\ i + 1 \in i + 1 .. N /\ N \in i + 1 .. N
    BY <1>1, <1>10, <1>12 DEF IsRange
  <2>2. VersionMap[i] <= v /\ v < VersionMap[i + 1] /\ v < VersionMap[N]
    BY <1>10, <2>1 DEF IsRange
  <2>3. VersionMap[N] \in Nat BY <1>1, RangeStarts
  <2> HIDE DEF i
  <2>4. f[N][v] = i BY <1>4, <1>7, <2>1, <2>2 DEF FilledTo
  <2>5. ~ (VersionMap[N] <= v) BY <1>4, <2>2, <2>3
  <2> QED BY <1>4, <1>8, <1>9, <2>4, <2>5 DEF i
<1> QED BY <1>11, <1>12

LEMMA VersionToOrdinalUnknown == VersionToOrdinal(Unknown) = VersionToOrdinal(MaximumVersion)
BY DEF VersionToOrdinal

(* The newest version is in the last range, the oldest in the first. *)
LEMMA OutermostRanges ==
  VersionToOrdinal(MaximumVersion) = Len(VersionMap) /\ VersionToOrdinal(MinimumVersion) = 1
<1> DEFINE N == Len(VersionMap)
<1>1. N \in Nat /\ N >= 1 /\ N \in 1 .. N /\ 1 \in 1 .. N BY RangeStarts
<1>2. IsRange(MaximumVersion, N)
  <2>1. VersionMap[N] <= MaximumVersion BY <1>1, RangeStarts, VersionBounds
  <2> QED BY <1>1, <2>1 DEF IsRange
<1>3. IsRange(MinimumVersion, 1)
  <2>1. VersionMap[1] = MinimumVersion BY VersionsAssumption
  <2>2. VersionMap[1] \in Nat BY <1>1, RangeStarts
  <2>3. \A j \in 1 + 1 .. N : VersionMap[1] < VersionMap[j] BY <1>1, RangeStarts
  <2> QED BY <1>1, <2>1, <2>2, <2>3 DEF IsRange
<1>4. MaximumVersion \in Versions /\ MinimumVersion \in Versions BY VersionBounds
<1>5. Begins(MaximumVersion) = N BY <1>2, <1>4, BeginsIsRange
<1>6. Begins(MinimumVersion) = 1 BY <1>3, <1>4, BeginsIsRange
<1> QED BY <1>4, <1>5, <1>6, VersionToOrdinalIsRange

-----------------------------------------------------------------------------
(* The registries keep what was registered. *)

RegistryRecords ==
  [idToOrdinal : Seq(Ordinals), ordinalToID : Seq(Nat), latestID : Ids \cup {-1}]

RegistryTypes ==
  /\ registry \in [Registries -> RegistryRecords]
  /\ ordinalGiven \in [Registries -> [Ids -> Ordinals \cup {None}]]
  /\ idGiven \in [Registries -> [Ordinals -> Nat \cup {None}]]
  /\ assigned \in [Versions -> Registries \cup {Garbage}]
  /\ versionRegistry \in [0 .. Len(VersionMap) -> Registries \cup {Garbage}]
  /\ ordinalToObjectMap \in Seq(Constructors \cup {None})
  /\ constructorGiven \in [Ordinals -> Constructors \cup {None}]

RegistriesHold ==
  \A r \in Registries :
    /\ Holds(registry[r].idToOrdinal, ordinalGiven[r], Ids, 0)
    /\ Holds(registry[r].ordinalToID, idGiven[r], Ordinals, 0)

ConstructorsHold == Holds(ordinalToObjectMap, constructorGiven, Ordinals, None)

RegistryInv == RegistryTypes /\ RegistriesHold /\ ConstructorsHold /\ VersionsResolve

LEMMA RegistryInitInv == RegistryInit => RegistryInv
<1> SUFFICES ASSUME RegistryInit PROVE RegistryInv OBVIOUS
<1>1. PICK list \in [Registries -> Lists] :
        /\ registry = [r \in Registries |-> NewVersionRegistry(list[r])]
        /\ ordinalGiven = [r \in Registries |-> [id \in Ids |->
             IF id < Len(list[r]) THEN list[r][id + 1] ELSE None]]
        /\ idGiven = [r \in Registries |-> [o \in Ordinals |-> Latest(list[r], o)]]
  BY Zenon DEF RegistryInit
<1>2. ASSUME NEW r \in Registries
      PROVE  /\ list[r] \in Seq(Ordinals)
             /\ registry[r] \in RegistryRecords
             /\ registry[r].idToOrdinal = list[r]
             /\ registry[r].ordinalToID = IDsOfList(list[r])
  <2>1. list[r] \in Seq(Ordinals) BY RegistryAssumption
  <2>2. IDsOfList(list[r]) \in Seq(Nat) BY <2>1, IDsOfListHolds
  <2>3. registry[r] = NewVersionRegistry(list[r]) BY <1>1
  <2> QED BY <2>1, <2>2, <2>3 DEF NewVersionRegistry, RegistryRecords
<1>3. ASSUME NEW r \in Registries
      PROVE  /\ ordinalGiven[r] \in [Ids -> Ordinals \cup {None}]
             /\ Holds(registry[r].idToOrdinal, ordinalGiven[r], Ids, 0)
  <2> DEFINE l == list[r]
  <2>1. l \in Seq(Ordinals) /\ registry[r].idToOrdinal = l BY <1>2
  <2>2. ordinalGiven[r] = [id \in Ids |-> IF id < Len(l) THEN l[id + 1] ELSE None]
    BY <1>1
  <2> HIDE DEF l
  <2>3. ASSUME NEW id \in Ids, id < Len(l) PROVE l[id + 1] \in Ordinals /\ l[id + 1] # None
    <3>1. id \in Nat /\ Len(l) \in Nat BY <2>1, RegistryAssumption
    <3>2. id + 1 \in 1 .. Len(l) BY <2>3, <3>1
    <3>3. l[id + 1] \in Ordinals BY <2>1, <3>2, ElementOfSeq
    <3> QED BY <3>3, RegistryAssumption
  <2>4. ordinalGiven[r] \in [Ids -> Ordinals \cup {None}] BY <2>2, <2>3
  <2> QED BY <2>1, <2>2, <2>3, <2>4 DEF Holds
<1>4. ASSUME NEW r \in Registries
      PROVE  /\ idGiven[r] \in [Ordinals -> Nat \cup {None}]
             /\ Holds(registry[r].ordinalToID, idGiven[r], Ordinals, 0)
  <2>1. idGiven[r] = [o \in Ordinals |-> Latest(list[r], o)] BY <1>1
  <2> QED BY <1>2, <2>1, IDsOfListHolds
<1>5. RegistriesHold BY <1>3, <1>4 DEF RegistriesHold
<1>6. RegistryTypes
  <2>1. registry \in [Registries -> RegistryRecords]
    <3>1. registry = [r \in Registries |-> registry[r]] BY <1>1
    <3> QED BY <1>2, <3>1
  <2>2. ordinalGiven \in [Registries -> [Ids -> Ordinals \cup {None}]]
    <3>1. ordinalGiven = [r \in Registries |-> ordinalGiven[r]] BY <1>1
    <3> QED BY <1>3, <3>1
  <2>3. idGiven \in [Registries -> [Ordinals -> Nat \cup {None}]]
    <3>1. idGiven = [r \in Registries |-> idGiven[r]] BY <1>1
    <3> QED BY <1>4, <3>1
  <2>4. versionRegistry \in [0 .. Len(VersionMap) -> Registries \cup {Garbage}]
    BY OutermostRanges DEF RegistryInit
  <2>5. /\ assigned \in [Versions -> Registries \cup {Garbage}]
        /\ ordinalToObjectMap \in Seq(Constructors \cup {None})
        /\ constructorGiven \in [Ordinals -> Constructors \cup {None}]
    BY DEF RegistryInit
  <2> QED BY <2>1, <2>2, <2>3, <2>4, <2>5 DEF RegistryTypes
<1>7. ConstructorsHold
  <2>1. ordinalToObjectMap = <<>> /\ constructorGiven = [o \in Ordinals |-> None]
    BY DEF RegistryInit
  <2>2. \A o \in Ordinals : ~ (o < Len(<<>>)) BY RegistryAssumption
  <2> QED BY <2>1, <2>2 DEF ConstructorsHold, Holds
<1>8. VersionsResolve
  <2>1. /\ versionRegistry = [i \in 0 .. Len(VersionMap) |-> Garbage]
        /\ assigned = [v \in Versions |-> Garbage]
    BY OutermostRanges DEF RegistryInit
  <2>2. \A v \in Versions : VersionToOrdinal(v) \in 1 .. Len(VersionMap)
    BY VersionToOrdinalIsRange, BeginsIsRange DEF IsRange
  <2>3. MaximumVersion \in Versions BY VersionBounds
  <2>4. \A v \in Versions : versionRegistry[VersionToOrdinal(v)] = assigned[v]
    BY <2>1, <2>2, RangeStarts
  <2> QED BY <2>3, <2>4, VersionToOrdinalUnknown DEF VersionsResolve
<1> QED BY <1>5, <1>6, <1>7, <1>8 DEF RegistryInv

(* Both vectors of a VersionRegistry after Put. *)
LEMMA PutRecord ==
  ASSUME NEW rec \in RegistryRecords, NEW o \in Ordinals, NEW id \in Ids
  PROVE  /\ Put(rec, o, id) \in RegistryRecords
         /\ Put(rec, o, id).idToOrdinal = ResizeVectorAndSet(rec.idToOrdinal, id, o, 0)
         /\ Put(rec, o, id).ordinalToID = ResizeVectorAndSet(rec.ordinalToID, o, id, 0)
<1>1. /\ o \in Nat /\ id \in Nat /\ 0 \in Ordinals
      /\ rec.idToOrdinal \in Seq(Ordinals) /\ rec.ordinalToID \in Seq(Nat)
  BY RegistryAssumption DEF RegistryRecords
<1>2. ResizeVectorAndSet(rec.idToOrdinal, id, o, 0) \in Seq(Ordinals)
  BY <1>1, ResizeVectorAndSetVector
<1>3. ResizeVectorAndSet(rec.ordinalToID, o, id, 0) \in Seq(Nat)
  BY <1>1, ResizeVectorAndSetVector
<1> QED BY <1>2, <1>3 DEF Put, RegistryRecords

(* Register and RegisterAt. *)
LEMMA PutInv ==
  ASSUME RegistryInv, NEW r \in Registries, NEW o \in Ordinals, NEW id \in Ids,
         NEW rec \in RegistryRecords,
         rec.idToOrdinal = Put(registry[r], o, id).idToOrdinal,
         rec.ordinalToID = Put(registry[r], o, id).ordinalToID,
         registry' = [registry EXCEPT ![r] = rec],
         ordinalGiven' = [ordinalGiven EXCEPT ![r][id] = o],
         idGiven' = [idGiven EXCEPT ![r][o] = id],
         UNCHANGED <<versionRegistry, assigned, constructorVars>>
  PROVE  RegistryInv'
<1>1. /\ registry \in [Registries -> RegistryRecords]
      /\ ordinalGiven \in [Registries -> [Ids -> Ordinals \cup {None}]]
      /\ idGiven \in [Registries -> [Ordinals -> Nat \cup {None}]]
  BY DEF RegistryInv, RegistryTypes
<1>2. o \in Nat /\ id \in Nat /\ Ids \subseteq Nat /\ Ordinals \subseteq Nat /\ 0 \in Ordinals
      /\ o # None /\ id # None
  BY RegistryAssumption
<1>3. /\ registry[r] \in RegistryRecords
      /\ rec.idToOrdinal = ResizeVectorAndSet(registry[r].idToOrdinal, id, o, 0)
      /\ rec.ordinalToID = ResizeVectorAndSet(registry[r].ordinalToID, o, id, 0)
  <2>1. registry[r] \in RegistryRecords BY <1>1
  <2> QED BY <2>1, PutRecord
<1>4. RegistryTypes'
  <2>1. registry' \in [Registries -> RegistryRecords] BY <1>1
  <2>2. ordinalGiven' \in [Registries -> [Ids -> Ordinals \cup {None}]] BY <1>1
  <2>3. idGiven' \in [Registries -> [Ordinals -> Nat \cup {None}]] BY <1>1, <1>2
  <2> QED BY <2>1, <2>2, <2>3 DEF RegistryInv, RegistryTypes, constructorVars
<1>5. ASSUME NEW q \in Registries
      PROVE  /\ Holds(registry'[q].idToOrdinal, ordinalGiven'[q], Ids, 0)
             /\ Holds(registry'[q].ordinalToID, idGiven'[q], Ordinals, 0)
  <2>1. CASE q # r
    <3>1. /\ registry'[q] = registry[q] /\ ordinalGiven'[q] = ordinalGiven[q]
          /\ idGiven'[q] = idGiven[q]
      BY <1>1, <2>1
    <3> QED BY <3>1 DEF RegistryInv, RegistriesHold
  <2>2. CASE q = r
    <3>1. /\ registry'[r] = rec
          /\ ordinalGiven'[r] = [ordinalGiven[r] EXCEPT ![id] = o]
          /\ idGiven'[r] = [idGiven[r] EXCEPT ![o] = id]
      BY <1>1
    <3>2. ordinalGiven[r] \in [Ids -> Ordinals \cup {None}]
          /\ idGiven[r] \in [Ordinals -> Nat \cup {None}]
      BY <1>1
    <3>3. /\ ordinalGiven'[r][id] = o
          /\ \A x \in Ids : x # id => ordinalGiven'[r][x] = ordinalGiven[r][x]
          /\ idGiven'[r][o] = id
          /\ \A x \in Ordinals : x # o => idGiven'[r][x] = idGiven[r][x]
      BY <3>1, <3>2
    <3>4. registry[r].idToOrdinal \in Seq(Ordinals) /\ registry[r].ordinalToID \in Seq(Nat)
      BY <1>3 DEF RegistryRecords
    <3>5. /\ Holds(registry[r].idToOrdinal, ordinalGiven[r], Ids, 0)
          /\ Holds(registry[r].ordinalToID, idGiven[r], Ordinals, 0)
      BY DEF RegistryInv, RegistriesHold
    <3>6. Holds(rec.idToOrdinal, ordinalGiven'[r], Ids, 0)
      <4> DEFINE vector == registry[r].idToOrdinal
                 given == ordinalGiven[r]
                 given2 == ordinalGiven'[r]
      <4>1. /\ vector \in Seq(Ordinals) /\ Holds(vector, given, Ids, 0)
            /\ given2[id] = o /\ \A x \in Ids : x # id => given2[x] = given[x]
        BY <3>3, <3>4, <3>5
      <4> HIDE DEF vector, given, given2
      <4>2. Holds(ResizeVectorAndSet(vector, id, o, 0), given2, Ids, 0)
        BY <1>2, <4>1, ResizeVectorAndSetHolds
      <4> QED BY <1>3, <4>2 DEF vector, given2
    <3>7. Holds(rec.ordinalToID, idGiven'[r], Ordinals, 0)
      <4> DEFINE vector == registry[r].ordinalToID
                 given == idGiven[r]
                 given2 == idGiven'[r]
      <4>1. /\ vector \in Seq(Nat) /\ Holds(vector, given, Ordinals, 0)
            /\ given2[o] = id /\ \A x \in Ordinals : x # o => given2[x] = given[x]
        BY <3>3, <3>4, <3>5
      <4> HIDE DEF vector, given, given2
      <4>2. Holds(ResizeVectorAndSet(vector, o, id, 0), given2, Ordinals, 0)
        BY <1>2, <4>1, ResizeVectorAndSetHolds
      <4> QED BY <1>3, <4>2 DEF vector, given2
    <3> QED BY <2>2, <3>1, <3>6, <3>7
  <2> QED BY <2>1, <2>2
<1>6. RegistriesHold' BY <1>5 DEF RegistriesHold
<1>7. ConstructorsHold' BY DEF RegistryInv, ConstructorsHold, constructorVars
<1>8. VersionsResolve' BY DEF RegistryInv, VersionsResolve
<1> QED BY <1>4, <1>6, <1>7, <1>8 DEF RegistryInv

LEMMA RegisterAtInv ==
  ASSUME RegistryInv, NEW r \in Registries, NEW o \in Ordinals, NEW id \in Ids,
         RegisterAt(r, o, id)
  PROVE  RegistryInv'
<1>1. registry \in [Registries -> RegistryRecords] BY DEF RegistryInv, RegistryTypes
<1>2. Put(registry[r], o, id) \in RegistryRecords BY <1>1, PutRecord
<1>3. /\ registry' = [registry EXCEPT ![r] = Put(registry[r], o, id)]
      /\ ordinalGiven' = [ordinalGiven EXCEPT ![r][id] = o]
      /\ idGiven' = [idGiven EXCEPT ![r][o] = id]
      /\ UNCHANGED <<versionRegistry, assigned, constructorVars>>
  BY DEF RegisterAt
<1> QED BY <1>2, <1>3, PutInv

LEMMA RegisterInv ==
  ASSUME RegistryInv, NEW r \in Registries, NEW o \in Ordinals, Register(r, o)
  PROVE  RegistryInv'
<1> DEFINE id == registry[r].latestID + 1
           put == Put(registry[r], o, id)
           rec == [put EXCEPT !.latestID = id]
<1>1. registry \in [Registries -> RegistryRecords] BY DEF RegistryInv, RegistryTypes
<1>2. /\ id \in Ids
      /\ registry' = [registry EXCEPT ![r] = rec]
      /\ ordinalGiven' = [ordinalGiven EXCEPT ![r][id] = o]
      /\ idGiven' = [idGiven EXCEPT ![r][o] = id]
      /\ UNCHANGED <<versionRegistry, assigned, constructorVars>>
  BY DEF Register
<1> HIDE DEF id
<1>3. put \in RegistryRecords BY <1>1, <1>2, PutRecord
<1>4. rec \in RegistryRecords /\ rec.idToOrdinal = put.idToOrdinal
      /\ rec.ordinalToID = put.ordinalToID
  <2> HIDE DEF put
  <2> QED BY <1>2, <1>3 DEF RegistryRecords
<1> HIDE DEF rec
<1> QED BY <1>2, <1>4, PutInv

(* The ranges of the versions, as set members. *)
LEMMA VersionRanges ==
  /\ \A v \in Versions : VersionToOrdinal(v) \in 1 .. Len(VersionMap)
  /\ \A v, w \in Versions : w \in SameRange(v) <=> VersionToOrdinal(w) = VersionToOrdinal(v)
<1>1. \A v \in Versions : VersionToOrdinal(v) \in 1 .. Len(VersionMap)
  BY VersionToOrdinalIsRange, BeginsIsRange DEF IsRange
<1>2. ASSUME NEW v \in Versions, NEW w \in Versions
      PROVE  w \in SameRange(v) <=> VersionToOrdinal(w) = VersionToOrdinal(v)
  <2>1. VersionToOrdinal(v) = Begins(v) /\ VersionToOrdinal(w) = Begins(w)
    BY VersionToOrdinalIsRange
  <2>2. w \in SameRange(v) <=> Begins(w) = Begins(v) BY Zenon DEF SameRange
  <2> QED BY <2>1, <2>2
<1> QED BY <1>1, <1>2

(* A step that sets pointers only keeps the rest. *)
LEMMA AssignInv ==
  ASSUME RegistryInv,
         UNCHANGED <<registry, ordinalGiven, idGiven, constructorVars>>,
         versionRegistry' \in [0 .. Len(VersionMap) -> Registries \cup {Garbage}],
         assigned' \in [Versions -> Registries \cup {Garbage}],
         \A v \in Versions : versionRegistry'[VersionToOrdinal(v)] = assigned'[v]
  PROVE  RegistryInv'
<1>1. RegistryTypes' BY DEF RegistryInv, RegistryTypes, constructorVars
<1>2. RegistriesHold' BY DEF RegistryInv, RegistriesHold
<1>3. ConstructorsHold' BY DEF RegistryInv, ConstructorsHold, constructorVars
<1>4. VersionsResolve'
  <2>1. MaximumVersion \in Versions BY VersionBounds
  <2> QED BY <2>1, VersionToOrdinalUnknown DEF VersionsResolve
<1> QED BY <1>1, <1>2, <1>3, <1>4 DEF RegistryInv

LEMMA RegisterVersionInv ==
  ASSUME RegistryInv, NEW r \in Registries, NEW version \in Versions,
         RegisterVersion(version, r)
  PROVE  RegistryInv'
<1>1. /\ versionRegistry \in [0 .. Len(VersionMap) -> Registries \cup {Garbage}]
      /\ assigned \in [Versions -> Registries \cup {Garbage}]
  BY DEF RegistryInv, RegistryTypes
<1>2. /\ versionRegistry' = [versionRegistry EXCEPT ![VersionToOrdinal(version)] = r]
      /\ assigned' = [v \in Versions |-> IF v \in SameRange(version) THEN r ELSE assigned[v]]
  BY DEF RegisterVersion
<1>3. versionRegistry' \in [0 .. Len(VersionMap) -> Registries \cup {Garbage}] BY <1>1, <1>2
<1>4. assigned' \in [Versions -> Registries \cup {Garbage}] BY <1>1, <1>2
<1>5. ASSUME NEW v \in Versions PROVE versionRegistry'[VersionToOrdinal(v)] = assigned'[v]
  <2>1. /\ VersionToOrdinal(v) \in 0 .. Len(VersionMap)
        /\ VersionToOrdinal(version) \in 0 .. Len(VersionMap)
    BY VersionRanges, RangeStarts
  <2>2. v \in SameRange(version) <=> VersionToOrdinal(v) = VersionToOrdinal(version)
    BY VersionRanges
  <2>3. versionRegistry[VersionToOrdinal(v)] = assigned[v]
    BY DEF RegistryInv, VersionsResolve
  <2> QED BY <1>1, <1>2, <2>1, <2>2, <2>3
<1> QED BY <1>3, <1>4, <1>5, AssignInv DEF RegisterVersion

LEMMA FillVersionRegistryInv ==
  ASSUME RegistryInv, NEW r \in Registries, FillVersionRegistry(r)
  PROVE  RegistryInv'
<1>1. versionRegistry \in [0 .. Len(VersionMap) -> Registries \cup {Garbage}]
  BY DEF RegistryInv, RegistryTypes
<1>2. /\ versionRegistry' = [i \in 0 .. Len(VersionMap) |->
           IF 1 <= i /\ i <= Len(VersionMap) THEN r ELSE versionRegistry[i]]
      /\ assigned' = [v \in Versions |-> r]
  <2>1. DOMAIN versionRegistry = 0 .. Len(VersionMap) BY <1>1
  <2> QED BY <2>1, OutermostRanges DEF FillVersionRegistry
<1>3. versionRegistry' \in [0 .. Len(VersionMap) -> Registries \cup {Garbage}] BY <1>1, <1>2
<1>4. assigned' \in [Versions -> Registries \cup {Garbage}] BY <1>2
<1>5. ASSUME NEW v \in Versions PROVE versionRegistry'[VersionToOrdinal(v)] = assigned'[v]
  <2>1. VersionToOrdinal(v) \in 1 .. Len(VersionMap) BY VersionRanges
  <2> QED BY <1>2, <2>1, RangeStarts
<1> QED BY <1>3, <1>4, <1>5, AssignInv DEF FillVersionRegistry

LEMMA RegisterConstructorInv ==
  ASSUME RegistryInv, NEW o \in Ordinals, NEW c \in Constructors, RegisterConstructor(o, c)
  PROVE  RegistryInv'
<1> DEFINE T == Constructors \cup {None}
<1>1. ordinalToObjectMap \in Seq(T) /\ constructorGiven \in [Ordinals -> T]
  BY DEF RegistryInv, RegistryTypes
<1>2. Ordinals \subseteq Nat /\ o \in Nat /\ c \in T /\ None \in T BY RegistryAssumption
<1>3. /\ ordinalToObjectMap' = ResizeVectorAndSet(ordinalToObjectMap, o, c, None)
      /\ constructorGiven' = [constructorGiven EXCEPT ![o] = c]
      /\ UNCHANGED <<registry, versionRegistry, ordinalGiven, idGiven, assigned>>
  BY DEF RegisterConstructor
<1> HIDE DEF T
<1>4. ordinalToObjectMap' \in Seq(T)
  <2>1. ResizeVectorAndSet(ordinalToObjectMap, o, c, None) \in Seq(T)
    BY <1>1, <1>2, ResizeVectorAndSetVector
  <2> QED BY <1>3, <2>1
<1>5. constructorGiven' \in [Ordinals -> T] BY <1>1, <1>2, <1>3
<1>6. RegistryTypes' BY <1>3, <1>4, <1>5 DEF RegistryInv, RegistryTypes, T
<1>7. ConstructorsHold'
  <2>1. /\ constructorGiven'[o] = c
        /\ \A x \in Ordinals : x # o => constructorGiven'[x] = constructorGiven[x]
    BY <1>1, <1>3
  <2>2. Holds(ordinalToObjectMap, constructorGiven, Ordinals, None)
    BY DEF RegistryInv, ConstructorsHold
  <2>3. Holds(ResizeVectorAndSet(ordinalToObjectMap, o, c, None), constructorGiven',
              Ordinals, None)
    BY <1>1, <1>2, <2>1, <2>2, ResizeVectorAndSetHolds
  <2> QED BY <1>3, <2>3 DEF ConstructorsHold
<1>8. RegistriesHold' BY <1>3 DEF RegistryInv, RegistriesHold
<1>9. VersionsResolve' BY <1>3 DEF RegistryInv, VersionsResolve
<1> QED BY <1>6, <1>7, <1>8, <1>9 DEF RegistryInv

LEMMA RegistryStutter == RegistryInv /\ UNCHANGED registryVars => RegistryInv'
<1> SUFFICES ASSUME RegistryInv, UNCHANGED registryVars PROVE RegistryInv' OBVIOUS
<1> USE DEF registryVars, constructorVars
<1>1. RegistryTypes' BY DEF RegistryInv, RegistryTypes
<1>2. RegistriesHold' BY DEF RegistryInv, RegistriesHold
<1>3. ConstructorsHold' BY DEF RegistryInv, ConstructorsHold
<1>4. VersionsResolve' BY DEF RegistryInv, VersionsResolve
<1> QED BY <1>1, <1>2, <1>3, <1>4 DEF RegistryInv

(* What the invariant says of the properties. *)

LEMMA RegistryInvType == RegistryInv => RegistryTypeOK
<1> SUFFICES ASSUME RegistryInv PROVE RegistryTypeOK OBVIOUS
<1>1. ASSUME NEW r \in Registries
      PROVE  /\ registry[r].idToOrdinal \in Seq(Ordinals)
             /\ registry[r].ordinalToID \in Seq(Nat)
             /\ registry[r].latestID \in Ids \cup {-1}
  <2>1. registry[r] \in RegistryRecords BY DEF RegistryInv, RegistryTypes
  <2> QED BY <2>1 DEF RegistryRecords
<1>2. versionRegistry \in [DOMAIN versionRegistry -> Registries \cup {Garbage}]
  BY DEF RegistryInv, RegistryTypes
<1> QED BY <1>1, <1>2 DEF RegistryInv, RegistryTypes, RegistryTypeOK

LEMMA RegistryInvWins == RegistryInv => LatestRegistrationWins
<1> SUFFICES ASSUME RegistryInv, NEW r \in Registries
             PROVE  /\ \A id \in Ids : ordinalGiven[r][id] # None =>
                         GetOrdinalByID(r, id) = Success(ordinalGiven[r][id])
                    /\ \A o \in Ordinals : idGiven[r][o] # None =>
                         GetIDByOrdinal(r, o) = Success(idGiven[r][o])
  BY DEF LatestRegistrationWins
<1>1. /\ Holds(registry[r].idToOrdinal, ordinalGiven[r], Ids, 0)
      /\ Holds(registry[r].ordinalToID, idGiven[r], Ordinals, 0)
  BY DEF RegistryInv, RegistriesHold
<1>2. registry[r] \in RegistryRecords BY DEF RegistryInv, RegistryTypes
<1>3. Len(registry[r].idToOrdinal) \in Nat /\ Len(registry[r].ordinalToID) \in Nat
  BY <1>2 DEF RegistryRecords
<1>4. ASSUME NEW id \in Ids, ordinalGiven[r][id] # None
      PROVE  GetOrdinalByID(r, id) = Success(ordinalGiven[r][id])
  <2>1. id \in Nat BY RegistryAssumption
  <2>2. id < Len(registry[r].idToOrdinal)
        /\ registry[r].idToOrdinal[id + 1] = ordinalGiven[r][id]
    BY <1>1, <1>4 DEF Holds
  <2>3. ~ (id >= Len(registry[r].idToOrdinal)) BY <1>3, <2>1, <2>2
  <2> QED BY <2>2, <2>3, Zenon DEF GetOrdinalByID
<1>5. ASSUME NEW o \in Ordinals, idGiven[r][o] # None
      PROVE  GetIDByOrdinal(r, o) = Success(idGiven[r][o])
  <2>1. o \in Nat BY RegistryAssumption
  <2>2. o < Len(registry[r].ordinalToID)
        /\ registry[r].ordinalToID[o + 1] = idGiven[r][o]
    BY <1>1, <1>5 DEF Holds
  <2>3. ~ (o >= Len(registry[r].ordinalToID)) BY <1>3, <2>1, <2>2
  <2> QED BY <2>2, <2>3, Zenon DEF GetIDByOrdinal
<1> QED BY <1>4, <1>5

LEMMA RegistryInvLookups == RegistryInv => LookupsByVersion
<1> SUFFICES ASSUME RegistryInv, NEW v \in Versions, assigned[v] # Garbage
             PROVE  /\ \A id \in Ids : ordinalGiven[assigned[v]][id] # None =>
                         GetObjectByID(v, id) =
                           IF constructorGiven[ordinalGiven[assigned[v]][id]] = None
                           THEN Invalid
                           ELSE Success(constructorGiven[ordinalGiven[assigned[v]][id]])
                    /\ \A o \in Ordinals : idGiven[assigned[v]][o] # None =>
                         GetID(v, o) = Success(idGiven[assigned[v]][o])
  BY Zenon DEF LookupsByVersion
<1> DEFINE r == assigned[v]
<1>1. r \in Registries BY DEF RegistryInv, RegistryTypes
<1>2. versionRegistry[VersionToOrdinal(v)] = r BY DEF RegistryInv, VersionsResolve
<1>3. LatestRegistrationWins BY RegistryInvWins
<1> HIDE DEF r
<1>4. ASSUME NEW o \in Ordinals, idGiven[r][o] # None PROVE GetID(v, o) = Success(idGiven[r][o])
  BY <1>1, <1>2, <1>3, <1>4, Zenon DEF GetID, LatestRegistrationWins
<1>5. ASSUME NEW id \in Ids, ordinalGiven[r][id] # None
      PROVE  GetObjectByID(v, id) =
               IF constructorGiven[ordinalGiven[r][id]] = None THEN Invalid
               ELSE Success(constructorGiven[ordinalGiven[r][id]])
  <2> DEFINE o == ordinalGiven[r][id]
             map == ordinalToObjectMap
  <2>1. o \in Ordinals
    <3>1. ordinalGiven[r] \in [Ids -> Ordinals \cup {None}]
      BY <1>1 DEF RegistryInv, RegistryTypes
    <3> QED BY <1>5, <3>1
  <2>2. GetValue(v, id) = Success(o)
    BY <1>1, <1>2, <1>3, <1>5, Zenon DEF GetValue, LatestRegistrationWins
  <2> HIDE DEF o
  <2>3. Success(o).ok = TRUE /\ Success(o).value = o BY DEF Success
  <2>4. GetObjectByID(v, id) =
          IF o >= Len(map) \/ map[o + 1] = None THEN Invalid ELSE Success(map[o + 1])
    BY <2>2, <2>3, Zenon DEF GetObjectByID
  <2>5. o \in Nat /\ Len(map) \in Nat
    BY <2>1, RegistryAssumption DEF RegistryInv, RegistryTypes
  <2>6. IF o < Len(map)
        THEN map[o + 1] = (IF constructorGiven[o] = None THEN None ELSE constructorGiven[o])
        ELSE constructorGiven[o] = None
    BY <2>1 DEF RegistryInv, ConstructorsHold, Holds
  <2>7. CASE o < Len(map)
    <3>1. map[o + 1] = constructorGiven[o] /\ ~ (o >= Len(map)) BY <2>5, <2>6, <2>7
    <3> QED BY <2>4, <3>1 DEF o
  <2>8. CASE ~ (o < Len(map))
    <3>1. constructorGiven[o] = None /\ o >= Len(map) BY <2>5, <2>6, <2>8
    <3> QED BY <2>4, <3>1 DEF o
  <2> QED BY <2>7, <2>8
<1> QED BY <1>4, <1>5 DEF r

(* The ordinal ReadPacket finds for an id, and what it had been given. *)
LEMMA OrdinalFound ==
  ASSUME RegistryInv, NEW r \in Registries, NEW id \in Ids, GetOrdinalByID(r, id).ok
  PROVE  /\ GetOrdinalByID(r, id).value \in Ordinals
         /\ ordinalGiven[r][id] \in Ordinals \cup {None}
         /\ GetOrdinalByID(r, id).value =
              IF ordinalGiven[r][id] = None THEN 0 ELSE ordinalGiven[r][id]
<1> DEFINE map == registry[r].idToOrdinal
<1>1. map \in Seq(Ordinals) /\ Len(map) \in Nat
  <2>1. registry[r] \in RegistryRecords BY DEF RegistryInv, RegistryTypes
  <2> QED BY <2>1 DEF RegistryRecords
<1>2. GetOrdinalByID(r, id) = IF id >= Len(map) THEN Invalid ELSE Success(map[id + 1])
  BY DEF GetOrdinalByID
<1>3. Holds(map, ordinalGiven[r], Ids, 0) BY DEF RegistryInv, RegistriesHold
<1> HIDE DEF map
<1>4. ~ (id >= Len(map)) BY <1>2 DEF Invalid
<1>5. id \in Nat BY RegistryAssumption
<1>6. id < Len(map) /\ id + 1 \in 1 .. Len(map) BY <1>1, <1>4, <1>5
<1>7. GetOrdinalByID(r, id).value = map[id + 1] BY <1>2, <1>4 DEF Success
<1>8. map[id + 1] \in Ordinals BY <1>1, <1>6, ElementOfSeq
<1>9. map[id + 1] = IF ordinalGiven[r][id] = None THEN 0 ELSE ordinalGiven[r][id]
  BY <1>3, <1>6 DEF Holds
<1>10. ordinalGiven[r][id] \in Ordinals \cup {None}
  BY DEF RegistryInv, RegistryTypes
<1> QED BY <1>7, <1>8, <1>9, <1>10

-----------------------------------------------------------------------------
(* The callback tables. *)

CallbackSet == Callbacks \cup {None}

CallbackTypes ==
  /\ callbacks \in Seq(Seq(CallbackSet))
  /\ callbackGiven \in [Classes -> [Ordinals -> CallbackSet]]
  /\ spread \in BOOLEAN

(* A callback in a table is the one that was set last for its class and     *)
(* ordinal, even after the table was cut and grew again.                    *)
EntriesGiven ==
  \A c \in Classes, o \in Ordinals :
    c < Len(callbacks) /\ o < Len(callbacks[c + 1]) =>
      callbacks[c + 1][o + 1] \in {None, callbackGiven[c][o]}

NothingGiven(c) == \A o \in Ordinals : callbackGiven[c][o] = None

(* Until a handler outside the first block is used, nothing is cut off.     *)
TablesHold ==
  ~ spread => \A c \in Classes :
    /\ IF c < Len(callbacks) THEN Holds(callbacks[c + 1], callbackGiven[c], Ordinals, None)
       ELSE NothingGiven(c)
    /\ c >= Slack => NothingGiven(c)

CallbackInv ==
  /\ CallbackTypes /\ EntriesGiven /\ TablesHold
  /\ callbacks # <<>> => Len(callbacks) >= Slack

LEMMA ClassesAreNumbers == Classes \subseteq Nat /\ \A h \in Handlers : ClassOf[h] \in Classes
BY DispatchAssumption DEF Classes

LEMMA CallbackInitInv == Init => CallbackInv
<1> SUFFICES ASSUME Init PROVE CallbackInv OBVIOUS
<1>1. /\ callbacks = <<>> /\ spread = FALSE
      /\ callbackGiven = [c \in Classes |-> [o \in Ordinals |-> None]]
  BY DEF Init
<1>2. CallbackTypes
  <2>1. spread \in BOOLEAN BY <1>1, Zenon
  <2>2. callbackGiven \in [Classes -> [Ordinals -> CallbackSet]]
    BY <1>1 DEF CallbackSet
  <2> QED BY <1>1, <2>1, <2>2 DEF CallbackTypes
<1>3. \A c \in Classes : ~ (c < Len(callbacks)) BY <1>1, ClassesAreNumbers
<1>4. \A c \in Classes : NothingGiven(c) BY <1>1 DEF NothingGiven
<1>5. EntriesGiven BY <1>3 DEF EntriesGiven
<1>6. TablesHold BY <1>3, <1>4 DEF TablesHold
<1> QED BY <1>1, <1>2, <1>5, <1>6 DEF CallbackInv

(* The table after the inverted test: it ends a block behind the class, or  *)
(* it was too small and is left alone.                                      *)
LEMMA CallbackTableVector ==
  ASSUME CallbackTypes, NEW class \in Nat
  PROVE  /\ CallbackTable(class) \in Seq(Seq(CallbackSet))
         /\ Len(callbacks) >= class => Len(CallbackTable(class)) = class + Slack
         /\ Len(callbacks) < class => CallbackTable(class) = callbacks
         /\ \A i \in 1 .. Len(CallbackTable(class)) :
              /\ i <= Len(callbacks) => CallbackTable(class)[i] = callbacks[i]
              /\ i > Len(callbacks) => CallbackTable(class)[i] = <<>>
<1> DEFINE size == class + Slack
           room == CallbackTable(class)
<1>1. size \in Nat /\ callbacks \in Seq(Seq(CallbackSet)) /\ Len(callbacks) \in Nat
  BY SlackAssumption DEF CallbackTypes
<1>2. <<>> \in Seq(CallbackSet) OBVIOUS
<1>3. CASE Len(callbacks) >= class
  <2>1. room = Resized(callbacks, size, <<>>) BY <1>3 DEF CallbackTable
  <2> HIDE DEF size, room
  <2>2. room \in Seq(Seq(CallbackSet)) /\ Padded(room, callbacks, size, <<>>)
    BY <1>1, <1>2, <2>1, ResizedVector
  <2>3. ~ (Len(callbacks) < class) BY <1>1, <1>3
  <2> QED BY <2>2, <2>3 DEF Padded, size, room
<1>4. CASE ~ (Len(callbacks) >= class)
  <2>1. room = callbacks BY <1>4 DEF CallbackTable
  <2> HIDE DEF room
  <2>2. \A i \in 1 .. Len(room) : i <= Len(callbacks) /\ ~ (i > Len(callbacks))
    BY <1>1, <2>1
  <2> QED BY <1>1, <1>4, <2>1, <2>2 DEF room
<1> QED BY <1>3, <1>4

LEMMA SetPointerCallbackInv ==
  ASSUME CallbackInv, NEW class \in Classes, NEW ordinal \in Ordinals,
         NEW callback \in Callbacks, SetPointerCallback(class, ordinal, callback)
  PROVE  CallbackInv'
<1> DEFINE room == CallbackTable(class)
           local == ResizeVectorAndSet(room[class + 1], ordinal, callback, None)
           V == Seq(CallbackSet)
<1>1. class \in Nat /\ ordinal \in Nat /\ Ordinals \subseteq Nat /\ Slack \in Nat
      /\ Slack > 0 /\ Classes \subseteq Nat
  BY ClassesAreNumbers, RegistryAssumption, SlackAssumption
<1>2. callback \in CallbackSet /\ None \in CallbackSet /\ callback # None
  BY DispatchAssumption DEF CallbackSet
<1>3. CallbackTypes BY DEF CallbackInv
<1>4. /\ class < Len(room)
      /\ callbacks' = [room EXCEPT ![class + 1] = local]
      /\ callbackGiven' = [callbackGiven EXCEPT ![class][ordinal] = callback]
  BY DEF SetPointerCallback
<1>5. /\ room \in Seq(V)
      /\ Len(callbacks) >= class => Len(room) = class + Slack
      /\ Len(callbacks) < class => room = callbacks
      /\ \A i \in 1 .. Len(room) : /\ i <= Len(callbacks) => room[i] = callbacks[i]
                                   /\ i > Len(callbacks) => room[i] = <<>>
  BY <1>1, <1>3, CallbackTableVector
<1> HIDE DEF room
<1>6. Len(room) \in Nat /\ Len(callbacks) \in Nat BY <1>3, <1>5 DEF CallbackTypes
<1>7. class + 1 \in 1 .. Len(room) BY <1>1, <1>4, <1>6
<1>8. room[class + 1] \in V BY <1>5, <1>7, ElementOfSeq
<1>9. local \in V /\ Updated(local, room[class + 1], ordinal, callback, None)
  <2> DEFINE old == room[class + 1]
  <2> HIDE DEF old
  <2>1. old \in Seq(CallbackSet) BY <1>8 DEF old
  <2>2. /\ ResizeVectorAndSet(old, ordinal, callback, None) \in Seq(CallbackSet)
        /\ Updated(ResizeVectorAndSet(old, ordinal, callback, None), old, ordinal, callback, None)
    BY <1>1, <1>2, <2>1, ResizeVectorAndSetVector
  <2> QED BY <2>2 DEF old
<1>10. Holds(room[class + 1], callbackGiven[class], Ordinals, None) =>
         Holds(local, callbackGiven'[class], Ordinals, None)
  <2> DEFINE old == room[class + 1]
             given == callbackGiven[class]
             given2 == callbackGiven'[class]
  <2>1. given \in [Ordinals -> CallbackSet] /\ given2 = [given EXCEPT ![ordinal] = callback]
    BY <1>3, <1>4 DEF CallbackTypes
  <2>2. given2[ordinal] = callback /\ \A x \in Ordinals : x # ordinal => given2[x] = given[x]
    <3> HIDE DEF given, given2
    <3> QED BY <2>1
  <2>3. old \in Seq(CallbackSet) BY <1>8
  <2> HIDE DEF old, given, given2
  <2>4. Holds(old, given, Ordinals, None) =>
          Holds(ResizeVectorAndSet(old, ordinal, callback, None), given2, Ordinals, None)
    BY <1>1, <1>2, <2>2, <2>3, ResizeVectorAndSetHolds
  <2> QED BY <2>4 DEF old, given, given2
<1> HIDE DEF local
<1>11. /\ callbacks' \in Seq(V) /\ Len(callbacks') = Len(room)
       /\ callbacks'[class + 1] = local
       /\ \A c \in Nat : c < Len(room) /\ c # class => callbacks'[c + 1] = room[c + 1]
  <2> HIDE DEF V
  <2>1. callbacks' \in Seq(V) /\ Len(callbacks') = Len(room)
    BY <1>4, <1>5, <1>7, <1>9, ExceptSeq
  <2>2. callbacks'[class + 1] = local BY <1>4, <1>5, <1>7
  <2>3. ASSUME NEW c \in Nat, c < Len(room), c # class PROVE callbacks'[c + 1] = room[c + 1]
    <3>1. c + 1 \in 1 .. Len(room) /\ c + 1 # class + 1 BY <1>1, <1>6, <2>3
    <3> QED BY <1>4, <1>5, <3>1
  <2> QED BY <2>1, <2>2, <2>3
<1>12. /\ callbackGiven' \in [Classes -> [Ordinals -> CallbackSet]]
       /\ callbackGiven'[class][ordinal] = callback
       /\ \A o \in Ordinals : o # ordinal => callbackGiven'[class][o] = callbackGiven[class][o]
       /\ \A c \in Classes : c # class => callbackGiven'[c] = callbackGiven[c]
  BY <1>2, <1>3, <1>4 DEF CallbackTypes
<1>13. CallbackTypes'
  <2>1. spread' \in BOOLEAN BY Zenon DEF SetPointerCallback
  <2> QED BY <1>11, <1>12, <2>1 DEF CallbackTypes, V
<1>14. EntriesGiven'
  <2> SUFFICES ASSUME NEW c \in Classes, NEW o \in Ordinals,
                      c < Len(callbacks'), o < Len(callbacks'[c + 1])
               PROVE  callbacks'[c + 1][o + 1] \in {None, callbackGiven'[c][o]}
    BY DEF EntriesGiven
  <2>1. c \in Nat /\ o \in Nat /\ c + 1 \in 1 .. Len(room) BY <1>1, <1>6, <1>11
  <2>2. ASSUME o < Len(room[c + 1])
        PROVE  room[c + 1][o + 1] \in {None, callbackGiven[c][o]}
    <3>1. CASE c + 1 <= Len(callbacks)
      <4>1. room[c + 1] = callbacks[c + 1] /\ c < Len(callbacks)
        BY <1>5, <1>6, <2>1, <3>1
      <4> QED BY <2>2, <4>1 DEF CallbackInv, EntriesGiven
    <3>2. CASE c + 1 > Len(callbacks)
      <4>1. room[c + 1] = <<>> BY <1>5, <2>1, <3>2
      <4> QED BY <2>1, <2>2, <4>1
    <3> QED BY <1>6, <2>1, <3>1, <3>2
  <2>3. CASE c # class
    <3>1. callbacks'[c + 1] = room[c + 1] BY <1>11, <2>1, <2>3
    <3> QED BY <1>12, <2>2, <2>3, <3>1
  <2>4. CASE c = class
    <3>1. callbacks'[c + 1] = local BY <1>11, <2>4
    <3>2. CASE o = ordinal BY <1>9, <1>12, <2>4, <3>1, <3>2 DEF Updated
    <3>3. CASE o # ordinal
      <4>1. Len(room[class + 1]) \in Nat /\ Len(local) \in Nat BY <1>8, <1>9
      <4>2. CASE o < Len(room[class + 1])
        <5>1. local[o + 1] = room[class + 1][o + 1]
          BY <1>9, <2>1, <3>1, <3>3, <4>2 DEF Updated
        <5> QED BY <1>12, <2>2, <2>4, <3>1, <3>3, <4>2, <5>1
      <4>3. CASE o >= Len(room[class + 1])
        <5>1. local[o + 1] = None BY <1>9, <2>1, <3>1, <3>3, <4>3 DEF Updated
        <5> QED BY <3>1, <5>1
      <4> QED BY <2>1, <4>1, <4>2, <4>3
    <3> QED BY <3>2, <3>3
  <2> QED BY <2>3, <2>4
<1>15. TablesHold'
  <2> SUFFICES ASSUME ~ spread', NEW c \in Classes
               PROVE  /\ IF c < Len(callbacks')
                         THEN Holds(callbacks'[c + 1], callbackGiven'[c], Ordinals, None)
                         ELSE NothingGiven(c)'
                      /\ c >= Slack => NothingGiven(c)'
    BY DEF TablesHold
  <2>1. ~ spread /\ ~ (class >= Slack) BY Zenon DEF SetPointerCallback
  <2>2. class < Slack /\ c \in Nat BY <1>1, <2>1
  <2>3. /\ IF c < Len(callbacks) THEN Holds(callbacks[c + 1], callbackGiven[c], Ordinals, None)
           ELSE NothingGiven(c)
        /\ c >= Slack => NothingGiven(c)
    BY <2>1 DEF CallbackInv, TablesHold
  <2>4. ASSUME c < Len(room)
        PROVE  Holds(room[c + 1], callbackGiven[c], Ordinals, None)
    <3>1. c + 1 \in 1 .. Len(room) BY <1>6, <2>2, <2>4
    <3>2. CASE c < Len(callbacks)
      <4>1. room[c + 1] = callbacks[c + 1] BY <1>5, <1>6, <2>2, <3>1, <3>2
      <4> QED BY <2>3, <3>2, <4>1
    <3>3. CASE ~ (c < Len(callbacks))
      <4>1. room[c + 1] = <<>> BY <1>5, <1>6, <2>2, <3>1, <3>3
      <4>2. \A o \in Ordinals : callbackGiven[c][o] = None BY <2>3, <3>3 DEF NothingGiven
      <4>3. \A o \in Ordinals : ~ (o < Len(<<>>)) BY <1>1
      <4> QED BY <4>1, <4>2, <4>3 DEF Holds
    <3> QED BY <3>2, <3>3
  <2>5. CASE c # class
    <3>1. callbackGiven'[c] = callbackGiven[c] BY <1>12, <2>5
    <3>2. NothingGiven(c)' <=> NothingGiven(c) BY <3>1 DEF NothingGiven
    <3>3. CASE c < Len(room)
      <4>1. callbacks'[c + 1] = room[c + 1] BY <1>11, <2>2, <2>5, <3>3
      <4> QED BY <1>11, <2>3, <2>4, <3>1, <3>2, <3>3, <4>1
    <3>4. CASE ~ (c < Len(room))
      <4>1. NothingGiven(c)
        <5>1. CASE Len(callbacks) >= class
          <6>1. c >= Slack BY <1>1, <1>5, <1>6, <2>2, <3>4, <5>1
          <6> QED BY <2>3, <6>1
        <5>2. CASE ~ (Len(callbacks) >= class)
          <6>1. room = callbacks BY <1>1, <1>5, <1>6, <5>2
          <6> QED BY <2>3, <3>4, <6>1
        <5> QED BY <5>1, <5>2
      <4> QED BY <1>11, <3>2, <3>4, <4>1
    <3> QED BY <3>3, <3>4
  <2>6. CASE c = class
    <3>1. Holds(local, callbackGiven'[class], Ordinals, None)
      BY <1>4, <1>10, <2>4, <2>6
    <3>2. ~ (c >= Slack) BY <2>1, <2>6
    <3> QED BY <1>4, <1>11, <2>6, <3>1, <3>2
  <2> QED BY <2>5, <2>6
<1>16. Len(callbacks') >= Slack
  <2>1. CASE Len(callbacks) >= class BY <1>1, <1>5, <1>11, <2>1
  <2>2. CASE ~ (Len(callbacks) >= class)
    <3>1. room = callbacks /\ callbacks # <<>> BY <1>1, <1>4, <1>5, <1>6, <2>2
    <3> QED BY <1>11, <3>1 DEF CallbackInv
  <2> QED BY <2>1, <2>2
<1> QED BY <1>13, <1>14, <1>15, <1>16 DEF CallbackInv

(* Only a handler outside the first block, or the first one with an ordinal *)
(* above 0, makes the code index behind the end.                            *)
LEMMA SetPointerCallbackOutsideInv ==
  ASSUME CallbackInv, NEW class \in Classes, SetPointerCallbackOutside(class)
  PROVE  CallbackInv' /\ spread'
<1>1. class \in Nat /\ Slack \in Nat /\ Slack > 0 BY ClassesAreNumbers, SlackAssumption
<1>2. CallbackTypes /\ Len(callbacks) \in Nat BY DEF CallbackInv, CallbackTypes
<1>3. class >= Len(CallbackTable(class)) BY DEF SetPointerCallbackOutside
<1>4. Len(callbacks) < class
  <2>1. Len(callbacks) >= class => Len(CallbackTable(class)) = class + Slack
    BY <1>1, <1>2, CallbackTableVector
  <2> QED BY <1>1, <1>2, <1>3, <2>1
<1>5. callbacks = <<>> \/ class >= Slack BY <1>1, <1>2, <1>4 DEF CallbackInv
<1>6. spread' BY <1>5, Zenon DEF SetPointerCallbackOutside
<1>7. spread' \in BOOLEAN BY Zenon DEF SetPointerCallbackOutside
<1>8. callbacks' = callbacks /\ callbackGiven' = callbackGiven
  BY DEF SetPointerCallbackOutside
<1>9. CallbackTypes' BY <1>7, <1>8 DEF CallbackInv, CallbackTypes
<1>10. EntriesGiven' BY <1>8 DEF CallbackInv, EntriesGiven
<1>11. TablesHold' BY <1>6 DEF TablesHold
<1> QED BY <1>6, <1>8, <1>9, <1>10, <1>11 DEF CallbackInv

LEMMA CallbackStutter == CallbackInv /\ UNCHANGED table => CallbackInv'
<1> SUFFICES ASSUME CallbackInv, UNCHANGED table PROVE CallbackInv' OBVIOUS
<1>1. callbacks' = callbacks /\ callbackGiven' = callbackGiven /\ spread' = spread
  BY DEF table
<1>2. CallbackTypes'
  <2>1. spread' \in BOOLEAN BY <1>1, Zenon DEF CallbackInv, CallbackTypes
  <2> QED BY <1>1, <2>1 DEF CallbackInv, CallbackTypes
<1>3. EntriesGiven' BY <1>1 DEF CallbackInv, EntriesGiven
<1>4. TablesHold' BY <1>1 DEF CallbackInv, TablesHold, NothingGiven
<1> QED BY <1>1, <1>2, <1>3, <1>4 DEF CallbackInv

(* The callback Handle finds is the one that was set last. *)
LEMMA CallbackForGiven ==
  ASSUME CallbackInv, NEW h \in Handlers, NEW o \in Ordinals
  PROVE  /\ CallbackFor(h, o) \in CallbackSet
         /\ CallbackFor(h, o) # None => CallbackFor(h, o) = callbackGiven[ClassOf[h]][o]
         /\ ~ spread => CallbackFor(h, o) = callbackGiven[ClassOf[h]][o]
<1> DEFINE c == ClassOf[h]
           local == callbacks[c + 1]
<1>1. c \in Classes /\ c \in Nat /\ o \in Nat BY ClassesAreNumbers, RegistryAssumption
<1>2. callbacks \in Seq(Seq(CallbackSet)) /\ Len(callbacks) \in Nat
  BY DEF CallbackInv, CallbackTypes
<1>3. CallbackFor(h, o) = IF c >= Len(callbacks) THEN None
                          ELSE IF o >= Len(local) THEN None ELSE local[o + 1]
  BY DEF CallbackFor
<1> HIDE DEF c
<1>4. CASE c >= Len(callbacks)
  <2>1. CallbackFor(h, o) = None BY <1>3, <1>4
  <2>2. ~ spread => callbackGiven[c][o] = None
    BY <1>1, <1>2, <1>4 DEF CallbackInv, TablesHold, NothingGiven
  <2> QED BY <2>1, <2>2 DEF CallbackSet, c
<1>5. CASE ~ (c >= Len(callbacks))
  <2>1. c < Len(callbacks) /\ c + 1 \in 1 .. Len(callbacks) BY <1>1, <1>2, <1>5
  <2>2. local \in Seq(CallbackSet) BY <1>2, <2>1, ElementOfSeq
  <2>3. ~ spread => Holds(local, callbackGiven[c], Ordinals, None)
    BY <1>1, <2>1 DEF CallbackInv, TablesHold
  <2>4. \A p \in Ordinals : p < Len(local) => local[p + 1] \in {None, callbackGiven[c][p]}
    BY <1>1, <2>1 DEF CallbackInv, EntriesGiven
  <2> HIDE DEF local
  <2>5. Len(local) \in Nat BY <2>2
  <2>6. CASE o >= Len(local)
    <3>1. CallbackFor(h, o) = None BY <1>3, <1>5, <2>6
    <3>2. ~ spread => callbackGiven[c][o] = None BY <1>1, <2>3, <2>5, <2>6 DEF Holds
    <3> QED BY <3>1, <3>2 DEF CallbackSet, c
  <2>7. CASE ~ (o >= Len(local))
    <3>1. o < Len(local) /\ o + 1 \in 1 .. Len(local) BY <1>1, <2>5, <2>7
    <3>2. CallbackFor(h, o) = local[o + 1] BY <1>3, <1>5, <2>7
    <3>3. local[o + 1] \in CallbackSet BY <2>2, <3>1, ElementOfSeq
    <3>4. local[o + 1] \in {None, callbackGiven[c][o]} BY <2>4, <3>1
    <3>5. ~ spread => local[o + 1] = callbackGiven[c][o] BY <2>3, <3>1 DEF Holds
    <3> QED BY <3>2, <3>3, <3>4, <3>5 DEF c
  <2> QED BY <2>6, <2>7
<1> QED BY <1>4, <1>5

-----------------------------------------------------------------------------
(* The loop over the handlers. *)

Answers == {"true", "false", "error"}
AskedLists == Seq([handler : Handlers, answer : Answers])

Turns ==
  [stage : {"asking", "callback", "done"}, at : Nat, id : Ids \cup {None},
   ordinal : Ordinals, wanted : Ordinals \cup {None}, size : Nat, read : Nat,
   handler : Handlers \cup {None}, callback : CallbackSet,
   asked : AskedLists, present : SUBSET Handlers]

Listed(h) == \E i \in 1 .. Len(packetHandlers) : packetHandlers[i] = h
Offered(h) == \E k \in 1 .. Len(turn.asked) : turn.asked[k].handler = h
WasMain(h) == h = mainPacketHandler \/ h \in deleted

(* A handler is in one place of the connection, until it is deleted.        *)
HandlerInv ==
  /\ mainPacketHandler \in Handlers \ deleted
  /\ packetHandlers \in Seq(Handlers)
  /\ \A h \in Handlers : Listed(h) => ~ WasMain(h)
  /\ \A i, j \in 1 .. Len(packetHandlers) : packetHandlers[i] = packetHandlers[j] => i = j

(* The handler whose callback runs is still the element the loop is at, or  *)
(* is or was the main handler.                                              *)
Asks(h) == IF turn.at = 0 THEN WasMain(h) ELSE packetHandlers[turn.at] = h

(* While a packet is offered: those that were asked are a main handler and  *)
(* handlers in front of the loop's position, all those among them that were *)
(* in the list when the packet arrived, and those that are not in front of  *)
(* the position are still in the list.                                      *)
Progress ==
  /\ \A h \in turn.present : Listed(h)
  /\ turn.at = 0 <=> Len(turn.asked) = 0
  /\ \A k \in 1 .. Len(turn.asked) :
       IF k = 1 THEN WasMain(turn.asked[1].handler)
       ELSE \E i \in 1 .. turn.at - 1 : packetHandlers[i] = turn.asked[k].handler
  /\ \A i \in 1 .. turn.at - 1 : packetHandlers[i] \in turn.present =>
       Offered(packetHandlers[i])
  /\ turn.stage = "callback" => turn.handler \in Handlers /\ Asks(turn.handler)

AskInv ==
  /\ turn \in Turns
  /\ turn.at <= Len(packetHandlers)
  /\ turn.stage = "done" => turn.at = 0
  /\ turn.stage # "done" => Progress
  /\ HandlersAskedInTurn

OfferedHandlers == {h \in Handlers : Offered(h)}

(* What the packet at hand was resolved to, and how far it was read. *)
TurnInv ==
  /\ EachReaderReadsOn
  /\ IsFiniteSet(OfferedHandlers)
  /\ turn.ordinal = IF turn.wanted = None THEN 0 ELSE turn.wanted
  /\ turn.stage = "callback" =>
       turn.callback = callbackGiven[ClassOf[turn.handler]][turn.ordinal]

HaltInv ==
  /\ halted \in {"no", "callbacks", "registry", "looping"}
  /\ halted = "callbacks" => spread

IInv == RegistryInv /\ CallbackInv /\ HandlerInv /\ AskInv /\ TurnInv /\ HaltInv

LEMMA TurnFields ==
  ASSUME AskInv
  PROVE  /\ turn.stage \in {"asking", "callback", "done"} /\ turn.at \in Nat
         /\ turn.ordinal \in Ordinals /\ turn.wanted \in Ordinals \cup {None}
         /\ turn.size \in Nat /\ turn.read \in Nat
         /\ turn.handler \in Handlers \cup {None} /\ turn.callback \in CallbackSet
         /\ turn.asked \in Seq([handler : Handlers, answer : Answers])
         /\ turn.present \subseteq Handlers
BY DEF AskInv, Turns, AskedLists

LEMMA TurnUpdated ==
  ASSUME NEW record \in Turns, NEW asked \in AskedLists,
         NEW stage \in {"asking", "callback", "done"}, NEW at \in Nat
  PROVE  [record EXCEPT !.asked = asked, !.stage = stage, !.at = at] \in Turns
BY DEF Turns

LEMMA ListedHandlers ==
  ASSUME HandlerInv
  PROVE  /\ Len(packetHandlers) \in Nat
         /\ \A i \in 1 .. Len(packetHandlers) :
              /\ packetHandlers[i] \in Handlers /\ Listed(packetHandlers[i])
              /\ ~ WasMain(packetHandlers[i])
<1>1. packetHandlers \in Seq(Handlers) /\ Len(packetHandlers) \in Nat BY DEF HandlerInv
<1>2. ASSUME NEW i \in 1 .. Len(packetHandlers) PROVE packetHandlers[i] \in Handlers
  BY <1>1, ElementOfSeq
<1>3. \A i \in 1 .. Len(packetHandlers) : Listed(packetHandlers[i]) BY DEF Listed
<1> QED BY <1>1, <1>2, <1>3 DEF HandlerInv

(* An answer ends the search or leads to the next handler of the list.      *)
LEMMA AnswerInv ==
  ASSUME HandlerInv, AskInv, turn.stage # "done", UNCHANGED connection,
         NEW h \in Handlers, Asks(h), NEW answer \in Answers,
         NEW record \in Turns, record.at = turn.at, record.asked = turn.asked,
         record.present = turn.present, Answer(h, answer, record)
  PROVE  /\ AskInv'
         /\ turn'.stage # "callback" /\ turn'.ordinal = record.ordinal
         /\ turn'.wanted = record.wanted /\ turn'.size = record.size
         /\ turn'.read = record.read
         /\ turn'.asked = Append(turn.asked, [handler |-> h, answer |-> answer])
<1> DEFINE a == turn.asked
           e == [handler |-> h, answer |-> answer]
           b == Append(a, e)
           at == turn.at
           n == Len(packetHandlers)
           N == Len(a)
           over == answer = "true" \/ (answer = "error" /\ at = 0) \/ at = n
           E == [handler : Handlers, answer : Answers]
<1>1. /\ at \in Nat /\ a \in Seq(E) /\ N \in Nat /\ n \in Nat /\ at <= n
      /\ turn.present \subseteq Handlers
  BY TurnFields, ListedHandlers DEF AskInv
<1>2. e \in E /\ e.handler = h /\ e.answer = answer OBVIOUS
<1>3. /\ b \in Seq(E) /\ Len(b) = N + 1 /\ b[N + 1] = e
      /\ \A k \in 1 .. N : b[k] = a[k]
  <2> HIDE DEF a, e, E
  <2> QED BY <1>1, <1>2, AppendProperties
<1>4. /\ turn' = [record EXCEPT !.asked = b,
                    !.stage = NextStage(answer, at),
                    !.at = IF NextStage(answer, at) = "asking" THEN at + 1 ELSE 0]
  BY DEF Answer
<1>5. NextStage(answer, at) = IF over THEN "done" ELSE "asking" BY DEF NextStage
<1>6. /\ turn'.asked = b /\ turn'.stage = (IF over THEN "done" ELSE "asking")
      /\ turn'.at = (IF over THEN 0 ELSE at + 1) /\ turn'.present = turn.present
      /\ turn'.ordinal = record.ordinal /\ turn'.wanted = record.wanted
      /\ turn'.size = record.size /\ turn'.read = record.read
  <2> HIDE DEF b, at, over
  <2> QED BY <1>4, <1>5 DEF Turns
<1>7. turn' \in Turns
  <2>1. NextStage(answer, at) \in {"asking", "callback", "done"} BY <1>5
  <2>2. (IF NextStage(answer, at) = "asking" THEN at + 1 ELSE 0) \in Nat BY <1>1
  <2>3. b \in AskedLists BY <1>3 DEF AskedLists
  <2> HIDE DEF b, at, over
  <2> QED BY <1>4, <2>1, <2>2, <2>3, TurnUpdated
<1>8. /\ packetHandlers' = packetHandlers /\ mainPacketHandler' = mainPacketHandler
      /\ deleted' = deleted
  BY DEF connection
<1>9. Progress BY DEF AskInv
<1>10. at = 0 <=> N = 0 BY <1>9 DEF Progress
<1>11. \A k \in 1 .. N : a[k] \in E BY <1>1, ElementOfSeq
<1>12. /\ \A k \in 1 .. N : ~ (a[k].answer = "true") /\ ~ (k = 1 /\ a[k].answer = "error")
       /\ \A j, k \in 1 .. N : a[j].handler = a[k].handler => j = k
  BY DEF AskInv, HandlersAskedInTurn
<1>13. at > 0 => at \in 1 .. n /\ h = packetHandlers[at] /\ ~ WasMain(h)
  BY <1>1, ListedHandlers DEF Asks
<1>14. ASSUME NEW k \in 1 .. N PROVE a[k].handler # h
  <2>1. N > 0 /\ at > 0 BY <1>1, <1>10
  <2>2. CASE k = 1 BY <1>9, <1>13, <2>1, <2>2 DEF Progress
  <2>3. CASE k # 1
    <3>1. PICK i \in 1 .. at - 1 : packetHandlers[i] = a[k].handler
      BY <1>9, <2>3 DEF Progress
    <3>2. i \in 1 .. n /\ at \in 1 .. n /\ i # at BY <1>1, <2>1
    <3> QED BY <1>13, <2>1, <3>1, <3>2 DEF HandlerInv
  <2> QED BY <2>2, <2>3
<1> HIDE DEF a, e, b, at, n, N, over, E
<1>15. HandlersAskedInTurn'
  <2> DEFINE ended(i) == b[i].answer = "true" \/ (i = 1 /\ b[i].answer = "error")
  <2>1. ASSUME NEW i \in 1 .. N + 1, ended(i) PROVE i = N + 1 /\ over
    <3>1. i = N + 1
      <4>1. i \in 1 .. N => b[i] = a[i] /\ ~ ended(i)
        <5> SUFFICES ASSUME i \in 1 .. N PROVE b[i] = a[i] /\ ~ ended(i) OBVIOUS
        <5>1. b[i] = a[i] BY <1>3
        <5> QED BY <1>12, <5>1
      <4> QED BY <1>1, <2>1, <4>1
    <3>2. b[i] = e BY <1>3, <3>1
    <3>3. answer = "true" \/ (i = 1 /\ answer = "error") BY <1>2, <2>1, <3>2
    <3>4. i = 1 => at = 0 BY <1>1, <1>10, <3>1
    <3> QED BY <3>1, <3>3, <3>4 DEF over
  <2>2. ASSUME NEW i \in 1 .. N + 1, NEW j \in 1 .. N + 1, b[i].handler = b[j].handler
        PROVE  i = j
    <3>1. (i \in 1 .. N \/ i = N + 1) /\ (j \in 1 .. N \/ j = N + 1) BY <1>1
    <3>2. CASE i \in 1 .. N /\ j \in 1 .. N BY <1>3, <1>12, <2>2, <3>2
    <3>3. CASE i \in 1 .. N /\ j = N + 1 BY <1>2, <1>3, <1>14, <2>2, <3>3
    <3>4. CASE i = N + 1 /\ j \in 1 .. N BY <1>2, <1>3, <1>14, <2>2, <3>4
    <3> QED BY <3>1, <3>2, <3>3, <3>4
  <2>3. ASSUME over, \A i \in 1 .. N + 1 : ~ ended(i), NEW g \in turn.present
        PROVE  \E k \in 1 .. N + 1 : b[k].handler = g
    <3>1. N + 1 \in 1 .. N + 1 BY <1>1
    <3>2. b[N + 1].answer = answer BY <1>2, <1>3
    <3>3. answer # "true" BY <2>3, <3>1, <3>2
    <3>4. ~ (answer = "error" /\ at = 0)
      <4>1. SUFFICES ASSUME answer = "error", at = 0 PROVE FALSE OBVIOUS
      <4>2. N + 1 = 1 BY <1>1, <1>10, <4>1
      <4> QED BY <2>3, <3>1, <3>2, <4>1, <4>2
    <3>5. at = n BY <2>3, <3>3, <3>4 DEF over
    <3>6. Listed(g) BY <1>9 DEF Progress
    <3>7. PICK i \in 1 .. n : packetHandlers[i] = g BY <3>6 DEF Listed, n
    <3>8. CASE i = at
      <4>1. g = h BY <1>1, <1>13, <3>7, <3>8
      <4> QED BY <1>2, <1>3, <3>1, <4>1
    <3>9. CASE i # at
      <4>1. i \in 1 .. at - 1 BY <1>1, <3>5, <3>9
      <4>2. Offered(packetHandlers[i]) BY <1>9, <3>7, <4>1 DEF Progress, at
      <4>3. PICK k \in 1 .. N : a[k].handler = g BY <3>7, <4>2 DEF Offered, a, N
      <4>4. k \in 1 .. N + 1 BY <1>1
      <4> QED BY <1>3, <4>3, <4>4
    <3> QED BY <3>8, <3>9
  <2>4. turn'.stage = "done" <=> over BY <1>6
  <2>5. Len(turn'.asked) = N + 1 BY <1>3, <1>6
  <2> QED BY <1>6, <2>1, <2>2, <2>3, <2>4, <2>5 DEF HandlersAskedInTurn
<1>16. turn'.stage # "done" => Progress'
  <2> SUFFICES ASSUME ~ over PROVE Progress' BY <1>6
  <2>1. turn'.at = at + 1 /\ turn'.stage = "asking" BY <1>6
  <2>2. turn'.at - 1 = at BY <1>1, <2>1
    <2>3. \A g \in turn'.present : \E i \in 1 .. Len(packetHandlers') : packetHandlers'[i] = g
    BY <1>6, <1>8, <1>9 DEF Progress, Listed
  <2>4. turn'.at = 0 <=> Len(turn'.asked) = 0 BY <1>1, <1>3, <1>6, <2>1
  <2>5. ASSUME NEW k \in 1 .. Len(turn'.asked)
        PROVE  IF k = 1 THEN \/ turn'.asked[1].handler = mainPacketHandler'
                             \/ turn'.asked[1].handler \in deleted'
               ELSE \E i \in 1 .. turn'.at - 1 : packetHandlers'[i] = turn'.asked[k].handler
    <3>1. k \in 1 .. N + 1 BY <1>3, <1>6
    <3>2. CASE k = N + 1
      <4>1. turn'.asked[k].handler = h BY <1>2, <1>3, <1>6, <3>2
      <4>2. CASE k = 1
        <5>1. at = 0 BY <1>1, <1>10, <3>2, <4>2
        <5>2. WasMain(h) BY <5>1 DEF Asks, at
        <5> QED BY <1>8, <4>1, <4>2, <5>2 DEF WasMain
      <4>3. CASE k # 1
        <5>1. at > 0 BY <1>1, <1>10, <3>2, <4>3
        <5>2. at \in 1 .. at /\ packetHandlers[at] = h BY <1>1, <1>13, <5>1
        <5> QED BY <1>8, <2>1, <2>2, <4>1, <4>3, <5>2
      <4> QED BY <4>2, <4>3
    <3>3. CASE k # N + 1
      <4>1. k \in 1 .. N BY <1>1, <3>1, <3>3
      <4>2. turn'.asked[k] = a[k] BY <1>3, <1>6, <4>1
      <4>3. IF k = 1 THEN WasMain(a[1].handler)
            ELSE \E i \in 1 .. at - 1 : packetHandlers[i] = a[k].handler
        BY <1>9, <4>1 DEF Progress, a, at, N
      <4>4. CASE k = 1 BY <1>8, <4>2, <4>3, <4>4 DEF WasMain
      <4>5. CASE k # 1
        <5>1. PICK i \in 1 .. at - 1 : packetHandlers[i] = a[k].handler BY <4>3, <4>5
        <5>2. i \in 1 .. at BY <1>1
        <5> QED BY <1>8, <2>1, <2>2, <4>2, <4>5, <5>1, <5>2
      <4> QED BY <4>4, <4>5
    <3> QED BY <3>2, <3>3
  <2>6. ASSUME NEW i \in 1 .. turn'.at - 1, packetHandlers'[i] \in turn'.present
        PROVE  \E k \in 1 .. Len(turn'.asked) : turn'.asked[k].handler = packetHandlers'[i]
    <3>1. i \in 1 .. at /\ packetHandlers[i] \in turn.present BY <1>6, <1>8, <2>2, <2>6
    <3>2. SUFFICES \E k \in 1 .. N + 1 : b[k].handler = packetHandlers[i]
      BY <1>3, <1>6, <1>8
    <3>3. CASE i = at
      <4>1. packetHandlers[i] = h BY <1>1, <1>13, <3>1, <3>3
      <4> QED BY <1>1, <1>2, <1>3, <4>1
    <3>4. CASE i # at
      <4>1. i \in 1 .. at - 1 BY <1>1, <3>1, <3>4
      <4>2. Offered(packetHandlers[i]) BY <1>9, <3>1, <4>1 DEF Progress, at
      <4>3. PICK k \in 1 .. N : a[k].handler = packetHandlers[i]
        BY <4>2 DEF Offered, a, N
      <4>4. k \in 1 .. N + 1 BY <1>1
      <4> QED BY <1>3, <4>3, <4>4
    <3> QED BY <3>3, <3>4
  <2>7. turn'.stage # "callback" BY <2>1
  <2> QED BY <2>3, <2>4, <2>5, <2>6, <2>7 DEF Progress, Listed, WasMain, Offered
<1>17. turn'.at <= Len(packetHandlers') /\ (turn'.stage = "done" => turn'.at = 0)
  <2>1. ~ over => at # n BY DEF over
  <2> QED BY <1>1, <1>6, <1>8, <2>1 DEF n
<1>18. AskInv' BY <1>7, <1>15, <1>16, <1>17 DEF AskInv
<1> QED BY <1>6, <1>18 DEF a, b, e

(* Inserting a handler moves those behind it. *)
Shifted(list, old, h, n) ==
  /\ list \in Seq(Handlers) /\ Len(list) = Len(old) + 1 /\ list[n] = h
  /\ \A i \in 1 .. Len(old) : list[IF i < n THEN i ELSE i + 1] = old[i]

IsConcat(l, a, b) ==
  /\ l \in Seq(Handlers) /\ Len(l) = Len(a) + Len(b)
  /\ \A i \in 1 .. Len(a) + Len(b) : l[i] = IF i <= Len(a) THEN a[i] ELSE b[i - Len(a)]

LEMMA HandlersConcat ==
  ASSUME NEW a \in Seq(Handlers), NEW b \in Seq(Handlers)
  PROVE  IsConcat(a \o b, a, b)
BY ConcatProperties DEF IsConcat

LEMMA InsertedList ==
  ASSUME NEW old \in Seq(Handlers), NEW h \in Handlers, NEW n \in 1 .. Len(old) + 1
  PROVE  Shifted(SubSeq(old, 1, n - 1) \o <<h>> \o SubSeq(old, n, Len(old)), old, h, n)
<1> DEFINE front == SubSeq(old, 1, n - 1)
           back == SubSeq(old, n, Len(old))
           list == front \o <<h>> \o back
           N == Len(old)
<1>1. N \in Nat /\ n \in Nat /\ n >= 1 /\ n <= N + 1 OBVIOUS
<1>2. /\ front \in Seq(Handlers) /\ Len(front) = n - 1
      /\ \A i \in 1 .. n - 1 : front[i] = old[i]
  <2>1. \A i \in 1 .. n - 1 : old[i] \in Handlers
    <3>1. \A i \in 1 .. n - 1 : i \in 1 .. N BY <1>1
    <3> QED BY <3>1, ElementOfSeq
  <2> QED BY <1>1, <2>1, SubSeqProperties
<1>3. /\ back \in Seq(Handlers) /\ Len(back) = N - n + 1
      /\ \A i \in 1 .. N - n + 1 : back[i] = old[n + i - 1]
  <2>1. n \in 1 .. N + 1 /\ N \in n - 1 .. N BY <1>1
  <2> QED BY <1>1, <2>1, SubSeqProperties
<1> DEFINE one == <<h>>
           left2 == front \o one
<1>4. one \in Seq(Handlers) /\ Len(one) = 1 /\ one[1] = h OBVIOUS
<1> HIDE DEF front, back, N, one
<1>5. /\ left2 \in Seq(Handlers) /\ Len(left2) = n
      /\ left2[n] = h /\ \A i \in 1 .. n - 1 : left2[i] = old[i]
  <2>1. /\ left2 \in Seq(Handlers) /\ Len(left2) = Len(front) + 1
        /\ \A i \in 1 .. Len(front) + 1 :
             left2[i] = IF i <= Len(front) THEN front[i] ELSE one[i - Len(front)]
    <3>1. front \in Seq(Handlers) BY <1>2
    <3>2. one \in Seq(Handlers) BY <1>4
    <3>3. IsConcat(front \o one, front, one) BY <3>1, <3>2, HandlersConcat
    <3>4. IsConcat(left2, front, one) BY <3>3
    <3> HIDE DEF left2, list
    <3> QED BY <1>4, <3>4 DEF IsConcat
  <2> HIDE DEF left2
  <2>2. Len(left2) = n BY <1>1, <1>2, <2>1
  <2>3. left2[n] = h
    <3>1. n \in 1 .. Len(front) + 1 /\ ~ (n <= Len(front)) /\ n - Len(front) = 1 BY <1>1, <1>2
    <3> QED BY <1>4, <2>1, <3>1
  <2>4. ASSUME NEW i \in 1 .. n - 1 PROVE left2[i] = old[i]
    <3>1. i \in 1 .. Len(front) + 1 /\ i <= Len(front) BY <1>1, <1>2
    <3> QED BY <1>2, <2>1, <3>1
  <2> QED BY <2>1, <2>2, <2>3, <2>4
<1>6. /\ list \in Seq(Handlers) /\ Len(list) = N + 1
      /\ \A i \in 1 .. n : list[i] = left2[i]
      /\ \A i \in n + 1 .. N + 1 : list[i] = back[i - n]
  <2> HIDE DEF left2
  <2>1. /\ left2 \o back \in Seq(Handlers) /\ Len(left2 \o back) = Len(left2) + Len(back)
        /\ \A i \in 1 .. Len(left2) + Len(back) :
             (left2 \o back)[i] = IF i <= Len(left2) THEN left2[i] ELSE back[i - Len(left2)]
    <3>1. left2 \in Seq(Handlers) BY <1>5
    <3>2. back \in Seq(Handlers) BY <1>3
    <3>3. IsConcat(left2 \o back, left2, back) BY <3>1, <3>2, HandlersConcat
    <3> HIDE DEF list
    <3> QED BY <3>3 DEF IsConcat
  <2>2. list = left2 \o back BY DEF left2, one
  <2> HIDE DEF list
  <2>3. Len(list) = N + 1 BY <1>1, <1>3, <1>5, <2>1, <2>2
  <2>4. ASSUME NEW i \in 1 .. n PROVE list[i] = left2[i]
    <3>1. i \in 1 .. Len(left2) + Len(back) /\ i <= Len(left2) BY <1>1, <1>3, <1>5
    <3> QED BY <2>1, <2>2, <3>1
  <2>5. ASSUME NEW i \in n + 1 .. N + 1 PROVE list[i] = back[i - n]
    <3>1. i \in 1 .. Len(left2) + Len(back) /\ ~ (i <= Len(left2)) BY <1>1, <1>3, <1>5
    <3> QED BY <1>5, <2>1, <2>2, <3>1
  <2> QED BY <2>1, <2>2, <2>3, <2>4, <2>5
<1> HIDE DEF left2, list
<1>7. list[n] = h BY <1>1, <1>5, <1>6
<1>8. ASSUME NEW i \in 1 .. N PROVE list[IF i < n THEN i ELSE i + 1] = old[i]
  <2>1. CASE i < n
    <3>1. i \in 1 .. n /\ i \in 1 .. n - 1 BY <1>1, <2>1
    <3> QED BY <1>5, <1>6, <2>1, <3>1
  <2>2. CASE ~ (i < n)
    <3>1. i + 1 \in n + 1 .. N + 1 BY <1>1, <2>2
    <3>2. i + 1 - n \in 1 .. N - n + 1 /\ n + (i + 1 - n) - 1 = i BY <1>1, <2>2
    <3> QED BY <1>3, <1>6, <2>2, <3>1, <3>2
  <2> QED BY <2>1, <2>2
<1> QED BY <1>6, <1>7, <1>8 DEF Shifted, list, N, front, back

(* A handler that is inserted during the loop, wherever, leaves the loop at *)
(* its element and what was asked as it is.                                 *)
LEMMA InsertInv ==
  ASSUME HandlerInv, AskInv, turn.stage # "asking",
         NEW h \in Handlers, Fresh(h), NEW n \in 1 .. Len(packetHandlers) + 1, Insert(h, n)
  PROVE  /\ HandlerInv' /\ AskInv'
         /\ turn' = [turn EXCEPT !.at = turn'.at]
<1> DEFINE N == Len(packetHandlers)
           at == turn.at
           up(i) == IF i < n THEN i ELSE i + 1
<1>1. /\ packetHandlers \in Seq(Handlers) /\ N \in Nat /\ n \in Nat /\ n >= 1 /\ n <= N + 1
      /\ at \in Nat /\ at <= N
  BY TurnFields DEF HandlerInv, AskInv
<1>2. Shifted(packetHandlers', packetHandlers, h, n) BY <1>1, InsertedList DEF Insert
<1>3. /\ mainPacketHandler' = mainPacketHandler /\ deleted' = deleted
      /\ turn' = [turn EXCEPT !.at = IF n <= at THEN at + 1 ELSE at]
  BY DEF Insert
<1>4. /\ turn'.at = IF n <= at THEN at + 1 ELSE at
      /\ turn'.stage = turn.stage /\ turn'.asked = turn.asked
      /\ turn'.present = turn.present /\ turn'.handler = turn.handler
      /\ turn' = [turn EXCEPT !.at = turn'.at]
  <2>1. turn \in Turns BY DEF AskInv
  <2> HIDE DEF at
  <2> QED BY <1>3, <2>1 DEF Turns
<1>5. turn' \in Turns
  <2>1. turn \in Turns BY DEF AskInv
  <2>2. turn'.at \in Nat BY <1>1, <1>4
  <2> QED BY <1>4, <2>1, <2>2 DEF Turns
<1>6. /\ packetHandlers' \in Seq(Handlers) /\ Len(packetHandlers') = N + 1
      /\ packetHandlers'[n] = h /\ \A i \in 1 .. N : packetHandlers'[up(i)] = packetHandlers[i]
  BY <1>2 DEF Shifted
<1>7. ASSUME NEW j \in 1 .. N + 1, j # n
      PROVE  \E i \in 1 .. N : j = up(i) /\ packetHandlers'[j] = packetHandlers[i]
  <2>1. CASE j < n BY <1>1, <1>6, <2>1
  <2>2. CASE ~ (j < n)
    <3>1. j - 1 \in 1 .. N /\ up(j - 1) = j BY <1>1, <1>7, <2>2
    <3>2. packetHandlers'[up(j - 1)] = packetHandlers[j - 1] BY <1>6, <3>1
    <3> QED BY <3>1, <3>2
  <2> QED BY <2>1, <2>2
<1>8. h # mainPacketHandler /\ h \notin deleted /\ \A i \in 1 .. N : packetHandlers[i] # h
  BY DEF Fresh
<1>9. HandlerInv'
  <2>1. ASSUME NEW j \in 1 .. N + 1
        PROVE  packetHandlers'[j] # mainPacketHandler /\ packetHandlers'[j] \notin deleted
    <3>1. CASE j = n BY <1>6, <1>8, <3>1
    <3>2. CASE j # n
      <4>1. PICK i \in 1 .. N : packetHandlers'[j] = packetHandlers[i] BY <1>7, <3>2
      <4>2. ~ WasMain(packetHandlers[i]) BY ListedHandlers
      <4> QED BY <4>1, <4>2 DEF WasMain
    <3> QED BY <3>1, <3>2
  <2>2. ASSUME NEW j \in 1 .. N + 1, NEW k \in 1 .. N + 1, packetHandlers'[j] = packetHandlers'[k]
        PROVE  j = k
    <3>1. CASE j = n /\ k # n BY <1>6, <1>7, <1>8, <2>2, <3>1
    <3>2. CASE j # n /\ k = n BY <1>6, <1>7, <1>8, <2>2, <3>2
    <3>3. CASE j # n /\ k # n
      <4>1. PICK i \in 1 .. N : j = up(i) /\ packetHandlers'[j] = packetHandlers[i]
        BY <1>7, <3>3
      <4>2. PICK l \in 1 .. N : k = up(l) /\ packetHandlers'[k] = packetHandlers[l]
        BY <1>7, <3>3
      <4>3. i = l BY <2>2, <4>1, <4>2 DEF HandlerInv
      <4> QED BY <4>1, <4>2, <4>3
    <3> QED BY <3>1, <3>2, <3>3
  <2>3. mainPacketHandler' \in Handlers \ deleted' BY <1>3 DEF HandlerInv
  <2> QED BY <1>3, <1>6, <2>1, <2>2, <2>3 DEF HandlerInv, Listed, WasMain
<1>10. HandlersAskedInTurn' BY <1>4 DEF AskInv, HandlersAskedInTurn
<1>11. turn'.at <= Len(packetHandlers') /\ (turn'.stage = "done" => turn'.at = 0)
  BY <1>1, <1>4, <1>6 DEF AskInv
<1>12. turn'.stage # "done" => Progress'
  <2> SUFFICES ASSUME turn.stage = "callback" PROVE Progress'
    BY <1>4, TurnFields
  <2>1. Progress BY DEF AskInv
  <2>2. \A i \in 1 .. N : up(i) \in 1 .. N + 1 BY <1>1
  <2>3. \A i \in 1 .. at - 1 : i \in 1 .. N /\ up(i) \in 1 .. turn'.at - 1
    BY <1>1, <1>4
  <2>4. ASSUME NEW g \in turn'.present
        PROVE  \E i \in 1 .. Len(packetHandlers') : packetHandlers'[i] = g
    <3>1. PICK i \in 1 .. N : packetHandlers[i] = g BY <1>4, <2>1 DEF Progress, Listed
    <3> QED BY <1>6, <2>2, <3>1
  <2>5. turn'.at = 0 <=> Len(turn'.asked) = 0
    <3>1. turn'.at = 0 <=> at = 0 BY <1>1, <1>4
    <3> QED BY <1>4, <2>1, <3>1 DEF Progress
  <2>6. ASSUME NEW k \in 1 .. Len(turn'.asked)
        PROVE  IF k = 1 THEN \/ turn'.asked[1].handler = mainPacketHandler'
                             \/ turn'.asked[1].handler \in deleted'
               ELSE \E i \in 1 .. turn'.at - 1 : packetHandlers'[i] = turn'.asked[k].handler
    <3>1. CASE k = 1 BY <1>3, <1>4, <2>1, <3>1 DEF Progress, WasMain
    <3>2. CASE k # 1
      <4>1. PICK i \in 1 .. at - 1 : packetHandlers[i] = turn.asked[k].handler
        BY <1>4, <2>1, <3>2 DEF Progress
      <4>2. up(i) \in 1 .. turn'.at - 1 /\ packetHandlers'[up(i)] = packetHandlers[i]
        BY <1>6, <2>3
      <4> QED BY <1>4, <3>2, <4>1, <4>2
    <3> QED BY <3>1, <3>2
  <2>7. ASSUME NEW j \in 1 .. turn'.at - 1, packetHandlers'[j] \in turn'.present
        PROVE  \E k \in 1 .. Len(turn'.asked) : turn'.asked[k].handler = packetHandlers'[j]
    <3>1. j \in 1 .. N + 1 BY <1>1, <1>4
    <3>2. j # n
      <4>1. SUFFICES ASSUME j = n PROVE FALSE OBVIOUS
      <4>2. h \in turn.present BY <1>4, <1>6, <2>7, <4>1
      <4>3. Listed(h) BY <2>1, <4>2 DEF Progress
      <4> QED BY <1>8, <4>3 DEF Listed
    <3>3. PICK i \in 1 .. N : j = up(i) /\ packetHandlers'[j] = packetHandlers[i]
      BY <1>7, <3>1, <3>2
    <3>4. i \in 1 .. at - 1 BY <1>1, <1>4, <3>3
    <3>5. Offered(packetHandlers[i]) BY <1>4, <2>1, <2>7, <3>3, <3>4 DEF Progress
    <3> QED BY <1>4, <3>3, <3>5 DEF Offered
  <2>8. /\ turn'.handler \in Handlers
        /\ IF turn'.at = 0
           THEN turn'.handler = mainPacketHandler' \/ turn'.handler \in deleted'
           ELSE packetHandlers'[turn'.at] = turn'.handler
    <3>1. turn.handler \in Handlers /\ Asks(turn.handler) BY <2>1 DEF Progress
    <3>2. CASE at = 0
      <4>1. turn'.at = 0 BY <1>1, <1>4, <3>2
      <4> QED BY <1>3, <1>4, <3>1, <3>2, <4>1 DEF Asks, WasMain
    <3>3. CASE at # 0
      <4>1. at \in 1 .. N /\ turn'.at = up(at) /\ turn'.at # 0 BY <1>1, <1>4, <3>3
      <4>2. packetHandlers'[up(at)] = packetHandlers[at] BY <1>6, <4>1
      <4> QED BY <1>4, <3>1, <3>3, <4>1, <4>2 DEF Asks
    <3> QED BY <3>2, <3>3
  <2> QED BY <2>4, <2>5, <2>6, <2>7, <2>8 DEF Progress, Listed, WasMain, Offered, Asks
<1>13. AskInv' BY <1>5, <1>10, <1>11, <1>12 DEF AskInv
<1> QED BY <1>4, <1>9, <1>13

(* Replacing the main handler does not bring back one that was asked.       *)
LEMMA ReplaceInv ==
  ASSUME HandlerInv, AskInv, NEW h \in Handlers, Fresh(h), ReplaceMainPacketHandler(h)
  PROVE  HandlerInv' /\ AskInv'
<1>1. /\ mainPacketHandler' = h /\ deleted' = deleted \cup {mainPacketHandler}
      /\ packetHandlers' = packetHandlers /\ turn' = turn
  BY DEF ReplaceMainPacketHandler
<1>2. h # mainPacketHandler /\ h \notin deleted
      /\ \A i \in 1 .. Len(packetHandlers) : packetHandlers[i] # h
  BY DEF Fresh
<1>3. HandlerInv' BY <1>1, <1>2 DEF HandlerInv, Listed, WasMain
<1>4. Progress => Progress' BY <1>1 DEF Progress, Listed, WasMain, Offered, Asks
<1>5. HandlersAskedInTurn' BY <1>1 DEF AskInv, HandlersAskedInTurn
<1>6. AskInv' BY <1>1, <1>4, <1>5 DEF AskInv
<1> QED BY <1>3, <1>6

LEMMA ConnectionStutter ==
  HandlerInv /\ AskInv /\ UNCHANGED <<connection, turn>> => HandlerInv' /\ AskInv'
<1> SUFFICES ASSUME HandlerInv, AskInv, UNCHANGED <<connection, turn>>
             PROVE  HandlerInv' /\ AskInv'
  OBVIOUS
<1>1. /\ mainPacketHandler' = mainPacketHandler /\ deleted' = deleted
      /\ packetHandlers' = packetHandlers /\ turn' = turn
  BY DEF connection
<1>2. HandlerInv' BY <1>1 DEF HandlerInv, Listed, WasMain
<1>3. Progress => Progress' BY <1>1 DEF Progress, Listed, WasMain, Offered, Asks
<1>4. HandlersAskedInTurn' BY <1>1 DEF AskInv, HandlersAskedInTurn
<1> QED BY <1>1, <1>2, <1>3, <1>4 DEF AskInv

-----------------------------------------------------------------------------
(* The steps. *)

LEMMA InitInv == Init => IInv
<1> SUFFICES ASSUME Init PROVE IInv OBVIOUS
<1>1. RegistryInv BY RegistryInitInv DEF Init
<1>2. CallbackInv BY CallbackInitInv
<1>3. /\ mainPacketHandler \in Handlers /\ packetHandlers = <<>> /\ deleted = {}
      /\ halted = "no"
  BY DEF Init
<1>4. turn = [stage |-> "done", at |-> 0, id |-> None, ordinal |-> 0, wanted |-> None,
              size |-> 0, read |-> 0, handler |-> None, callback |-> None,
              asked |-> <<>>, present |-> {}]
  BY DEF Init
<1>5. /\ turn.stage = "done" /\ turn.at = 0 /\ turn.ordinal = 0 /\ turn.wanted = None
      /\ turn.size = 0 /\ turn.read = 0 /\ turn.asked = <<>>
      /\ turn.present = {}
  BY <1>4
<1>6. HandlerInv BY <1>3 DEF HandlerInv, Listed
<1>7. turn \in Turns
  <2>1. <<>> \in AskedLists BY DEF AskedLists
  <2>2. 0 \in Ordinals /\ None \in CallbackSet BY RegistryAssumption DEF CallbackSet
  <2> QED BY <1>4, <2>1, <2>2 DEF Turns
<1>8. HandlersAskedInTurn BY <1>5 DEF HandlersAskedInTurn
<1>9. AskInv BY <1>3, <1>5, <1>7, <1>8 DEF AskInv
<1>10. TurnInv
  <2>1. OfferedHandlers = {} BY <1>5 DEF OfferedHandlers, Offered
  <2>2. IsFiniteSet(OfferedHandlers) BY <2>1, FS_EmptySet
  <2> QED BY <1>5, <2>2 DEF TurnInv, EachReaderReadsOn
<1>11. HaltInv BY <1>3 DEF HaltInv
<1> QED BY <1>1, <1>2, <1>6, <1>9, <1>10, <1>11 DEF IInv

LEMMA TurnStutter ==
  ASSUME TurnInv, turn' = turn,
         UNCHANGED <<callbackGiven, spread>> \/ turn.stage = "done"
  PROVE  TurnInv'
<1>1. IsFiniteSet(OfferedHandlers)' BY DEF TurnInv, OfferedHandlers, Offered
<1>2. CASE UNCHANGED <<callbackGiven, spread>>
  BY <1>1, <1>2 DEF TurnInv, EachReaderReadsOn, Readers
<1>3. CASE turn.stage = "done" BY <1>1, <1>3 DEF TurnInv, EachReaderReadsOn
<1> QED BY <1>2, <1>3

LEMMA RegistryStepInv == IInv /\ RegistryStep => IInv'
<1> SUFFICES ASSUME IInv, RegistryStep PROVE IInv' OBVIOUS
<1>1. UNCHANGED <<table, connection, turn, halted>> BY DEF RegistryStep
<1>2. RegistryInv'
  <2>1. RegistryInv BY DEF IInv
  <2>2. CASE \E r \in Registries, o \in Ordinals : Register(r, o)
    BY <2>1, <2>2, RegisterInv
  <2>3. CASE \E r \in Registries, o \in Ordinals, id \in Ids : RegisterAt(r, o, id)
    BY <2>1, <2>3, RegisterAtInv
  <2>4. CASE \E o \in Ordinals, c \in Constructors : RegisterConstructor(o, c)
    BY <2>1, <2>4, RegisterConstructorInv
  <2>5. CASE \E r \in Registries, v \in Versions : RegisterVersion(v, r)
    BY <2>1, <2>5, RegisterVersionInv
  <2>6. CASE \E r \in Registries : FillVersionRegistry(r)
    BY <2>1, <2>6, FillVersionRegistryInv
  <2> QED BY <2>2, <2>3, <2>4, <2>5, <2>6, Zenon DEF RegistryStep
<1>3. CallbackInv' BY <1>1, CallbackStutter DEF IInv
<1>4. HandlerInv' /\ AskInv' BY <1>1, ConnectionStutter DEF IInv
<1>5. TurnInv' BY <1>1, TurnStutter DEF IInv, table
<1>6. HaltInv' BY <1>1 DEF IInv, HaltInv, table
<1> QED BY <1>2, <1>3, <1>4, <1>5, <1>6 DEF IInv

LEMMA CallbackStepInv == IInv /\ halted = "no" /\ CallbackStep => IInv'
<1> SUFFICES ASSUME IInv, halted = "no", CallbackStep PROVE IInv' OBVIOUS
<1>1. UNCHANGED <<registryVars, connection, turn>> /\ turn.stage = "done"
  BY DEF CallbackStep
<1>2. CallbackInv' /\ HaltInv'
  <2>1. CallbackInv BY DEF IInv
  <2>2. ASSUME NEW c \in Classes, NEW o \in Ordinals, NEW f \in Callbacks,
               SetPointerCallback(c, o, f)
        PROVE  CallbackInv' /\ HaltInv'
    <3>1. CallbackInv' BY <2>1, <2>2, SetPointerCallbackInv
    <3>2. halted' = "no" BY <2>2 DEF SetPointerCallback
    <3> QED BY <3>1, <3>2 DEF HaltInv
  <2>3. ASSUME NEW c \in Classes, SetPointerCallbackOutside(c)
        PROVE  CallbackInv' /\ HaltInv'
    <3>1. CallbackInv' /\ spread' BY <2>1, <2>3, SetPointerCallbackOutsideInv
    <3>2. halted' = "callbacks" BY <2>3 DEF SetPointerCallbackOutside
    <3> QED BY <3>1, <3>2 DEF HaltInv
  <2> QED BY <2>2, <2>3, Zenon DEF CallbackStep
<1>3. RegistryInv' BY <1>1, RegistryStutter DEF IInv
<1>4. HandlerInv' /\ AskInv' BY <1>1, ConnectionStutter DEF IInv
<1>5. TurnInv' BY <1>1, TurnStutter DEF IInv
<1> QED BY <1>2, <1>3, <1>4, <1>5 DEF IInv

LEMMA HandlerStepInv == IInv /\ halted = "no" /\ HandlerStep => IInv'
<1> SUFFICES ASSUME IInv, halted = "no", HandlerStep PROVE IInv' OBVIOUS
<1>1. UNCHANGED <<registryVars, table>> /\ turn.stage # "asking" BY DEF HandlerStep
<1>2. HandlerInv /\ AskInv /\ TurnInv BY DEF IInv
<1> DEFINE Moved == turn' = [turn EXCEPT !.at = turn'.at]
           Goal == HandlerInv' /\ AskInv' /\ (turn' = turn \/ Moved)
                   /\ halted' \in {"no", "looping"}
<1>3. Len(packetHandlers) \in Nat BY <1>2, ListedHandlers
<1>4. ASSUME NEW h \in Handlers, Fresh(h), NEW n \in 1 .. Len(packetHandlers) + 1, Insert(h, n)
      PROVE  Goal
  <2>1. halted' = "no" BY <1>4 DEF Insert
  <2> QED BY <1>1, <1>2, <1>4, <2>1, InsertInv
<1>5. ASSUME NEW h \in Handlers, Fresh(h), NEW c \in Classes, NEW n \in {1, 2},
             InsertByOrdinal(h, c, n)
      PROVE  Goal
  <2>1. CASE packetHandlers = <<>> /\ UNCHANGED <<connection, turn, halted>>
    BY <1>2, <2>1, ConnectionStutter
  <2>2. CASE packetHandlers # <<>> /\ Insert(h, n)
    <3>1. packetHandlers \in Seq(Handlers) BY <1>2 DEF HandlerInv
    <3>2. Len(packetHandlers) # 0 BY <2>2, <3>1, EmptySeq
    <3>3. n \in 1 .. Len(packetHandlers) + 1 BY <1>3, <3>2
    <3> QED BY <1>4, <1>5, <2>2, <3>3
  <2>3. CASE halted' = "looping" /\ UNCHANGED <<connection, turn>>
    BY <1>2, <2>3, ConnectionStutter
  <2> QED BY <1>5, <2>1, <2>2, <2>3, Zenon DEF InsertByOrdinal
<1>6. Goal
  <2>1. PICK h \in Handlers :
          /\ Fresh(h)
          /\ \/ ReplaceMainPacketHandler(h)
             \/ AppendPacketHandler(h)
             \/ PrependPacketHandler(h)
             \/ \E c \in Classes : AppendPacketHandlerAfter(h, c)
             \/ \E c \in Classes : PrependPacketHandlerBefore(h, c)
    BY Zenon DEF HandlerStep
  <2>2. CASE ReplaceMainPacketHandler(h)
    <3>1. turn' = turn /\ halted' = "no" BY <2>2 DEF ReplaceMainPacketHandler
    <3> QED BY <1>2, <2>1, <2>2, <3>1, ReplaceInv
  <2>3. CASE AppendPacketHandler(h)
    <3>1. Len(packetHandlers) + 1 \in 1 .. Len(packetHandlers) + 1 BY <1>3
    <3> QED BY <1>4, <2>1, <2>3, <3>1 DEF AppendPacketHandler
  <2>4. CASE PrependPacketHandler(h)
    <3>1. 1 \in 1 .. Len(packetHandlers) + 1 BY <1>3
    <3> QED BY <1>4, <2>1, <2>4, <3>1 DEF PrependPacketHandler
  <2>5. CASE \E c \in Classes : AppendPacketHandlerAfter(h, c)
    BY <1>5, <2>1, <2>5 DEF AppendPacketHandlerAfter
  <2>6. CASE \E c \in Classes : PrependPacketHandlerBefore(h, c)
    BY <1>5, <2>1, <2>6 DEF PrependPacketHandlerBefore
  <2> HIDE DEF Goal
  <2> QED BY <2>1, <2>2, <2>3, <2>4, <2>5, <2>6
<1>7. TurnInv'
  <2>1. CASE turn' = turn BY <1>1, <1>2, <2>1, TurnStutter DEF table
  <2>2. CASE Moved
    <3>1. turn \in Turns BY <1>2 DEF AskInv
    <3>2. /\ turn'.stage = turn.stage /\ turn'.asked = turn.asked /\ turn'.read = turn.read
          /\ turn'.size = turn.size /\ turn'.ordinal = turn.ordinal
          /\ turn'.wanted = turn.wanted /\ turn'.callback = turn.callback
          /\ turn'.handler = turn.handler
      BY <2>2, <3>1 DEF Turns
    <3>3. callbackGiven' = callbackGiven /\ spread' = spread BY <1>1 DEF table
    <3>4. Readers' = Readers BY <3>2, <3>3 DEF Readers
    <3>5. OfferedHandlers' = OfferedHandlers BY <3>2 DEF OfferedHandlers, Offered
    <3> QED BY <1>2, <3>2, <3>3, <3>4, <3>5 DEF TurnInv, EachReaderReadsOn
  <2> QED BY <1>6, <2>1, <2>2
<1>8. RegistryInv' BY <1>1, RegistryStutter DEF IInv
<1>9. CallbackInv' BY <1>1, CallbackStutter DEF IInv
<1>10. HaltInv' BY <1>6 DEF HaltInv
<1> QED BY <1>6, <1>7, <1>8, <1>9, <1>10 DEF IInv

(* The version of a peer is one of the protocol, unknown, or blank. *)
LEMMA FromProtocolIDVersion ==
  ASSUME NEW p, FromProtocolID(p) # Blank, FromProtocolID(p) # Unknown
  PROVE  FromProtocolID(p) \in Versions
<1>1. /\ FromProtocolID(p) = CHOOSE v \in Versions : ProtocolID[v] = p
      /\ \E v \in Versions : ProtocolID[v] = p
  BY DEF FromProtocolID
<1> QED BY <1>1

LEMMA PacketArrivesResolved ==
  ASSUME RegistryInv, NEW p \in ProtocolIDs, NEW id \in Ids,
         FromProtocolID(p) # Blank,
         versionRegistry[VersionToOrdinal(FromProtocolID(p))] # Garbage,
         GetValue(FromProtocolID(p), id).ok,
         NEW newest, newest = IF FromProtocolID(p) = Unknown THEN MaximumVersion
                              ELSE FromProtocolID(p)
  PROVE  /\ GetValue(FromProtocolID(p), id).value \in Ordinals
         /\ ordinalGiven[assigned[newest]][id] \in Ordinals \cup {None}
         /\ GetValue(FromProtocolID(p), id).value =
              IF ordinalGiven[assigned[newest]][id] = None THEN 0
              ELSE ordinalGiven[assigned[newest]][id]
<1> DEFINE version == FromProtocolID(p)
           r == versionRegistry[VersionToOrdinal(version)]
<1>1. newest \in Versions BY FromProtocolIDVersion, VersionBounds
<1>2. r = assigned[newest]
  <2>1. CASE version = Unknown BY <2>1 DEF RegistryInv, VersionsResolve
  <2>2. CASE version # Unknown BY <1>1, <2>2 DEF RegistryInv, VersionsResolve
  <2> QED BY <2>1, <2>2
<1>3. assigned[newest] \in Registries BY <1>1, <1>2 DEF RegistryInv, RegistryTypes
<1>4. GetValue(version, id) = GetOrdinalByID(assigned[newest], id) BY <1>2 DEF GetValue
<1> QED BY <1>3, <1>4, OrdinalFound

LEMMA PacketStepInv == IInv /\ halted = "no" /\ PacketStep => IInv'
<1> SUFFICES ASSUME IInv, halted = "no", PacketStep PROVE IInv' OBVIOUS
<1>1. UNCHANGED <<registryVars, table, connection>> /\ turn.stage = "done"
  BY DEF PacketStep
<1>2. RegistryInv' /\ CallbackInv'
  BY <1>1, RegistryStutter, CallbackStutter DEF IInv
<1>3. PICK p \in ProtocolIDs, id \in Ids, size \in Sizes : PacketArrives(p, id, size)
  BY Zenon DEF PacketStep
<1> DEFINE version == FromProtocolID(p)
           newest == IF version = Unknown THEN MaximumVersion ELSE version
           ordinal == GetValue(version, id)
           wanted == ordinalGiven[assigned[newest]][id]
           r == versionRegistry[VersionToOrdinal(version)]
           present == {packetHandlers[i] : i \in 1 .. Len(packetHandlers)}
           Starts ==
             /\ version # Blank /\ r # Garbage /\ ordinal.ok
             /\ turn' = [stage |-> "asking", at |-> 0, id |-> id, ordinal |-> ordinal.value,
                         wanted |-> wanted, size |-> size, read |-> 0,
                         handler |-> None, callback |-> None, asked |-> <<>>,
                         present |-> present]
             /\ UNCHANGED halted
<1>4. Starts \/ (turn' = turn /\ halted' \in {"no", "registry"})
  BY <1>3 DEF PacketArrives
<1>5. CASE turn' = turn /\ halted' \in {"no", "registry"}
  <2>1. HandlerInv' /\ AskInv' BY <1>1, <1>5, ConnectionStutter DEF IInv
  <2>2. TurnInv' BY <1>1, <1>5, TurnStutter DEF IInv
  <2>3. HaltInv' BY <1>5 DEF HaltInv
  <2> QED BY <1>2, <2>1, <2>2, <2>3 DEF IInv
<1>6. CASE Starts
  <2>1. RegistryInv BY DEF IInv
  <2>2. /\ ordinal.value \in Ordinals /\ wanted \in Ordinals \cup {None}
        /\ ordinal.value = IF wanted = None THEN 0 ELSE wanted
    BY <1>6, <2>1, PacketArrivesResolved
  <2>3. HandlerInv /\ packetHandlers' = packetHandlers
        /\ mainPacketHandler' = mainPacketHandler /\ deleted' = deleted
    BY <1>1 DEF IInv, connection
  <2>4. HandlerInv' BY <2>3 DEF HandlerInv, Listed, WasMain
  <2>5. present \subseteq Handlers /\ Len(packetHandlers) \in Nat BY <2>3, ListedHandlers
  <2>6. size \in Nat BY DispatchAssumption
  <2>7. \A g \in present : \E i \in 1 .. Len(packetHandlers) : packetHandlers[i] = g
    OBVIOUS
  <2> HIDE DEF version, newest, ordinal, wanted, r, present
  <2>8. /\ turn'.stage = "asking" /\ turn'.at = 0 /\ turn'.ordinal = ordinal.value
        /\ turn'.wanted = wanted /\ turn'.read = 0 /\ turn'.asked = <<>>
        /\ turn'.size = size /\ turn'.present = present
    BY <1>6
  <2>9. turn' \in Turns
    <3>1. <<>> \in AskedLists /\ None \in CallbackSet BY DEF AskedLists, CallbackSet
    <3> QED BY <1>6, <2>2, <2>5, <2>6, <3>1 DEF Turns
  <2>10. HandlersAskedInTurn' BY <2>8 DEF HandlersAskedInTurn
  <2>11. Progress'
    <3>1. Len(turn'.asked) = 0 BY <2>8
    <3> QED BY <2>3, <2>7, <2>8, <3>1 DEF Progress, Listed, WasMain, Offered, Asks
  <2>12. AskInv' BY <2>3, <2>5, <2>8, <2>9, <2>10, <2>11 DEF AskInv
  <2>13. Readers' = {} /\ OfferedHandlers' = {}
    BY <2>8 DEF Readers, OfferedHandlers, Offered
  <2>14. TurnInv'
    <3>1. IsFiniteSet(Readers') /\ Cardinality(Readers') = 0 BY <2>13, FS_EmptySet
    <3>2. 0 = size * 0 BY <2>6
    <3>3. IsFiniteSet(OfferedHandlers') BY <2>13, FS_EmptySet
    <3> QED BY <2>2, <2>8, <3>1, <3>2, <3>3 DEF TurnInv, EachReaderReadsOn
  <2>15. HaltInv' BY <1>6 DEF HaltInv
  <2> QED BY <1>2, <2>4, <2>12, <2>14, <2>15 DEF IInv
<1> QED BY <1>4, <1>5, <1>6

LEMMA Distributes ==
  ASSUME NEW m \in Nat, NEW n \in Nat PROVE m * (n + 1) = m * n + m
OBVIOUS

(* A handler is asked once: the one whose turn it is was not asked before.  *)
LEMMA NotYetOffered ==
  ASSUME HandlerInv, AskInv, turn.stage # "done", NEW h \in Handlers, Asks(h)
  PROVE  ~ Offered(h)
<1>1. Progress BY DEF AskInv
<1>2. /\ turn.at \in Nat /\ turn.at <= Len(packetHandlers) /\ Len(packetHandlers) \in Nat
      /\ turn.asked \in Seq([handler : Handlers, answer : Answers])
      /\ Len(turn.asked) \in Nat
  BY TurnFields, ListedHandlers DEF AskInv
<1> SUFFICES ASSUME NEW k \in 1 .. Len(turn.asked), turn.asked[k].handler = h
             PROVE  FALSE
  BY DEF Offered
<1>3. turn.at # 0 BY <1>1, <1>2 DEF Progress
<1>4. turn.at \in 1 .. Len(packetHandlers) /\ packetHandlers[turn.at] = h
  BY <1>2, <1>3 DEF Asks
<1>5. ~ WasMain(h) BY <1>4, ListedHandlers
<1>6. k # 1 BY <1>1, <1>5 DEF Progress
<1>7. PICK i \in 1 .. turn.at - 1 : packetHandlers[i] = h BY <1>1, <1>6 DEF Progress
<1>8. i \in 1 .. Len(packetHandlers) /\ i # turn.at BY <1>2, <1>7
<1> QED BY <1>4, <1>7, <1>8 DEF HandlerInv

LEMMA ReadersFinite ==
  ASSUME TurnInv, turn.handler \in Handlers \/ turn.stage # "callback"
  PROVE  IsFiniteSet(Readers) /\ Cardinality(Readers) \in Nat
<1>1. IsFiniteSet(OfferedHandlers) BY DEF TurnInv
<1>2. IsFiniteSet(OfferedHandlers \cup {turn.handler}) BY <1>1, FS_AddElement
<1>3. Readers \in SUBSET (OfferedHandlers \cup {turn.handler})
  BY DEF Readers, OfferedHandlers, Offered
<1>4. IsFiniteSet(Readers) BY <1>2, <1>3, FS_Subset
<1> QED BY <1>4, FS_CardinalityType

(* The one that answers is a reader precisely when its callback has run,    *)
(* unless the answer is an error.                                           *)
LEMMA AnswerStep ==
  ASSUME IInv, turn.stage # "done", UNCHANGED <<registryVars, table, connection, halted>>,
         NEW h \in Handlers, Asks(h), NEW answer \in Answers,
         NEW record \in Turns, record.at = turn.at, record.asked = turn.asked,
         record.present = turn.present, record.ordinal = turn.ordinal,
         record.wanted = turn.wanted, record.size = turn.size,
         answer # "error" => record.read = turn.read,
         turn.stage = "callback" => h = turn.handler,
         turn.stage = "asking" /\ answer # "error" /\ ~ spread =>
           callbackGiven[ClassOf[h]][turn.ordinal] = None,
         Answer(h, answer, record)
  PROVE  IInv'
<1>1. HandlerInv /\ AskInv /\ TurnInv BY DEF IInv
<1>2. UNCHANGED connection OBVIOUS
<1> DEFINE e == [handler |-> h, answer |-> answer]
<1>3. /\ AskInv'
      /\ turn'.stage # "callback" /\ turn'.ordinal = record.ordinal
      /\ turn'.wanted = record.wanted /\ turn'.size = record.size
      /\ turn'.read = record.read
      /\ turn'.asked = Append(turn.asked, e)
  BY <1>1, <1>2, AnswerInv
<1>4. RegistryInv' /\ CallbackInv' BY RegistryStutter, CallbackStutter DEF IInv
<1>5. HandlerInv' BY <1>1 DEF connection, HandlerInv, Listed, WasMain
<1>6. HaltInv' BY DEF IInv, HaltInv, table
<1> DEFINE a == turn.asked
<1>7. /\ a \in AskedLists /\ Len(a) \in Nat
      /\ Len(Append(a, e)) = Len(a) + 1 /\ Append(a, e)[Len(a) + 1] = e
      /\ \A i \in 1 .. Len(a) : Append(a, e)[i] = a[i]
  <2>1. a \in AskedLists /\ Len(a) \in Nat BY <1>1, TurnFields DEF AskedLists
  <2>2. e \in [handler : Handlers, answer : Answers] OBVIOUS
  <2> HIDE DEF a, e
  <2> QED BY <2>1, <2>2, AppendProperties DEF AskedLists
<1>8. e.answer = answer /\ e.handler = h OBVIOUS
<1>9. turn'.asked = Append(a, e) BY <1>3
<1> HIDE DEF a, e
<1>10. \A g : Offered(g)' <=> Offered(g) \/ g = h
  <2>1. ASSUME NEW g, NEW k \in 1 .. Len(turn'.asked), turn'.asked[k].handler = g
        PROVE  Offered(g) \/ g = h
    <3>1. k \in 1 .. Len(a) \/ k = Len(a) + 1 BY <1>7, <1>9
    <3> QED BY <1>7, <1>8, <1>9, <2>1, <3>1 DEF Offered, a
  <2>2. ASSUME NEW k \in 1 .. Len(a)
        PROVE  k \in 1 .. Len(turn'.asked) /\ turn'.asked[k].handler = a[k].handler
    BY <1>7, <1>9
  <2>3. Len(a) + 1 \in 1 .. Len(turn'.asked) /\ turn'.asked[Len(a) + 1].handler = h
    BY <1>7, <1>8, <1>9
  <2> QED BY <2>1, <2>2, <2>3 DEF Offered, a
<1>11. OfferedHandlers' = OfferedHandlers \cup {h} BY <1>10 DEF OfferedHandlers
<1>12. IsFiniteSet(OfferedHandlers') BY <1>1, <1>11, FS_AddElement DEF TurnInv
<1>13. EachReaderReadsOn'
  <2> SUFFICES ASSUME ~ spread', turn'.stage # "done",
                      \A i \in 1 .. Len(turn'.asked) : turn'.asked[i].answer # "error"
               PROVE  turn'.read = turn'.size * Cardinality(Readers')
    BY DEF EachReaderReadsOn
  <2>1. ~ spread /\ callbackGiven' = callbackGiven BY DEF table
  <2>2. answer # "error"
    <3>1. Len(a) + 1 \in 1 .. Len(turn'.asked) BY <1>7, <1>9
    <3> QED BY <1>7, <1>8, <1>9, <3>1
  <2>3. \A i \in 1 .. Len(a) : a[i].answer # "error"
    <3>1. \A i \in 1 .. Len(a) : i \in 1 .. Len(turn'.asked) BY <1>7, <1>9
    <3> QED BY <1>7, <1>9, <3>1
  <2>4. turn.read = turn.size * Cardinality(Readers)
    BY <1>1, <2>1, <2>3 DEF TurnInv, EachReaderReadsOn, a
  <2>5. turn.stage = "asking" => callbackGiven[ClassOf[h]][turn.ordinal] = None
    BY <2>1, <2>2
  <2>6. turn.stage = "callback" => h = turn.handler OBVIOUS
  <2>7. turn.stage \in {"asking", "callback"} BY <1>1, TurnFields
  <2>8. turn'.stage # "callback" /\ turn'.ordinal = turn.ordinal BY <1>3
  <2>9. Readers' = Readers
    <3>1. \A g \in Handlers : g \in Readers' <=>
            callbackGiven[ClassOf[g]][turn.ordinal] # None /\ (Offered(g) \/ g = h)
      BY <1>10, <2>1, <2>8 DEF Readers, Offered
    <3>2. \A g \in Handlers : g \in Readers <=>
            /\ callbackGiven[ClassOf[g]][turn.ordinal] # None
            /\ Offered(g) \/ (turn.stage = "callback" /\ turn.handler = g)
      BY DEF Readers, Offered
    <3>3. Readers \subseteq Handlers /\ Readers' \subseteq Handlers BY DEF Readers
    <3>4. \A g \in Handlers : g \in Readers' <=> g \in Readers
      BY <2>5, <2>6, <2>7, <3>1, <3>2
    <3> QED BY <3>3, <3>4
  <2>10. turn'.read = turn.read /\ turn'.size = turn.size BY <1>3, <2>2
  <2> QED BY <2>4, <2>9, <2>10
<1>14. /\ turn'.stage # "callback" /\ turn'.ordinal = turn.ordinal
       /\ turn'.wanted = turn.wanted
  BY <1>3
<1>15. TurnInv' BY <1>1, <1>12, <1>13, <1>14 DEF TurnInv
<1> QED BY <1>3, <1>4, <1>5, <1>6, <1>15 DEF IInv

LEMMA CurrentAsks ==
  ASSUME HandlerInv, AskInv
  PROVE  Current \in Handlers /\ Asks(Current)
<1>1. turn.at \in Nat /\ turn.at <= Len(packetHandlers) BY TurnFields DEF AskInv
<1>2. CASE turn.at = 0 BY <1>2 DEF Current, Asks, WasMain, HandlerInv
<1>3. CASE turn.at # 0
  <2>1. turn.at \in 1 .. Len(packetHandlers) BY <1>1, <1>3, ListedHandlers
  <2> QED BY <1>3, <2>1, ListedHandlers DEF Current, Asks
<1> QED BY <1>2, <1>3

LEMMA AskStepInv == IInv /\ AskStep => IInv'
<1> SUFFICES ASSUME IInv, AskStep PROVE IInv' OBVIOUS
<1>1. /\ UNCHANGED <<registryVars, table, connection, halted>>
      /\ turn.stage = "asking"
  BY DEF AskStep
<1>2. HandlerInv /\ AskInv /\ TurnInv /\ CallbackInv /\ turn \in Turns BY DEF IInv, AskInv
<1>3. Current \in Handlers /\ Asks(Current) BY <1>2, CurrentAsks
<1>4. CASE AskNoCallback
  <2>1. Answer(Current, "false", turn) /\ "false" \in Answers
    BY <1>4 DEF AskNoCallback, Answers
  <2>2. turn.stage # "done" /\ turn.stage # "callback" BY <1>1
  <2>3. ~ spread => callbackGiven[ClassOf[Current]][turn.ordinal] = None
    BY <1>2, <1>3, <1>4, TurnFields, CallbackForGiven DEF AskNoCallback
  <2> QED BY <1>1, <1>2, <1>3, <2>1, <2>2, <2>3, AnswerStep
<1>5. ASSUME NEW size \in Sizes, NEW fails \in BOOLEAN, AskMisread(size, fails) PROVE IInv'
  <2> DEFINE record == [turn EXCEPT !.read = turn.read + size]
  <2>1. Answer(Current, "error", record) /\ "error" \in Answers
    BY <1>5 DEF AskMisread, Answers
  <2>2. turn.read + size \in Nat BY <1>2, TurnFields, DispatchAssumption
  <2>3. /\ record \in Turns /\ record.at = turn.at /\ record.asked = turn.asked
        /\ record.present = turn.present /\ record.ordinal = turn.ordinal
        /\ record.wanted = turn.wanted /\ record.size = turn.size
    BY <1>2, <2>2 DEF Turns
  <2> HIDE DEF record
  <2>4. turn.stage # "done" /\ turn.stage # "callback" BY <1>1
  <2> QED BY <1>1, <1>3, <2>1, <2>3, <2>4, AnswerStep
<1>6. ASSUME NEW size \in Sizes, AskRuns(size) PROVE IInv'
  <2> DEFINE callback == CallbackFor(Current, turn.ordinal)
  <2>1. /\ callback # None /\ size = turn.size
        /\ turn' = [turn EXCEPT !.stage = "callback", !.handler = Current,
                                !.callback = callback,
                                !.read = turn.read + size]
    BY <1>6 DEF AskRuns, SizeFits
  <2>2. callback \in CallbackSet /\ callback = callbackGiven[ClassOf[Current]][turn.ordinal]
    BY <1>2, <1>3, <2>1, TurnFields, CallbackForGiven
  <2> HIDE DEF callback
  <2>3. /\ turn.read \in Nat /\ turn.size \in Nat BY <1>2, TurnFields
  <2>4. /\ turn'.stage = "callback" /\ turn'.handler = Current /\ turn'.callback = callback
        /\ turn'.read = turn.read + turn.size
        /\ turn'.at = turn.at /\ turn'.asked = turn.asked /\ turn'.present = turn.present
        /\ turn'.ordinal = turn.ordinal /\ turn'.wanted = turn.wanted
        /\ turn'.size = turn.size
    BY <1>2, <2>1 DEF Turns
  <2>5. turn' \in Turns
    <3>1. turn.read + size \in Nat BY <2>1, <2>3
    <3> QED BY <1>2, <1>3, <2>1, <2>2, <3>1 DEF Turns
  <2>6. /\ packetHandlers' = packetHandlers /\ mainPacketHandler' = mainPacketHandler
        /\ deleted' = deleted /\ callbackGiven' = callbackGiven /\ spread' = spread
    BY <1>1 DEF connection, table
  <2>7. HandlerInv' BY <1>2, <2>6 DEF HandlerInv, Listed, WasMain
  <2>8. HandlersAskedInTurn'
    <3>1. turn.stage # "done" /\ turn'.stage # "done" BY <1>1, <2>4
    <3> QED BY <1>2, <2>4, <3>1 DEF AskInv, HandlersAskedInTurn
  <2>9. Progress'
    <3>1. Progress BY <1>1, <1>2 DEF AskInv
    <3> QED BY <1>3, <2>4, <2>6, <3>1 DEF Progress, Listed, WasMain, Offered, Asks
  <2>10. AskInv' BY <1>2, <2>4, <2>5, <2>6, <2>8, <2>9 DEF AskInv
  <2>11. EachReaderReadsOn'
    <3> DEFINE c == Cardinality(Readers)
    <3>1. IsFiniteSet(Readers) /\ c \in Nat BY <1>1, <1>2, ReadersFinite
    <3>2. Readers' = Readers \cup {Current}
      <4>1. callbackGiven[ClassOf[Current]][turn.ordinal] # None BY <2>1, <2>2
      <4> QED BY <1>1, <1>3, <2>4, <2>6, <4>1 DEF Readers
    <3>3. Current \notin Readers
      <4>1. ~ Offered(Current) BY <1>1, <1>2, <1>3, NotYetOffered
      <4> QED BY <1>1, <4>1 DEF Readers, Offered
    <3>4. Cardinality(Readers') = c + 1 BY <3>1, <3>2, <3>3, FS_AddElement
    <3>5. turn.size * (c + 1) = turn.size * c + turn.size BY <2>3, <3>1, Distributes
    <3> SUFFICES ASSUME ~ spread',
                        \A i \in 1 .. Len(turn'.asked) : turn'.asked[i].answer # "error"
                 PROVE  turn'.read = turn'.size * Cardinality(Readers')
      BY DEF EachReaderReadsOn
    <3>6. turn.read = turn.size * c
      BY <1>1, <1>2, <2>4, <2>6 DEF TurnInv, EachReaderReadsOn
    <3> HIDE DEF c
    <3> QED BY <2>4, <3>4, <3>5, <3>6
  <2>12. TurnInv'
    <3>1. OfferedHandlers' = OfferedHandlers BY <2>4 DEF OfferedHandlers, Offered
    <3>2. IsFiniteSet(OfferedHandlers') BY <1>2, <3>1 DEF TurnInv
    <3>3. turn'.ordinal = IF turn'.wanted = None THEN 0 ELSE turn'.wanted
      BY <1>2, <2>4 DEF TurnInv
    <3>4. turn'.callback = callbackGiven'[ClassOf[turn'.handler]][turn'.ordinal]
      BY <2>2, <2>4, <2>6
    <3> QED BY <2>11, <3>2, <3>3, <3>4 DEF TurnInv
  <2>13. RegistryInv' /\ CallbackInv' BY <1>1, RegistryStutter, CallbackStutter DEF IInv
  <2>14. HaltInv' BY <1>1 DEF IInv, HaltInv, table
  <2> QED BY <2>7, <2>10, <2>12, <2>13, <2>14 DEF IInv
<1> QED BY <1>4, <1>5, <1>6, Zenon DEF AskStep

LEMMA ReturnStepInv == IInv /\ ReturnStep => IInv'
<1> SUFFICES ASSUME IInv, ReturnStep PROVE IInv' OBVIOUS
<1>1. /\ UNCHANGED <<registryVars, table, connection, halted>>
      /\ turn.stage = "callback"
  BY DEF ReturnStep
<1>2. PICK answer \in Answers : Answer(turn.handler, answer, turn)
  BY Zenon DEF ReturnStep, CallbackReturns, Answers
<1>3. turn \in Turns /\ turn.stage # "done" /\ Progress BY <1>1 DEF IInv, AskInv
<1>4. turn.handler \in Handlers /\ Asks(turn.handler) BY <1>1, <1>3 DEF Progress
<1>5. turn.stage # "asking" BY <1>1
<1> QED BY <1>1, <1>2, <1>3, <1>4, <1>5, AnswerStep

(* The inductive invariant of the dispatch. *)
THEOREM InductiveInvariant == Spec => []IInv
<1>1. IInv /\ [Next]_vars => IInv'
  <2> SUFFICES ASSUME IInv, [Next]_vars PROVE IInv' OBVIOUS
  <2>1. CASE Next
    <3>1. halted = "no" BY <2>1 DEF Next
    <3>2. CASE RegistryStep BY <3>2, RegistryStepInv
    <3>3. CASE CallbackStep BY <3>1, <3>3, CallbackStepInv
    <3>4. CASE HandlerStep BY <3>1, <3>4, HandlerStepInv
    <3>5. CASE PacketStep BY <3>1, <3>5, PacketStepInv
    <3>6. CASE AskStep BY <3>6, AskStepInv
    <3>7. CASE ReturnStep BY <3>7, ReturnStepInv
    <3> QED BY <2>1, <3>2, <3>3, <3>4, <3>5, <3>6, <3>7 DEF Next
  <2>2. CASE UNCHANGED vars
    <3>1. UNCHANGED <<registryVars, table, connection, turn, halted>> BY <2>2 DEF vars
    <3>2. RegistryInv' /\ CallbackInv' BY <3>1, RegistryStutter, CallbackStutter DEF IInv
    <3>3. HandlerInv' /\ AskInv' BY <3>1, ConnectionStutter DEF IInv
    <3>4. TurnInv' BY <3>1, TurnStutter DEF IInv, table
    <3>5. HaltInv' BY <3>1 DEF IInv, HaltInv, table
    <3> QED BY <3>2, <3>3, <3>4, <3>5 DEF IInv
  <2> QED BY <2>1, <2>2
<1> QED BY <1>1, InitInv, PTL DEF Spec

-----------------------------------------------------------------------------
(* The tables hold ordinals, ids and callbacks, and the loop over the      *)
(* handlers stays inside the list (Connection.cpp:126), whatever callbacks *)
(* insert while it runs.                                                   *)
THEOREM TypeCorrect == Spec => []TypeOK
<1>1. IInv => TypeOK
  <2> SUFFICES ASSUME IInv PROVE TypeOK OBVIOUS
  <2>1. RegistryTypeOK BY RegistryInvType DEF IInv
  <2>2. callbacks \in Seq(Seq(Callbacks \cup {None}))
    BY DEF IInv, CallbackInv, CallbackTypes, CallbackSet
  <2>3. HandlerInv /\ AskInv BY DEF IInv
  <2>4. mainPacketHandler \in Handlers \ deleted BY <2>3 DEF HandlerInv
  <2>5. packetHandlers \in Seq(Handlers \ deleted)
    <3>1. packetHandlers \in Seq(Handlers) /\ Len(packetHandlers) \in Nat
      BY <2>3 DEF HandlerInv
    <3>2. \A i \in 1 .. Len(packetHandlers) : packetHandlers[i] \in Handlers \ deleted
      BY <2>3, ListedHandlers DEF WasMain
    <3>3. packetHandlers = [i \in 1 .. Len(packetHandlers) |-> packetHandlers[i]]
      BY <3>1
    <3>4. packetHandlers \in [1 .. Len(packetHandlers) -> Handlers \ deleted]
      BY <3>2, <3>3, Zenon
    <3> QED BY <3>1, <3>4, IsASeq
  <2>6. /\ turn.stage \in {"asking", "callback", "done"}
        /\ turn.at \in 0 .. Len(packetHandlers)
    BY <2>3, TurnFields, ListedHandlers DEF AskInv
  <2>7. halted \in {"no", "callbacks", "registry", "looping"} BY DEF IInv, HaltInv
  <2> QED BY <2>1, <2>2, <2>4, <2>5, <2>6, <2>7 DEF TypeOK
<1> QED BY <1>1, InductiveInvariant, PTL

(* No order of registrations and of growths of the two vectors loses or    *)
(* moves an entry (VersionRegistry.cpp:15-38), for every slack, every list *)
(* a registry is made from and every set of ids and ordinals.              *)
THEOREM RegistrationsWin == Spec => []LatestRegistrationWins
<1>1. IInv => LatestRegistrationWins BY RegistryInvWins DEF IInv
<1> QED BY <1>1, InductiveInvariant, PTL

(* The numbers the constructor of VersionedRegistry gives to the ranges    *)
(* and those FillVersionRegistry loops over agree with the members of      *)
(* versionMap (VersionedRegistry.cpp:4-42), for every set of versions and  *)
(* every division of it into ranges.                                       *)
THEOREM VersionsAreResolved == Spec => []VersionsResolve
<1>1. IInv => VersionsResolve BY DEF IInv, RegistryInv
<1> QED BY <1>1, InductiveInvariant, PTL

(* A lookup through the version of a peer finds the constructor, or the id *)
(* of an enum value, that was registered last                              *)
(* (ConstructorRegistry.hpp:75-87, EnumRegistry.hpp:15-22).                *)
THEOREM LookupsAgree == Spec => []LookupsByVersion
<1>1. IInv => LookupsByVersion BY RegistryInvLookups DEF IInv
<1> QED BY <1>1, InductiveInvariant, PTL

(* The inverted test at PacketHandler.cpp:38 loses no callback and indexes *)
(* inside the table, as long as the handler with ordinal 0 comes first and *)
(* all ordinals are below the slack, whatever the slack.                   *)
THEOREM CallbacksAreKept == Spec => []CallbacksKept
<1>1. IInv => CallbacksKept
  <2> SUFFICES ASSUME IInv PROVE CallbacksKept OBVIOUS
  <2>1. CallbackInv BY DEF IInv
  <2>2. \A h \in Handlers, o \in Ordinals :
          ~ spread => CallbackFor(h, o) = callbackGiven[ClassOf[h]][o]
    BY <2>1, CallbackForGiven
  <2>3. halted = "callbacks" => spread BY DEF IInv, HaltInv
  <2> QED BY <2>2, <2>3, Zenon DEF CallbacksKept
<1> QED BY <1>1, InductiveInvariant, PTL

(* A packet is offered in turn, to none twice, to nobody after a claim and *)
(* to all who were there when it arrived (Connection.cpp:116-137), for     *)
(* every list of handlers and every insertion and replacement by callbacks *)
(* in the middle of the loop.                                              *)
THEOREM AskedInTurn == Spec => []HandlersAskedInTurn
<1>1. IInv => HandlersAskedInTurn BY DEF IInv, AskInv
<1> QED BY <1>1, InductiveInvariant, PTL

(* While a packet is offered without an error, each handler whose class has *)
(* a callback for it has read its size anew: the first one reads the        *)
(* packet, every other one asked after it the bytes that follow             *)
(* (PacketHandler.hpp:10,19, Connection.cpp:124-137), for every list of     *)
(* handlers, every order of setting callbacks that starts with ordinal 0    *)
(* and every change of the handlers by a callback.                          *)
THEOREM ReadersReadOn == Spec => []EachReaderReadsOn
<1>1. IInv => EachReaderReadsOn BY DEF IInv, TurnInv
<1> QED BY <1>1, InductiveInvariant, PTL

(* The callback that runs is the one last set for the ordinal that was     *)
(* last registered for the id in the registry of the peer's version, or    *)
(* for ordinal 0 if the id was never registered (OrdinalVector.hpp:12).    *)
THEOREM PacketsAreDelivered == Spec => []DeliveredByRegistration
<1>1. IInv => DeliveredByRegistration BY DEF IInv, TurnInv, DeliveredByRegistration
<1> QED BY <1>1, InductiveInvariant, PTL
=============================================================================
