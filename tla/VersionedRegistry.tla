-------------------------- MODULE VersionedRegistry --------------------------
(***************************************************************************)
(* Packet ids and packet ordinals, version by version                      *)
(* (ShipNet/protocol/registry, ShipNet/protocol/ProtocolVersion.cpp).      *)
(*                                                                         *)
(* A VersionRegistry maps the ids on the wire to ordinals and back, in two *)
(* vectors.  A VersionedRegistry divides the protocol versions into ranges *)
(* and holds a pointer to a VersionRegistry for each range.  A             *)
(* ConstructorRegistry adds a vector of constructors, an EnumRegistry the  *)
(* reading of an ordinal as the value of an enum.                          *)
(***************************************************************************)
EXTENDS OrdinalVector

CONSTANTS
  Registries,  \* the VersionRegistry objects
  Lists,       \* ordinal lists a VersionRegistry may be constructed from
  Ordinals,    \* packet ordinals
  Ids,         \* packet ids
  ProtocolID,  \* protocol id of every version, by version ordinal
  VersionMap,  \* versions that begin a range, in the order of the std::set
  Unknown,     \* ProtocolVersion::UNKNOWN
  Constructors, \* functions given to RegisterConstructor
  Blank,       \* an element of idToVersionMap that was never set
  None, Garbage

Versions == DOMAIN ProtocolID

MinimumVersion == CHOOSE v \in Versions : \A w \in Versions : v <= w
MaximumVersion == CHOOSE v \in Versions : \A w \in Versions : w <= v

ASSUME RegistryAssumption ==
  /\ Ordinals \subseteq Nat /\ Ids \subseteq Nat /\ 0 \in Ordinals
  /\ Lists \subseteq Seq(Ordinals)
  /\ None \notin Nat /\ Garbage \notin Registries
  /\ {Unknown, Blank} \cap Nat = {}

(* There is a newest version.  Ranges start at versions of the protocol,   *)
(* the first of them at the minimum version; later versions have larger    *)
(* protocol ids.                                                           *)
ASSUME VersionsAssumption ==
  /\ Versions \subseteq Nat /\ VersionMap \in Seq(Versions) /\ VersionMap # <<>>
  /\ \E v \in Versions : \A w \in Versions : w <= v
  /\ VersionMap[1] = MinimumVersion
  /\ \A i, j \in 1 .. Len(VersionMap) : i < j => VersionMap[i] < VersionMap[j]
  /\ \A v, w \in Versions : v < w => ProtocolID[v] < ProtocolID[w]

VARIABLES
  registry,         \* the two vectors and the counter of every VersionRegistry
  versionRegistry,  \* the pointers of the VersionedRegistry
  ordinalGiven,     \* ghost: ordinal that was last registered for an id
  idGiven,          \* ghost: id that was last registered for an ordinal
  ordinalToObjectMap, \* the vector of the ConstructorRegistry
  assigned,         \* ghost: registry that was last set for a version
  constructorGiven  \* ghost: constructor that was last registered

constructorVars == <<ordinalToObjectMap, constructorGiven>>
registryVars == <<registry, versionRegistry, ordinalGiven, idGiven, assigned,
                  constructorVars>>

Success(value) == [ok |-> TRUE, value |-> value]
Invalid == [ok |-> FALSE]

-----------------------------------------------------------------------------
(* VersionRegistry *)

(* ordinalToIDMap after the first n ordinals of the list. *)
IDsOfList(ordinals) ==
  LET IDs[n \in 0 .. Len(ordinals)] ==
        IF n = 0 THEN <<>>
        ELSE ResizeVectorAndSet(IDs[n - 1], ordinals[n], n - 1, 0)
  IN  IDs[Len(ordinals)]

(* Both constructors; the empty list is the default constructor. *)
NewVersionRegistry(ordinals) ==
  [idToOrdinal |-> ordinals, ordinalToID |-> IDsOfList(ordinals), latestID |-> -1]

GetOrdinalByID(r, id) ==
  LET map == registry[r].idToOrdinal
  IN  IF id >= Len(map) THEN Invalid ELSE Success(map[id + 1])

GetIDByOrdinal(r, ordinal) ==
  LET map == registry[r].ordinalToID
  IN  IF ordinal >= Len(map) THEN Invalid ELSE Success(map[ordinal + 1])

(* Mutant: the id table is written with its index and value swapped. *)
PutSwapped(record, ordinal, id) ==
  [record EXCEPT
     !.ordinalToID = ResizeVectorAndSet(@, ordinal, id, 0),
     !.idToOrdinal = ResizeVectorAndSet(@, ordinal, id, 0)]

Put(record, ordinal, id) ==
  [record EXCEPT
     !.ordinalToID = ResizeVectorAndSet(@, ordinal, id, 0),
     !.idToOrdinal = ResizeVectorAndSet(@, id, ordinal, 0)]

RegisterAt(r, ordinal, id) ==
  /\ registry' = [registry EXCEPT ![r] = Put(@, ordinal, id)]
  /\ ordinalGiven' = [ordinalGiven EXCEPT ![r][id] = ordinal]
  /\ idGiven' = [idGiven EXCEPT ![r][ordinal] = id]
  /\ UNCHANGED <<versionRegistry, assigned, constructorVars>>

Register(r, ordinal) ==
  LET id == registry[r].latestID + 1
  IN  /\ id \in Ids   \* bound
      /\ registry' = [registry EXCEPT ![r] = [Put(@, ordinal, id) EXCEPT !.latestID = id]]
      /\ ordinalGiven' = [ordinalGiven EXCEPT ![r][id] = ordinal]
      /\ idGiven' = [idGiven EXCEPT ![r][ordinal] = id]
      /\ UNCHANGED <<versionRegistry, assigned, constructorVars>>

-----------------------------------------------------------------------------
(* ProtocolVersions and VersionedRegistry *)

FromProtocolID(id) ==
  IF id < ProtocolID[MinimumVersion] \/ id > ProtocolID[MaximumVersion]
  THEN Unknown
  ELSE IF \E v \in Versions : ProtocolID[v] = id
       THEN CHOOSE v \in Versions : ProtocolID[v] = id
       ELSE Blank

(* std::fill over the versions from first to the one before last. *)
Fill(map, first, last, ordinal) ==
  [v \in DOMAIN map |-> IF first <= v /\ v < last THEN ordinal ELSE map[v]]

(* The constructor.  begin()++ does not move the iterator: the first turn  *)
(* of the loop fills nothing and the first range gets number 1.            *)
versionToOrdinalMap ==
  LET Previous(n) == VersionMap[IF n = 1 THEN 1 ELSE n - 1]
      Filled[n \in 0 .. Len(VersionMap)] ==
        IF n = 0 THEN [v \in 0 .. MaximumVersion |-> Garbage]
        ELSE Fill(Filled[n - 1], Previous(n), VersionMap[n], n - 1)
      last == Len(VersionMap)
  IN  Fill(Filled[last], VersionMap[last], MaximumVersion + 1, last)

VersionToOrdinal(version) ==
  versionToOrdinalMap[IF version = Unknown THEN MaximumVersion ELSE version]

(* The versions between the same two members of VersionMap. *)
Begins(v) == CHOOSE i \in 1 .. Len(VersionMap) :
               /\ VersionMap[i] <= v
               /\ \A j \in i + 1 .. Len(VersionMap) : v < VersionMap[j]
SameRange(v) == {w \in Versions : Begins(w) = Begins(v)}

RegisterVersion(version, r) ==
  /\ versionRegistry' = [versionRegistry EXCEPT ![VersionToOrdinal(version)] = r]
  /\ assigned' = [v \in Versions |-> IF v \in SameRange(version) THEN r ELSE assigned[v]]
  /\ UNCHANGED <<registry, ordinalGiven, idGiven, constructorVars>>

(* Mutant: the last range is left out. *)
FillVersionRegistryShort(r) ==
  /\ versionRegistry' =
       [i \in DOMAIN versionRegistry |->
          IF VersionToOrdinal(MinimumVersion) <= i /\ i < VersionToOrdinal(MaximumVersion)
          THEN r ELSE versionRegistry[i]]
  /\ assigned' = [v \in Versions |-> r]
  /\ UNCHANGED <<registry, ordinalGiven, idGiven, constructorVars>>

FillVersionRegistry(r) ==
  /\ versionRegistry' =
       [i \in DOMAIN versionRegistry |->
          IF VersionToOrdinal(MinimumVersion) <= i /\ i <= VersionToOrdinal(MaximumVersion)
          THEN r ELSE versionRegistry[i]]
  /\ assigned' = [v \in Versions |-> r]
  /\ UNCHANGED <<registry, ordinalGiven, idGiven, constructorVars>>

(* GetOrdinalByID and GetIDByOrdinal with a version, which is also what an  *)
(* EnumRegistry does with an id and with a value.                           *)
GetValue(version, id) == GetOrdinalByID(versionRegistry[VersionToOrdinal(version)], id)
GetID(version, value) == GetIDByOrdinal(versionRegistry[VersionToOrdinal(version)], value)

-----------------------------------------------------------------------------
(* ConstructorRegistry *)

(* Mutant: the vector ends behind the ordinal that is registered. *)
RegisterConstructorTight(ordinal, constructor) ==
  /\ ordinalToObjectMap' =
       [Resized(ordinalToObjectMap, ordinal + 1, None) EXCEPT ![ordinal + 1] = constructor]
  /\ constructorGiven' = [constructorGiven EXCEPT ![ordinal] = constructor]
  /\ UNCHANGED <<registry, versionRegistry, ordinalGiven, idGiven, assigned>>

RegisterConstructor(ordinal, constructor) ==
  /\ ordinalToObjectMap' = ResizeVectorAndSet(ordinalToObjectMap, ordinal, constructor, None)
  /\ constructorGiven' = [constructorGiven EXCEPT ![ordinal] = constructor]
  /\ UNCHANGED <<registry, versionRegistry, ordinalGiven, idGiven, assigned>>

(* The constructor that GetObjectByID calls. *)
GetObjectByID(version, id) ==
  LET ordinal == GetValue(version, id)
  IN  IF \/ ~ ordinal.ok
         \/ ordinal.value >= Len(ordinalToObjectMap)
         \/ ordinalToObjectMap[ordinal.value + 1] = None
      THEN Invalid
      ELSE Success(ordinalToObjectMap[ordinal.value + 1])

-----------------------------------------------------------------------------
(* Last position of x in a list, counted from 0. *)
Latest(list, x) ==
  IF \E i \in 1 .. Len(list) : list[i] = x
  THEN (CHOOSE i \in 1 .. Len(list) :
          list[i] = x /\ \A j \in i + 1 .. Len(list) : list[j] # x) - 1
  ELSE None

RegistryInit ==
  /\ \E list \in [Registries -> Lists] :
       /\ registry = [r \in Registries |-> NewVersionRegistry(list[r])]
       /\ ordinalGiven = [r \in Registries |-> [id \in Ids |->
            IF id < Len(list[r]) THEN list[r][id + 1] ELSE None]]
       /\ idGiven = [r \in Registries |-> [o \in Ordinals |-> Latest(list[r], o)]]
  /\ versionRegistry = [i \in 0 .. VersionToOrdinal(MaximumVersion) |-> Garbage]
  /\ assigned = [v \in Versions |-> Garbage]
  /\ ordinalToObjectMap = <<>>
  /\ constructorGiven = [o \in Ordinals |-> None]

RegistryTypeOK ==
  /\ \A r \in Registries :
       /\ registry[r].idToOrdinal \in Seq(Ordinals)
       /\ registry[r].ordinalToID \in Seq(Nat)
       /\ registry[r].latestID \in Ids \cup {-1}
  /\ ordinalGiven \in [Registries -> [Ids -> Ordinals \cup {None}]]
  /\ idGiven \in [Registries -> [Ordinals -> Nat \cup {None}]]
  /\ assigned \in [Versions -> Registries \cup {Garbage}]
  /\ versionRegistry \in [DOMAIN versionRegistry -> Registries \cup {Garbage}]
  /\ ordinalToObjectMap \in Seq(Constructors \cup {None})

(* What was registered last is what a lookup finds, in both directions and *)
(* however the two vectors grew in between: no Register loses or moves an  *)
(* entry of another id or ordinal (VersionRegistry.cpp:15-38).             *)
LatestRegistrationWins ==
  \A r \in Registries :
    /\ \A id \in Ids : ordinalGiven[r][id] # None =>
         GetOrdinalByID(r, id) = Success(ordinalGiven[r][id])
    /\ \A o \in Ordinals : idGiven[r][o] # None =>
         GetIDByOrdinal(r, o) = Success(idGiven[r][o])

(* Every version finds the registry that was set last for a version of its *)
(* range, or by FillVersionRegistry, and an unknown version that of the    *)
(* newest (VersionedRegistry.cpp:4-42): the ranges are cut at the members  *)
(* of versionMap and FillVersionRegistry leaves none of them out.          *)
VersionsResolve ==
  /\ \A v \in Versions : versionRegistry[VersionToOrdinal(v)] = assigned[v]
  /\ versionRegistry[VersionToOrdinal(Unknown)] = assigned[MaximumVersion]

(* Through the version of a peer, an id finds the constructor last given   *)
(* for the ordinal that was registered last for the id, and none if there  *)
(* is none, and a value of an enum finds its id: the vectors of several    *)
(* registries, filled in any order, agree (ConstructorRegistry.hpp:75-87,  *)
(* EnumRegistry.hpp:15-22).                                                *)
LookupsByVersion ==
  \A v \in Versions :
    LET r == assigned[v] IN
    r # Garbage =>
      /\ \A id \in Ids : ordinalGiven[r][id] # None =>
           LET c == constructorGiven[ordinalGiven[r][id]]
           IN  GetObjectByID(v, id) = IF c = None THEN Invalid ELSE Success(c)
      /\ \A o \in Ordinals : idGiven[r][o] # None =>
           GetID(v, o) = Success(idGiven[r][o])
=============================================================================
