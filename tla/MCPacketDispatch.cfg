SPECIFICATION Spec
CONSTANTS
  Slack = 2
  r1 = r1
  r2 = r2
  main = main
  next = next
  far = far
  f1 = f1
  f2 = f2
  Registries = {r1, r2}
  Lists <- SomeLists
  Ordinals = {0, 1}
  Ids = {0, 1, 2}
  ProtocolID <- SomeProtocolIDs
  VersionMap <- SomeVersionMap
  Unknown = Unknown
  Blank = Blank
  None = None
  Garbage = Garbage
  Handlers = {main, next, far}
  ClassOf <- SomeClasses
  Callbacks = {f1, f2}
  Unsafe = {f2}
  Constructors = {f1, f2}
  ProtocolIDs = {46, 48, 49}
  Sizes = {1, 2}
  Budgets <- SomeBudgets
INVARIANTS
  TypeOK
  LatestRegistrationWins
  VersionsResolve
  LookupsByVersion
  CallbacksKept
  HandlersAskedInTurn
  EachReaderReadsOn
  DeliveredByRegistration
CHECK_DEADLOCK FALSE
SYMMETRY SameRegistries
