SPECIFICATION TypedSpec
CONSTANTS
  Base = 4
  MaxGroups = 3
  Modulus = 32
  LongGroups = 5
  LongModulus = 512
  Fields <- SomeFields
  MaxFields = 2
  MaxLength = 6
INVARIANTS
  TypedTypeOK
  ReaderInStep
  ValuesRoundTrip
  CounterAgrees
CHECK_DEADLOCK FALSE
