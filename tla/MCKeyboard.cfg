SPECIFICATION Spec
CONSTANTS
  Keys <- MCKeys
  Typematic <- MCTypematic
  WIRE_SIZE = 3
INVARIANTS
  ModifiersInStep
PROPERTIES
  DecodedAsTyped
