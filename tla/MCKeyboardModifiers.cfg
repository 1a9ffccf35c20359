SPECIFICATION Spec
CONSTANTS
  Keys <- ModifierKeys
  Typematic <- ModifierTypematic
  WIRE_SIZE = 4
INVARIANT ModifiersAsCommented
