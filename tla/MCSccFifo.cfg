SPECIFICATION Spec
CONSTANTS
  Byte <- MCByte
  Size <- MCSize
INVARIANTS
  InputIsNoticed
PROPERTY
  ImplementsFifo
