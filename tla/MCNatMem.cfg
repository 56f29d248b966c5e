\* Three slots at 8, 16 and 24, issued one or two at a time, and a heap of
\* 40 bytes at 32, so that the pool grows, empties and fills up and the
\* heap runs out, with words of 7 bits.
SPECIFICATION Spec
CONSTANTS
  WordMod = 128
  BlockAddr = 8
  BlockEnd = 32
  HeapAddr = 32
  HeapEnd = 80
  InitSlots = 1
  Grow = 1
  Request = {0, 1, 5}
  Masters = {0, 2}
INVARIANT
  HeapIsSound
PROPERTY
  SlotsAreConserved
