SPECIFICATION Spec
CONSTANTS
  Sections <- MCSections
  Absent = Absent
  Word = 256
INVARIANTS
  ExpansionFollowsPattern
  RelocationFollowsProgram
  GuestHoldsSection
PROPERTY
  LoadingEnds
