SPECIFICATION Spec
CONSTANTS
  s1 = s1
  s2 = s2
  q1 = q1
  Items <- MCItems
  Pollers <- MCPollers
  Size = 3
  Word = 48
  IntWord = 32
  MaxTime = 6
  Delays <- MCDelays
  Forever = Forever
  MaxJump = 4
  StepBack = 1
  NoSlot = NoSlot
SYMMETRY MCSymmetry
INVARIANTS WheelInv
PROPERTIES OnTime StrandedOnlyBySetBack
