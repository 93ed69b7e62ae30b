SPECIFICATION Spec
CONSTANTS
  s1 = s1
  s2 = s2
  q1 = q1
  Items <- MCItems
  Pollers <- MCPollers
  Size = 3
  Word = 48
  IntWord = 8
  MaxTime = 10
  Delays <- MCDelays
  Forever = Forever
  MaxJump = 8
  StepBack = 0
  NoSlot = NoSlot
SYMMETRY MCSymmetry
INVARIANT CntIsNotNegative
