SPECIFICATION Spec
CONSTANTS
  p1 = p1
  p2 = p2
  Reader <- MCReader
  Char <- MCChar
  INPUT_BUF = 3
  WORD = 6
  MaxRead = 2
SYMMETRY MCSymmetry
INVARIANT SleepersHaveNoInput
PROPERTY ImplementsTerminal
