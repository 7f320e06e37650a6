CONSTANTS
  Letters = {a, b}
  Star = Star
  MaxPattern = 6
  MaxValue = 4
SPECIFICATION Spec
SYMMETRY LetterSymmetry
CHECK_DEADLOCK FALSE
INVARIANTS
  AgreesWithMeaning SlicesInRange
