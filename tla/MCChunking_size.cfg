CONSTANTS
  Sentences = {1, 2, 6, 7, 12}
  TargetChars = 4
  MaxChars = 6
  Texts <- MCTexts
SPECIFICATION Spec
INVARIANT PiecesFit
