CONSTANTS
  a = a
  b = b
  None = None
  Handle <- MCHandle
  Name <- MCName
  Literal <- MCLiteral
  MaxCell = 3
  MaxChildren = 2
  SourceByte <- MCSourceByte
  MaxSource = 5
SPECIFICATION Spec
INVARIANTS
  KeptWhileUsed
  
  PacketsArriveAsTold
  RequestsAreReadInPieces
  AnswersAreReadBack
  OnlyTheTextIsDecoded
PROPERTIES
  ImplementsValues
SYMMETRY MCSymmetry
CONSTRAINT MCLeft
CHECK_DEADLOCK FALSE
