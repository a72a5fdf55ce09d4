CONSTANTS
  Empties = FALSE
  Groups = 2
  Unbounded = 6
  MaxSteps = 200
  Chars <- MCChars
  Nodes <- MCNodes
  Height <- MCHeight
  Patterns <- MCPatterns
  Texts <- MCTexts
  WordChars <- MCWordChars
  Lower <- MCLower
  Upper <- MCUpper
  Newline = "nl"
SPECIFICATION Spec
INVARIANTS SpansInText LeftmostFound PreferredMatch
CHECK_DEADLOCK FALSE
