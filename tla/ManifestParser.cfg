SPECIFICATION Spec
CONSTANTS
  ruleR = ruleR
  ruleS = ruleS
  fileA = fileA
  fileB = fileB
  fileC = fileC
  Name = {ruleR, ruleS}
  Path = {fileA, fileB, fileC}
  Text <- MCText
  Empty <- MCEmpty
  none = none
  Statement <- MCStatement
  Piece <- MCPiece
  Spelling <- MCSpelling
  MaxLines = 7
PROPERTY RuleInUseIsFixed
INVARIANTS TypeOK GraphAgrees ParsesFaithfully EdgesRunAsWritten
