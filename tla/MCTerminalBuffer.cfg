SPECIFICATION Spec
CONSTANTS
  Letter = {a, b}
  Space = Space
  Null = Null
  TotalRows = 4
  Sizes <- MCSizes
INVARIANTS TypeOK RowsExist CursorOnScreen CursorFollowsText
PROPERTY ImplementsText
SYMMETRY MCLetters
