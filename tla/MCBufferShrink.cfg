SPECIFICATION Spec
CONSTANTS
  Letter = {a}
  Space = Space
  Null = Null
  TotalRows = 4
  Sizes <- MCSizes
PROPERTY OnlyBlankRowsSkipped
