SPECIFICATION Spec
CONSTANTS
  Embedders <- FourEmbedders
  MaxRows = 3
  Mortal = {"app", "tool"}
  MaxDeaths = 2
INVARIANTS
  TypeOK
  NoMixedSpaces
PROPERTIES
  ToolHeals
CHECK_DEADLOCK FALSE
