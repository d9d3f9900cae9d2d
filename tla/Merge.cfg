SPECIFICATION ResolutionSpec
CONSTANTS
  k1 = k1
  Names = {k1, k2}
  Values = {v1, v2}
  Zero = Zero
  Nil = Nil
  Written <- MCWritten
  MaxLayers = 3
INVARIANTS
  FieldsFromNearest
  StringsFromFarthest
  KeysOfAllLayers
CHECK_DEADLOCK FALSE
