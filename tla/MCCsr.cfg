CONSTANTS
  Values <- MCValues
  Byte = 2
  DataWidths = {1, 2, 4}
  ElemSizes = {1, 2, 4, 8}
  MaxBytes = 8
SPECIFICATION MCSpec
INVARIANTS
  EventsSurvive
  AccessorsAgree
PROPERTY FieldsAreIndependent
