SPECIFICATION Spec
CONSTANTS
  Widths = {2, 4, 6}
  Heights = {2, 4}
  Samples = {0, 77, 128, 255}
INVARIANTS
  TypeOK
  ReadsInside
  OwnSamples
  GreyStaysGrey
  FieldsKept
  HeaderTellsSize
CHECK_DEADLOCK FALSE
