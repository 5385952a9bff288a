SPECIFICATION DetectSpec
CONSTANTS
  TagList <- MCTagList
  Pins = {1, 2}
  ImageCount = 2
  LabelOf <- MCLabelOf
  Cap = 2
  MaxPushes = 2
  MaxShifts = 1
  MaxOutages = 1
PROPERTY
  NotPoisoned
