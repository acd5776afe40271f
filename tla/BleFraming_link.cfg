SPECIFICATION FramingSpec
CONSTANTS
  Width = 4
  Lengths = {2, 3, 5}
  MaxMessages = 5
  MaxLoss = 2
  MaxRestarts = 1
CHECK_DEADLOCK FALSE
INVARIANTS
  FramingTypeOK
  DeliveredIsSent
  DeliveredIsContiguous
