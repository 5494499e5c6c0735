SPECIFICATION Spec
CONSTANTS
  Stream <- MCStream
  MaxCount = 3
  MaxDatagrams = 4
CHECK_DEADLOCK FALSE
INVARIANTS
  MoldTypeOK
  DecodedInOrder
  LossesAreCounted
PROPERTY NeverGoesBack
