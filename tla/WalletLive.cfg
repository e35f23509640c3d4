CONSTANTS
  i1 = i1  i2 = i2  f1 = f1  p1 = p1  p2 = p2  none = none
  Instances = {i1}
  Followups = {f1}
  Passes = {p1, p2}
  Nothing = none
  Deadline = 1
  Lag = 1
  Window = 3
  MaxTime = 5
  MaxAccount = 1
SPECIFICATION LiveSpec
PROPERTIES ErasedPassGoes
CHECK_DEADLOCK FALSE
