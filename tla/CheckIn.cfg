\* Two guests, a device, a clerk; an hour and a half.
CONSTANTS
  Guests = {g1, g2}
  Devices = {d1}
  Clerks = {c1}
  NoDevice = NoDevice
  HourLen = 2
  MaxTime = 3
  MaxScans = 2
  MaxVersion = 2
SPECIFICATION Spec
INVARIANTS TypeOK AdmissionHolds BadgeLedger
INVARIANT ErasedLeavesNoTrace
PROPERTY UndoTakesBackOwnLast
SYMMETRY Symmetry
\* Everybody erased and the clock at its bound: it may rest.
CHECK_DEADLOCK FALSE
