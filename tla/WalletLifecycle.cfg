\* Two requests or job steps of any kind, and the worker.
CONSTANTS
  a1 = a1  a2 = a2  w = w
  Actors = {a1, a2}
  Watcher = w
  Lag = 1
  Window = 1
  EndsAt = 3
  LastChange = 3
  MaxTime = 5
SPECIFICATION Spec
INVARIANTS TypeOK ActiveIsAtProvider
PROPERTY ObservedVoidIsReal
SYMMETRY Symmetry
CHECK_DEADLOCK FALSE
