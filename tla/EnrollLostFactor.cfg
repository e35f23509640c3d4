\* Two sessions of one account and three requests at a time.
CONSTANTS
  Sessions = {s1, s2}
  Requests = {r1, r2, r3}
SPECIFICATION Spec
PROPERTY ConfirmedStays
SYMMETRY Symmetry
\* Every request made: it may rest.
CHECK_DEADLOCK FALSE
