\* Two sessions of one account and two requests at a time.
CONSTANTS
  Sessions = {s1, s2}
  Earlier = {s2}
  Requests = {r1, r2}
  Codes = {c1}
  MaxStep = 2
SPECIFICATION Spec
INVARIANTS TypeOK NoProofBurnt SignedOutIsOut
PROPERTIES KeepsPromise
SYMMETRY Symmetry
\* Every session ended and every request made: it may rest.
CHECK_DEADLOCK FALSE
