\* An export and an import, two workers, an erasure, one fault, fairness.
CONSTANTS
  People = {p1}
  Exports = {x1}
  Imports = {m1}
  Workers = {w1, w2}
  Erasers = {e1}
  Nothing = Nothing
  MaxFaults = 1
SPECIFICATION FairSpec
INVARIANTS TypeOK TaintedIsCaught LandedAsShown
PROPERTIES NobodyWrittenBack ServedIsCurrent OutcomeIsFinal FilesAreTemporary
\* Every job finished and every file gone: it may rest.
CHECK_DEADLOCK FALSE
