\* One person; two workers after the same row, two overlapping requests or the retry
\* command, and up to one fault; fairness.
CONSTANTS
  r1 = r1
  r2 = r2
  w1 = w1
  w2 = w2
  c1 = c1
  Attendees = {a1}
  Requests = {r1, r2}
  Workers = {w1, w2}
  Retriers = {c1}
  Initial = Initial
  NoOne = NoOne
  MaxAttempts = 3
  MaxRevision = 2
  MaxFaults = 1
SPECIFICATION CastSpec
INVARIANTS TypeOK MailedOncePerClaim ErasedStaysEmptied SuccessWasMailed WaitingHasMessage NoUnaskedMail
PROPERTIES OutcomeIsKept SettledWithoutCommand
\* All mail settled, everybody erased and the faults used up: it may rest.
CHECK_DEADLOCK FALSE
