SPECIFICATION Spec
CONSTANTS
  None = None
  Job = {j1}
  Rejected = {}
  Msg = {m1, m2}
  Worker = {w1, w2}
  Redriver = {r1}
  MaxReceives = 2
  MaxAttempts = 2
  MaxBatch = 1
  MaxPull = 1
  Verdict <- MCVerdict
  ReviewVerdict <- MCReviewVerdict
\* the system rests when every job is settled
CHECK_DEADLOCK FALSE
SYMMETRY MCSymmetry
INVARIANTS TypeOK IInv NothingLost ReviewRowIffNeeded AttemptsPaid
PROPERTIES DecisionImmutable DeadIsFinal ImplementsLedger
