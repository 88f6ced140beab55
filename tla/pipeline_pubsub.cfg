SPECIFICATION MCSpec
CONSTANTS
  None = None
  Job = {j1, j2}
  Rejected = {j2}
  Msg = {m1, m2}
  Worker = {w1, w2}
  MaxAttempts = 1
  MaxBatch = 2
  Verdict = {"ALLOW", "FLAG"}
  ReviewVerdict = {"FLAG"}
\* the system rests when every job is settled
CHECK_DEADLOCK FALSE
SYMMETRY MCSymmetry
VIEW MCView
INVARIANTS TypeOK IInv NothingLost
PROPERTY ImplementsLedger
