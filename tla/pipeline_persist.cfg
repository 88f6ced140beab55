SPECIFICATION FairSpec
CONSTANTS
  None = None
  Job = {j1}
  Rejected = {}
  Msg = {m1}
  Worker = {w1, w2}
  Redriver = {}
  MaxReceives = 3
  MaxAttempts = 3
  MaxBatch = 1
  MaxPull = 1
  Verdict <- MCVerdict
  ReviewVerdict <- MCReviewVerdict
\* the system rests when every job is settled
CHECK_DEADLOCK FALSE
PROPERTY PersistMarksSuccess
