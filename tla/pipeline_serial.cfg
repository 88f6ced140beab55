SPECIFICATION FairSpec
CONSTANTS
  None = None
  Job = {j1}
  Rejected = {}
  Msg = {m1, m2}
  Worker = {w1}
  Redriver = {r1}
  MaxReceives = 2
  MaxAttempts = 2
  MaxBatch = 2
  MaxPull = 1
  Verdict <- MCVerdict
  ReviewVerdict <- MCReviewVerdict
\* the system rests when every job is settled
CHECK_DEADLOCK FALSE
INVARIANT SerialWorkerAgrees
PROPERTY EventuallySettled
