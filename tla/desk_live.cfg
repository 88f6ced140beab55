SPECIFICATION FairSpec
CONSTANTS
  None = None
  Review = {v1}
  Reviewer = {alice, bob}
  Request = {h1}
  Poller = {p1}
  TTL = 1
  MaxTime = 3
\* the clock is bounded: the desk may stop at MaxTime
CHECK_DEADLOCK FALSE
INVARIANT TypeOK
PROPERTIES NeverTakenOver NotStranded
