SPECIFICATION Spec
CONSTANTS
  None = None
  Review = {v1}
  Reviewer = {alice, bob}
  Request = {h1, h2}
  Poller = {p1}
  TTL = 1
  MaxTime = 3
\* the clock is bounded: the desk may stop at MaxTime
CHECK_DEADLOCK FALSE
SYMMETRY MCSymmetry
\* the condition of the lease, which the code does not ensure
ACTION_CONSTRAINT SweepsUndisturbed
PROPERTY ImplementsLease ResolvedIsFinal
