SPECIFICATION Spec
CONSTANTS
  Request = {r1, r2, r3}
  Limits = {0, 1, 2}
  Window = 2
  MaxTime = 4
\* every request may be answered and the clock is bounded
CHECK_DEADLOCK FALSE
SYMMETRY MCSymmetry
INVARIANTS TypeOK WindowLimit DenialJustified RetryIsNextWindow
