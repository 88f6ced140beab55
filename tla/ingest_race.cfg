SPECIFICATION FairSpec
CONSTANTS
  None = None
  Upload = {u1, u2}
  Hash = {h1}
  MaxPolls = 2
  Type = {"image/png", "other"}
  ImageTypes = {"image/png"}
  ApiTypes = {"image/png"}
  ApiMax = 2
  WorkerMax = 2
  Size <- MCSize
  Magic <- MCMagic
  h1 = h1
  h2 = h2
\* all uploads may be answered
CHECK_DEADLOCK FALSE
PROPERTY RaceResolved
