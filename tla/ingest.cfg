SPECIFICATION FairSpec
CONSTANTS
  None = None
  Upload = {u1, u2, u3}
  Hash = {h1, h2}
  MaxPolls = 2
  Type = {"image/png", "image/bmp", "other"}
  ImageTypes = {"image/png"}
  ApiTypes = {"image/png", "image/bmp"}
  ApiMax = 2
  WorkerMax = 2
  Size <- MCSize
  Magic <- MCMagic
  h1 = h1
  h2 = h2
\* all uploads may be answered
CHECK_DEADLOCK FALSE
INVARIANTS TypeOK OneJobPerContent QueuedIsSent JobHasObject
PROPERTY EveryUploadAnswered
