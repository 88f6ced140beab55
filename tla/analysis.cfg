SPECIFICATION Spec
\* the defaults of the settings, in ten-thousandths
CONSTANTS
  AutoAllow = 8500
  AutoBlock = 9000
  NsfwBlock = 8500
  NsfwFlag = 4500
  ViolenceBlock = 8000
  ViolenceFlag = 4000
  RekognitionScore = {5000, 8000, 8600}
  OpenAiScore = {0, 8499, 8500, 9000, 950000}
\* the job ends
CHECK_DEADLOCK FALSE
INVARIANTS TypeOK AutoMeansConfident RulesHoldPolicyText UnreadableGoesToHuman
