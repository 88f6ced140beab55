--------------------------- MODULE AnalysisProofs ---------------------------
(***************************************************************************)
(* Proofs about Analysis, for every threshold and every reply: no ordering  *)
(* of the thresholds is assumed, because the settings check none.           *)
(***************************************************************************)
EXTENDS Analysis, TLAPS

(* The stage tells what has been computed, and from what.                  *)
StageInv ==
  /\ stage \in {"vision", "llm", "route", "done"}
  /\ stage # "done" => verdict = Undecided
  /\ stage = "done" =>
       verdict = Envelope(RouteDecision(llm.decision, llm.score, vision.nsfw, vision.violence),
                          llm.score)
  /\ stage \in {"vision", "llm"} => llm = Unclassified
  /\ llm.by = "rules" =>
       llm = RulesClassify(vision, (caption \cup vision.ocr) \cap TextCue, "long" \in caption)

(* The stages run in order and each keeps what the earlier ones computed.  *)
LEMMA StageStep == StageInv /\ [Next]_vars => StageInv'
<1> SUFFICES ASSUME StageInv, [Next]_vars PROVE StageInv'
  OBVIOUS
<1>1. CASE See \/ SeeLocally
  BY <1>1 DEF StageInv, See, SeeLocally, Unclassified, Undecided
<1>2. CASE ClassifyByRules
  <2>1. llm' = RulesClassify(vision, (caption \cup vision.ocr) \cap TextCue, "long" \in caption)'
    BY <1>2 DEF ClassifyByRules, RulesClassify, Larger, Smaller, By
  <2> QED
    BY <1>2, <2>1 DEF StageInv, ClassifyByRules, Undecided
<1>3. CASE ClassifyByModel
  BY <1>3 DEF StageInv, ClassifyByModel, By, Undecided
<1>4. CASE RouteJob
  BY <1>4 DEF StageInv, RouteJob, Undecided, Envelope, RouteDecision, RulesClassify,
              Larger, Smaller, By, Outcome
<1>5. CASE UNCHANGED vars
  BY <1>5 DEF StageInv, vars, Undecided, Unclassified, Envelope, RouteDecision, RulesClassify,
              Larger, Smaller, By, Outcome
<1> QED
  BY <1>1, <1>2, <1>3, <1>4, <1>5 DEF Next

LEMMA StageAlways == Spec => []StageInv
<1>1. Init => StageInv
  BY DEF Init, StageInv, Undecided, Unclassified
<1> QED
  BY <1>1, StageStep, PTL DEF Spec

(* The adapters' scores lie between 0 and 1: the constants of the local      *)
(* heuristic do, and the remote scores are assumed to.                      *)
LEMMA SignalsType ==
  /\ \A i \in Image, c \in Caption : LocalSignals(i, c) \in Signals
  /\ \A p \in {"local", "aws", "gcp"} : RemoteSignals(p) \subseteq Signals
<1>1. ASSUME NEW i \in Image, NEW c \in Caption PROVE LocalSignals(i, c) \in Signals
  BY DEF LocalSignals, Signals, Score, Larger, Smaller
<1>2. RekognitionScore \cup {0} \subseteq Score /\ Likelihood \subseteq Score
  BY ScoreAssumption DEF Score, Likelihood
<1>3. ASSUME NEW p \in {"local", "aws", "gcp"} PROVE RemoteSignals(p) \subseteq Signals
  <2>1. CASE p = "aws"
    BY <2>1, <1>2 DEF RemoteSignals, Signals
  <2>2. CASE p = "gcp"
    BY <2>2, <1>2 DEF RemoteSignals, Signals
  <2>3. CASE p = "local"
    BY <2>3 DEF RemoteSignals
  <2> QED
    BY <2>1, <2>2, <2>3
<1> QED
  BY <1>1, <1>3

LEMMA ScoreInt == \A x \in Score : x \in Int
BY DEF Score

LEMMA LargerInt == \A a, b \in Int : Larger(a, b) \in Int
BY DEF Larger

(* The rules suggest a decision with an integral score.                    *)
LEMMA RulesType ==
  ASSUME NEW v \in Signals, NEW text, NEW long
  PROVE  RulesClassify(v, text, long)
           \in [decision : Decision, score : Int, by : {"none", "rules", "openai"}]
<1> DEFINE risk == Larger(v.nsfw, v.violence)
<1>0. v.nsfw \in Score /\ v.violence \in Score
  BY DEF Signals
<1>1. risk \in Int
  BY <1>0, ScoreInt, LargerInt
<1>2. Smaller(9900, 7000 + risk \div 4) \in Int /\ 5500 + risk \div 5 \in Int
  BY <1>1 DEF Smaller
<1> QED
  BY <1>2 DEF RulesClassify, By, Decision

LEMMA TypeStep == TypeOK /\ StageInv /\ [Next]_vars => TypeOK'
<1> SUFFICES ASSUME TypeOK, StageInv, [Next]_vars PROVE TypeOK'
  OBVIOUS
<1>1. ASSUME CaptionRead PROVE caption' \in Caption
  BY <1>1 DEF CaptionRead, TypeOK, Caption, CaptionCue, TextCue
<1>2. CASE See
  BY <1>2, <1>1, SignalsType DEF TypeOK, See
<1>3. CASE SeeLocally
  BY <1>3, <1>1, SignalsType DEF TypeOK, SeeLocally
<1>4. CASE ClassifyByRules
  BY <1>4, RulesType DEF TypeOK, ClassifyByRules
<1>5. CASE ClassifyByModel
  BY <1>5, ScoreAssumption DEF TypeOK, ClassifyByModel, By
<1>6. CASE RouteJob
  BY <1>6 DEF TypeOK, RouteJob, Envelope, RouteDecision, Outcome, Refused, Decision
<1>7. CASE UNCHANGED vars
  BY <1>7 DEF TypeOK, vars
<1> QED
  BY <1>2, <1>3, <1>4, <1>5, <1>6, <1>7 DEF Next

(* Type correctness of the analysis, for any thresholds.                   *)
THEOREM AnalysisTyped == Spec => []TypeOK
<1>1. Init => TypeOK
  BY DEF Init, TypeOK, Unseen, Unclassified, Undecided, Signals, Score, Decision, Caption
<1> QED
  BY <1>1, TypeStep, StageAlways, PTL DEF Spec

(* Whatever the thresholds, the scores and the provider, an outcome without *)
(* review had the confidence the code asks for it (route_decision).         *)
THEOREM AutomaticIsConfident == Spec => []AutoMeansConfident
<1>1. TypeOK /\ StageInv => AutoMeansConfident
  <2> SUFFICES ASSUME TypeOK, StageInv, verdict.decision \in Decision, ~verdict.review
               PROVE  AutoMeansConfident
    BY DEF AutoMeansConfident
  <2>1. verdict = Envelope(RouteDecision(llm.decision, llm.score, vision.nsfw,
                                         vision.violence), llm.score)
    BY DEF StageInv, Undecided, Decision
  <2>2. vision.nsfw \in Score /\ vision.violence \in Score /\ llm.score \in Int
    BY DEF TypeOK, Signals
  <2>ints. vision.nsfw \in Int /\ vision.violence \in Int
    BY <2>2, ScoreInt
  <2>3. NsfwFlag \in Int /\ ViolenceFlag \in Int /\ AutoBlock \in Int
    BY ThresholdAssumption
  <2> DEFINE out == RouteDecision(llm.decision, llm.score, vision.nsfw, vision.violence)
  <2>4. verdict.decision = out.decision /\ ~out.review
    BY <2>1 DEF Envelope, Refused, Decision, Outcome
  <2> DEFINE hard == vision.nsfw >= NsfwBlock \/ vision.violence >= ViolenceBlock
             soft == vision.nsfw >= NsfwFlag \/ vision.violence >= ViolenceFlag
             out1 == IF hard THEN Outcome("BLOCK", llm.score < AutoBlock)
                     ELSE IF soft THEN Outcome("FLAG", TRUE)
                     ELSE IF llm.decision = "BLOCK" /\ llm.score >= AutoBlock
                     THEN Outcome("BLOCK", FALSE)
                     ELSE IF llm.decision = "ALLOW" /\ llm.score >= AutoAllow
                     THEN Outcome("ALLOW", FALSE)
                     ELSE Outcome("FLAG", TRUE)
  <2>5. out = out1
    BY DEF RouteDecision
  <2> HIDE DEF out
  <2>6. ~(llm.score < AutoBlock) <=> llm.score >= AutoBlock
    BY <2>2, <2>3
  <2>7. /\ ~(vision.nsfw >= NsfwFlag) <=> vision.nsfw < NsfwFlag
        /\ ~(vision.violence >= ViolenceFlag) <=> vision.violence < ViolenceFlag
    BY <2>ints, <2>3
  <2>8. CASE hard
    <3>1. verdict.decision = "BLOCK" /\ ~(llm.score < AutoBlock)
      BY <2>4, <2>5, <2>8 DEF Outcome
    <3> QED
      BY <3>1, <2>6, <2>8 DEF AutoMeansConfident
  <2>9. CASE ~hard /\ soft
    BY <2>4, <2>5, <2>9 DEF Outcome
  <2>10. CASE ~hard /\ ~soft
    <3>1. vision.nsfw < NsfwFlag /\ vision.violence < ViolenceFlag
      BY <2>7, <2>10
    <3>2. \/ verdict.decision = "BLOCK" /\ llm.decision = "BLOCK" /\ llm.score >= AutoBlock
          \/ verdict.decision = "ALLOW" /\ llm.decision = "ALLOW" /\ llm.score >= AutoAllow
      <4> HIDE DEF hard, soft
      <4> QED BY <2>4, <2>5, <2>10 DEF Outcome
    <3> QED
      BY <3>1, <3>2 DEF AutoMeansConfident
  <2> QED
    BY <2>8, <2>9, <2>10
<1> QED
  BY <1>1, AnalysisTyped, StageAlways, PTL

(* Whatever the thresholds and the image, policy text the rules saw is not  *)
(* released (RulesPolicyClassifier.classify and route_decision together).   *)
THEOREM PolicyTextHeld == Spec => []RulesHoldPolicyText
<1>1. StageInv => RulesHoldPolicyText
  <2> SUFFICES ASSUME StageInv, llm.by = "rules",
                      (caption \cup vision.ocr) \cap TextCue # {},
                      stage = "done"
               PROVE  verdict.decision # "ALLOW"
    BY DEF StageInv, RulesHoldPolicyText, Undecided
  <2> DEFINE text == (caption \cup vision.ocr) \cap TextCue
  <2>1. \/ "block_pattern" \in text
        \/ "flag_pattern" \in text
        \/ "ambiguous" \in text
    BY DEF TextCue
  <2>2. llm.decision # "ALLOW"
    <3> HIDE DEF text
    <3> QED BY <2>1 DEF StageInv, RulesClassify, By, text
  <2> QED
    BY <2>2 DEF StageInv, Refused, Envelope, RouteDecision, Outcome
<1> QED
  BY <1>1, StageAlways, PTL
-----------------------------------------------------------------------------
(* The score the local heuristic gives an image it cannot read is soft and  *)
(* not hard.  The thresholds the worker starts with satisfy this; a setting *)
(* that does not sends such images to BLOCK, or lets them through.          *)
UnreadableIsSoft ==
  /\ NsfwBlock > 5000 /\ ViolenceBlock > 5000
  /\ NsfwFlag <= 5000 \/ ViolenceFlag <= 5000

(* Once the local provider has looked at an unreadable image, its signals    *)
(* are the ones the heuristic gives such an image.                          *)
UnreadableScored ==
  image = "unreadable" /\ provider.vision = "local" /\ stage # "vision" =>
    vision = [nsfw |-> 5000, violence |-> 5000, ocr |-> {}]

LEMMA UnreadableStep == StageInv /\ UnreadableScored /\ [Next]_vars => UnreadableScored'
<1> SUFFICES ASSUME StageInv, UnreadableScored, [Next]_vars PROVE UnreadableScored'
  OBVIOUS
<1>1. CASE See
  <2>1. provider.vision # "local"
    BY <1>1 DEF See, RemoteSignals
  <2> QED
    BY <1>1, <2>1 DEF See, UnreadableScored
<1>2. CASE SeeLocally
  BY <1>2 DEF SeeLocally, LocalSignals, UnreadableScored
<1>3. CASE ClassifyByRules \/ ClassifyByModel \/ RouteJob
  BY <1>3 DEF ClassifyByRules, ClassifyByModel, RouteJob, UnreadableScored
<1>4. CASE UNCHANGED vars
  BY <1>4 DEF vars, UnreadableScored
<1> QED
  BY <1>1, <1>2, <1>3, <1>4 DEF Next

(* Whatever the classifier says of it and however sure it is, an image the   *)
(* local provider cannot read is left to a human: the adapter's middle score *)
(* and route_decision's soft thresholds together (vision.py, thresholds.py). *)
THEOREM UnreadableHeld ==
  ASSUME UnreadableIsSoft
  PROVE  Spec => []UnreadableGoesToHuman
<1>1. Init => UnreadableScored
  BY DEF Init, UnreadableScored
<1>2. StageInv /\ UnreadableScored => UnreadableGoesToHuman
  <2> SUFFICES ASSUME StageInv, UnreadableScored, image = "unreadable",
                      provider.vision = "local", verdict.decision \in Decision
               PROVE  verdict.review
    BY DEF UnreadableGoesToHuman
  <2>1. stage = "done"
    BY DEF StageInv, Undecided, Decision
  <2>2. vision.nsfw = 5000 /\ vision.violence = 5000
    BY <2>1 DEF UnreadableScored
  <2>3. /\ ~(vision.nsfw >= NsfwBlock) /\ ~(vision.violence >= ViolenceBlock)
        /\ vision.nsfw >= NsfwFlag \/ vision.violence >= ViolenceFlag
    BY <2>2, ThresholdAssumption, UnreadableIsSoft DEF UnreadableIsSoft
  <2>4. RouteDecision(llm.decision, llm.score, vision.nsfw, vision.violence)
          = Outcome("FLAG", TRUE)
    BY <2>3 DEF RouteDecision
  <2>5. verdict = Envelope(Outcome("FLAG", TRUE), llm.score)
    BY <2>1, <2>4 DEF StageInv
  <2>6. CASE llm.score \notin Score
    BY <2>5, <2>6 DEF Envelope, Refused, Decision
  <2>7. CASE llm.score \in Score
    BY <2>5, <2>7 DEF Envelope, Outcome
  <2> QED
    BY <2>6, <2>7
<1> QED
  BY <1>1, <1>2, StageAlways, UnreadableStep, PTL DEF Spec
=============================================================================
