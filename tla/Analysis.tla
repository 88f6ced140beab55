------------------------------ MODULE Analysis ------------------------------
(***************************************************************************)
(* What the worker does between the fetch and the persist of a job:         *)
(* validate has passed, a vision adapter looks at the image                 *)
(* (adapters/vision.py), a policy classifier at the text and the signals    *)
(* (adapters/llm.py), route_decision picks the outcome (thresholds.py) and  *)
(* DecisionEnvelope validates it (envelope.py).  Scores are in              *)
(* ten-thousandths, the precision the adapters round to.  Image and texts   *)
(* are the features the heuristics look for; reasons and rationales are     *)
(* left out.                                                                *)
(***************************************************************************)
EXTENDS Integers

CONSTANTS AutoAllow, AutoBlock, NsfwBlock, NsfwFlag, ViolenceBlock, ViolenceFlag,
          RekognitionScore,  \* confidences of detect_moderation_labels
          OpenAiScore        \* confidences OpenAI replies with

ASSUME ThresholdAssumption ==
  {AutoAllow, AutoBlock, NsfwBlock, NsfwFlag, ViolenceBlock, ViolenceFlag} \subseteq Int
ASSUME ScoreAssumption == RekognitionScore \subseteq 0..10000 /\ OpenAiScore \subseteq Int

VARIABLES stage,     \* what comes next
          provider,  \* the configured VISION_PROVIDER and LLM_PROVIDER
          image,
          caption,   \* cues in the caption
          vision,    \* VisionSignals, with the pattern cues of the OCR text
          llm,       \* the suggested decision, its score and who made it
          verdict    \* the envelope, or "error"

vars == <<stage, provider, image, caption, vision, llm, verdict>>

Decision == {"ALLOW", "FLAG", "BLOCK"}

Image == {"unreadable", "plain", "warm", "dark"}

\* what the policy patterns find, in the caption and in OCR text alike
TextCue == {"block_pattern", "flag_pattern", "ambiguous"}

CaptionCue == TextCue \cup
  {"nsfw", "violence", "safe", "force_nsfw", "force_violence", "long"}

\* "force_nsfw" contains "nsfw" and is longer than 8 characters
Caption == {c \in SUBSET CaptionCue :
              /\ "force_nsfw" \in c => {"nsfw", "long"} \subseteq c
              /\ "force_violence" \in c => {"violence", "long"} \subseteq c}

Larger(a, b) == IF a >= b THEN a ELSE b
Smaller(a, b) == IF a <= b THEN a ELSE b

Score == 0..10000

Signals == [nsfw : Score, violence : Score, ocr : SUBSET TextCue]

Unseen == [nsfw |-> 0, violence |-> 0, ocr |-> {}]
Unclassified == [decision |-> "FLAG", score |-> 0, by |-> "none"]
Undecided == [decision |-> "none", review |-> FALSE]
Refused == [decision |-> "error", review |-> FALSE]

TypeOK ==
  /\ stage \in {"vision", "llm", "route", "done"}
  /\ provider \in [vision : {"local", "aws", "gcp"}, llm : {"rules", "openai"}]
  /\ image \in Image
  /\ caption \in Caption
  /\ vision \in Signals
  /\ llm \in [decision : Decision, score : Int, by : {"none", "rules", "openai"}]
  /\ verdict \in [decision : Decision \cup {"none", "error"}, review : BOOLEAN]

Init ==
  /\ stage = "vision"
  /\ provider \in [vision : {"local", "aws", "gcp"}, llm : {"rules", "openai"}]
  /\ image \in Image
  /\ caption \in Caption
  /\ vision = Unseen
  /\ llm = Unclassified
  /\ verdict = Undecided
-----------------------------------------------------------------------------
(* The vision adapters.                                                    *)

\* Mutant: an image PIL cannot read scores like any other
LocalUnreadableIsClean(i, c) == Unseen

(* LocalHeuristicVision.analyze.  Its OCR text is a part of the caption, so *)
(* it adds nothing to what the classifier reads.                            *)
LocalSignals(i, c) ==
  LET tone == CASE i = "dark" -> 3500 [] i = "warm" -> 2500 [] OTHER -> 500
      seenNsfw == IF "nsfw" \in c THEN 9200 ELSE 500
      seenViolence == IF "violence" \in c THEN Larger(tone, 8800) ELSE tone
      Calmed(score) == IF "safe" \in c THEN Smaller(score, 800) ELSE score
  IN  IF i = "unreadable" THEN [nsfw |-> 5000, violence |-> 5000, ocr |-> {}]
      ELSE [nsfw     |-> IF "force_nsfw" \in c THEN 9500 ELSE Calmed(seenNsfw),
            violence |-> IF "force_violence" \in c THEN 9300 ELSE Calmed(seenViolence),
            ocr      |-> {}]

\* gcp_likelihood_score of UNKNOWN, VERY_UNLIKELY, ... VERY_LIKELY
Likelihood == {0, 500, 2000, 4500, 7500, 9500}

\* Mutant: Confidence is a percentage and is not divided by 100
RemotePercent(p) ==
  [nsfw     : {100 * s : s \in RekognitionScore},
   violence : {100 * s : s \in RekognitionScore},
   ocr      : SUBSET TextCue]

(* What the Rekognition or Vision API reports for an image: unlabelled      *)
(* images score 0, adult and racy count as one.                             *)
RemoteSignals(p) ==
  CASE p = "aws" -> [nsfw     : RekognitionScore \cup {0},
                     violence : RekognitionScore \cup {0},
                     ocr      : SUBSET TextCue]
    [] p = "gcp" -> [nsfw : Likelihood, violence : Likelihood, ocr : SUBSET TextCue]
    [] OTHER     -> {}

\* the classifier reads no more of the caption
CaptionRead == caption' = caption \cap (TextCue \cup {"long"})

See ==
  /\ stage = "vision" /\ stage' = "llm"
  /\ vision' \in RemoteSignals(provider.vision)
  /\ CaptionRead
  /\ UNCHANGED <<provider, image, llm, verdict>>

(* The local provider, and what the others fall back to on any exception.  *)
SeeLocally ==
  /\ stage = "vision" /\ stage' = "llm"
  /\ vision' = LocalSignals(image, caption)
  /\ CaptionRead
  /\ UNCHANGED <<provider, image, llm, verdict>>
-----------------------------------------------------------------------------
(* The policy classifiers.                                                 *)
By(who, decision, score) == [decision |-> decision, score |-> score, by |-> who]

\* Mutant: the text is read only when the image looks risky
RulesVisionFirst(v, text, long) ==
  LET risk == Larger(v.nsfw, v.violence)
  IN  CASE risk < 4500                -> By("rules", "ALLOW", IF long THEN 9100 ELSE 7800)
        [] "block_pattern" \in text   -> By("rules", "BLOCK", 9700)
        [] OTHER                      -> By("rules", "FLAG", 7200)

(* RulesPolicyClassifier.classify: the first rule that matches.            *)
RulesClassify(v, text, long) ==
  LET risk == Larger(v.nsfw, v.violence)
  IN  IF "block_pattern" \in text THEN By("rules", "BLOCK", 9700)
      ELSE IF "flag_pattern" \in text THEN By("rules", "FLAG", 7200)
      ELSE IF risk >= 8500 THEN By("rules", "BLOCK", Smaller(9900, 7000 + risk \div 4))
      ELSE IF risk >= 4500 THEN By("rules", "FLAG", 5500 + risk \div 5)
      ELSE IF "ambiguous" \in text THEN By("rules", "FLAG", 6200)
      ELSE By("rules", "ALLOW", IF long THEN 9100 ELSE 7800)

(* The rules, alone or as what OpenAIPolicyClassifier falls back to on an    *)
(* unreachable service, a missing field or an unknown decision.             *)
ClassifyByRules ==
  /\ stage = "llm" /\ stage' = "route"
  /\ llm' = RulesClassify(vision, (caption \cup vision.ocr) \cap TextCue, "long" \in caption)
  /\ UNCHANGED <<provider, image, caption, vision, verdict>>

(* OpenAI's reply; its confidence is taken as it is.                       *)
ClassifyByModel ==
  /\ stage = "llm" /\ stage' = "route"
  /\ provider.llm = "openai"
  /\ \E d \in Decision, s \in OpenAiScore : llm' = By("openai", d, s)
  /\ UNCHANGED <<provider, image, caption, vision, verdict>>
-----------------------------------------------------------------------------
Outcome(d, review) == [decision |-> d, review |-> review]

\* Mutant: a block is compared with the threshold for allowing
RouteBlockAsAllow(suggested, confidence, nsfw, violence) ==
  CASE nsfw >= NsfwBlock \/ violence >= ViolenceBlock -> Outcome("BLOCK", confidence < AutoAllow)
    [] nsfw >= NsfwFlag \/ violence >= ViolenceFlag    -> Outcome("FLAG", TRUE)
    [] suggested = "BLOCK" /\ confidence >= AutoAllow  -> Outcome("BLOCK", FALSE)
    [] suggested = "ALLOW" /\ confidence >= AutoAllow  -> Outcome("ALLOW", FALSE)
    [] OTHER                                           -> Outcome("FLAG", TRUE)

(* route_decision.                                                         *)
RouteDecision(suggested, confidence, nsfw, violence) ==
  IF nsfw >= NsfwBlock \/ violence >= ViolenceBlock
  THEN Outcome("BLOCK", confidence < AutoBlock)
  ELSE IF nsfw >= NsfwFlag \/ violence >= ViolenceFlag THEN Outcome("FLAG", TRUE)
  ELSE IF suggested = "BLOCK" /\ confidence >= AutoBlock THEN Outcome("BLOCK", FALSE)
  ELSE IF suggested = "ALLOW" /\ confidence >= AutoAllow THEN Outcome("ALLOW", FALSE)
  ELSE Outcome("FLAG", TRUE)

\* DecisionEnvelope: confidence must lie between 0 and 1
Envelope(outcome, confidence) ==
  IF confidence \notin Score THEN Refused
  ELSE Outcome(outcome.decision, outcome.review \/ outcome.decision = "FLAG")

RouteJob ==
  /\ stage = "route" /\ stage' = "done"
  /\ verdict' = Envelope(RouteDecision(llm.decision, llm.score, vision.nsfw, vision.violence),
                         llm.score)
  /\ UNCHANGED <<provider, image, caption, vision, llm>>

Next == See \/ SeeLocally \/ ClassifyByRules \/ ClassifyByModel \/ RouteJob

Spec == Init /\ [][Next]_vars
-----------------------------------------------------------------------------
(* What is settled without a human was settled with enough confidence: a    *)
(* release is the classifier's own, below every soft threshold; a block is   *)
(* the classifier's own or has a hard signal.                               *)
AutoMeansConfident ==
  verdict.decision \in Decision /\ ~verdict.review =>
    \/ /\ verdict.decision = "ALLOW" /\ llm.decision = "ALLOW" /\ llm.score >= AutoAllow
       /\ vision.nsfw < NsfwFlag /\ vision.violence < ViolenceFlag
    \/ /\ verdict.decision = "BLOCK" /\ llm.score >= AutoBlock
       /\ \/ llm.decision = "BLOCK" /\ vision.nsfw < NsfwFlag /\ vision.violence < ViolenceFlag
          \/ vision.nsfw >= NsfwBlock \/ vision.violence >= ViolenceBlock

(* A pattern of the policy in the caption or in the picture's text is never *)
(* released by the rules, whatever the image scores and whoever failed      *)
(* before they were asked.                                                  *)
RulesHoldPolicyText ==
  llm.by = "rules" /\ (caption \cup vision.ocr) \cap TextCue # {} =>
    verdict.decision # "ALLOW"

(* An image the local provider cannot read is never settled without a human.*)
UnreadableGoesToHuman ==
  image = "unreadable" /\ provider.vision = "local" /\ verdict.decision \in Decision =>
    verdict.review
=============================================================================
