--------------------------- MODULE DecisionLedger ---------------------------
(***************************************************************************)
(* What the pipeline promises about its decisions, whatever the queue: a     *)
(* job is decided at most once, and the decision and the review row it asks  *)
(* for appear in one step and stay.                                         *)
(***************************************************************************)
CONSTANTS Job, Verdict, ReviewVerdict

VARIABLES decision, review

entries == <<decision, review>>

Open == [j \in Job |-> "none"]

LedgerInit == decision = Open /\ review = [j \in Job |-> FALSE]

Decide(j, v) ==
  /\ decision[j] = "none"
  /\ decision' = [decision EXCEPT ![j] = v]
  /\ review' = [review EXCEPT ![j] = v \in ReviewVerdict]

LedgerNext == \E j \in Job, v \in Verdict : Decide(j, v)

LedgerSpec == LedgerInit /\ [][LedgerNext]_entries
=============================================================================
