--------------------------- MODULE PubSubPipeline ---------------------------
(***************************************************************************)
(* The job pipeline with QUEUE_PROVIDER=pubsub: the API publishes, workers  *)
(* pull and settle in batches.  There is no dead-letter queue, and the      *)
(* redrive tool refuses this provider.                                      *)
(***************************************************************************)
EXTENDS PubSub

vars == <<msg, jobs, decision, review, api, worker, settled, pending>>

Init == PubSubInit /\ DbInit /\ ApiInit /\ WorkerInit

Next ==
  \/ \E j \in Job :
       \/ ApiStepOf(j) /\ UNCHANGED <<worker, settled, pending>>
       \/ (GiveUp(j) \/ PublishLate(j)) /\ UNCHANGED <<worker, settled>>
  \/ \E w \in Worker : LoopStep(w) /\ UNCHANGED <<api, pending>>
  \/ \E m \in Msg : Expire(m) /\ UNCHANGED <<dbVars, api, worker, settled, pending>>

Spec == Init /\ [][Next]_vars
-----------------------------------------------------------------------------
TypeOK == PubSubTypeOK /\ DbTypeOK /\ ApiTypeOK /\ WorkerTypeOK

(* Everything a worker holds was published, and carries a job;              *)
InHand ==
  /\ \A m \in Msg : msg[m].place # "free" => msg[m].job \in Job
  /\ \A w \in Worker :
       /\ \A m \in worker[w].batch \cup settled[w].ack \cup settled[w].nack :
            msg[m].place # "free"
       /\ ~At(w, "poll") => worker[w].cur \in Msg /\ msg[worker[w].cur].place # "free"

Finished(j) == j \in Rejected \/ Decided(j)

(* ... what it will acknowledge at the end of the batch was decided or      *)
(* refused when it was handled, however long ago that is;                   *)
AckJustified ==
  \A w \in Worker :
    /\ At(w, "persist") => worker[w].result \in Verdict
    /\ worker[w].result = "invalid" => ~At(w, "poll") /\ JobOf(w) \in Rejected
    /\ At(w, "ack") => Finished(JobOf(w))
    /\ \A m \in settled[w].ack : Finished(msg[m].job)

(* ... and so was all that ever left the subscription: a failing message    *)
(* does not go with the rest of its batch.                                  *)
GoneIsFinished == \A m \in Msg : msg[m].place = "gone" => Finished(msg[m].job)

IInv == TypeOK /\ SucceededIsDecided /\ InHand /\ AckJustified /\ GoneIsFinished

Ledger == INSTANCE DecisionLedger

(* The queue provider makes no difference to what is decided: this pipeline *)
(* is a ledger of decisions as the one on SQS is.                           *)
ImplementsLedger == Ledger!LedgerSpec
=============================================================================
