---------------------------- MODULE JobPipeline ----------------------------
(***************************************************************************)
(* The asynchronous job pipeline: the API hands jobs to SQS, workers decide *)
(* them, the redrive tool brings dead letters back; PostgreSQL is shared.   *)
(***************************************************************************)
EXTENDS Enqueue, Worker, Redrive

vars == <<msg, jobs, decision, review, api, worker, cli>>

Init == SqsInit /\ DbInit /\ ApiInit /\ WorkerInit /\ CliInit

Next ==
  \/ \E j \in Job : ApiStepOf(j) /\ UNCHANGED <<worker, cli>>
  \/ \E w \in Worker : WorkerStep(w) /\ UNCHANGED <<api, cli>>
  \/ \E r \in Redriver : CliStep(r) /\ UNCHANGED <<api, worker>>
  \/ \E m \in Msg : (Expire(m) \/ MoveToDlq(m)) /\ UNCHANGED <<dbVars, api, worker, cli>>

Spec == Init /\ [][Next]_vars

(* A worker that runs keeps running its loop; SQS lets timeouts pass and    *)
(* applies its redrive policy.  Nothing obliges the API to send, an operator *)
(* to redrive, or any call to succeed.                                      *)
Fairness ==
  /\ \A w \in Worker : /\ WF_vars(Receive(w) /\ UNCHANGED <<api, cli>>)
                       /\ WF_vars(WorkerRuns(w) /\ UNCHANGED <<api, cli>>)
  /\ \A m \in Msg :
       WF_vars((Expire(m) \/ MoveToDlq(m)) /\ UNCHANGED <<dbVars, api, worker, cli>>)

FairSpec == Spec /\ Fairness
-----------------------------------------------------------------------------
TypeOK == SqsTypeOK /\ DbTypeOK /\ ApiTypeOK /\ WorkerTypeOK /\ CliTypeOK

(* Why nothing is lost, as an inductive invariant.  Processes only handle   *)
(* messages that were sent, and those carry a job;                          *)
InHand ==
  /\ \A m \in Msg : msg[m].place # "free" => msg[m].job \in Job
  /\ \A w \in Worker : /\ \A m \in worker[w].batch : msg[m].place # "free"
                       /\ ~At(w, "poll") => /\ worker[w].cur \in Msg
                                            /\ msg[worker[w].cur].place # "free"
  /\ \A r \in Redriver : /\ \A m \in cli[r].batch : msg[m].place # "free"
                         /\ cli[r].pc # "next" => /\ cli[r].cur \in Msg
                                                  /\ msg[cli[r].cur].place # "free"

(* ... a worker about to delete knows that the job is decided, or that its  *)
(* object is refused;                                                       *)
AckJustified ==
  \A w \in Worker :
    /\ At(w, "persist") => worker[w].result \in Verdict
    /\ worker[w].result = "invalid" => ~At(w, "poll") /\ JobOf(w) \in Rejected
    /\ At(w, "ack") => worker[w].result = "invalid" \/ Decided(JobOf(w))

(* ... and an undecided job has a copy that no redrive is about to delete.  *)
CopyKept ==
  \A j \in Job \ Rejected :
    Sent(j) /\ ~Decided(j) =>
      \E m \in Msg : /\ Live(m) /\ msg[m].job = j
                     /\ \A r \in Redriver : cli[r].pc = "delete" => cli[r].cur # m

IInv == TypeOK /\ SucceededIsDecided /\ InHand /\ AckJustified /\ CopyKept

(* The first decision of a job is its decision for good.                   *)
DecisionImmutable == [][\A j \in Job : Decided(j) => decision'[j] = decision[j]]_vars

Ledger == INSTANCE DecisionLedger

(* However its processes interleave, crash and redeliver, the pipeline is a  *)
(* ledger of decisions: each made once, together with its review row.       *)
ImplementsLedger == Ledger!LedgerSpec

(* One worker process at a time: a decided job stays succeeded, through     *)
(* crashes, redelivery and redrives, unless its upload was refused by a 502. *)
SerialWorkerAgrees ==
  \A j \in Job : Decided(j) /\ api[j] # "refused" => jobs[j].status = "succeeded"

(* With as many receives as attempts, a job marked dead is not worked on    *)
(* again until it is redriven: 'dead' (main.py:46) and the DLQ mean the same *)
(* thing, whichever worker counted the last attempt.                        *)
SentOnce(j) == Cardinality({m \in Msg : msg[m].place # "free" /\ msg[m].job = j}) = 1

DeadIsFinal ==
  [][\A j \in Job :
       jobs[j].status = "dead" /\ SentOnce(j) => jobs'[j].status # "processing"]_vars

\* receives of m that are used up; one that left the main queue has no more
Used(m) == IF msg[m].place = "main" THEN msg[m].receives ELSE MaxReceives

\* the messages for which w may still begin an attempt without a receive
Waiting == {"status", "lookup", "start"}
Pending(w) ==
  worker[w].batch \cup {m \in Msg : worker[w].cur = m /\ worker[w].pc \in Waiting}

Holders(m) == {w \in Worker : m \in Pending(w)}

(* A job is worked on no more often than its message is received: every      *)
(* attempt process_job has counted, and every one a worker may still begin,  *)
(* was paid with a receive, whoever crashed, raised or took too long.        *)
AttemptsPaid ==
  \A m \in Msg : msg[m].place # "free" /\ SentOnce(msg[m].job) =>
    jobs[msg[m].job].attempts + Cardinality(Holders(m)) <= Used(m)

(* A job on the queue is eventually decided or in the DLQ, where an         *)
(* operator can see it.                                                     *)
EventuallySettled ==
  \A j \in Job \ Rejected :
    Sent(j) ~> (Decided(j) \/ \E m \in Msg : msg[m].place = "dlq" /\ msg[m].job = j)

(* persist_envelope's docstring (pipeline.py:57), "Write decision + job       *)
(* success + optional review row atomically": when it has returned, the job  *)
(* is succeeded.                                                            *)
PersistMarksSuccess ==
  [][\A w \in Worker :
       At(w, "persist") /\ worker'[w].pc = "ack" => jobs'[JobOf(w)].status = "succeeded"]_vars
=============================================================================
