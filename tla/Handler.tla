------------------------------ MODULE Handler ------------------------------
(***************************************************************************)
(* What a worker does with a message, whichever queue it came from:         *)
(* handle_message, mark_failed (apps/worker/worker/main.py), process_job    *)
(* and persist_envelope (pipeline.py).  Every SQL statement runs in its own *)
(* transaction except persist_envelope's, so each is a step of its own and  *)
(* any other process may run between two of them.  A worker takes its batch *)
(* one message at a time.  The loops that receive and acknowledge are in     *)
(* Worker (SQS) and PubSub.                                                 *)
(***************************************************************************)
EXTENDS Messages, JobStore, FiniteSets

CONSTANTS Rejected,  \* jobs whose stored object validate() refuses
          MaxBatch   \* most messages of one receive: 5 in both loops

ASSUME RejectedAssumption == Rejected \subseteq Job
ASSUME MaxBatchAssumption == MaxBatch \in Nat \ {0}

VARIABLE worker

WorkerPc == {"poll", "status", "lookup", "start", "analyze", "persist",
             "count", "mark", "log", "ack"}

WorkerState ==
  [pc     : WorkerPc,
   batch  : SUBSET Msg,                              \* received, not yet taken
   cur    : Msg \cup {None},                         \* the message in hand
   result : Verdict \cup {"none", "invalid", "error"}, \* verdict, or what was raised
   mark   : {"none", "failed", "dead"}]              \* status mark_failed computed

\* at the top of the loop over the messages it still has
PollingWith(ms) ==
  [pc |-> "poll", batch |-> ms, cur |-> None, result |-> "none", mark |-> "none"]

Polling == PollingWith({})

WorkerTypeOK == worker \in [Worker -> WorkerState]

WorkerInit == worker = [w \in Worker |-> Polling]

At(w, pc) == worker[w].pc = pc

JobOf(w) == msg[worker[w].cur].job

Goto(w, pc) == worker' = [worker EXCEPT ![w].pc = pc]

(* Done with the message in hand, deleted or not; the rest of the batch     *)
(* stays.                                                                   *)
NextMessage(w) == worker' = [worker EXCEPT ![w] = PollingWith(worker[w].batch)]

(* for msg in messages: the order SQS returned them in is anybody's guess. *)
Take(w) ==
  /\ At(w, "poll")
  /\ \E m \in worker[w].batch :
       worker' = [worker EXCEPT ![w].pc = "status", ![w].cur = m, ![w].batch = @ \ {m}]
  /\ UNCHANGED <<msg, dbVars>>

(* Mutant: a job somebody is processing is acked too.                      *)
SkipProcessing(w) ==
  /\ At(w, "status")
  /\ Goto(w, IF jobs[JobOf(w)].status \in {"succeeded", "processing"} THEN "ack" ELSE "lookup")
  /\ UNCHANGED <<msg, dbVars>>

(* handle_message: SELECT status; a succeeded job is skipped and acked.    *)
ReadStatus(w) ==
  /\ At(w, "status")
  /\ Goto(w, IF jobs[JobOf(w)].status = "succeeded" THEN "ack" ELSE "lookup")
  /\ UNCHANGED <<msg, dbVars>>

(* process_job: SELECT id FROM decisions; a decided job is returned.       *)
LookupDecision(w) ==
  /\ At(w, "lookup")
  /\ Goto(w, IF Decided(JobOf(w)) THEN "ack" ELSE "start")
  /\ UNCHANGED <<msg, dbVars>>

StartAttempt(w) ==
  /\ At(w, "start")
  /\ BeginAttempt(JobOf(w))
  /\ Goto(w, "analyze")
  /\ UNCHANGED msg

(* fetch, validate, vision, llm, route and the envelope: no shared state is *)
(* touched, the outcome is a verdict or the pipeline's ValidationError.     *)
Analyze(w) ==
  /\ At(w, "analyze")
  /\ IF JobOf(w) \in Rejected
     THEN worker' = [worker EXCEPT ![w] = [@ EXCEPT !.pc = "count", !.result = "invalid"]]
     ELSE \E v \in Verdict :
            worker' = [worker EXCEPT ![w] = [@ EXCEPT !.pc = "persist", !.result = v]]
  /\ UNCHANGED <<msg, dbVars>>

Persist(w) ==
  /\ At(w, "persist")
  /\ PersistEnvelope(JobOf(w), worker[w].result)
  /\ worker' = [worker EXCEPT ![w] = [@ EXCEPT !.pc = "ack", !.result = "none"]]
  /\ UNCHANGED msg

(* Mutant: the exception is swallowed and the job persisted.               *)
RaiseIntoPersist(w) ==
  /\ worker[w].pc \in {"lookup", "start", "analyze", "persist"}
  /\ worker' = [worker EXCEPT ![w] = [@ EXCEPT !.pc = "persist", !.result = "error"]]
  /\ UNCHANGED <<msg, dbVars>>

(* Mutant: a job that raised is tried again at once, without a receive.    *)
RetryAtOnce(w) ==
  /\ worker[w].pc \in {"lookup", "start", "analyze", "persist"}
  /\ worker' = [worker EXCEPT ![w] = [@ EXCEPT !.pc = "start", !.result = "none"]]
  /\ UNCHANGED <<msg, dbVars>>

(* Anything else process_job raises: storage, database, model, schema.     *)
Raise(w) ==
  /\ worker[w].pc \in {"lookup", "start", "analyze", "persist"}
  /\ worker' = [worker EXCEPT ![w] = [@ EXCEPT !.pc = "count", !.result = "error"]]
  /\ UNCHANGED <<msg, dbVars>>

(* mark_failed: SELECT attempts, max_attempts ...                          *)
CountAttempts(w) ==
  /\ At(w, "count")
  /\ worker' = [worker EXCEPT ![w] =
                  [@ EXCEPT !.pc = "mark", !.mark = FailureStatus(jobs[JobOf(w)].attempts)]]
  /\ UNCHANGED <<msg, dbVars>>

(* ... UPDATE jobs SET status, whatever the row says by now ...            *)
MarkFailed(w) ==
  /\ At(w, "mark")
  /\ SetStatus(JobOf(w), worker[w].mark)
  /\ worker' = [worker EXCEPT ![w] = [@ EXCEPT !.pc = "log", !.mark = "none"]]
  /\ UNCHANGED msg

(* Mutant: every failure deletes the message.                              *)
AckAnyFailure(w) ==
  /\ At(w, "log")
  /\ Goto(w, "ack")
  /\ UNCHANGED <<msg, dbVars>>

(* ... INSERT INTO audit_log, and the exception goes on up: a              *)
(* ValidationError deletes the message, any other leaves it to the queue.  *)
LogFailure(w) ==
  /\ At(w, "log")
  /\ IF worker[w].result = "invalid" THEN Goto(w, "ack") ELSE NextMessage(w)
  /\ UNCHANGED <<msg, dbVars>>

(* The steps of handling one message, good or bad outcome.                 *)
Handling(w) ==
  \/ Take(w) \/ ReadStatus(w) \/ LookupDecision(w) \/ StartAttempt(w) \/ Analyze(w)
  \/ Persist(w) \/ Raise(w) \/ CountAttempts(w) \/ MarkFailed(w)
-----------------------------------------------------------------------------
(* A job that reached the queue and has no decision still has a message     *)
(* somewhere, whatever crashes, times out or is delivered twice: no ack and *)
(* no redrive delete ever drops the last copy.  A job whose object is       *)
(* refused is acked without a decision on purpose.                          *)
NothingLost ==
  \A j \in Job \ Rejected :
    Sent(j) /\ ~Decided(j) => \E m \in Msg : Live(m) /\ msg[m].job = j

(* The review desk gets a row for exactly the decisions that need one:      *)
(* persist_envelope writes both or neither, once, for any number of workers *)
(* that analyse the same job and disagree.                                  *)
ReviewRowIffNeeded == \A j \in Job : review[j] <=> decision[j] \in ReviewVerdict

(* A job shown as succeeded has its decision.                              *)
SucceededIsDecided == \A j \in Job : jobs[j].status = "succeeded" => Decided(j)
=============================================================================
