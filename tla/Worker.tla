------------------------------- MODULE Worker -------------------------------
(***************************************************************************)
(* The worker process on SQS: poll_sqs (apps/worker/worker/main.py) around  *)
(* the handler.  A message is deleted by itself, right after it has been    *)
(* handled.                                                                 *)
(***************************************************************************)
EXTENDS Sqs, Handler

(* receive_message.                                                        *)
Receive(w) ==
  /\ At(w, "poll") /\ worker[w].batch = {}
  /\ \E ms \in SUBSET Receivable("main") :
       /\ Cardinality(ms) \in 1..MaxBatch
       /\ Deliver("main", w, ms)
       /\ worker' = [worker EXCEPT ![w].batch = ms]
  /\ UNCHANGED dbVars

(* delete_message.                                                         *)
Ack(w) ==
  /\ At(w, "ack")
  /\ Delete("main", w, worker[w].cur)
  /\ NextMessage(w)
  /\ UNCHANGED dbVars

(* A statement of handle_message or mark_failed, or the delete, raises and  *)
(* poll_sqs leaves the message for retry.                                   *)
Abandon(w) ==
  /\ \/ worker[w].pc \in {"status", "count", "mark", "log"}
     \/ At(w, "ack") /\ worker[w].result # "invalid"
  /\ NextMessage(w)
  /\ UNCHANGED <<msg, dbVars>>

(* The process dies and is started again; what it had received stays hidden *)
(* until its timeout.  A delete that fails inside "except ValidationError"  *)
(* ends the process too.                                                    *)
Crash(w) ==
  /\ worker[w] # Polling
  /\ worker' = [worker EXCEPT ![w] = Polling]
  /\ UNCHANGED <<msg, dbVars>>

(* The steps of a process that keeps running, good or bad outcome.         *)
WorkerRuns(w) ==
  Handling(w) \/ LogFailure(w) \/ Ack(w) \/ Abandon(w)

WorkerStep(w) == Receive(w) \/ WorkerRuns(w) \/ Crash(w)
=============================================================================
