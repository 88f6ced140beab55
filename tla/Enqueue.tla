------------------------------ MODULE Enqueue ------------------------------
(***************************************************************************)
(* The API's side of the job pipeline: the tail of accept_image, which      *)
(* commits a job row and then, outside the transaction, hands the job to    *)
(* the queue.  One upload per content hash; Ingest models how the API       *)
(* arrives at exactly one.                                                  *)
(***************************************************************************)
EXTENDS Messages, JobStore

VARIABLE api  \* the upload of each job: where its handler stands

\* "over": answered "queued", or crashed; "refused": answered 502
ApiStep == {"idle", "send", "unsent", "over", "refused"}

ApiTypeOK == api \in [Job -> ApiStep]

ApiInit == api = [j \in Job |-> "idle"]

ApiGoto(j, from, to) ==
  /\ api[j] = from
  /\ api' = [api EXCEPT ![j] = to]

(* The transaction that inserts the content, job and audit rows commits.   *)
Submit(j) ==
  /\ ApiGoto(j, "idle", "send")
  /\ InsertJob(j)
  /\ UNCHANGED msg

(* enqueue_job returns; the client gets "queued".                          *)
SendOk(j) ==
  /\ ApiGoto(j, "send", "over")
  /\ Send(j)
  /\ UNCHANGED dbVars

(* enqueue_job raises.  The message may be on the queue all the same: a     *)
(* timed-out send_message is an error to the caller and a send to SQS.      *)
SendError(j) ==
  /\ ApiGoto(j, "send", "unsent")
  /\ Send(j) \/ UNCHANGED msg
  /\ UNCHANGED dbVars

(* The except branch: UPDATE jobs SET status = 'failed', then a 502.       *)
MarkUnsent(j) ==
  /\ ApiGoto(j, "unsent", "refused")
  /\ SetStatus(j, "failed")
  /\ UNCHANGED msg

(* The API process dies after the commit, or the UPDATE above fails.       *)
ApiCrash(j) ==
  /\ api[j] \in {"send", "unsent"}
  /\ api' = [api EXCEPT ![j] = "over"]
  /\ UNCHANGED <<msg, dbVars>>

ApiStepOf(j) == Submit(j) \/ SendOk(j) \/ SendError(j) \/ MarkUnsent(j) \/ ApiCrash(j)
=============================================================================
