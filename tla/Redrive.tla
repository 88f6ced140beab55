------------------------------ MODULE Redrive ------------------------------
(***************************************************************************)
(* scripts/redrive.py: the operator's tool that moves DLQ messages back to  *)
(* the main queue and resets their job rows.  cli[r] is one running copy;   *)
(* two operators may run it at once.  Its filter, its dry run and its limit *)
(* show as messages it declines.                                            *)
(***************************************************************************)
EXTENDS Sqs, JobStore

CONSTANT MaxPull  \* the most messages it receives at a time

ASSUME MaxPullAssumption == MaxPull \in Nat \ {0}

VARIABLE cli

CliState == [pc    : {"next", "reset", "send", "delete"},
             db    : BOOLEAN,          \* FALSE: run with --skip-db
             batch : SUBSET Msg,
             cur   : Msg \cup {None}]

Holding(db, ms) == [pc |-> "next", db |-> db, batch |-> ms, cur |-> None]

Stopped == Holding(FALSE, {})

CliTypeOK == cli \in [Redriver -> CliState]

CliInit == cli = [r \in Redriver |-> Stopped]

CliJob(r) == msg[cli[r].cur].job

(* plan_redrive, from the status the tool has just read ("none": it has no  *)
(* connection, the run is queue-only).                                      *)
PlanRedrive(status) ==
  CASE status = "succeeded"           -> "skip"
    [] status \in {"dead", "failed"}  -> "reset"
    [] OTHER                          -> "send"

(* receive_message from the DLQ.                                           *)
Pull(r) ==
  /\ cli[r].pc = "next" /\ cli[r].batch = {}
  /\ \E ms \in SUBSET Receivable("dlq"), db \in BOOLEAN :
       /\ Cardinality(ms) \in 1..MaxPull
       /\ Deliver("dlq", r, ms)
       /\ cli' = [cli EXCEPT ![r] = Holding(db, ms)]
  /\ UNCHANGED dbVars

(* fetch_job_status, then the plan for the next message of the batch.      *)
Plan(r) ==
  /\ cli[r].pc = "next"
  /\ \E m \in cli[r].batch :
       LET plan == PlanRedrive(IF cli[r].db THEN jobs[msg[m].job].status ELSE "none")
       IN  cli' = IF plan = "skip"
                  THEN [cli EXCEPT ![r].batch = @ \ {m}]
                  ELSE [cli EXCEPT ![r].pc = plan, ![r].batch = @ \ {m}, ![r].cur = m]
  /\ UNCHANGED <<msg, dbVars>>

(* job_id_filter or --dry-run: the message stays in the DLQ.               *)
Decline(r) ==
  /\ cli[r].pc = "next"
  /\ \E m \in cli[r].batch : cli' = [cli EXCEPT ![r].batch = @ \ {m}]
  /\ UNCHANGED <<msg, dbVars>>

(* reset_job_for_redrive; a row that changed since the plan is left alone,  *)
(* the message is moved all the same.                                       *)
Reset(r) ==
  /\ cli[r].pc = "reset"
  /\ ResetForRedrive(CliJob(r))
  /\ cli' = [cli EXCEPT ![r].pc = "send"]
  /\ UNCHANGED msg

(* send_message to the main queue: a new message with the same body ...    *)
Resend(r) ==
  /\ cli[r].pc = "send"
  /\ Send(CliJob(r))
  /\ cli' = [cli EXCEPT ![r].pc = "delete"]
  /\ UNCHANGED dbVars

(* ... then delete_message of the DLQ copy.                                *)
Remove(r) ==
  /\ cli[r].pc = "delete"
  /\ Delete("dlq", r, cli[r].cur)
  /\ cli' = [cli EXCEPT ![r].pc = "next", ![r].cur = None]
  /\ UNCHANGED dbVars

(* Interrupted, or an AWS or database call raised: the run ends there.     *)
CliCrash(r) ==
  /\ cli[r] # Stopped
  /\ cli' = [cli EXCEPT ![r] = Stopped]
  /\ UNCHANGED <<msg, dbVars>>

CliStep(r) == \/ Pull(r) \/ Plan(r) \/ Decline(r) \/ Reset(r)
              \/ Resend(r) \/ Remove(r) \/ CliCrash(r)
=============================================================================
