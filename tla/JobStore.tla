------------------------------ MODULE JobStore ------------------------------
(***************************************************************************)
(* The PostgreSQL rows the pipeline shares (db/migrations/001_init.sql):   *)
(* jobs, decisions and review_queue, keyed by job.  One operator per SQL   *)
(* statement or transaction, whoever issues it.  audit_log and             *)
(* metrics_events rows are only ever appended and no statement reads them  *)
(* back to decide anything, so their contents are left out; the statements *)
(* that write them on their own connection turn stay as steps of the       *)
(* callers, because they can fail.                                         *)
(***************************************************************************)
EXTENDS Jobs, Naturals

CONSTANTS Verdict,        \* envelopes the analysis can end in
          ReviewVerdict,  \* those with needs_human_review
          MaxAttempts     \* the column default of jobs.max_attempts

ASSUME VerdictAssumption == ReviewVerdict \subseteq Verdict
ASSUME NoVerdictAssumption == {"none", "invalid", "error"} \cap Verdict = {}
ASSUME MaxAttemptsAssumption == MaxAttempts \in Nat \ {0}

VARIABLES jobs, decision, review

dbVars == <<jobs, decision, review>>

\* "none": the row does not exist yet
Status == {"none", "queued", "processing", "succeeded", "failed", "dead"}

DbTypeOK ==
  /\ jobs \in [Job -> [status : Status, attempts : 0..MaxAttempts]]
  /\ decision \in [Job -> Verdict \cup {"none"}]
  /\ review \in [Job -> BOOLEAN]

DbInit ==
  /\ jobs = [j \in Job |-> [status |-> "none", attempts |-> 0]]
  /\ decision = [j \in Job |-> "none"]
  /\ review = [j \in Job |-> FALSE]

(* accept_image: INSERT INTO jobs ... 'queued'.                            *)
InsertJob(j) ==
  /\ jobs[j].status = "none"
  /\ jobs' = [jobs EXCEPT ![j].status = "queued"]
  /\ UNCHANGED <<decision, review>>

(* UPDATE jobs SET status = s WHERE id = j, with no condition on the status *)
(* the row has: the API's and the worker's failure paths.                   *)
SetStatus(j, s) ==
  /\ jobs' = [jobs EXCEPT ![j].status = s]
  /\ UNCHANGED <<decision, review>>

\* bound: attempts are counted up to MaxAttempts, FailureStatus asks no more
CountedOn(attempts) == IF attempts < MaxAttempts THEN attempts + 1 ELSE attempts

(* process_job: status = 'processing', attempts = attempts + 1.            *)
BeginAttempt(j) ==
  /\ jobs' = [jobs EXCEPT ![j] = [status |-> "processing", attempts |-> CountedOn(@.attempts)]]
  /\ UNCHANGED <<decision, review>>

(* Mutant: the attempt that failed is counted twice.                       *)
FailureStatusEarly(attempts) == IF attempts + 1 >= MaxAttempts THEN "dead" ELSE "failed"

(* mark_failed's choice from the row it has read.                          *)
FailureStatus(attempts) == IF attempts >= MaxAttempts THEN "dead" ELSE "failed"

(* Mutant: no condition on the status in the WHERE clause.                 *)
ResetAnyStatus(j) ==
  /\ jobs' = [jobs EXCEPT ![j] = [status |-> "queued", attempts |-> 0]]
  /\ UNCHANGED <<decision, review>>

(* Mutant: the reset also clears away what an earlier run has decided.      *)
ResetWithDecision(j) ==
  /\ jobs' = IF jobs[j].status \in {"dead", "failed"}
             THEN [jobs EXCEPT ![j] = [status |-> "queued", attempts |-> 0]]
             ELSE jobs
  /\ decision' = [decision EXCEPT ![j] = IF jobs'[j] # jobs[j] THEN "none" ELSE @]
  /\ UNCHANGED review

(* reset_job_for_redrive: the UPDATE only matches a dead or failed row.    *)
ResetForRedrive(j) ==
  /\ jobs' = IF jobs[j].status \in {"dead", "failed"}
             THEN [jobs EXCEPT ![j] = [status |-> "queued", attempts |-> 0]]
             ELSE jobs
  /\ UNCHANGED <<decision, review>>

(* Mutant: ON CONFLICT DO UPDATE.                                          *)
PersistUpsert(j, v) ==
  /\ decision' = [decision EXCEPT ![j] = v]
  /\ jobs' = [jobs EXCEPT ![j].status = "succeeded"]
  /\ review' = [review EXCEPT ![j] = v \in ReviewVerdict]

(* Mutant: the review row is written also after a conflict.                *)
PersistReviewAnyway(j, v) ==
  /\ decision' = [decision EXCEPT ![j] = IF @ = "none" THEN v ELSE @]
  /\ jobs' = [jobs EXCEPT ![j].status = IF decision[j] = "none" THEN "succeeded" ELSE @]
  /\ review' = [review EXCEPT ![j] = @ \/ v \in ReviewVerdict]

(* persist_envelope: one transaction.  ON CONFLICT (job_id) DO NOTHING      *)
(* returns the stored envelope and writes nothing else, the job row included.*)
PersistEnvelope(j, v) ==
  \/ /\ decision[j] = "none"
     /\ decision' = [decision EXCEPT ![j] = v]
     /\ jobs' = [jobs EXCEPT ![j].status = "succeeded"]
     /\ review' = [review EXCEPT ![j] = @ \/ v \in ReviewVerdict]
  \/ /\ decision[j] # "none"
     /\ UNCHANGED dbVars

Decided(j) == decision[j] # "none"
=============================================================================
