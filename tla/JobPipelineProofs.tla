------------------------- MODULE JobPipelineProofs -------------------------
(***************************************************************************)
(* Theorems of JobPipeline, for any sets of jobs, messages, workers and     *)
(* redrive runs and any limits.                                             *)
(***************************************************************************)
EXTENDS JobPipeline, TLAPS

USE MaxReceivesAssumption, NoneAssumption, VerdictAssumption, NoVerdictAssumption,
    MaxAttemptsAssumption, RejectedAssumption, MaxBatchAssumption, MaxPullAssumption

(* The type invariant with what it needs to be inductive: what persist      *)
(* writes is a verdict, and what the redrive tool sends again is a message. *)
PersistTyped == \A w \in Worker : At(w, "persist") => worker[w].result \in Verdict
ResendTyped == \A r \in Redriver : cli[r].pc # "next" => cli[r].cur \in Msg
TypeInv == TypeOK /\ PersistTyped /\ ResendTyped

LEMMA InitTypeInv == Init => TypeInv
BY DEF Init, TypeInv, TypeOK, PersistTyped, ResendTyped, SqsInit, DbInit, ApiInit, WorkerInit, CliInit,
       SqsTypeOK, DbTypeOK, ApiTypeOK, WorkerTypeOK, CliTypeOK, Slot, Place, Idle, Unused, Status,
       ApiStep, WorkerState, WorkerPc, Polling, PollingWith, CliState, Stopped, Holding, At

(* What the queue operators do to the slots, whoever calls them.           *)
LEMMA SendType ==
  ASSUME SqsTypeOK, NEW j \in Job \cup {None}, Send(j)
  PROVE  SqsTypeOK'
<1>1. PICK m \in Msg : msg' = [msg EXCEPT ![m] = [@ EXCEPT !.place = "main", !.job = j, !.visible = TRUE]]
  BY DEF Send
<1>2. [msg[m] EXCEPT !.place = "main", !.job = j, !.visible = TRUE] \in Slot
  BY DEF SqsTypeOK, Slot, Place
<1> QED
  BY <1>1, <1>2 DEF SqsTypeOK

LEMMA DeliverType ==
  ASSUME SqsTypeOK, NEW q \in {"main", "dlq"}, NEW c \in Consumer,
         NEW ms \in SUBSET Receivable(q), Deliver(q, c, ms)
  PROVE  SqsTypeOK'
<1> SUFFICES ASSUME NEW m \in Msg PROVE msg'[m] \in Slot
  BY DEF SqsTypeOK, Deliver
<1>1. msg[m] \in Slot
  BY DEF SqsTypeOK
<1>2. CASE m \notin ms
  BY <1>1, <1>2 DEF Deliver
<1>3. CASE m \in ms
  <2>1. q = "main" => msg[m].receives < MaxReceives
    BY <1>3 DEF Receivable
  <2>2. (IF q = "main" THEN msg[m].receives + 1 ELSE msg[m].receives) \in 0..MaxReceives
    BY <1>1, <2>1 DEF Slot
  <2> QED
    BY <1>1, <1>3, <2>2 DEF Deliver, Slot
<1> QED
  BY <1>2, <1>3

LEMMA DeleteType ==
  ASSUME SqsTypeOK, NEW q, NEW c, NEW m, Delete(q, c, m)
  PROVE  SqsTypeOK'
<1>1. CASE UNCHANGED msg
  BY <1>1 DEF SqsTypeOK
<1>2. CASE msg' = [msg EXCEPT ![m] = Idle("gone", msg[m].job, FALSE)]
  <2>1. m \in Msg => msg[m] \in Slot
    BY DEF SqsTypeOK
  <2>2. m \in Msg => Idle("gone", msg[m].job, FALSE) \in Slot
    BY <2>1 DEF Idle, Slot, Place
  <2> QED
    BY <1>2, <2>2 DEF SqsTypeOK
<1> QED
  BY <1>1, <1>2 DEF Delete

LEMMA PersistEnvelopeType ==
  ASSUME DbTypeOK, NEW j, NEW v \in Verdict, PersistEnvelope(j, v)
  PROVE  DbTypeOK'
<1>1. CASE UNCHANGED dbVars
  BY <1>1 DEF DbTypeOK, dbVars
<1>2. CASE /\ decision' = [decision EXCEPT ![j] = v]
           /\ jobs' = [jobs EXCEPT ![j].status = "succeeded"]
           /\ review' = [review EXCEPT ![j] = @ \/ v \in ReviewVerdict]
  <2>1. jobs' \in [Job -> [status : Status, attempts : 0..MaxAttempts]]
    BY <1>2 DEF DbTypeOK, Status
  <2>2. decision' \in [Job -> Verdict \cup {"none"}]
    BY <1>2 DEF DbTypeOK
  <2>3. review' \in [Job -> BOOLEAN]
    BY <1>2 DEF DbTypeOK
  <2> QED
    BY <2>1, <2>2, <2>3 DEF DbTypeOK
<1> QED
  BY <1>1, <1>2 DEF PersistEnvelope

LEMMA EnqueueType ==
  ASSUME TypeOK, NEW j \in Job, ApiStepOf(j)
  PROVE  SqsTypeOK' /\ DbTypeOK' /\ ApiTypeOK'
<1> USE DEF TypeOK
<1>1. CASE Submit(j)
  BY <1>1 DEF Submit, ApiGoto, InsertJob, ApiTypeOK, ApiStep, SqsTypeOK, DbTypeOK, Status
<1>2. CASE SendOk(j)
  BY <1>2, SendType DEF SendOk, ApiGoto, ApiTypeOK, ApiStep, DbTypeOK, dbVars
<1>3. CASE SendError(j)
  <2>1. SqsTypeOK'
    BY <1>3, SendType DEF SendError, SqsTypeOK
  <2> QED
    BY <1>3, <2>1 DEF SendError, ApiGoto, ApiTypeOK, ApiStep, DbTypeOK, dbVars
<1>4. CASE MarkUnsent(j)
  BY <1>4 DEF MarkUnsent, ApiGoto, SetStatus, ApiTypeOK, ApiStep, SqsTypeOK, DbTypeOK, Status
<1>5. CASE ApiCrash(j)
  BY <1>5 DEF ApiCrash, ApiTypeOK, ApiStep, SqsTypeOK, DbTypeOK, dbVars
<1> QED
  BY <1>1, <1>2, <1>3, <1>4, <1>5 DEF ApiStepOf

(* A step of w that puts its state at s, with a verdict if s is to persist. *)
LEMMA WorkerLocalType ==
  ASSUME TypeInv, NEW w \in Worker, NEW s \in WorkerState,
         worker' = [worker EXCEPT ![w] = s],
         s.pc = "persist" => s.result \in Verdict
  PROVE  WorkerTypeOK' /\ PersistTyped'
BY DEF TypeInv, TypeOK, WorkerTypeOK, PersistTyped, At

LEMMA NextMessageType ==
  ASSUME TypeInv, NEW w \in Worker, NextMessage(w)
  PROVE  WorkerTypeOK' /\ PersistTyped'
<1>1. worker[w].batch \in SUBSET Msg
  BY DEF TypeInv, TypeOK, WorkerTypeOK, WorkerState
<1>2. /\ PollingWith(worker[w].batch) \in WorkerState
      /\ PollingWith(worker[w].batch).pc # "persist"
  BY <1>1 DEF PollingWith, WorkerState, WorkerPc
<1> QED
  BY <1>2, WorkerLocalType DEF NextMessage

LEMMA WorkerStateType ==
  ASSUME TypeInv, NEW w \in Worker, WorkerStep(w)
  PROVE  WorkerTypeOK' /\ PersistTyped'
<1> DEFINE S == worker[w]
<1>0. S \in WorkerState
  BY DEF TypeInv, TypeOK, WorkerTypeOK
<1> HIDE DEF S
<1>1. CASE Receive(w)
  <2>1. PICK ms \in SUBSET Receivable("main") : worker' = [worker EXCEPT ![w].batch = ms]
    BY <1>1 DEF Receive
  <2>2. ms \in SUBSET Msg
    BY DEF Receivable
  <2>3. [S EXCEPT !.batch = ms] \in WorkerState
    BY <1>0, <2>2 DEF WorkerState
  <2> QED
    BY <1>1, <2>1, <2>3, WorkerLocalType DEF Receive, At, S, WorkerState
<1>2. CASE Take(w)
  <2>1. PICK m \in S.batch :
          worker' = [worker EXCEPT ![w] = [S EXCEPT !.pc = "status", !.cur = m,
                                                    !.batch = @ \ {m}]]
    BY <1>2 DEF Take, S
  <2>2. m \in Msg /\ S.batch \ {m} \in SUBSET Msg
    BY <1>0 DEF WorkerState
  <2>3. [S EXCEPT !.pc = "status", !.cur = m, !.batch = @ \ {m}] \in WorkerState
    BY <1>0, <2>2 DEF WorkerState, WorkerPc
  <2> QED
    BY <1>0, <2>1, <2>3, WorkerLocalType DEF WorkerState
<1>3. ASSUME NEW pc \in WorkerPc \ {"persist"}, Goto(w, pc)
      PROVE  WorkerTypeOK' /\ PersistTyped'
  <2>1. [S EXCEPT !.pc = pc] \in WorkerState /\ [S EXCEPT !.pc = pc].pc = pc
    BY <1>0 DEF WorkerState
  <2>2. worker' = [worker EXCEPT ![w] = [S EXCEPT !.pc = pc]]
    BY <1>3 DEF Goto, S
  <2> QED
    BY <2>1, <2>2, WorkerLocalType
<1>4. CASE ReadStatus(w) \/ LookupDecision(w) \/ StartAttempt(w)
  BY <1>3, <1>4 DEF ReadStatus, LookupDecision, StartAttempt, WorkerPc
<1>5. ASSUME NEW pc \in WorkerPc, NEW v \in Verdict \cup {"none", "invalid", "error"},
             pc = "persist" => v \in Verdict,
             worker' = [worker EXCEPT ![w] = [@ EXCEPT !.pc = pc, !.result = v]]
      PROVE  WorkerTypeOK' /\ PersistTyped'
  <2>1. /\ [S EXCEPT !.pc = pc, !.result = v] \in WorkerState
        /\ [S EXCEPT !.pc = pc, !.result = v].pc = pc
        /\ [S EXCEPT !.pc = pc, !.result = v].result = v
    BY <1>0 DEF WorkerState
  <2>2. worker' = [worker EXCEPT ![w] = [S EXCEPT !.pc = pc, !.result = v]]
    BY <1>5 DEF S
  <2> QED
    BY <1>5, <2>1, <2>2, WorkerLocalType
<1>6. CASE Analyze(w)
  BY <1>5, <1>6 DEF Analyze, WorkerPc
<1>7. CASE Persist(w)
  BY <1>5, <1>7 DEF Persist, WorkerPc
<1>8. CASE Raise(w)
  BY <1>5, <1>8 DEF Raise, WorkerPc
<1>9. ASSUME NEW pc \in WorkerPc \ {"persist"}, NEW k \in {"none", "failed", "dead"},
             worker' = [worker EXCEPT ![w] = [@ EXCEPT !.pc = pc, !.mark = k]]
      PROVE  WorkerTypeOK' /\ PersistTyped'
  <2>1. /\ [S EXCEPT !.pc = pc, !.mark = k] \in WorkerState
        /\ [S EXCEPT !.pc = pc, !.mark = k].pc = pc
    BY <1>0 DEF WorkerState
  <2>2. worker' = [worker EXCEPT ![w] = [S EXCEPT !.pc = pc, !.mark = k]]
    BY <1>9 DEF S
  <2> QED
    BY <2>1, <2>2, WorkerLocalType
<1>10. CASE CountAttempts(w)
  <2>1. FailureStatus(jobs[JobOf(w)].attempts) \in {"none", "failed", "dead"}
    BY DEF FailureStatus
  <2> QED
    BY <1>9, <1>10, <2>1 DEF CountAttempts, WorkerPc
<1>11. CASE MarkFailed(w)
  BY <1>9, <1>11 DEF MarkFailed, WorkerPc
<1>12. CASE LogFailure(w)
  BY <1>3, <1>12, NextMessageType DEF LogFailure, WorkerPc
<1>13. CASE Ack(w) \/ Abandon(w)
  BY <1>13, NextMessageType DEF Ack, Abandon
<1>14. CASE Crash(w)
  <2>1. Polling \in WorkerState /\ Polling.pc # "persist"
    BY DEF Polling, PollingWith, WorkerState, WorkerPc
  <2> QED
    BY <1>14, <2>1, WorkerLocalType DEF Crash
<1> QED
  BY <1>1, <1>2, <1>4, <1>6, <1>7, <1>8, <1>10, <1>11, <1>12, <1>13, <1>14
  DEF WorkerStep, WorkerRuns, Handling

LEMMA WorkerType ==
  ASSUME TypeInv, NEW w \in Worker, WorkerStep(w)
  PROVE  SqsTypeOK' /\ DbTypeOK' /\ WorkerTypeOK' /\ PersistTyped'
<1> USE DEF TypeInv, TypeOK
<1>1. CASE Receive(w)
  <2>1. SqsTypeOK'
    BY <1>1, DeliverType DEF Receive, Consumer
  <2> QED
    BY <1>1, <2>1, WorkerStateType DEF Receive, DbTypeOK, dbVars
<1>2. CASE StartAttempt(w)
  <2>1. DbTypeOK'
    <3>1. \A j \in Job : CountedOn(jobs[j].attempts) \in 0..MaxAttempts
      BY DEF DbTypeOK, CountedOn
    <3>2. \A j \in Job : [status |-> "processing", attempts |-> CountedOn(jobs[j].attempts)]
                         \in [status : Status, attempts : 0..MaxAttempts]
      BY <3>1 DEF Status
    <3> QED
      BY <1>2, <3>2 DEF StartAttempt, BeginAttempt, DbTypeOK
  <2> QED
    BY <1>2, <2>1, WorkerStateType DEF StartAttempt, SqsTypeOK
<1>3. CASE Persist(w)
  <2>1. DbTypeOK'
    BY <1>3, PersistEnvelopeType DEF Persist, PersistTyped
  <2> QED
    BY <1>3, <2>1, WorkerStateType DEF Persist, SqsTypeOK
<1>4. CASE MarkFailed(w)
  <2>1. worker[w].mark \in {"none", "failed", "dead"}
    BY DEF WorkerTypeOK, WorkerState
  <2>2. DbTypeOK'
    BY <1>4, <2>1 DEF MarkFailed, SetStatus, DbTypeOK, Status
  <2> QED
    BY <1>4, <2>2, WorkerStateType DEF MarkFailed, SqsTypeOK
<1>5. CASE Ack(w)
  <2>1. SqsTypeOK'
    BY <1>5, DeleteType DEF Ack
  <2> QED
    BY <1>5, <2>1, WorkerStateType DEF Ack, DbTypeOK, dbVars
<1>6. CASE UNCHANGED <<msg, dbVars>>
  BY <1>6, WorkerStateType DEF SqsTypeOK, DbTypeOK, dbVars
<1> QED
  BY <1>1, <1>2, <1>3, <1>4, <1>5, <1>6
  DEF WorkerStep, WorkerRuns, Handling, Take, ReadStatus, LookupDecision, Analyze, Raise,
      CountAttempts, LogFailure, Abandon, Crash

LEMMA RedriveType ==
  ASSUME TypeInv, NEW r \in Redriver, CliStep(r)
  PROVE  SqsTypeOK' /\ DbTypeOK' /\ CliTypeOK' /\ ResendTyped'
<1> USE DEF TypeInv, TypeOK
<1>1. CASE Pull(r)
  <2>1. PICK ms \in SUBSET Receivable("dlq"), db \in BOOLEAN :
          /\ Deliver("dlq", r, ms)
          /\ cli' = [cli EXCEPT ![r] = Holding(db, ms)]
    BY <1>1 DEF Pull
  <2>2. SqsTypeOK'
    BY <2>1, DeliverType DEF Consumer
  <2>3. ms \in SUBSET Msg
    BY DEF Receivable
  <2>4. Holding(db, ms) \in CliState /\ Holding(db, ms).pc = "next"
    BY <2>3 DEF Holding, CliState
  <2> QED
    BY <1>1, <2>1, <2>2, <2>4 DEF Pull, DbTypeOK, dbVars, CliTypeOK, ResendTyped
<1>2. CASE Plan(r)
  <2> DEFINE plan(m) == PlanRedrive(IF cli[r].db THEN jobs[msg[m].job].status ELSE "none")
  <2>1. PICK m \in cli[r].batch :
          cli' = IF plan(m) = "skip"
                 THEN [cli EXCEPT ![r].batch = @ \ {m}]
                 ELSE [cli EXCEPT ![r].pc = plan(m), ![r].batch = @ \ {m}, ![r].cur = m]
    BY <1>2 DEF Plan
  <2>2. plan(m) \in {"skip", "reset", "send"}
    BY DEF PlanRedrive
  <2>3. m \in Msg
    BY DEF CliTypeOK, CliState
  <2> HIDE DEF plan
  <2>4. CliTypeOK' /\ ResendTyped'
    BY <2>1, <2>2, <2>3 DEF CliTypeOK, CliState, ResendTyped
  <2> QED
    BY <1>2, <2>4 DEF Plan, SqsTypeOK, DbTypeOK, dbVars
<1>3. CASE Decline(r)
  <2>1. CliTypeOK' /\ ResendTyped'
    BY <1>3 DEF Decline, CliTypeOK, CliState, ResendTyped
  <2> QED
    BY <1>3, <2>1 DEF Decline, SqsTypeOK, DbTypeOK, dbVars
<1>4. CASE Reset(r)
  <2>1. CliTypeOK' /\ ResendTyped'
    BY <1>4 DEF Reset, CliTypeOK, CliState, ResendTyped
  <2>2. DbTypeOK'
    <3>1. [status |-> "queued", attempts |-> 0] \in [status : Status, attempts : 0..MaxAttempts]
      BY DEF Status
    <3> QED
      BY <1>4, <3>1 DEF Reset, ResetForRedrive, DbTypeOK
  <2> QED
    BY <1>4, <2>1, <2>2 DEF Reset, SqsTypeOK
<1>5. CASE Resend(r)
  <2>1. SqsTypeOK'
    <3>1. CliJob(r) \in Job \cup {None}
      BY <1>5 DEF Resend, CliJob, ResendTyped, SqsTypeOK, Slot
    <3> QED
      BY <1>5, <3>1, SendType DEF Resend
  <2>2. CliTypeOK' /\ ResendTyped'
    BY <1>5 DEF Resend, CliTypeOK, CliState, ResendTyped
  <2> QED
    BY <1>5, <2>1, <2>2 DEF Resend, DbTypeOK, dbVars
<1>6. CASE Remove(r)
  <2>1. SqsTypeOK'
    BY <1>6, DeleteType DEF Remove
  <2>2. [cli[r] EXCEPT !.pc = "next", !.cur = None] \in CliState
    BY DEF CliTypeOK, CliState
  <2>3. cli' = [cli EXCEPT ![r] = [cli[r] EXCEPT !.pc = "next", !.cur = None]]
    BY <1>6 DEF Remove, CliTypeOK, CliState
  <2>4. CliTypeOK' /\ ResendTyped'
    BY <2>2, <2>3 DEF CliTypeOK, CliState, ResendTyped
  <2> QED
    BY <1>6, <2>1, <2>4 DEF Remove, DbTypeOK, dbVars
<1>7. CASE CliCrash(r)
  <2>1. Stopped \in CliState /\ Stopped.pc = "next"
    BY DEF Stopped, Holding, CliState
  <2> QED
    BY <1>7, <2>1 DEF CliCrash, CliTypeOK, ResendTyped, SqsTypeOK, DbTypeOK, dbVars
<1> QED
  BY <1>1, <1>2, <1>3, <1>4, <1>5, <1>6, <1>7 DEF CliStep

LEMMA QueueType ==
  ASSUME SqsTypeOK, NEW m \in Msg, Expire(m) \/ MoveToDlq(m)
  PROVE  SqsTypeOK'
<1>1. msg[m] \in Slot
  BY DEF SqsTypeOK
<1>2. CASE Expire(m)
  BY <1>1, <1>2 DEF Expire, SqsTypeOK, Slot
<1>3. CASE MoveToDlq(m)
  <2>1. Idle("dlq", msg[m].job, TRUE) \in Slot
    BY <1>1 DEF Idle, Slot, Place
  <2> QED
    BY <1>3, <2>1 DEF MoveToDlq, SqsTypeOK
<1> QED
  BY <1>2, <1>3

LEMMA StepTypeInv == TypeInv /\ [Next]_vars => TypeInv'
<1> SUFFICES ASSUME TypeInv, [Next]_vars PROVE TypeInv'
  OBVIOUS
<1> USE DEF TypeInv, TypeOK
<1>1. ASSUME NEW j \in Job, ApiStepOf(j), UNCHANGED <<worker, cli>> PROVE TypeInv'
  BY <1>1, EnqueueType DEF WorkerTypeOK, CliTypeOK, PersistTyped, ResendTyped, At
<1>2. ASSUME NEW w \in Worker, WorkerStep(w), UNCHANGED <<api, cli>> PROVE TypeInv'
  BY <1>2, WorkerType DEF ApiTypeOK, CliTypeOK, ResendTyped
<1>3. ASSUME NEW r \in Redriver, CliStep(r), UNCHANGED <<api, worker>> PROVE TypeInv'
  BY <1>3, RedriveType DEF WorkerTypeOK, ApiTypeOK, PersistTyped, At
<1>4. ASSUME NEW m \in Msg, Expire(m) \/ MoveToDlq(m), UNCHANGED <<dbVars, api, worker, cli>>
      PROVE  TypeInv'
  BY <1>4, QueueType DEF dbVars, DbTypeOK, WorkerTypeOK, ApiTypeOK, CliTypeOK, PersistTyped, ResendTyped, At
<1>5. CASE UNCHANGED vars
  BY <1>5 DEF vars, SqsTypeOK, DbTypeOK, WorkerTypeOK, ApiTypeOK, CliTypeOK, PersistTyped, ResendTyped, At
<1> QED
  BY <1>1, <1>2, <1>3, <1>4, <1>5 DEF Next

(* Every reachable state of the pipeline is well typed: statuses are those  *)
(* of the CHECK constraint, receives never pass maxReceiveCount, and what a *)
(* worker persists is a verdict.                                            *)
THEOREM TypeCorrect == Spec => []TypeOK
<1>1. TypeInv => TypeOK
  BY DEF TypeInv
<1> QED
  BY InitTypeInv, StepTypeInv, <1>1, PTL DEF Spec
-----------------------------------------------------------------------------
(* Only a worker's persist writes a decision or a review row.              *)
LEMMA OnlyPersistDecides ==
  ASSUME [Next]_vars
  PROVE  UNCHANGED <<decision, review>> \/ \E w \in Worker : Persist(w)
<1>1. ASSUME NEW j \in Job, ApiStepOf(j) PROVE UNCHANGED <<decision, review>>
  BY <1>1 DEF ApiStepOf, Submit, SendOk, SendError, MarkUnsent, ApiCrash, InsertJob, SetStatus, dbVars
<1>2. ASSUME NEW w \in Worker, WorkerStep(w), ~Persist(w) PROVE UNCHANGED <<decision, review>>
  BY <1>2 DEF WorkerStep, WorkerRuns, Handling, Receive, Take, ReadStatus, LookupDecision, StartAttempt,
              Analyze, Raise, CountAttempts, MarkFailed, LogFailure, Ack, Abandon, Crash,
              BeginAttempt, SetStatus, dbVars
<1>3. ASSUME NEW r \in Redriver, CliStep(r) PROVE UNCHANGED <<decision, review>>
  BY <1>3 DEF CliStep, Pull, Plan, Decline, Reset, Resend, Remove, CliCrash, ResetForRedrive, dbVars
<1> QED
  BY <1>1, <1>2, <1>3 DEF Next, vars, dbVars

LEMMA DecisionKept ==
  ASSUME TypeInv, [Next]_vars, NEW j \in Job, Decided(j)
  PROVE  decision'[j] = decision[j] /\ Decided(j)'
<1>1. CASE UNCHANGED decision
  BY <1>1 DEF Decided
<1>2. ASSUME NEW w \in Worker, Persist(w) PROVE decision'[j] = decision[j]
  BY <1>2 DEF Persist, PersistEnvelope, dbVars, Decided, TypeInv, TypeOK, DbTypeOK
<1> QED
  BY <1>1, <1>2, OnlyPersistDecides DEF Decided

(* A job's first decision is final, however often the job is delivered,     *)
(* analysed and redriven.                                                   *)
THEOREM DecisionsAreImmutable == Spec => DecisionImmutable
<1>1. TypeInv /\ [Next]_vars => [\A j \in Job : Decided(j) => decision'[j] = decision[j]]_vars
  BY DecisionKept
<1> QED
  BY InitTypeInv, StepTypeInv, <1>1, PTL DEF Spec, DecisionImmutable

(* The review desk has a row for exactly the decisions that need one.      *)
THEOREM ReviewRows == Spec => []ReviewRowIffNeeded
<1>1. Init => ReviewRowIffNeeded
  BY NoVerdictAssumption, VerdictAssumption DEF Init, DbInit, ReviewRowIffNeeded
<1>2. TypeInv /\ ReviewRowIffNeeded /\ [Next]_vars => ReviewRowIffNeeded'
  <2> SUFFICES ASSUME TypeInv, ReviewRowIffNeeded, [Next]_vars,
                      NEW j \in Job
               PROVE  review'[j] <=> decision'[j] \in ReviewVerdict
    BY DEF ReviewRowIffNeeded
  <2>0. /\ review[j] <=> decision[j] \in ReviewVerdict
        /\ decision[j] = "none" => ~review[j]
    BY NoVerdictAssumption, VerdictAssumption DEF ReviewRowIffNeeded
  <2>1. CASE UNCHANGED <<decision, review>>
    BY <2>0, <2>1
  <2>2. ASSUME NEW w \in Worker, Persist(w)
        PROVE  review'[j] <=> decision'[j] \in ReviewVerdict
    <3>1. CASE UNCHANGED dbVars
      BY <2>0, <3>1 DEF dbVars
    <3>2. CASE /\ decision[JobOf(w)] = "none"
               /\ decision' = [decision EXCEPT ![JobOf(w)] = worker[w].result]
               /\ review' = [review EXCEPT ![JobOf(w)] = @ \/ worker[w].result \in ReviewVerdict]
      <4>1. CASE j = JobOf(w)
        <5>1. decision'[j] = worker[w].result
          BY <3>2, <4>1 DEF TypeInv, TypeOK, DbTypeOK
        <5>2. review'[j] = (review[j] \/ worker[w].result \in ReviewVerdict)
          BY <3>2, <4>1 DEF TypeInv, TypeOK, DbTypeOK
        <5> QED
          BY <2>0, <3>2, <4>1, <5>1, <5>2
      <4>2. CASE j # JobOf(w)
        BY <2>0, <3>2, <4>2 DEF TypeInv, TypeOK, DbTypeOK
      <4> QED
        BY <4>1, <4>2
    <3> QED
      BY <2>2, <3>1, <3>2 DEF Persist, PersistEnvelope
  <2> QED
    BY <2>1, <2>2, OnlyPersistDecides
<1> QED
  BY <1>1, <1>2, InitTypeInv, StepTypeInv, PTL DEF Spec
-----------------------------------------------------------------------------
(* Towards NothingLost: what a step can do to the slots, by the queue       *)
(* operation it makes.  It makes at most one.                               *)
DeliveredTo(c) ==
  \E q \in {"main", "dlq"} : \E ms \in SUBSET Receivable(q) : Deliver(q, c, ms)

LEMMA QueueEffect ==
  ASSUME [Next]_vars
  PROVE  \/ UNCHANGED msg
         \/ \E j \in Job : Send(j) /\ UNCHANGED cli
         \/ \E r \in Redriver : Resend(r)
         \/ \E c \in Consumer : DeliveredTo(c)
         \/ \E w \in Worker : Ack(w) /\ UNCHANGED cli
         \/ \E r \in Redriver : Remove(r)
         \/ \E m \in Msg : Expire(m) \/ MoveToDlq(m)
<1>1. ASSUME NEW j \in Job, ApiStepOf(j) PROVE UNCHANGED msg \/ Send(j)
  BY <1>1 DEF ApiStepOf, Submit, SendOk, SendError, MarkUnsent, ApiCrash
<1>2. ASSUME NEW w \in Worker, WorkerStep(w)
      PROVE  UNCHANGED msg \/ DeliveredTo(w) \/ Ack(w)
  BY <1>2 DEF WorkerStep, WorkerRuns, Handling, Receive, Take, ReadStatus, LookupDecision, StartAttempt,
              Analyze, Persist, Raise, CountAttempts, MarkFailed, LogFailure, Abandon, Crash,
              DeliveredTo
<1>3. ASSUME NEW r \in Redriver, CliStep(r)
      PROVE  UNCHANGED msg \/ DeliveredTo(r) \/ Resend(r) \/ Remove(r)
  BY <1>3 DEF CliStep, Pull, Plan, Decline, Reset, CliCrash, DeliveredTo
<1> QED
  BY <1>1, <1>2, <1>3 DEF Next, vars, Consumer

(* Deliveries, timeouts and moves to the DLQ keep every copy.              *)
LEMMA DeliveryKeeps ==
  ASSUME NEW c, DeliveredTo(c), SqsTypeOK, NEW m \in Msg
  PROVE  msg'[m].place = msg[m].place /\ msg'[m].job = msg[m].job
<1>1. PICK q \in {"main", "dlq"} : \E ms \in SUBSET Receivable(q) : Deliver(q, c, ms)
  BY DEF DeliveredTo
<1>2. PICK ms \in SUBSET Receivable(q) : Deliver(q, c, ms)
  BY <1>1
<1>3. CASE m \notin ms
  BY <1>2, <1>3 DEF Deliver
<1>4. CASE m \in ms
  <2>1. msg[m] \in Slot
    BY DEF SqsTypeOK
  <2> QED
    BY <1>2, <1>4, <2>1 DEF Deliver, Slot
<1> QED
  BY <1>3, <1>4

LEMMA TimeKeeps ==
  ASSUME NEW x \in Msg, Expire(x) \/ MoveToDlq(x), SqsTypeOK, NEW m \in Msg
  PROVE  /\ msg'[m].job = msg[m].job
         /\ Live(m) => Live(m)'
         /\ msg'[m].place = "free" <=> msg[m].place = "free"
BY DEF Expire, MoveToDlq, SqsTypeOK, Slot, Idle, Live

(* A send fills one free slot, a delete empties at most its own.           *)
LEMMA SendFills ==
  ASSUME NEW j, Send(j), SqsTypeOK
  PROVE  \E x \in Msg : /\ msg[x].place = "free"
                        /\ Live(x)' /\ msg'[x].job = j /\ msg'[x].place = "main"
                        /\ \A m \in Msg \ {x} : msg'[m] = msg[m]
BY DEF Send, SqsTypeOK, Idle, Live

LEMMA DeleteEmpties ==
  ASSUME NEW q, NEW c, NEW x, Delete(q, c, x), SqsTypeOK, NEW m \in Msg
  PROVE  /\ m # x => msg'[m] = msg[m]
         /\ msg'[m].job = msg[m].job
         /\ q # "free" => (msg'[m].place = "free" <=> msg[m].place = "free")
<1>1. CASE UNCHANGED msg
  BY <1>1
<1>2. CASE msg[x].place = q /\ msg' = [msg EXCEPT ![x] = Idle("gone", msg[x].job, FALSE)]
  <2>1. CASE m # x
    BY <1>2, <2>1 DEF SqsTypeOK
  <2>2. CASE m = x
    BY <1>2, <2>2 DEF SqsTypeOK, Idle
  <2> QED
    BY <2>1, <2>2
<1> QED
  BY <1>1, <1>2 DEF Delete

(* A slot once used keeps its job for good.                                *)
LEMMA SlotStable ==
  ASSUME TypeInv, [Next]_vars, NEW m \in Msg, msg[m].place # "free"
  PROVE  msg'[m].place # "free" /\ msg'[m].job = msg[m].job
<1>0. SqsTypeOK
  BY DEF TypeInv, TypeOK
<1>1. ASSUME NEW j, Send(j) PROVE msg'[m].place # "free" /\ msg'[m].job = msg[m].job
  BY <1>0, <1>1, SendFills
<1>2. ASSUME NEW c \in Consumer, DeliveredTo(c)
      PROVE  msg'[m].place # "free" /\ msg'[m].job = msg[m].job
  BY <1>0, <1>2, DeliveryKeeps
<1>3. ASSUME NEW w \in Worker, Ack(w) PROVE msg'[m].place # "free" /\ msg'[m].job = msg[m].job
  BY <1>0, <1>3, DeleteEmpties DEF Ack
<1>4. ASSUME NEW r \in Redriver, Remove(r) PROVE msg'[m].place # "free" /\ msg'[m].job = msg[m].job
  BY <1>0, <1>4, DeleteEmpties DEF Remove
<1>5. ASSUME NEW x \in Msg, Expire(x) \/ MoveToDlq(x)
      PROVE  msg'[m].place # "free" /\ msg'[m].job = msg[m].job
  BY <1>0, <1>5, TimeKeeps
<1> QED
  BY <1>1, <1>2, <1>3, <1>4, <1>5, QueueEffect DEF Resend

(* A step changes the local state of the process that takes it only.       *)
LEMMA WorkerOwnStep ==
  ASSUME TypeInv, [Next]_vars, NEW w \in Worker
  PROVE  WorkerStep(w) \/ worker'[w] = worker[w]
<1>1. ASSUME NEW v \in Worker, v # w, WorkerStep(v) PROVE worker'[w] = worker[w]
  BY <1>1 DEF WorkerStep, WorkerRuns, Handling, Receive, Take, ReadStatus, LookupDecision, StartAttempt,
              Analyze, Persist, Raise, CountAttempts, MarkFailed, LogFailure, Ack, Abandon,
              Crash, Goto, NextMessage, TypeInv, TypeOK, WorkerTypeOK
<1> QED
  BY <1>1 DEF Next, vars

LEMMA CliOwnStep ==
  ASSUME TypeInv, [Next]_vars, NEW r \in Redriver
  PROVE  CliStep(r) \/ cli'[r] = cli[r]
<1>1. ASSUME NEW s \in Redriver, s # r, CliStep(s) PROVE cli'[r] = cli[r]
  BY <1>1 DEF CliStep, Pull, Plan, Decline, Reset, Resend, Remove, CliCrash,
              TypeInv, TypeOK, CliTypeOK
<1> QED
  BY <1>1 DEF Next, vars

(* How the messages a worker handles change: it receives, takes one, keeps  *)
(* what it has, or drops the one in hand.                                   *)
LEMMA WorkerHands ==
  ASSUME TypeInv, NEW w \in Worker, WorkerStep(w)
  PROVE  \/ /\ worker'[w].batch \in SUBSET Receivable("main")
            /\ worker'[w].pc = "poll"
         \/ /\ worker'[w].batch \in SUBSET worker[w].batch
            /\ \/ worker'[w].pc = "poll"
               \/ worker'[w].cur \in worker[w].batch \ worker'[w].batch
         \/ /\ worker'[w].batch = worker[w].batch
            /\ worker'[w].cur = worker[w].cur
            /\ worker[w].pc # "poll"
<1> USE DEF TypeInv, TypeOK, WorkerTypeOK, WorkerState
<1>1. CASE Receive(w)
  BY <1>1 DEF Receive, At
<1>2. CASE Take(w)
  <2>1. PICK m \in worker[w].batch :
          worker' = [worker EXCEPT ![w].pc = "status", ![w].cur = m, ![w].batch = @ \ {m}]
    BY <1>2 DEF Take
  <2>2. worker'[w].cur = m /\ worker'[w].batch = worker[w].batch \ {m}
    BY <2>1
  <2> QED
    BY <2>2
<1>3. CASE NextMessage(w) \/ Crash(w)
  BY <1>3 DEF NextMessage, Crash, Polling, PollingWith
<1>4. ASSUME NEW pc, Goto(w, pc), worker[w].pc # "poll"
      PROVE  worker'[w].batch = worker[w].batch /\ worker'[w].cur = worker[w].cur
  BY <1>4 DEF Goto
<1>5. CASE ReadStatus(w) \/ LookupDecision(w) \/ StartAttempt(w)
  BY <1>4, <1>5 DEF ReadStatus, LookupDecision, StartAttempt, At
<1>6. CASE Analyze(w)
  <2>1. PICK pc, v :
          worker' = [worker EXCEPT ![w] = [@ EXCEPT !.pc = pc, !.result = v]]
    BY <1>6 DEF Analyze
  <2>2. worker[w].pc = "analyze"
    BY <1>6 DEF Analyze, At
  <2> QED
    BY <2>1, <2>2
<1>7. CASE Persist(w) \/ Raise(w)
  <2>1. PICK pc, v :
          worker' = [worker EXCEPT ![w] = [@ EXCEPT !.pc = pc, !.result = v]]
    BY <1>7 DEF Persist, Raise
  <2> QED
    BY <1>7, <2>1 DEF Persist, Raise, At
<1>8. CASE CountAttempts(w) \/ MarkFailed(w)
  <2>1. PICK pc, k :
          worker' = [worker EXCEPT ![w] = [@ EXCEPT !.pc = pc, !.mark = k]]
    BY <1>8 DEF CountAttempts, MarkFailed
  <2> QED
    BY <1>8, <2>1 DEF CountAttempts, MarkFailed, At
<1>9. CASE LogFailure(w)
  BY <1>3, <1>4, <1>9 DEF LogFailure, At
<1> QED
  BY <1>1, <1>2, <1>3, <1>5, <1>6, <1>7, <1>8, <1>9 DEF WorkerStep, WorkerRuns, Handling, Ack, Abandon

LEMMA CliHands ==
  ASSUME TypeInv, NEW r \in Redriver, CliStep(r)
  PROVE  \/ /\ cli'[r].batch \in SUBSET Receivable("dlq")
            /\ cli'[r].pc = "next"
         \/ /\ cli'[r].batch \in SUBSET cli[r].batch
            /\ cli'[r].pc = "next" \/ cli'[r].cur \in cli[r].batch
         \/ /\ cli'[r].batch = cli[r].batch
            /\ cli'[r].cur = cli[r].cur
            /\ cli[r].pc # "next"
<1> USE DEF TypeInv, TypeOK, CliTypeOK, CliState
<1>1. CASE Pull(r)
  BY <1>1 DEF Pull, Holding
<1>2. CASE Plan(r)
  BY <1>2 DEF Plan
<1>3. CASE Decline(r)
  BY <1>3 DEF Decline
<1>4. CASE Reset(r) \/ Resend(r)
  BY <1>4 DEF Reset, Resend
<1>5. CASE Remove(r)
  BY <1>5 DEF Remove
<1>6. CASE CliCrash(r)
  BY <1>6 DEF CliCrash, Stopped, Holding
<1> QED
  BY <1>1, <1>2, <1>3, <1>4, <1>5, <1>6 DEF CliStep

LEMMA InHandKept == TypeInv /\ InHand /\ [Next]_vars => InHand'
<1> SUFFICES ASSUME TypeInv, InHand, [Next]_vars PROVE InHand'
  OBVIOUS
<1> USE DEF TypeInv, TypeOK
<1>0. \A m \in Msg : msg[m].place # "free" =>
        msg'[m].place # "free" /\ msg'[m].job = msg[m].job
  BY SlotStable
<1>1. ASSUME NEW m \in Msg, msg'[m].place # "free" PROVE msg'[m].job \in Job
  <2>1. CASE msg[m].place # "free"
    BY <1>0, <2>1 DEF InHand
  <2>2. CASE msg[m].place = "free"
    <3>1. ASSUME NEW j \in Job, Send(j) PROVE msg'[m].job \in Job
      BY <1>1, <2>2, <3>1, SendFills
    <3>2. ASSUME NEW r \in Redriver, Resend(r) PROVE msg'[m].job \in Job
      <4>1. CliJob(r) \in Job
        BY <3>2 DEF Resend, InHand, CliJob
      <4> QED
        BY <3>1, <3>2, <4>1 DEF Resend
    <3>3. ASSUME NEW c \in Consumer, DeliveredTo(c) PROVE FALSE
      BY <1>1, <2>2, <3>3, DeliveryKeeps
    <3>4. ASSUME NEW w \in Worker, Ack(w) PROVE FALSE
      BY <1>1, <2>2, <3>4, DeleteEmpties DEF Ack
    <3>5. ASSUME NEW r \in Redriver, Remove(r) PROVE FALSE
      BY <1>1, <2>2, <3>5, DeleteEmpties DEF Remove
    <3>6. ASSUME NEW x \in Msg, Expire(x) \/ MoveToDlq(x) PROVE FALSE
      BY <1>1, <2>2, <3>6, TimeKeeps
    <3> QED
      BY <1>1, <2>2, <3>1, <3>2, <3>3, <3>4, <3>5, <3>6, QueueEffect
  <2> QED
    BY <2>1, <2>2
<1> DEFINE Known(m) == m \in Msg /\ msg[m].place # "free"
<1>2. \A q \in {"main", "dlq"} : \A m \in Receivable(q) : Known(m)
  BY DEF Receivable
<1>3. ASSUME NEW w \in Worker
      PROVE  /\ \A m \in worker'[w].batch : Known(m)
             /\ worker'[w].pc # "poll" => Known(worker'[w].cur)
  <2>1. /\ \A m \in worker[w].batch : Known(m)
        /\ worker[w].pc # "poll" => Known(worker[w].cur)
    BY DEF InHand, At, WorkerTypeOK, WorkerState
  <2> HIDE DEF Known
  <2> QED
    BY <1>2, <2>1, WorkerOwnStep, WorkerHands
<1>4. ASSUME NEW r \in Redriver
      PROVE  /\ \A m \in cli'[r].batch : Known(m)
             /\ cli'[r].pc # "next" => Known(cli'[r].cur)
  <2>1. /\ \A m \in cli[r].batch : Known(m)
        /\ cli[r].pc # "next" => Known(cli[r].cur)
    BY DEF InHand, CliTypeOK, CliState
  <2> HIDE DEF Known
  <2> QED
    BY <1>2, <2>1, CliOwnStep, CliHands
<1> QED
  BY <1>0, <1>1, <1>3, <1>4 DEF InHand, At

(* Only a worker's persist makes a job succeeded.                          *)
LEMMA SucceededKept ==
  TypeInv /\ SucceededIsDecided /\ [Next]_vars => SucceededIsDecided'
<1> SUFFICES ASSUME TypeInv, SucceededIsDecided, [Next]_vars,
                    NEW j \in Job, jobs'[j].status = "succeeded"
             PROVE  Decided(j)'
  BY DEF SucceededIsDecided
<1>1. CASE jobs[j].status = "succeeded"
  BY <1>1, DecisionKept DEF SucceededIsDecided
<1>2. CASE jobs[j].status # "succeeded"
  <2> USE DEF TypeInv, TypeOK, DbTypeOK
  <2>1. ASSUME NEW i \in Job, ApiStepOf(i) PROVE FALSE
    BY <1>2, <2>1 DEF ApiStepOf, Submit, SendOk, SendError, MarkUnsent, ApiCrash,
                      InsertJob, SetStatus, dbVars
  <2>2. ASSUME NEW r \in Redriver, CliStep(r) PROVE FALSE
    <3>1. CASE ResetForRedrive(CliJob(r))
      BY <1>2, <3>1 DEF ResetForRedrive
    <3>2. CASE UNCHANGED jobs
      BY <1>2, <3>2
    <3> QED
      BY <2>2, <3>1, <3>2 DEF CliStep, Pull, Plan, Decline, Reset, Resend, Remove, CliCrash, dbVars
  <2>3. ASSUME NEW w \in Worker, WorkerStep(w) PROVE Decided(j)'
    <3>1. CASE StartAttempt(w)
      BY <1>2, <3>1 DEF StartAttempt, BeginAttempt
    <3>2. CASE Persist(w)
      <4>1. worker[w].result \in Verdict
        BY <3>2 DEF PersistTyped, Persist
      <4>2. JobOf(w) = j /\ decision' = [decision EXCEPT ![JobOf(w)] = worker[w].result]
        BY <1>2, <3>2 DEF Persist, PersistEnvelope, dbVars
      <4> QED
        BY <4>1, <4>2, NoVerdictAssumption DEF Decided
    <3>3. CASE MarkFailed(w)
      <4>1. worker[w].mark # "succeeded"
        BY DEF WorkerTypeOK, WorkerState
      <4> QED
        BY <1>2, <3>3, <4>1 DEF MarkFailed, SetStatus
    <3>4. CASE UNCHANGED jobs
      BY <1>2, <3>4
    <3> QED
      BY <2>3, <3>1, <3>2, <3>3, <3>4 DEF WorkerStep, WorkerRuns, Handling, Receive, Take, ReadStatus,
         LookupDecision, Analyze, Raise, CountAttempts, LogFailure, Ack, Abandon, Crash, dbVars
  <2> QED
    BY <1>2, <2>1, <2>2, <2>3 DEF Next, vars, dbVars
<1> QED
  BY <1>1, <1>2

(* A worker acks a job it has seen decided, or one it has seen refused.     *)
LEMMA AckJustifiedKept ==
  TypeInv /\ SucceededIsDecided /\ InHand /\ AckJustified /\ [Next]_vars => AckJustified'
<1> SUFFICES ASSUME TypeInv, SucceededIsDecided, InHand, AckJustified, [Next]_vars,
                    NEW w \in Worker
             PROVE  /\ worker'[w].result = "invalid" =>
                         worker'[w].pc # "poll" /\ JobOf(w)' \in Rejected
                    /\ worker'[w].pc = "ack" =>
                         worker'[w].result = "invalid" \/ Decided(JobOf(w))'
  BY StepTypeInv DEF AckJustified, TypeInv, PersistTyped, At
<1> USE DEF TypeInv, TypeOK
<1>0. ASSUME worker[w].pc # "poll", worker'[w].cur = worker[w].cur
      PROVE  /\ JobOf(w) \in Job
             /\ JobOf(w)' = JobOf(w)
             /\ Decided(JobOf(w)) => Decided(JobOf(w))'
  <2>1. worker[w].cur \in Msg /\ msg[worker[w].cur].place # "free"
    BY <1>0 DEF InHand, At
  <2>2. JobOf(w) \in Job /\ JobOf(w)' = JobOf(w)
    BY <1>0, <2>1, SlotStable DEF InHand, JobOf
  <2> QED
    BY <2>2, DecisionKept DEF Decided
<1>1. CASE worker'[w] = worker[w]
  BY <1>0, <1>1 DEF AckJustified, At
<1>3. CASE WorkerStep(w)
  <2> USE DEF WorkerTypeOK, WorkerState
  <2>0. /\ worker[w].result = "invalid" => worker[w].pc # "poll" /\ JobOf(w) \in Rejected
        /\ worker[w].pc = "ack" => worker[w].result = "invalid" \/ Decided(JobOf(w))
    BY DEF AckJustified, At
  <2>1. CASE Receive(w)
    <3>1. worker'[w].pc = "poll" /\ worker'[w].result = worker[w].result /\ worker[w].pc = "poll"
      BY <2>1 DEF Receive, At
    <3> QED
      BY <2>0, <3>1
  <2>2. CASE Take(w)
    <3>1. worker'[w].pc = "status" /\ worker'[w].result = worker[w].result /\ worker[w].pc = "poll"
      BY <2>2 DEF Take, At
    <3> QED
      BY <2>0, <3>1
  <2>3. CASE NextMessage(w) \/ Crash(w)
    <3>1. worker'[w].pc = "poll" /\ worker'[w].result = "none"
      BY <2>3 DEF NextMessage, Crash, Polling, PollingWith
    <3> QED
      BY <3>1
  <2>4. ASSUME NEW pc, Goto(w, pc)
        PROVE  /\ worker'[w].pc = pc /\ worker'[w].result = worker[w].result
               /\ worker'[w].cur = worker[w].cur
    BY <2>4 DEF Goto
  <2>5. CASE ReadStatus(w)
    <3>1. /\ worker[w].pc = "status"
          /\ Goto(w, IF jobs[JobOf(w)].status = "succeeded" THEN "ack" ELSE "lookup")
      BY <2>5 DEF ReadStatus, At
    <3>2. JobOf(w) \in Job
      BY <3>1, <2>4, <1>0
    <3>3. jobs[JobOf(w)].status = "succeeded" => Decided(JobOf(w))
      BY <3>2 DEF SucceededIsDecided
    <3> QED
      BY <1>0, <2>0, <2>4, <3>1, <3>3
  <2>6. CASE LookupDecision(w)
    <3>1. /\ worker[w].pc = "lookup"
          /\ Goto(w, IF Decided(JobOf(w)) THEN "ack" ELSE "start")
      BY <2>6 DEF LookupDecision, At
    <3> QED
      BY <1>0, <2>0, <2>4, <3>1
  <2>7. CASE StartAttempt(w)
    <3>1. worker[w].pc = "start" /\ Goto(w, "analyze")
      BY <2>7 DEF StartAttempt, At
    <3> QED
      BY <1>0, <2>0, <2>4, <3>1
  <2>8. ASSUME NEW pc, NEW v, worker' = [worker EXCEPT ![w] = [@ EXCEPT !.pc = pc, !.result = v]]
        PROVE  worker'[w].pc = pc /\ worker'[w].result = v /\ worker'[w].cur = worker[w].cur
    BY <2>8
  <2>9. CASE Analyze(w)
    <3>1. worker[w].pc = "analyze"
      BY <2>9 DEF Analyze, At
    <3>2. CASE JobOf(w) \in Rejected
      <4>1. /\ worker'[w].pc = "count" /\ worker'[w].result = "invalid"
            /\ worker'[w].cur = worker[w].cur
        BY <2>8, <2>9, <3>2 DEF Analyze
      <4> QED
        BY <1>0, <3>1, <3>2, <4>1
    <3>3. CASE JobOf(w) \notin Rejected
      <4>1. worker'[w].pc = "persist" /\ worker'[w].result \in Verdict
        <5>1. PICK v \in Verdict :
                worker' = [worker EXCEPT ![w] = [@ EXCEPT !.pc = "persist", !.result = v]]
          BY <2>9, <3>3 DEF Analyze
        <5> QED
          BY <2>8, <5>1
      <4> QED
        BY <4>1, NoVerdictAssumption
    <3> QED
      BY <3>2, <3>3
  <2>10. CASE Persist(w)
    <3>1. /\ worker[w].pc = "persist" /\ worker'[w].pc = "ack"
          /\ worker'[w].result = "none" /\ worker'[w].cur = worker[w].cur
      BY <2>8, <2>10 DEF Persist, At
    <3>2. JobOf(w) \in Job /\ JobOf(w)' = JobOf(w)
      BY <1>0, <3>1
    <3>3. worker[w].result \in Verdict
      BY <3>1 DEF PersistTyped, At
    <3>4. decision'[JobOf(w)] # "none"
      BY <2>10, <3>2, <3>3, NoVerdictAssumption
      DEF Persist, PersistEnvelope, dbVars, DbTypeOK
    <3> QED
      BY <3>1, <3>2, <3>4 DEF Decided
  <2>11. CASE Raise(w)
    <3>1. worker'[w].pc = "count" /\ worker'[w].result = "error"
      BY <2>8, <2>11 DEF Raise
    <3> QED
      BY <3>1
  <2>12. ASSUME NEW pc, NEW k, worker' = [worker EXCEPT ![w] = [@ EXCEPT !.pc = pc, !.mark = k]]
         PROVE  /\ worker'[w].pc = pc /\ worker'[w].result = worker[w].result
                /\ worker'[w].cur = worker[w].cur
    BY <2>12
  <2>13. CASE CountAttempts(w)
    <3>1. /\ worker[w].pc = "count" /\ worker'[w].pc = "mark"
          /\ worker'[w].result = worker[w].result /\ worker'[w].cur = worker[w].cur
      BY <2>12, <2>13 DEF CountAttempts, At
    <3> QED
      BY <1>0, <2>0, <3>1
  <2>14. CASE MarkFailed(w)
    <3>1. /\ worker[w].pc = "mark" /\ worker'[w].pc = "log"
          /\ worker'[w].result = worker[w].result /\ worker'[w].cur = worker[w].cur
      BY <2>12, <2>14 DEF MarkFailed, At
    <3> QED
      BY <1>0, <2>0, <3>1
  <2>15. CASE LogFailure(w) /\ ~NextMessage(w)
    <3>1. worker[w].pc = "log" /\ worker[w].result = "invalid" /\ Goto(w, "ack")
      BY <2>15 DEF LogFailure, At
    <3> QED
      BY <1>0, <2>0, <2>4, <3>1
  <2> QED
    BY <1>3, <2>1, <2>2, <2>3, <2>5, <2>6, <2>7, <2>9, <2>10, <2>11, <2>13, <2>14, <2>15
    DEF WorkerStep, WorkerRuns, Handling, Ack, Abandon
<1> QED
  BY <1>1, <1>3, WorkerOwnStep

(* Only its own resend brings a redrive run to its delete.                 *)
LEMMA OnlyResendArms ==
  ASSUME TypeInv, [Next]_vars, NEW r \in Redriver, cli'[r].pc = "delete", ~Resend(r)
  PROVE  cli'[r] = cli[r]
<1> USE DEF TypeInv, TypeOK, CliTypeOK, CliState
<1>1. CASE Pull(r) \/ CliCrash(r)
  BY <1>1 DEF Pull, CliCrash, Stopped, Holding
<1>2. ASSUME Plan(r) PROVE cli'[r].pc # "delete"
  BY <1>2 DEF Plan, PlanRedrive
<1>3. ASSUME Decline(r) PROVE cli'[r].pc # "delete"
  BY <1>3 DEF Decline
<1>4. ASSUME Reset(r) PROVE cli'[r].pc # "delete"
  BY <1>4 DEF Reset
<1>5. ASSUME Remove(r) PROVE cli'[r].pc # "delete"
  BY <1>5 DEF Remove
<1> QED
  BY <1>1, <1>2, <1>3, <1>4, <1>5, CliOwnStep DEF CliStep

(* No step takes the last safe copy of an undecided job: a redrive has sent *)
(* a new copy before it deletes the old one, and a worker deletes only what *)
(* is decided or refused.                                                   *)
LEMMA CopyKeptKept ==
  TypeInv /\ InHand /\ AckJustified /\ CopyKept /\ [Next]_vars => CopyKept'
<1> DEFINE Spare(m) == \A r \in Redriver : cli[r].pc = "delete" => cli[r].cur # m
           Safe(m, j) == Live(m) /\ msg[m].job = j /\ Spare(m)
<1> SUFFICES ASSUME TypeInv, InHand, AckJustified, CopyKept, [Next]_vars,
                    NEW j \in Job \ Rejected, Sent(j)', ~Decided(j)'
             PROVE  \E m \in Msg : Safe(m, j)'
  BY DEF CopyKept
<1>0. SqsTypeOK
  BY DEF TypeInv, TypeOK
<1>1. ~Decided(j)
  BY DecisionKept
<1>2. Sent(j) => \E m \in Msg : Safe(m, j)
  BY <1>1 DEF CopyKept
<1>3. ASSUME NEW x \in Msg, msg[x].place = "free" PROVE Spare(x)
  BY <1>3 DEF InHand
<1>4. CASE \A r \in Redriver : ~Resend(r)
  <2>1. ASSUME NEW m \in Msg, Spare(m) PROVE Spare(m)'
    BY <1>4, <2>1, OnlyResendArms
  <2>2. ASSUME Sent(j), \A m \in Msg : Safe(m, j) => Live(m)' /\ msg'[m].job = j
        PROVE  \E m \in Msg : Safe(m, j)'
    BY <1>2, <2>1, <2>2
  <2>3. CASE UNCHANGED msg
    BY <2>2, <2>3 DEF Sent, Live
  <2>4. ASSUME NEW i \in Job, Send(i) PROVE \E m \in Msg : Safe(m, j)'
    <3>1. PICK x \in Msg : /\ msg[x].place = "free"
                           /\ Live(x)' /\ msg'[x].job = i /\ msg'[x].place = "main"
                           /\ \A m \in Msg \ {x} : msg'[m] = msg[m]
      BY <1>0, <2>4, SendFills
    <3>2. CASE i = j
      BY <1>3, <2>1, <3>1, <3>2
    <3>3. CASE i # j
      BY <2>2, <3>1, <3>3 DEF Sent, Live
    <3> QED
      BY <3>2, <3>3
  <2>5. ASSUME NEW c \in Consumer, DeliveredTo(c) PROVE \E m \in Msg : Safe(m, j)'
    BY <1>0, <2>2, <2>5, DeliveryKeeps DEF Sent, Live
  <2>6. ASSUME NEW w \in Worker, Ack(w) PROVE \E m \in Msg : Safe(m, j)'
    <3>1. JobOf(w) # j
      BY <1>1, <2>6 DEF Ack, AckJustified, At
    <3>2. \A m \in Msg : /\ m # worker[w].cur => msg'[m] = msg[m]
                         /\ msg'[m].job = msg[m].job
                         /\ msg'[m].place = "free" <=> msg[m].place = "free"
      BY <1>0, <2>6, DeleteEmpties DEF Ack
    <3> QED
      BY <2>2, <3>1, <3>2 DEF JobOf, Sent, Live
  <2>7. ASSUME NEW r \in Redriver, Remove(r) PROVE \E m \in Msg : Safe(m, j)'
    <3>1. cli[r].pc = "delete"
      BY <2>7 DEF Remove
    <3>2. \A m \in Msg : /\ m # cli[r].cur => msg'[m] = msg[m]
                         /\ msg'[m].job = msg[m].job
                         /\ msg'[m].place = "free" <=> msg[m].place = "free"
      BY <1>0, <2>7, DeleteEmpties DEF Remove
    <3> QED
      BY <2>2, <3>1, <3>2 DEF Sent, Live
  <2>8. ASSUME NEW x \in Msg, Expire(x) \/ MoveToDlq(x) PROVE \E m \in Msg : Safe(m, j)'
    BY <1>0, <2>2, <2>8, TimeKeeps DEF Sent
  <2> QED
    BY <1>4, <2>3, <2>4, <2>5, <2>6, <2>7, <2>8, QueueEffect
<1>5. ASSUME NEW r \in Redriver, Resend(r) PROVE \E m \in Msg : Safe(m, j)'
  <2>1. cli' = [cli EXCEPT ![r].pc = "delete"]
    BY <1>5 DEF Resend
  <2>2. PICK x \in Msg : /\ msg[x].place = "free"
                         /\ Live(x)' /\ msg'[x].job = CliJob(r) /\ msg'[x].place = "main"
                         /\ \A m \in Msg \ {x} : msg'[m] = msg[m]
    BY <1>0, <1>5, SendFills DEF Resend
  <2>3. \A s \in Redriver : /\ cli'[s].cur = cli[s].cur
                            /\ s # r => cli'[s] = cli[s]
    BY <2>1 DEF TypeInv, TypeOK, CliTypeOK, CliState
  <2>4. /\ cli[r].pc = "send" /\ cli[r].cur \in Msg
        /\ msg[cli[r].cur].place # "free"
    BY <1>5 DEF Resend, InHand
  <2>5. CASE CliJob(r) = j
    <3>1. Spare(x)'
      BY <1>3, <2>2, <2>3, <2>4
    <3> QED
      BY <2>2, <2>5, <3>1
  <2>6. CASE CliJob(r) # j
    <3>1. Sent(j)
      BY <2>2, <2>6 DEF Sent
    <3>2. PICK m \in Msg : Safe(m, j)
      BY <1>2, <3>1
    <3>3. m # cli[r].cur /\ m # x
      BY <2>2, <2>6, <3>2 DEF CliJob, Live
    <3>4. Spare(m)'
      BY <2>3, <3>2, <3>3
    <3> QED
      BY <2>2, <3>2, <3>3, <3>4 DEF Live
  <2> QED
    BY <2>5, <2>6
<1> QED
  BY <1>4, <1>5

LEMMA InitIInv == Init => IInv
<1> SUFFICES ASSUME Init PROVE IInv
  OBVIOUS
<1>1. TypeOK
  BY InitTypeInv DEF TypeInv
<1>2. SucceededIsDecided
  BY DEF Init, DbInit, SucceededIsDecided
<1>3. InHand /\ CopyKept
  BY DEF Init, SqsInit, WorkerInit, CliInit, Unused, Idle, Polling, PollingWith, Stopped,
         Holding, InHand, CopyKept, Sent, At
<1>4. AckJustified
  BY DEF Init, WorkerInit, Polling, PollingWith, AckJustified, At
<1> QED
  BY <1>1, <1>2, <1>3, <1>4 DEF IInv

LEMMA IInvTypeInv == IInv => TypeInv
BY DEF IInv, TypeInv, AckJustified, PersistTyped, InHand, ResendTyped

LEMMA StepIInv == IInv /\ [Next]_vars => IInv'
BY IInvTypeInv, StepTypeInv, SucceededKept, InHandKept, AckJustifiedKept, CopyKeptKept
DEF IInv, TypeInv

(* The strengthening is an invariant.                                      *)
THEOREM Inductive == Spec => []IInv
BY InitIInv, StepIInv, PTL DEF Spec

(* No job that reached the queue is lost: until it is decided, a copy of it *)
(* is in the main queue or the DLQ, however many workers and redrive runs   *)
(* race, crash and outlive their visibility timeouts.                       *)
THEOREM NothingIsLost == Spec => []NothingLost
<1>1. IInv => NothingLost
  BY DEF IInv, CopyKept, NothingLost
<1> QED
  BY <1>1, Inductive, PTL

(* A job shown as succeeded has a decision.                                *)
THEOREM SucceededJobsAreDecided == Spec => []SucceededIsDecided
<1>1. IInv => SucceededIsDecided
  BY DEF IInv
<1> QED
  BY <1>1, Inductive, PTL
-----------------------------------------------------------------------------
(* A persist that writes is the ledger's Decide.                           *)
LEMMA PersistIsDecide ==
  ASSUME IInv, ReviewRowIffNeeded, NEW w \in Worker, Persist(w)
  PROVE  UNCHANGED <<decision, review>> \/ Ledger!LedgerNext
<1> DEFINE j == JobOf(w)
           v == worker[w].result
<1>1. CASE UNCHANGED dbVars
  BY <1>1 DEF dbVars
<1>2. CASE /\ decision[j] = "none"
           /\ decision' = [decision EXCEPT ![j] = v]
           /\ review' = [review EXCEPT ![j] = @ \/ v \in ReviewVerdict]
  <2>1. v \in Verdict /\ j \in Job
    BY DEF IInv, AckJustified, InHand, Persist, JobOf, At
  <2>2. review[j] = FALSE
    <3>1. review[j] \in BOOLEAN
      BY <2>1 DEF IInv, TypeOK, DbTypeOK
    <3>2. "none" \notin ReviewVerdict
      BY NoVerdictAssumption, VerdictAssumption
    <3> QED
      BY <1>2, <2>1, <3>1, <3>2 DEF ReviewRowIffNeeded
  <2>3. review' = [review EXCEPT ![j] = v \in ReviewVerdict]
    <3>1. (review[j] \/ v \in ReviewVerdict) = (v \in ReviewVerdict)
      BY <2>2
    <3>2. review' = [review EXCEPT ![j] = (review[j] \/ v \in ReviewVerdict)]
      BY <1>2
    <3> QED
      BY <3>1, <3>2
  <2>4. Ledger!Decide(j, v)
    BY <1>2, <2>3 DEF Ledger!Decide
  <2> QED
    BY <2>1, <2>4 DEF Ledger!LedgerNext
<1> QED
  BY <1>1, <1>2 DEF Persist, PersistEnvelope

(* However jobs are delivered, redriven and raced for, the pipeline is a      *)
(* ledger of decisions: each job decided at most once, its review row with it.*)
THEOREM LedgerImplemented == Spec => ImplementsLedger
<1>1. Init => Ledger!LedgerInit
  BY DEF Init, DbInit, Ledger!LedgerInit, Ledger!Open
<1>2. IInv /\ ReviewRowIffNeeded /\ [Next]_vars => [Ledger!LedgerNext]_(Ledger!entries)
  BY OnlyPersistDecides, PersistIsDecide DEF Ledger!entries
<1> QED
  BY <1>1, <1>2, Inductive, ReviewRows, PTL DEF Spec, ImplementsLedger, Ledger!LedgerSpec
-----------------------------------------------------------------------------
(* When no two workers are at work on one job at the same time, what a       *)
(* worker knows of the job in hand stays true until it writes: nobody else   *)
(* decides that job.  Deployed, it takes a visibility timeout no attempt      *)
(* outlasts and no second message for a job; or a single worker process.    *)
JobExclusive ==
  \A v, w \in Worker :
    v # w /\ ~At(v, "poll") /\ ~At(w, "poll") => JobOf(v) # JobOf(w)

OneWorker == \A v, w \in Worker : v = w

\* past the SELECT that found no decision ...
Undecided == {"start", "analyze", "persist"}
\* ... and past the SELECT status that did not find the job succeeded
Unfinished == Undecided \cup {"lookup", "count", "mark"}

SerialInv ==
  /\ SerialWorkerAgrees
  /\ \A w \in Worker :
       /\ worker[w].pc \in Undecided => ~Decided(JobOf(w))
       /\ worker[w].pc \in Unfinished /\ Decided(JobOf(w)) => api[JobOf(w)] = "refused"

LEMMA RefusedKept ==
  ASSUME TypeInv, [Next]_vars, NEW j \in Job, api[j] = "refused"
  PROVE  api'[j] = "refused"
<1>1. ASSUME NEW i \in Job, ApiStepOf(i) PROVE api'[j] = "refused"
  BY <1>1 DEF ApiStepOf, Submit, SendOk, SendError, MarkUnsent, ApiCrash, ApiGoto,
              TypeInv, TypeOK, ApiTypeOK
<1> QED
  BY <1>1 DEF Next, vars

(* How a worker comes to a step at which it must not touch a decided job.  *)
LEMMA UnfinishedPath ==
  ASSUME TypeInv, NEW w \in Worker, WorkerStep(w), worker'[w].pc \in Unfinished
  PROVE  /\ worker'[w].cur = worker[w].cur
         /\ ~Persist(w)
         /\ \/ worker[w].pc = "status" /\ worker'[w].pc = "lookup"
               /\ jobs[JobOf(w)].status # "succeeded"
            \/ worker[w].pc = "lookup" /\ ~Decided(JobOf(w))
            \/ worker[w].pc \in Undecided
            \/ worker[w].pc \in Unfinished /\ worker'[w].pc \notin Undecided
<1> USE DEF TypeInv, TypeOK, WorkerTypeOK, Undecided, Unfinished
<1>0. worker[w] \in WorkerState
  OBVIOUS
<1>1. ASSUME Receive(w) \/ Take(w) \/ NextMessage(w) \/ Crash(w) \/ Persist(w) PROVE FALSE
  <2>1. CASE Receive(w)
    BY <2>1 DEF Receive, At
  <2>2. CASE Take(w)
    BY <2>2 DEF Take
  <2>3. CASE NextMessage(w) \/ Crash(w)
    BY <2>3 DEF NextMessage, Crash, Polling, PollingWith
  <2>4. CASE Persist(w)
    BY <2>4 DEF Persist
  <2> QED
    BY <1>1, <2>1, <2>2, <2>3, <2>4
<1>2. CASE ReadStatus(w)
  <2>1. jobs[JobOf(w)].status # "succeeded"
    BY <1>2 DEF ReadStatus, Goto
  <2> QED
    BY <1>2, <2>1, <1>1 DEF ReadStatus, Goto, At
<1>3. CASE LookupDecision(w)
  <2>1. ~Decided(JobOf(w))
    BY <1>3 DEF LookupDecision, Goto
  <2> QED
    BY <1>3, <2>1, <1>1 DEF LookupDecision, Goto, At
<1>4. CASE StartAttempt(w)
  BY <1>4, <1>1 DEF StartAttempt, Goto, At
<1>5. CASE Analyze(w)
  <2>1. PICK pc, v :
          worker' = [worker EXCEPT ![w] = [@ EXCEPT !.pc = pc, !.result = v]]
    BY <1>5 DEF Analyze
  <2>2. worker[w].pc = "analyze"
    BY <1>5 DEF Analyze, At
  <2> QED
    BY <2>1, <2>2, <1>1
<1>6. CASE Raise(w)
  <2>1. /\ worker[w].pc \in {"lookup", "start", "analyze", "persist"}
        /\ worker'[w].pc = "count" /\ worker'[w].cur = worker[w].cur
    BY <1>6 DEF Raise
  <2> QED
    BY <2>1, <1>1
<1>7. CASE CountAttempts(w)
  <2>1. /\ worker[w].pc = "count"
        /\ worker'[w].pc = "mark" /\ worker'[w].cur = worker[w].cur
    BY <1>7 DEF CountAttempts, At
  <2> QED
    BY <2>1, <1>1
<1>8. ASSUME MarkFailed(w) PROVE FALSE
  <2>1. worker'[w].pc = "log"
    BY <1>8 DEF MarkFailed
  <2> QED
    BY <2>1
<1>9. ASSUME Goto(w, "ack") PROVE FALSE
  <2>1. worker'[w].pc = "ack"
    BY <1>9 DEF Goto
  <2> QED
    BY <2>1
<1> QED
  BY <1>1, <1>2, <1>3, <1>4, <1>5, <1>6, <1>7, <1>8, <1>9
  DEF WorkerStep, WorkerRuns, Handling, LogFailure, Ack, Abandon

LEMMA InitSerialInv == Init => SerialInv
BY DEF Init, DbInit, WorkerInit, Polling, PollingWith, SerialInv, SerialWorkerAgrees, Decided,
       Undecided, Unfinished

(* No step of a worker forgets what it knew, and no step of anybody else     *)
(* can take it away.                                                        *)
LEMMA SerialHandsKept ==
  ASSUME JobExclusive, IInv, SerialInv, [Next]_vars, NEW w \in Worker
  PROVE  /\ worker'[w].pc \in Undecided => ~Decided(JobOf(w))'
         /\ worker'[w].pc \in Unfinished /\ Decided(JobOf(w))' => api'[JobOf(w)'] = "refused"
<1> SUFFICES ASSUME worker'[w].pc \in Unfinished
             PROVE  /\ worker'[w].pc \in Undecided => ~Decided(JobOf(w))'
                    /\ Decided(JobOf(w))' => api'[JobOf(w)'] = "refused"
  BY DEF Unfinished
<1>0. TypeInv
  BY IInvTypeInv
<1>1. /\ worker'[w].cur = worker[w].cur
      /\ ~Persist(w)
      /\ worker[w].pc # "poll"
      /\ \/ worker[w].pc = "status" /\ worker'[w].pc = "lookup"
            /\ jobs[JobOf(w)].status # "succeeded"
         \/ worker[w].pc = "lookup" /\ ~Decided(JobOf(w))
         \/ worker[w].pc \in Undecided
         \/ worker[w].pc \in Unfinished /\ worker'[w].pc \notin Undecided
  <2>1. CASE WorkerStep(w)
    BY <1>0, <2>1, UnfinishedPath DEF Undecided, Unfinished
  <2>2. CASE worker'[w] = worker[w]
    <3>1. Persist(w) => worker[w].pc = "persist" /\ worker'[w].pc = "ack"
      BY <1>0 DEF Persist, At, TypeInv, TypeOK, WorkerTypeOK, WorkerState
    <3> QED
      BY <2>2, <3>1 DEF Undecided, Unfinished
  <2> QED
    BY <1>0, <2>1, <2>2, WorkerOwnStep
<1>2. JobOf(w) \in Job /\ JobOf(w)' = JobOf(w)
  <2>1. worker[w].cur \in Msg /\ msg[worker[w].cur].place # "free"
    BY <1>1 DEF IInv, InHand, At
  <2> QED
    BY <1>0, <1>1, <2>1, SlotStable DEF IInv, InHand, JobOf
<1>3. decision'[JobOf(w)] = decision[JobOf(w)]
  <2>1. ASSUME NEW v \in Worker, Persist(v) PROVE decision'[JobOf(w)] = decision[JobOf(w)]
    <3>1. JobOf(v) # JobOf(w)
      BY <1>1, <2>1 DEF JobExclusive, Persist, At
    <3> QED
      BY <1>0, <1>2, <2>1, <3>1 DEF Persist, PersistEnvelope, dbVars, TypeInv, TypeOK, DbTypeOK
  <2> QED
    BY <2>1, OnlyPersistDecides
<1>4. Decided(JobOf(w))' <=> Decided(JobOf(w))
  BY <1>2, <1>3 DEF Decided
<1>5. worker'[w].pc \in Undecided => ~Decided(JobOf(w))
  BY <1>1 DEF SerialInv, Undecided
<1>6. Decided(JobOf(w)) => api[JobOf(w)] = "refused"
  BY <1>1, <1>2 DEF SerialInv, SerialWorkerAgrees, Undecided, Unfinished
<1> QED
  BY <1>0, <1>2, <1>4, <1>5, <1>6, RefusedKept

(* A decided job's row leaves 'succeeded' by no statement but MarkUnsent's.  *)
LEMMA SerialAgreesKept ==
  IInv /\ SerialInv /\ [Next]_vars => SerialWorkerAgrees'
<1> SUFFICES ASSUME IInv, SerialInv, [Next]_vars,
                    NEW j \in Job, Decided(j)', api'[j] # "refused"
             PROVE  jobs'[j].status = "succeeded"
  BY DEF SerialWorkerAgrees
<1>0. TypeInv
  BY IInvTypeInv
<1> USE DEF TypeInv, TypeOK, DbTypeOK
<1>1. CASE ~Decided(j)
  <2>1. PICK w \in Worker : Persist(w)
    BY <1>1, OnlyPersistDecides DEF Decided
  <2> QED
    BY <1>0, <1>1, <2>1 DEF Persist, PersistEnvelope, Decided, dbVars
<1>2. CASE Decided(j)
  <2>0. api[j] # "refused" /\ jobs[j].status = "succeeded"
    BY <1>0, <1>2, RefusedKept DEF SerialInv, SerialWorkerAgrees
  <2>1. ASSUME NEW i \in Job, ApiStepOf(i) PROVE jobs'[j].status = "succeeded"
    <3>1. CASE MarkUnsent(i)
      <4>1. i # j
        BY <1>0, <3>1 DEF MarkUnsent, ApiGoto, ApiTypeOK
      <4> QED
        BY <1>0, <2>0, <3>1, <4>1 DEF MarkUnsent, SetStatus
    <3>2. CASE Submit(i)
      BY <1>0, <2>0, <3>2 DEF Submit, InsertJob
    <3> QED
      BY <2>0, <2>1, <3>1, <3>2 DEF ApiStepOf, SendOk, SendError, ApiCrash, dbVars
  <2>2. ASSUME NEW r \in Redriver, CliStep(r) PROVE jobs'[j].status = "succeeded"
    <3>1. CASE ResetForRedrive(CliJob(r))
      BY <1>0, <2>0, <3>1 DEF ResetForRedrive
    <3>2. CASE UNCHANGED jobs
      BY <2>0, <3>2
    <3> QED
      BY <2>2, <3>1, <3>2 DEF CliStep, Pull, Plan, Decline, Reset, Resend, Remove, CliCrash, dbVars
  <2>3. ASSUME NEW w \in Worker, WorkerStep(w) PROVE jobs'[j].status = "succeeded"
    <3>1. CASE StartAttempt(w)
      <4>1. JobOf(w) # j
        BY <1>2, <3>1 DEF StartAttempt, At, SerialInv, Undecided
      <4> QED
        BY <1>0, <2>0, <3>1, <4>1 DEF StartAttempt, BeginAttempt
    <3>2. CASE MarkFailed(w)
      <4>1. JobOf(w) # j
        BY <1>2, <2>0, <3>2 DEF MarkFailed, At, SerialInv, Unfinished
      <4> QED
        BY <1>0, <2>0, <3>2, <4>1 DEF MarkFailed, SetStatus
    <3>3. CASE Persist(w)
      BY <1>0, <2>0, <3>3 DEF Persist, PersistEnvelope, dbVars
    <3>4. CASE UNCHANGED jobs
      BY <2>0, <3>4
    <3> QED
      BY <2>3, <3>1, <3>2, <3>3, <3>4 DEF WorkerStep, WorkerRuns, Handling, Receive, Take, ReadStatus,
         LookupDecision, Analyze, Raise, CountAttempts, LogFailure, Ack, Abandon, Crash, dbVars
  <2> QED
    BY <2>0, <2>1, <2>2, <2>3 DEF Next, vars, dbVars
<1> QED
  BY <1>1, <1>2

LEMMA StepSerialInv == JobExclusive /\ IInv /\ SerialInv /\ [Next]_vars => SerialInv'
BY SerialHandsKept, SerialAgreesKept DEF SerialInv, JobOf, Decided

(* As long as no two workers are at work on the same job, a decided job      *)
(* stays succeeded, through crashes, redeliveries and redrives, unless its   *)
(* upload was answered 502 (handle_message, mark_failed and                 *)
(* reset_job_for_redrive together).                                         *)
THEOREM ExclusiveWorkersAgree == Spec /\ []JobExclusive => []SerialWorkerAgrees
<1>1. SerialInv => SerialWorkerAgrees
  BY DEF SerialInv
<1> QED
  BY <1>1, InitSerialInv, StepSerialInv, Inductive, PTL DEF Spec

(* In particular with one worker process.                                  *)
THEOREM OneWorkerAgrees ==
  ASSUME OneWorker
  PROVE  Spec => []SerialWorkerAgrees
<1>1. JobExclusive
  BY DEF OneWorker, JobExclusive
<1> QED
  BY <1>1, ExclusiveWorkersAgree, PTL

(* Under the same condition persist_envelope does what its docstring says:   *)
(* the row of a job it has returned from is succeeded.  The run             *)
(* pipeline_persist shows that two workers on one job are enough to break    *)
(* it.                                                                      *)
THEOREM ExclusiveWorkersPersist == Spec /\ []JobExclusive => PersistMarksSuccess
<1> DEFINE Marks == \A w \in Worker :
                      At(w, "persist") /\ worker'[w].pc = "ack" =>
                        jobs'[JobOf(w)].status = "succeeded"
<1>1. IInv /\ SerialInv /\ [Next]_vars => [Marks]_vars
  <2> SUFFICES ASSUME IInv, SerialInv, [Next]_vars,
                      NEW w \in Worker, At(w, "persist"), worker'[w].pc = "ack"
               PROVE  jobs'[JobOf(w)].status = "succeeded"
    OBVIOUS
  <2>0. TypeInv
    BY IInvTypeInv
  <2>1. WorkerStep(w)
    BY <2>0, WorkerOwnStep DEF At
  <2>2. Persist(w)
    <3>1. CASE NextMessage(w) \/ Crash(w)
      BY <2>0, <3>1 DEF NextMessage, Crash, Polling, PollingWith, TypeInv, TypeOK, WorkerTypeOK
    <3>2. CASE Raise(w)
      BY <2>0, <3>2 DEF Raise, TypeInv, TypeOK, WorkerTypeOK
    <3> QED
      BY <2>1, <3>1, <3>2 DEF WorkerStep, WorkerRuns, Handling, Receive, Take, ReadStatus, At,
         LookupDecision, StartAttempt, Analyze, CountAttempts, MarkFailed, LogFailure, Ack, Abandon
  <2>3. ~Decided(JobOf(w)) /\ JobOf(w) \in Job
    BY DEF SerialInv, Undecided, At, IInv, InHand, JobOf
  <2> QED
    BY <2>0, <2>2, <2>3 DEF Persist, PersistEnvelope, Decided, TypeInv, TypeOK, DbTypeOK
<1> QED
  BY <1>1, InitSerialInv, StepSerialInv, Inductive, PTL DEF Spec, PersistMarksSuccess
=============================================================================
