------------------------- MODULE DeadLetterProofs --------------------------
(***************************************************************************)
(* SQS counts receives and PostgreSQL attempts.  Every attempt is paid for *)
(* with a receive; so, with no more receives than attempts, the status     *)
(* 'dead' means what the dead-letter queue means: the message of a job     *)
(* marked dead can be received no more, and no worker still begins with it.*)
(***************************************************************************)
EXTENDS JobPipelineProofs, FiniteSetTheorems

USE MaxReceivesAssumption, NoneAssumption, VerdictAssumption, NoVerdictAssumption,
    MaxAttemptsAssumption, RejectedAssumption, MaxBatchAssumption, MaxPullAssumption

Copies(j) == {m \in Msg : msg[m].place # "free" /\ msg[m].job = j}

(* Nobody can receive m from the main queue any more, or still begins with   *)
(* it.                                                                      *)
Exhausted(m) == Used(m) = MaxReceives /\ Holders(m) = {}

(* What makes AttemptsPaid inductive.  Copies and holders can be counted;   *)
Countable ==
  /\ \A j \in Job : IsFiniteSet(Copies(j))
  /\ \A m \in Msg : IsFiniteSet(Holders(m))

(* ... a job is not worked on before it is sent;                            *)
Fresh == \A j \in Job : ~Sent(j) => jobs[j].attempts = 0 /\ jobs[j].status # "dead"

(* ... nobody holds the message in hand a second time;                      *)
HeldOnce == \A w \in Worker : ~At(w, "poll") => worker[w].cur \notin worker[w].batch

PaidInv == Countable /\ Fresh /\ HeldOnce /\ AttemptsPaid

(* Who says 'dead', or is about to, has seen the receives used up.         *)
DeadIsExhausted ==
  /\ \A m \in Msg : msg[m].place # "free" /\ SentOnce(msg[m].job) =>
       (jobs[msg[m].job].status = "dead" => Exhausted(m))
  /\ \A w \in Worker :
       At(w, "mark") /\ worker[w].mark = "dead" /\ SentOnce(JobOf(w)) => Exhausted(worker[w].cur)

-----------------------------------------------------------------------------
(* The copies of a job.                                                    *)
LEMMA SentOnceIsCopies == \A j : SentOnce(j) <=> Cardinality(Copies(j)) = 1
BY DEF SentOnce, Copies

(* A step adds at most one copy, in a slot that was free.                  *)
LEMMA CopiesStep ==
  ASSUME TypeInv, [Next]_vars, NEW j \in Job
  PROVE  \/ Copies(j)' = Copies(j)
         \/ \E x \in Msg : msg[x].place = "free" /\ Copies(j)' = Copies(j) \cup {x}
<1>0. SqsTypeOK
  BY DEF TypeInv, TypeOK
<1>1. ASSUME \A m \in Msg : /\ msg'[m].job = msg[m].job
                            /\ msg'[m].place = "free" <=> msg[m].place = "free"
      PROVE  Copies(j)' = Copies(j)
  BY <1>1 DEF Copies
<1>2. ASSUME NEW i, Send(i)
      PROVE  \/ Copies(j)' = Copies(j)
             \/ \E x \in Msg : msg[x].place = "free" /\ Copies(j)' = Copies(j) \cup {x}
  <2>1. PICK x \in Msg : /\ msg[x].place = "free"
                         /\ msg'[x].job = i /\ msg'[x].place = "main"
                         /\ \A m \in Msg \ {x} : msg'[m] = msg[m]
    BY <1>0, <1>2, SendFills
  <2>2. CASE i = j
    BY <2>1, <2>2 DEF Copies
  <2>3. CASE i # j
    BY <2>1, <2>3 DEF Copies
  <2> QED
    BY <2>2, <2>3
<1>3. ASSUME NEW c \in Consumer, DeliveredTo(c) PROVE Copies(j)' = Copies(j)
  BY <1>0, <1>1, <1>3, DeliveryKeeps
<1>4. ASSUME NEW w \in Worker, Ack(w) PROVE Copies(j)' = Copies(j)
  BY <1>0, <1>1, <1>4, DeleteEmpties DEF Ack
<1>5. ASSUME NEW r \in Redriver, Remove(r) PROVE Copies(j)' = Copies(j)
  BY <1>0, <1>1, <1>5, DeleteEmpties DEF Remove
<1>6. ASSUME NEW x \in Msg, Expire(x) \/ MoveToDlq(x) PROVE Copies(j)' = Copies(j)
  BY <1>0, <1>1, <1>6, TimeKeeps
<1>7. CASE UNCHANGED msg
  BY <1>7 DEF Copies
<1> QED
  BY <1>2, <1>3, <1>4, <1>5, <1>6, <1>7, QueueEffect DEF Resend

LEMMA CopiesFinite ==
  ASSUME TypeInv, Countable, [Next]_vars, NEW j \in Job
  PROVE  IsFiniteSet(Copies(j)')
<1>1. IsFiniteSet(Copies(j))
  BY DEF Countable
<1>2. ASSUME NEW x PROVE IsFiniteSet(Copies(j) \cup {x})
  BY <1>1, FS_AddElement
<1> QED
  BY <1>1, <1>2, CopiesStep

LEMMA OnlyCopy ==
  ASSUME Countable, NEW j \in Job, SentOnce(j), NEW m \in Copies(j), NEW n \in Copies(j)
  PROVE  m = n
<1>1. IsFiniteSet(Copies(j)) /\ Cardinality(Copies(j)) = 1
  BY SentOnceIsCopies DEF Countable
<1>2. PICK x : Copies(j) = {x}
  BY <1>1, FS_Singleton
<1> QED
  BY <1>2

(* A job sent once after a step was sent once before it, or has just been    *)
(* sent for the first time.                                                 *)
LEMMA SentOnceStep ==
  ASSUME TypeInv, Countable, [Next]_vars, NEW j \in Job, SentOnce(j)'
  PROVE  SentOnce(j) \/ ~Sent(j)
<1>1. IsFiniteSet(Copies(j)) /\ Cardinality(Copies(j)') = 1
  BY SentOnceIsCopies DEF Countable, SentOnce, Copies
<1>2. CASE Copies(j)' = Copies(j)
  BY <1>1, <1>2, SentOnceIsCopies
<1>3. ASSUME NEW x \in Msg, msg[x].place = "free", Copies(j)' = Copies(j) \cup {x}
      PROVE  ~Sent(j)
  <2>1. x \notin Copies(j)
    BY <1>3 DEF Copies
  <2>2. Cardinality(Copies(j)) \in Nat /\ Cardinality(Copies(j) \cup {x}) = Cardinality(Copies(j)) + 1
    BY <1>1, <2>1, FS_AddElement, FS_CardinalityType
  <2>3. Cardinality(Copies(j)) = 0
    BY <1>1, <1>3, <2>2
  <2>4. Copies(j) = {}
    BY <1>1, <2>3, FS_EmptySet
  <2> QED
    BY <2>4 DEF Copies, Sent
<1> QED
  BY <1>2, <1>3, CopiesStep
-----------------------------------------------------------------------------
(* The receives of a message.                                              *)
LEMMA UsedType ==
  ASSUME TypeInv, NEW m \in Msg
  PROVE  Used(m) \in 0..MaxReceives
<1>1. msg[m] \in Slot
  BY DEF TypeInv, TypeOK, SqsTypeOK
<1> QED
  BY <1>1 DEF Used, Slot

LEMMA ReceiveCounts ==
  ASSUME TypeInv, NEW w \in Worker, Receive(w), NEW m \in Msg
  PROVE  \/ m \in worker'[w].batch /\ Used(m)' = Used(m) + 1
         \/ m \notin worker'[w].batch /\ Used(m)' = Used(m)
<1>1. PICK ms \in SUBSET Receivable("main") :
        Deliver("main", w, ms) /\ worker' = [worker EXCEPT ![w].batch = ms]
  BY DEF Receive
<1>2. worker'[w].batch = ms
  BY <1>1 DEF TypeInv, TypeOK, WorkerTypeOK, WorkerState
<1>3. msg[m] \in Slot
  BY DEF TypeInv, TypeOK, SqsTypeOK
<1>4. CASE m \in ms
  <2>1. msg[m].place = "main"
    BY <1>4 DEF Receivable
  <2>2. msg'[m] = [msg[m] EXCEPT !.visible = FALSE, !.receives = @ + 1, !.holder = w]
    BY <1>1, <1>4 DEF Deliver
  <2>3. msg'[m].place = "main" /\ msg'[m].receives = msg[m].receives + 1
    BY <1>3, <2>1, <2>2 DEF Slot
  <2> QED
    BY <1>2, <1>4, <2>1, <2>3 DEF Used
<1>5. CASE m \notin ms
  <2>1. msg'[m] = msg[m]
    BY <1>1, <1>5 DEF Deliver
  <2> QED
    BY <1>2, <1>5, <2>1 DEF Used
<1> QED
  BY <1>4, <1>5

LEMMA UsedGrows ==
  ASSUME TypeInv, [Next]_vars, NEW m \in Msg, msg[m].place # "free"
  PROVE  Used(m)' >= Used(m)
<1>0. SqsTypeOK /\ Used(m) \in Nat /\ Used(m) <= MaxReceives /\ msg[m] \in Slot
  BY UsedType DEF TypeInv, TypeOK, SqsTypeOK
<1>1. ASSUME msg'[m] = msg[m] PROVE Used(m)' >= Used(m)
  BY <1>0, <1>1 DEF Used
<1>2. ASSUME msg'[m].place # "main" PROVE Used(m)' >= Used(m)
  BY <1>0, <1>2 DEF Used
<1>3. ASSUME NEW j, Send(j) PROVE Used(m)' >= Used(m)
  BY <1>0, <1>1, <1>3, SendFills
<1>4. ASSUME NEW c \in Consumer, DeliveredTo(c) PROVE Used(m)' >= Used(m)
  <2>1. PICK q \in {"main", "dlq"} : \E ms \in SUBSET Receivable(q) : Deliver(q, c, ms)
    BY <1>4 DEF DeliveredTo
  <2>2. PICK ms \in SUBSET Receivable(q) : Deliver(q, c, ms)
    BY <2>1
  <2>3. CASE m \notin ms
    BY <1>1, <2>2, <2>3 DEF Deliver
  <2>4. CASE m \in ms
    <3>1. msg'[m].place = q
      BY <1>0, <1>4, <2>4, DeliveryKeeps DEF Receivable
    <3>2. msg'[m] = [msg[m] EXCEPT !.visible = FALSE,
                                   !.receives = IF q = "main" THEN @ + 1 ELSE @, !.holder = c]
      BY <2>2, <2>4 DEF Deliver
    <3>3. CASE q = "main"
      <4>1. msg[m].place = "main" /\ msg'[m].receives = msg[m].receives + 1
        BY <1>0, <2>4, <3>2, <3>3 DEF Receivable, Slot
      <4> QED
        BY <1>0, <3>1, <3>3, <4>1 DEF Used, Slot
    <3> QED
      BY <1>2, <3>1, <3>3
  <2> QED
    BY <2>3, <2>4
<1>5. ASSUME NEW q, NEW c, NEW x, Delete(q, c, x) PROVE Used(m)' >= Used(m)
  <2>1. CASE m # x \/ UNCHANGED msg
    BY <1>0, <1>1, <1>5, <2>1, DeleteEmpties
  <2>2. CASE msg' = [msg EXCEPT ![m] = Idle("gone", msg[m].job, FALSE)]
    BY <1>0, <1>2, <2>2 DEF Idle, SqsTypeOK
  <2> QED
    BY <1>5, <2>1, <2>2 DEF Delete
<1>6. ASSUME NEW x \in Msg, Expire(x) PROVE Used(m)' >= Used(m)
  <2>1. msg'[m].place = msg[m].place /\ msg'[m].receives = msg[m].receives
    BY <1>0, <1>6 DEF Expire, SqsTypeOK, Slot
  <2> QED
    BY <1>0, <2>1 DEF Used
<1>7. ASSUME NEW x \in Msg, MoveToDlq(x) PROVE Used(m)' >= Used(m)
  <2>1. CASE m = x
    BY <1>0, <1>2, <1>7, <2>1 DEF MoveToDlq, Idle, SqsTypeOK
  <2>2. CASE m # x
    BY <1>0, <1>1, <1>7, <2>2 DEF MoveToDlq, SqsTypeOK
  <2> QED
    BY <2>1, <2>2
<1> QED
  BY <1>1, <1>3, <1>4, <1>5, <1>6, <1>7, QueueEffect DEF Resend, Ack, Remove
-----------------------------------------------------------------------------
(* The holders of a message.  Only a receive gives a worker something to    *)
(* begin.                                                                   *)
LEMMA PendingStep ==
  ASSUME TypeInv, NEW w \in Worker, WorkerStep(w)
  PROVE  \/ Receive(w) /\ Pending(w)' = worker'[w].batch
         \/ Pending(w)' \subseteq Pending(w)
<1> USE DEF TypeInv, TypeOK, WorkerTypeOK, WorkerState
<1>1. CASE Receive(w)
  <2>1. worker'[w].pc = "poll"
    BY <1>1 DEF Receive, At
  <2> QED
    BY <1>1, <2>1 DEF Pending, Waiting
<1>2. CASE Take(w)
  <2>1. PICK m \in worker[w].batch :
          worker' = [worker EXCEPT ![w].pc = "status", ![w].cur = m, ![w].batch = @ \ {m}]
    BY <1>2 DEF Take
  <2>2. worker'[w].cur = m /\ worker'[w].batch = worker[w].batch \ {m}
    BY <2>1
  <2> QED
    BY <2>1, <2>2 DEF Pending
<1>3. ASSUME worker'[w].batch \subseteq worker[w].batch, worker'[w].pc \notin Waiting
      PROVE  Pending(w)' \subseteq Pending(w)
  BY <1>3 DEF Pending
<1>4. ASSUME NEW pc, Goto(w, pc), pc \in Waiting => worker[w].pc \in Waiting
      PROVE  Pending(w)' \subseteq Pending(w)
  <2>1. worker'[w].pc = pc /\ worker'[w].cur = worker[w].cur /\ worker'[w].batch = worker[w].batch
    BY <1>4 DEF Goto
  <2> QED
    BY <1>4, <2>1 DEF Pending
<1>5. CASE ReadStatus(w)
  BY <1>4, <1>5 DEF ReadStatus, At, Waiting
<1>6. CASE LookupDecision(w)
  BY <1>4, <1>6 DEF LookupDecision, At, Waiting
<1>7. CASE StartAttempt(w)
  BY <1>4, <1>7 DEF StartAttempt, At, Waiting
<1>8. CASE Analyze(w)
  <2>1. PICK pc \in {"count", "persist"}, v \in Verdict \cup {"none", "invalid", "error"} :
          worker' = [worker EXCEPT ![w] = [@ EXCEPT !.pc = pc, !.result = v]]
    BY <1>8 DEF Analyze
  <2>2. worker'[w].batch = worker[w].batch /\ worker'[w].pc = pc
    BY <2>1
  <2> QED
    BY <1>3, <2>2 DEF Waiting
<1>9. CASE Persist(w) \/ Raise(w)
  <2>1. PICK pc \in {"ack", "count"}, v \in Verdict \cup {"none", "invalid", "error"} :
          worker' = [worker EXCEPT ![w] = [@ EXCEPT !.pc = pc, !.result = v]]
    BY <1>9 DEF Persist, Raise
  <2>2. worker'[w].batch = worker[w].batch /\ worker'[w].pc = pc
    BY <2>1
  <2> QED
    BY <1>3, <2>2 DEF Waiting
<1>10. CASE CountAttempts(w)
  <2>1. worker'[w].batch = worker[w].batch /\ worker'[w].pc = "mark"
    BY <1>10 DEF CountAttempts
  <2> QED
    BY <1>3, <2>1 DEF Waiting
<1>11. CASE MarkFailed(w)
  <2>1. worker'[w].batch = worker[w].batch /\ worker'[w].pc = "log"
    BY <1>11 DEF MarkFailed
  <2> QED
    BY <1>3, <2>1 DEF Waiting
<1>12. CASE NextMessage(w) \/ Crash(w)
  <2>1. worker'[w].batch \subseteq worker[w].batch /\ worker'[w].pc = "poll"
    BY <1>12 DEF NextMessage, Crash, Polling, PollingWith
  <2> QED
    BY <1>3, <2>1 DEF Waiting
<1>13. CASE LogFailure(w)
  BY <1>4, <1>12, <1>13 DEF LogFailure, Waiting
<1> QED
  BY <1>1, <1>2, <1>5, <1>6, <1>7, <1>8, <1>9, <1>10, <1>11, <1>12, <1>13
  DEF WorkerStep, WorkerRuns, Handling, Ack, Abandon

LEMMA HoldersKept ==
  ASSUME TypeInv, [Next]_vars, NEW m \in Msg,
         \A w \in Worker : Receive(w) => m \notin worker'[w].batch
  PROVE  Holders(m)' \subseteq Holders(m)
<1> SUFFICES ASSUME NEW w \in Worker, m \in Pending(w)' PROVE m \in Pending(w)
  BY DEF Holders
<1>1. CASE WorkerStep(w)
  BY <1>1, PendingStep
<1>2. CASE worker'[w] = worker[w]
  BY <1>2 DEF Pending
<1> QED
  BY <1>1, <1>2, WorkerOwnStep

LEMMA HoldersReceive ==
  ASSUME TypeInv, NEW w \in Worker, Receive(w), NEW m \in Msg
  PROVE  Holders(m)' \subseteq Holders(m) \cup {w}
<1> SUFFICES ASSUME NEW v \in Worker \ {w}, m \in Pending(v)' PROVE m \in Pending(v)
  BY DEF Holders
<1>1. worker'[v] = worker[v]
  BY DEF Receive, TypeInv, TypeOK, WorkerTypeOK
<1> QED
  BY <1>1 DEF Pending

(* The attempt that begins leaves its worker no other with that message.    *)
LEMMA HoldersStart ==
  ASSUME TypeInv, HeldOnce, NEW w \in Worker, StartAttempt(w), NEW m \in Msg, worker[w].cur = m
  PROVE  w \in Holders(m) /\ Holders(m)' \subseteq Holders(m) \ {w}
<1>1. worker[w].pc = "start" /\ m \notin worker[w].batch
  BY DEF StartAttempt, At, HeldOnce
<1>2. worker' = [worker EXCEPT ![w].pc = "analyze"]
  BY DEF StartAttempt, Goto
<1>3. /\ worker'[w].pc = "analyze"
      /\ worker'[w].batch = worker[w].batch
      /\ \A v \in Worker \ {w} : worker'[v] = worker[v]
  BY <1>2 DEF TypeInv, TypeOK, WorkerTypeOK, WorkerState
<1>4. m \in Pending(w)
  BY <1>1 DEF Pending, Waiting
<1>5. m \notin Pending(w)'
  BY <1>1, <1>3 DEF Pending, Waiting
<1>6. ASSUME NEW v \in Worker \ {w}, m \in Pending(v)' PROVE m \in Pending(v)
  BY <1>3, <1>6 DEF Pending
<1> QED
  BY <1>4, <1>5, <1>6 DEF Holders

LEMMA DeliverTouches ==
  ASSUME TypeInv, NEW w \in Worker, Receive(w), NEW m \in worker'[w].batch
  PROVE  msg[m].place = "main"
<1>1. PICK ms \in SUBSET Receivable("main") : worker' = [worker EXCEPT ![w].batch = ms]
  BY DEF Receive
<1>2. worker'[w].batch = ms
  BY <1>1 DEF TypeInv, TypeOK, WorkerTypeOK, WorkerState
<1> QED
  BY <1>2 DEF Receivable

LEMMA FreeUnheld ==
  ASSUME TypeInv, InHand, NEW m \in Msg, msg[m].place = "free"
  PROVE  Holders(m) = {}
BY DEF Holders, Pending, Waiting, InHand, At

(* A message that is used up and held by nobody stays so.                  *)
LEMMA ExhaustedKept ==
  ASSUME TypeInv, TypeInv', [Next]_vars, NEW m \in Msg, msg[m].place # "free", Exhausted(m)
  PROVE  Exhausted(m)'
<1>1. Used(m)' \in 0..MaxReceives /\ Used(m) = MaxReceives /\ Used(m)' >= Used(m)
  <2>1. msg'[m] \in Slot
    BY DEF TypeInv, TypeOK, SqsTypeOK
  <2>2. Used(m)' \in 0..MaxReceives
    BY <2>1 DEF Used, Slot
  <2> QED
    BY <2>2, UsedGrows DEF Exhausted
<1>2. ASSUME NEW w \in Worker, Receive(w) PROVE m \notin worker'[w].batch
  BY <1>1, <1>2, ReceiveCounts
<1>3. Holders(m)' \subseteq {}
  BY <1>2, HoldersKept DEF Exhausted
<1> QED
  BY <1>1, <1>3 DEF Exhausted
-----------------------------------------------------------------------------
(* The row of a job: who counts an attempt, who writes 'dead', who writes   *)
(* 'processing'.                                                            *)
LEMMA RowStep ==
  ASSUME TypeInv, [Next]_vars, NEW j \in Job
  PROVE  \/ /\ jobs'[j].attempts <= jobs[j].attempts
            /\ jobs'[j].status = jobs[j].status \/ jobs'[j].status \notin {"dead", "processing"}
         \/ \E w \in Worker : /\ StartAttempt(w) /\ JobOf(w) = j
                              /\ jobs'[j].attempts <= jobs[j].attempts + 1
                              /\ jobs'[j].status = "processing"
         \/ \E w \in Worker : /\ MarkFailed(w) /\ JobOf(w) = j
                              /\ jobs'[j].attempts = jobs[j].attempts
                              /\ jobs'[j].status = worker[w].mark
<1> USE DEF TypeInv, TypeOK, DbTypeOK
<1>0. jobs[j].attempts \in Nat
  OBVIOUS
<1>1. CASE UNCHANGED jobs
  BY <1>0, <1>1
<1>2. ASSUME NEW i \in Job, ApiStepOf(i), ~UNCHANGED jobs
      PROVE  /\ jobs'[j].attempts = jobs[j].attempts
             /\ jobs'[j].status = jobs[j].status \/ jobs'[j].status \notin {"dead", "processing"}
  <2>1. PICK s \in {"queued", "failed"} : jobs' = [jobs EXCEPT ![i].status = s]
    BY <1>2 DEF ApiStepOf, Submit, SendOk, SendError, MarkUnsent, ApiCrash, InsertJob,
                SetStatus, dbVars
  <2> QED
    BY <2>1
<1>3. ASSUME NEW r \in Redriver, CliStep(r), ~UNCHANGED jobs
      PROVE  /\ jobs'[j].attempts <= jobs[j].attempts
             /\ jobs'[j].status = jobs[j].status \/ jobs'[j].status \notin {"dead", "processing"}
  <2>1. jobs' = [jobs EXCEPT ![CliJob(r)] = [status |-> "queued", attempts |-> 0]]
    BY <1>3 DEF CliStep, Pull, Plan, Decline, Reset, Resend, Remove, CliCrash,
                ResetForRedrive, dbVars
  <2> QED
    BY <1>0, <2>1
<1>4. ASSUME NEW w \in Worker, StartAttempt(w)
      PROVE  \/ UNCHANGED jobs[j]
             \/ /\ JobOf(w) = j
                /\ jobs'[j].attempts <= jobs[j].attempts + 1
                /\ jobs'[j].status = "processing"
  BY <1>0, <1>4 DEF StartAttempt, BeginAttempt, CountedOn
<1>5. ASSUME NEW w \in Worker, MarkFailed(w)
      PROVE  \/ UNCHANGED jobs[j]
             \/ /\ JobOf(w) = j
                /\ jobs'[j].attempts = jobs[j].attempts
                /\ jobs'[j].status = worker[w].mark
  BY <1>5 DEF MarkFailed, SetStatus
<1>6. ASSUME NEW w \in Worker, Persist(w)
      PROVE  /\ jobs'[j].attempts = jobs[j].attempts
             /\ jobs'[j].status = jobs[j].status \/ jobs'[j].status = "succeeded"
  BY <1>6 DEF Persist, PersistEnvelope, dbVars
<1>7. ASSUME NEW w \in Worker, WorkerStep(w)
      PROVE  UNCHANGED jobs \/ StartAttempt(w) \/ MarkFailed(w) \/ Persist(w)
  BY <1>7 DEF WorkerStep, WorkerRuns, Handling, Receive, Take, ReadStatus, LookupDecision, Analyze,
              Raise, CountAttempts, LogFailure, Ack, Abandon, Crash, dbVars
<1> HIDE DEF TypeInv
<1> QED
  BY <1>0, <1>1, <1>2, <1>3, <1>4, <1>5, <1>6, <1>7 DEF Next, vars, dbVars
-----------------------------------------------------------------------------
(* The parts of the invariant, one step further.  A job sent once is carried *)
(* by the message that carried it before the step, or by a new one.         *)
LEMMA CopyOrigin ==
  ASSUME TypeInv, Countable, Countable', [Next]_vars, NEW m \in Msg, NEW j \in Job,
         m \in Copies(j)', SentOnce(j)'
  PROVE  \/ SentOnce(j) /\ m \in Copies(j)
         \/ ~Sent(j) /\ msg[m].place = "free"
<1>1. CASE SentOnce(j)
  <2>1. IsFiniteSet(Copies(j)) /\ Cardinality(Copies(j)) = 1
    BY <1>1, SentOnceIsCopies DEF Countable
  <2>2. PICK x : Copies(j) = {x}
    BY <2>1, FS_Singleton
  <2>3. IsFiniteSet(Copies(j)') /\ Cardinality(Copies(j)') = 1
    BY DEF Countable, SentOnce, Copies
  <2>4. PICK y : Copies(j)' = {y}
    BY <2>3, FS_Singleton
  <2>5. x \in Copies(j)'
    BY <2>2, SlotStable DEF Copies
  <2> QED
    BY <1>1, <2>2, <2>4, <2>5
<1>2. CASE ~SentOnce(j)
  <2>1. ~Sent(j)
    BY <1>2, SentOnceStep
  <2>2. CASE msg[m].place # "free"
    BY <2>1, <2>2, SlotStable DEF Copies, Sent
  <2> QED
    BY <2>1, <2>2
<1> QED
  BY <1>1, <1>2

LEMMA CountableKept ==
  ASSUME TypeInv, Countable, [Next]_vars
  PROVE  Countable'
<1>1. ASSUME NEW m \in Msg PROVE IsFiniteSet(Holders(m)')
  <2>0. IsFiniteSet(Holders(m))
    BY DEF Countable
  <2>1. CASE \A w \in Worker : Receive(w) => m \notin worker'[w].batch
    BY <2>0, <2>1, HoldersKept, FS_Subset
  <2>2. ASSUME NEW w \in Worker, Receive(w) PROVE IsFiniteSet(Holders(m)')
    <3>1. IsFiniteSet(Holders(m) \cup {w})
      BY <2>0, FS_AddElement
    <3> QED
      BY <2>2, <3>1, HoldersReceive, FS_Subset
  <2> QED
    BY <2>1, <2>2
<1> QED
  BY <1>1, CopiesFinite DEF Countable

(* A worker has in hand a message of a job that was sent.                  *)
LEMMA HandIsSent ==
  ASSUME InHand, NEW w \in Worker, ~At(w, "poll")
  PROVE  /\ worker[w].cur \in Copies(JobOf(w))
         /\ worker[w].cur \in Msg /\ msg[worker[w].cur].place # "free"
         /\ JobOf(w) \in Job /\ Sent(JobOf(w))
BY DEF InHand, Copies, JobOf, Sent

LEMMA FreshKept ==
  ASSUME TypeInv, InHand, Fresh, [Next]_vars
  PROVE  Fresh'
<1> SUFFICES ASSUME NEW j \in Job, ~Sent(j)'
             PROVE  jobs'[j].attempts = 0 /\ jobs'[j].status # "dead"
  BY DEF Fresh
<1>1. ~Sent(j)
  BY SlotStable DEF Sent
<1>2. jobs[j].attempts = 0 /\ jobs[j].status # "dead"
  BY <1>1 DEF Fresh
<1>3. ASSUME NEW w \in Worker, StartAttempt(w) \/ MarkFailed(w) PROVE JobOf(w) # j
  BY <1>1, <1>3, HandIsSent DEF StartAttempt, MarkFailed, At
<1>4. jobs'[j].attempts <= 0 /\ jobs'[j].status # "dead"
  BY <1>2, <1>3, RowStep
<1>5. jobs'[j].attempts \in Nat
  <2>1. TypeInv'
    BY StepTypeInv
  <2> QED
    BY <2>1 DEF TypeInv, TypeOK, DbTypeOK
<1> QED
  BY <1>4, <1>5

LEMMA HeldOnceKept ==
  ASSUME TypeInv, HeldOnce, [Next]_vars
  PROVE  HeldOnce'
<1> SUFFICES ASSUME NEW w \in Worker, worker'[w].pc # "poll"
             PROVE  worker'[w].cur \notin worker'[w].batch
  BY DEF HeldOnce, At
<1>1. CASE worker'[w] = worker[w]
  BY <1>1 DEF HeldOnce, At
<1>2. CASE WorkerStep(w)
  BY <1>2, WorkerHands DEF HeldOnce, At
<1> QED
  BY <1>1, <1>2, WorkerOwnStep

LEMMA PaidKept ==
  ASSUME IInv, IInv', PaidInv, Countable', [Next]_vars
  PROVE  AttemptsPaid'
<1>0. TypeInv /\ TypeInv' /\ InHand /\ InHand' /\ Countable /\ HeldOnce
  <2>1. TypeInv /\ TypeInv'
    BY IInvTypeInv, StepTypeInv
  <2> QED
    BY <2>1 DEF IInv, PaidInv
<1> SUFFICES ASSUME NEW m \in Msg, msg'[m].place # "free", SentOnce(msg[m].job)'
             PROVE  jobs'[msg'[m].job].attempts + Cardinality(Holders(m)') <= Used(m)'
  BY DEF AttemptsPaid
<1>1. PICK j \in Job : j = msg'[m].job
  BY <1>0 DEF InHand
<1>j. m \in Copies(j)' /\ SentOnce(j)'
  BY <1>1 DEF Copies, SentOnce
<1>2. /\ jobs[j].attempts \in Nat /\ jobs'[j].attempts \in Nat
      /\ Used(m) \in Nat /\ Used(m)' \in Nat
  <2>1. msg[m] \in Slot /\ msg'[m] \in Slot
    BY <1>0 DEF TypeInv, TypeOK, SqsTypeOK
  <2>2. Used(m) \in Nat /\ Used(m)' \in Nat
    BY <2>1 DEF Used, Slot
  <2> QED
    BY <1>0, <1>1, <2>2 DEF TypeInv, TypeOK, DbTypeOK
<1>3. /\ IsFiniteSet(Holders(m)) /\ Cardinality(Holders(m)) \in Nat
      /\ IsFiniteSet(Holders(m)') /\ Cardinality(Holders(m)') \in Nat
  <2>1. IsFiniteSet(Holders(m)) /\ IsFiniteSet(Holders(m)')
    BY <1>0 DEF Countable
  <2> QED
    BY <2>1, FS_CardinalityType
<1> SUFFICES jobs'[j].attempts + Cardinality(Holders(m)') <= Used(m)'
  BY <1>1
<1>4. CASE ~Sent(j) /\ msg[m].place = "free"
  <2>1. jobs'[j].attempts = 0
    <3>1. jobs[j].attempts = 0
      BY <1>1, <1>4 DEF PaidInv, Fresh
    <3>2. ASSUME NEW w \in Worker, StartAttempt(w) PROVE JobOf(w) # j
      BY <1>0, <1>4, <3>2, HandIsSent DEF StartAttempt, At
    <3> QED
      BY <1>0, <1>1, <1>2, <3>1, <3>2, RowStep
  <2>2. Holders(m)' = {}
    <3>1. ASSUME NEW w \in Worker, Receive(w) PROVE m \notin worker'[w].batch
      BY <1>0, <1>4, <3>1, DeliverTouches
    <3> QED
      BY <1>0, <1>4, <3>1, HoldersKept, FreeUnheld
  <2> QED
    BY <1>2, <2>1, <2>2, FS_EmptySet
<1>5. CASE SentOnce(j) /\ m \in Copies(j)
  <2>0. /\ msg[m].place # "free" /\ msg[m].job = j
        /\ jobs[j].attempts + Cardinality(Holders(m)) <= Used(m)
        /\ Used(m)' >= Used(m)
    BY <1>0, <1>5, UsedGrows DEF PaidInv, AttemptsPaid, Copies
  <2>1. ASSUME NEW w \in Worker, Receive(w), m \in worker'[w].batch
        PROVE  jobs'[j].attempts + Cardinality(Holders(m)') <= Used(m)'
    <3>1. Used(m)' = Used(m) + 1
      BY <1>0, <2>1, ReceiveCounts
    <3>2. jobs' = jobs
      BY <2>1 DEF Receive, dbVars
    <3>3. /\ IsFiniteSet(Holders(m) \cup {w})
          /\ Cardinality(Holders(m) \cup {w}) <= Cardinality(Holders(m)) + 1
          /\ Cardinality(Holders(m) \cup {w}) \in Nat
      <4>1. \/ Cardinality(Holders(m) \cup {w}) = Cardinality(Holders(m))
            \/ Cardinality(Holders(m) \cup {w}) = Cardinality(Holders(m)) + 1
        BY <1>3, FS_AddElement
      <4>2. IsFiniteSet(Holders(m) \cup {w})
        BY <1>3, FS_AddElement
      <4> QED
        BY <1>3, <4>1, <4>2
    <3>4. Cardinality(Holders(m)') <= Cardinality(Holders(m) \cup {w})
      BY <1>0, <2>1, <3>3, HoldersReceive, FS_Subset
    <3> QED
      BY <1>2, <1>3, <2>0, <3>1, <3>2, <3>3, <3>4
  <2>2. CASE \A w \in Worker : Receive(w) => m \notin worker'[w].batch
    <3>1. Cardinality(Holders(m)') <= Cardinality(Holders(m))
      BY <1>0, <1>3, <2>2, HoldersKept, FS_Subset
    <3>2. CASE jobs'[j].attempts <= jobs[j].attempts
      BY <1>2, <1>3, <2>0, <3>1, <3>2
    <3>3. ASSUME NEW w \in Worker, StartAttempt(w), JobOf(w) = j,
                 jobs'[j].attempts <= jobs[j].attempts + 1
          PROVE  jobs'[j].attempts + Cardinality(Holders(m)') <= Used(m)'
      <4>1. worker[w].cur = m
        BY <1>0, <1>1, <1>5, <3>3, HandIsSent, OnlyCopy DEF StartAttempt, At
      <4>2. w \in Holders(m) /\ Holders(m)' \subseteq Holders(m) \ {w}
        BY <1>0, <3>3, <4>1, HoldersStart
      <4>3. /\ IsFiniteSet(Holders(m) \ {w})
            /\ Cardinality(Holders(m) \ {w}) = Cardinality(Holders(m)) - 1
        BY <1>3, <4>2, FS_RemoveElement
      <4>4. Cardinality(Holders(m)') <= Cardinality(Holders(m)) - 1
        BY <4>2, <4>3, FS_Subset
      <4> QED
        BY <1>2, <1>3, <2>0, <3>3, <4>4
    <3> QED
      BY <1>0, <1>1, <1>2, <3>2, <3>3, RowStep
  <2> QED
    BY <2>1, <2>2
<1> QED
  BY <1>0, <1>j, <1>4, <1>5, CopyOrigin

(* A worker comes to write a status by having read the row.                *)
LEMMA MarkPath ==
  ASSUME TypeInv, NEW w \in Worker, WorkerStep(w), worker'[w].pc = "mark"
  PROVE  CountAttempts(w)
<1> USE DEF TypeInv, TypeOK, WorkerTypeOK, WorkerState
<1>1. ASSUME Receive(w) PROVE FALSE
  BY <1>1 DEF Receive, At
<1>2. ASSUME Take(w) PROVE FALSE
  BY <1>2 DEF Take
<1>3. ASSUME NextMessage(w) \/ Crash(w) PROVE FALSE
  BY <1>3 DEF NextMessage, Crash, Polling, PollingWith
<1>4. ASSUME NEW pc \in {"ack", "lookup", "start", "analyze"}, Goto(w, pc) PROVE FALSE
  BY <1>4 DEF Goto
<1>5. ASSUME Analyze(w) \/ Persist(w) \/ Raise(w) PROVE FALSE
  <2>1. PICK pc \in {"ack", "count", "persist"}, v \in Verdict \cup {"none", "invalid", "error"} :
          worker' = [worker EXCEPT ![w] = [@ EXCEPT !.pc = pc, !.result = v]]
    BY <1>5 DEF Analyze, Persist, Raise
  <2> QED
    BY <2>1
<1>6. ASSUME MarkFailed(w) PROVE FALSE
  BY <1>6 DEF MarkFailed
<1>7. ASSUME ReadStatus(w) \/ LookupDecision(w) \/ StartAttempt(w) PROVE FALSE
  BY <1>4, <1>7 DEF ReadStatus, LookupDecision, StartAttempt
<1>8. ASSUME LogFailure(w) PROVE FALSE
  BY <1>3, <1>4, <1>8 DEF LogFailure
<1> QED
  BY <1>1, <1>2, <1>3, <1>5, <1>6, <1>7, <1>8
  DEF WorkerStep, WorkerRuns, Handling, Ack, Abandon

(* The last attempt the row can count is the last receive the queue grants. *)
LEMMA DeadIsExhaustedKept ==
  ASSUME MaxReceives <= MaxAttempts,
         IInv, IInv', PaidInv, Countable', DeadIsExhausted, [Next]_vars
  PROVE  DeadIsExhausted'
<1>0. TypeInv /\ TypeInv' /\ InHand /\ InHand' /\ Countable
  <2>1. TypeInv /\ TypeInv'
    BY IInvTypeInv, StepTypeInv
  <2> QED
    BY <2>1 DEF IInv, PaidInv
<1>1. ASSUME NEW m \in Msg, msg'[m].place # "free", SentOnce(msg[m].job)',
             jobs'[msg'[m].job].status = "dead"
      PROVE  Exhausted(m)'
  <2>1. PICK j \in Job : j = msg'[m].job
    BY <1>0, <1>1 DEF InHand
  <2>2. m \in Copies(j)' /\ SentOnce(j)' /\ jobs'[j].status = "dead"
    BY <1>1, <2>1 DEF Copies, SentOnce
  <2>3. \/ jobs[j].status = "dead"
        \/ \E w \in Worker : MarkFailed(w) /\ JobOf(w) = j /\ worker[w].mark = "dead"
    BY <1>0, <2>2, RowStep
  <2>4. SentOnce(j) /\ m \in Copies(j)
    <3>1. Sent(j)
      BY <1>0, <2>3, HandIsSent DEF PaidInv, Fresh, MarkFailed, At
    <3> QED
      BY <1>0, <2>2, <3>1, CopyOrigin
  <2>5. Exhausted(m)
    <3>1. CASE jobs[j].status = "dead"
      BY <2>4, <3>1 DEF DeadIsExhausted, Copies
    <3>2. ASSUME NEW w \in Worker, MarkFailed(w), JobOf(w) = j, worker[w].mark = "dead"
          PROVE  Exhausted(m)
      <4>1. worker[w].cur = m
        BY <1>0, <2>4, <3>2, HandIsSent, OnlyCopy DEF MarkFailed, At
      <4> QED
        BY <2>4, <3>2, <4>1 DEF DeadIsExhausted, MarkFailed
    <3> QED
      BY <2>3, <3>1, <3>2
  <2> QED
    BY <1>0, <2>4, <2>5, ExhaustedKept DEF Copies
<1>2. ASSUME NEW w \in Worker, worker'[w].pc = "mark", worker'[w].mark = "dead", SentOnce(JobOf(w))'
      PROVE  Exhausted(worker[w].cur)'
  <2>1. /\ worker'[w].cur = worker[w].cur
        /\ \/ worker[w].pc = "mark" /\ worker[w].mark = "dead"
           \/ worker[w].pc = "count" /\ jobs[JobOf(w)].attempts >= MaxAttempts
    <3>1. CASE WorkerStep(w)
      <4>1. CountAttempts(w)
        BY <1>0, <1>2, <3>1, MarkPath
      <4>2. /\ worker[w].pc = "count" /\ worker'[w].cur = worker[w].cur
            /\ worker'[w].mark = FailureStatus(jobs[JobOf(w)].attempts)
        BY <1>0, <4>1 DEF CountAttempts, At, TypeInv, TypeOK, WorkerTypeOK, WorkerState
      <4> QED
        BY <1>2, <4>2 DEF FailureStatus
    <3>2. CASE worker'[w] = worker[w]
      BY <1>2, <3>2
    <3> QED
      BY <1>0, <3>1, <3>2, WorkerOwnStep
  <2>2. PICK m \in Msg : m = worker[w].cur /\ msg[m].place # "free"
    BY <1>0, <2>1, HandIsSent DEF At
  <2>3. PICK j \in Job : j = JobOf(w) /\ m \in Copies(j) /\ Sent(j)
    BY <1>0, <2>1, <2>2, HandIsSent DEF At
  <2>4. msg[m].job = j /\ msg'[m].job = j /\ msg'[m].place # "free"
    BY <1>0, <2>2, <2>3, SlotStable DEF Copies
  <2>5. m \in Copies(j)' /\ SentOnce(j)'
    BY <1>2, <2>1, <2>2, <2>4 DEF Copies, JobOf, SentOnce
  <2>6. SentOnce(j)
    BY <1>0, <2>3, <2>5, CopyOrigin
  <2>7. Exhausted(m)
    <3>1. CASE worker[w].pc = "mark" /\ worker[w].mark = "dead"
      BY <2>2, <2>3, <2>6, <3>1 DEF DeadIsExhausted, At
    <3>2. CASE jobs[j].attempts >= MaxAttempts
      <4>1. jobs[j].attempts + Cardinality(Holders(m)) <= Used(m)
        BY <2>2, <2>4, <2>6 DEF PaidInv, AttemptsPaid
      <4>2. IsFiniteSet(Holders(m)) /\ Cardinality(Holders(m)) \in Nat
        BY <1>0, FS_CardinalityType DEF Countable
      <4>3. Used(m) \in 0..MaxReceives /\ jobs[j].attempts \in Nat
        BY <1>0, UsedType DEF TypeInv, TypeOK, DbTypeOK
      <4>4. Cardinality(Holders(m)) = 0 /\ Used(m) = MaxReceives
        BY <3>2, <4>1, <4>2, <4>3
      <4>5. Holders(m) = {}
        BY <4>2, <4>4, FS_EmptySet
      <4> QED
        BY <4>4, <4>5 DEF Exhausted
    <3> QED
      BY <2>1, <2>3, <3>1, <3>2
  <2>8. Exhausted(m)'
    BY <1>0, <2>2, <2>7, ExhaustedKept
  <2> QED
    BY <2>1, <2>2, <2>8 DEF Exhausted, Used, Holders, Pending
<1> QED
  BY <1>1, <1>2 DEF DeadIsExhausted, At

LEMMA InitPaidInv == Init => PaidInv /\ DeadIsExhausted
<1> SUFFICES ASSUME Init PROVE PaidInv /\ DeadIsExhausted
  OBVIOUS
<1>1. \A m \in Msg : msg[m].place = "free"
  BY DEF Init, SqsInit, Unused, Idle
<1>2. \A w \in Worker : worker[w].pc = "poll" /\ worker[w].batch = {}
  BY DEF Init, WorkerInit, Polling, PollingWith
<1>3. \A j \in Job : Copies(j) = {}
  BY <1>1 DEF Copies
<1>4. \A m \in Msg : Holders(m) = {}
  BY <1>2 DEF Holders, Pending, Waiting
<1>5. Countable
  BY <1>3, <1>4, FS_EmptySet DEF Countable
<1>6. Fresh
  BY DEF Init, DbInit, Fresh
<1> QED
  BY <1>1, <1>2, <1>5, <1>6 DEF PaidInv, HeldOnce, AttemptsPaid, DeadIsExhausted, At

LEMMA StepPaidInv == IInv /\ PaidInv /\ [Next]_vars => PaidInv'
<1> SUFFICES ASSUME IInv, PaidInv, [Next]_vars PROVE PaidInv'
  OBVIOUS
<1>1. IInv' /\ TypeInv /\ InHand
  BY StepIInv, IInvTypeInv DEF IInv
<1>2. Countable'
  BY <1>1, CountableKept DEF PaidInv
<1>3. Fresh' /\ HeldOnce'
  BY <1>1, FreshKept, HeldOnceKept DEF PaidInv
<1>4. AttemptsPaid'
  BY <1>1, <1>2, PaidKept
<1> QED
  BY <1>2, <1>3, <1>4 DEF PaidInv

LEMMA StepDeadInv ==
  ASSUME MaxReceives <= MaxAttempts
  PROVE  IInv /\ PaidInv /\ DeadIsExhausted /\ [Next]_vars => DeadIsExhausted'
<1> SUFFICES ASSUME IInv, PaidInv, DeadIsExhausted, [Next]_vars PROVE DeadIsExhausted'
  OBVIOUS
<1>1. IInv' /\ PaidInv'
  BY StepIInv, StepPaidInv
<1> QED
  BY <1>1, DeadIsExhaustedKept DEF PaidInv

(* A job sent once is worked on no more often than its message is received   *)
(* (process_job's attempts against maxReceiveCount), whatever crashes, raises *)
(* or takes longer than the visibility timeout.                             *)
THEOREM AttemptsArePaid == Spec => []AttemptsPaid
<1>1. PaidInv => AttemptsPaid
  BY DEF PaidInv
<1> QED
  BY <1>1, InitPaidInv, StepPaidInv, Inductive, PTL DEF Spec

(* With as many attempts as receives, a job marked dead is not worked on     *)
(* again before somebody sends it again (handle_message and mark_failed      *)
(* against the redrive policy of infra/localstack-init.sh): the worker that  *)
(* begins an attempt holds a message, and a dead job's only message has no   *)
(* holder.                                                                  *)
THEOREM DeadJobsStayDead ==
  ASSUME MaxReceives <= MaxAttempts
  PROVE  Spec => DeadIsFinal
<1> DEFINE Final == \A j \in Job :
                      jobs[j].status = "dead" /\ SentOnce(j) => jobs'[j].status # "processing"
<1>1. IInv /\ PaidInv /\ DeadIsExhausted /\ [Next]_vars => [Final]_vars
  <2> SUFFICES ASSUME IInv, PaidInv, DeadIsExhausted, [Next]_vars,
                      NEW j \in Job, jobs[j].status = "dead", SentOnce(j),
                      jobs'[j].status = "processing"
               PROVE  FALSE
    OBVIOUS
  <2>0. TypeInv /\ InHand
    BY IInvTypeInv DEF IInv
  <2>1. PICK w \in Worker : StartAttempt(w) /\ JobOf(w) = j
    <3>1. ASSUME NEW w \in Worker, worker[w].mark = "processing" PROVE FALSE
      BY <2>0, <3>1 DEF TypeInv, TypeOK, WorkerTypeOK, WorkerState
    <3> QED
      BY <2>0, <3>1, RowStep
  <2>2. /\ worker[w].cur \in Msg /\ msg[worker[w].cur].place # "free"
        /\ msg[worker[w].cur].job = j
    BY <2>0, <2>1, HandIsSent DEF StartAttempt, At, JobOf
  <2>3. Exhausted(worker[w].cur)
    BY <2>2 DEF DeadIsExhausted
  <2>4. w \in Holders(worker[w].cur)
    BY <2>0, <2>1, <2>2, HoldersStart DEF PaidInv
  <2> QED
    BY <2>3, <2>4 DEF Exhausted
<1> QED
  BY <1>1, InitPaidInv, StepPaidInv, StepDeadInv, Inductive, PTL DEF Spec, DeadIsFinal
=============================================================================
