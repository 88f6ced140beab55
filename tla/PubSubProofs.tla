---------------------------- MODULE PubSubProofs ----------------------------
(***************************************************************************)
(* Theorems of PubSubPipeline, for any sets of jobs, messages and workers   *)
(* and any limits.                                                          *)
(***************************************************************************)
EXTENDS PubSubPipeline, TLAPS

USE NoneAssumption, VerdictAssumption, NoVerdictAssumption, MaxAttemptsAssumption,
    RejectedAssumption, MaxBatchAssumption

LEMMA InitIInv == Init => IInv
<1> SUFFICES ASSUME Init PROVE IInv
  OBVIOUS
<1>1. TypeOK
  BY DEF Init, PubSubInit, DbInit, ApiInit, WorkerInit, TypeOK, PubSubTypeOK, DbTypeOK, ApiTypeOK,
         WorkerTypeOK, Slot, Outcome, Unsettled, Status, ApiStep, WorkerState, WorkerPc,
         Polling, PollingWith
<1>2. SucceededIsDecided
  BY DEF Init, DbInit, SucceededIsDecided
<1>3. InHand /\ AckJustified /\ GoneIsFinished
  BY DEF Init, PubSubInit, WorkerInit, Unsettled, Polling, PollingWith, InHand, AckJustified,
         GoneIsFinished, At
<1> QED
  BY <1>1, <1>2, <1>3 DEF IInv

(* What the handler does to its own state and to the rows, by the kind of   *)
(* step: it takes a message, moves on with it, writes down what came of it, *)
(* or drops it.                                                             *)
LEMMA PersistType ==
  ASSUME DbTypeOK, NEW j, NEW v \in Verdict, PersistEnvelope(j, v)
  PROVE  DbTypeOK'
<1>1. CASE UNCHANGED dbVars
  BY <1>1 DEF DbTypeOK, dbVars
<1>2. CASE /\ decision' = [decision EXCEPT ![j] = v]
           /\ jobs' = [jobs EXCEPT ![j].status = "succeeded"]
           /\ review' = [review EXCEPT ![j] = @ \/ v \in ReviewVerdict]
  <2>1. jobs' \in [Job -> [status : Status, attempts : 0..MaxAttempts]]
    BY <1>2 DEF DbTypeOK, Status
  <2>2. decision' \in [Job -> Verdict \cup {"none"}]
    BY <1>2 DEF DbTypeOK
  <2>3. review' \in [Job -> BOOLEAN]
    BY <1>2 DEF DbTypeOK
  <2> QED
    BY <2>1, <2>2, <2>3 DEF DbTypeOK
<1> QED
  BY <1>1, <1>2 DEF PersistEnvelope

LEMMA AttemptType ==
  ASSUME DbTypeOK, NEW j, BeginAttempt(j)
  PROVE  DbTypeOK'
<1>1. \A i \in Job : CountedOn(jobs[i].attempts) \in 0..MaxAttempts
  BY DEF DbTypeOK, CountedOn
<1>2. \A i \in Job : [status |-> "processing", attempts |-> CountedOn(jobs[i].attempts)]
                     \in [status : Status, attempts : 0..MaxAttempts]
  BY <1>1 DEF Status
<1> QED
  BY <1>2 DEF BeginAttempt, DbTypeOK

LEMMA SetStatusType ==
  ASSUME DbTypeOK, NEW j, NEW s \in Status, SetStatus(j, s)
  PROVE  DbTypeOK'
BY DEF SetStatus, DbTypeOK

(* Slots keep their job once used, and decisions stay.                     *)
Grows ==
  /\ \A m \in Msg : msg[m].place # "free" => msg'[m].place # "free" /\ msg'[m].job = msg[m].job
  /\ \A j \in Job : Decided(j) => Decided(j)'

LEMMA PublishGrows ==
  ASSUME TypeOK, NEW j, Send(j)
  PROVE  \A m \in Msg : /\ msg[m].place # "free" => msg'[m] = msg[m]
                        /\ \/ msg'[m] = msg[m]
                           \/ msg'[m].place = "main" /\ msg'[m].job = j
<1>1. PICK x \in Msg :
        /\ msg[x].place = "free"
        /\ msg' = [msg EXCEPT ![x] = [@ EXCEPT !.place = "main", !.job = j, !.visible = TRUE]]
  BY DEF Send
<1>2. msg[x] \in Slot
  BY DEF TypeOK, PubSubTypeOK
<1>3. msg'[x].place = "main" /\ msg'[x].job = j
  <2>1. msg'[x] = [msg[x] EXCEPT !.place = "main", !.job = j, !.visible = TRUE]
    BY <1>1 DEF TypeOK, PubSubTypeOK
  <2> QED
    BY <1>2, <2>1 DEF Slot
<1>4. \A m \in Msg : m # x => msg'[m] = msg[m]
  BY <1>1 DEF TypeOK, PubSubTypeOK
<1> QED
  BY <1>1, <1>3, <1>4

LEMMA PublishType ==
  ASSUME PubSubTypeOK, NEW j \in Job, Send(j)
  PROVE  msg' \in [Msg -> Slot]
<1>1. PICK m \in Msg : msg' = [msg EXCEPT ![m] = [@ EXCEPT !.place = "main", !.job = j, !.visible = TRUE]]
  BY DEF Send
<1>2. [msg[m] EXCEPT !.place = "main", !.job = j, !.visible = TRUE] \in Slot
  BY DEF PubSubTypeOK, Slot
<1> QED
  BY <1>1, <1>2 DEF PubSubTypeOK

(* The steps of a worker's loop that change what the subscription stores    *)
(* only hide a message, show it again, or remove what it acknowledges.      *)
LEMMA LoopMessages ==
  ASSUME PubSubTypeOK, NEW w \in Worker, LoopStep(w)
  PROVE  /\ msg' \in [Msg -> Slot]
         /\ \A m \in Msg : /\ msg'[m].job = msg[m].job
                           /\ \/ msg'[m].place = msg[m].place
                              \/ msg'[m].place = "gone" /\ m \in settled[w].ack
<1> USE DEF PubSubTypeOK
<1>1. CASE Pull(w)
  <2>1. PICK ms : msg' = [m \in Msg |-> [msg[m] EXCEPT !.visible = @ /\ m \notin ms]]
    BY <1>1 DEF Pull
  <2>2. ASSUME NEW m \in Msg
        PROVE  /\ msg'[m] \in Slot
               /\ msg'[m].job = msg[m].job /\ msg'[m].place = msg[m].place
    <3>1. (msg[m].visible /\ m \notin ms) \in BOOLEAN
      OBVIOUS
    <3> QED
      BY <2>1, <3>1 DEF Slot
  <2> QED
    BY <2>1, <2>2
<1>2. CASE Acknowledge(w)
  <2>1. PICK done \in SUBSET settled[w].ack :
          msg' = [m \in Msg |-> IF m \in done
                                THEN [msg[m] EXCEPT !.place = "gone", !.visible = FALSE]
                                ELSE msg[m]]
    BY <1>2 DEF Acknowledge
  <2> QED
    BY <2>1 DEF Slot
<1>3. CASE ReturnNacks(w)
  <2>1. PICK back :
          msg' = [m \in Msg |-> IF m \in back
                                THEN [msg[m] EXCEPT !.visible = msg[m].place = "main"]
                                ELSE msg[m]]
    BY <1>3 DEF ReturnNacks
  <2>2. ASSUME NEW m \in Msg
        PROVE  /\ msg'[m] \in Slot
               /\ msg'[m].job = msg[m].job /\ msg'[m].place = msg[m].place
    <3>1. (msg[m].place = "main") \in BOOLEAN
      OBVIOUS
    <3> QED
      BY <2>1, <3>1 DEF Slot
  <2> QED
    BY <2>1, <2>2
<1>4. CASE UNCHANGED msg
  BY <1>4
<1> QED
  BY <1>1, <1>2, <1>3, <1>4
  DEF LoopStep, LoopRuns, Handling, Take, ReadStatus, LookupDecision, StartAttempt, Analyze, Persist,
      Raise, CountAttempts, MarkFailed, NoteAck, NoteFailure, LogFailure, Escape, Die

(* A step of w that puts its record at s touches no other worker.          *)
LEMMA RecordSet ==
  ASSUME WorkerTypeOK, NEW w \in Worker, NEW s \in WorkerState,
         worker' = [worker EXCEPT ![w] = s]
  PROVE  WorkerTypeOK' /\ worker'[w] = s
BY DEF WorkerTypeOK

(* The rows and the worker's record stay well typed, and what a step has    *)
(* put in hand is justified by what the worker has just read.               *)
WorkerSound(w) ==
  /\ \A m \in worker[w].batch \cup settled[w].ack \cup settled[w].nack : msg[m].place # "free"
  /\ ~At(w, "poll") => worker[w].cur \in Msg /\ msg[worker[w].cur].place # "free"
  /\ At(w, "persist") => worker[w].result \in Verdict
  /\ worker[w].result = "invalid" => ~At(w, "poll") /\ JobOf(w) \in Rejected
  /\ At(w, "ack") => Finished(JobOf(w))
  /\ \A m \in settled[w].ack : Finished(msg[m].job)

LEMMA SoundIsInv ==
  (InHand /\ AckJustified) <=>
     /\ \A m \in Msg : msg[m].place # "free" => msg[m].job \in Job
     /\ \A w \in Worker : WorkerSound(w)
BY DEF InHand, AckJustified, WorkerSound

(* Nobody else's step takes a worker's justification away.                 *)
LEMMA SoundStays ==
  ASSUME WorkerTypeOK, PubSubTypeOK, NEW w \in Worker, WorkerSound(w),
         \A m \in Msg : msg[m].place # "free" => msg[m].job \in Job,
         Grows, worker'[w] = worker[w], settled'[w] = settled[w]
  PROVE  WorkerSound(w)'
<1> USE DEF WorkerTypeOK, WorkerState, PubSubTypeOK, Outcome
<1>1. \A m \in Msg : msg[m].place # "free" =>
        /\ msg'[m].place # "free" /\ msg'[m].job = msg[m].job
        /\ Finished(msg[m].job) => Finished(msg[m].job)'
  BY DEF Grows, Finished, Decided
<1>2. \A m \in worker[w].batch \cup settled[w].ack \cup settled[w].nack :
        m \in Msg /\ msg[m].place # "free"
  BY DEF WorkerSound
<1>3. CASE At(w, "poll")
  BY <1>1, <1>2, <1>3 DEF WorkerSound, At, Finished, Decided
<1>4. CASE ~At(w, "poll")
  <2>1. worker[w].cur \in Msg /\ msg[worker[w].cur].place # "free"
    BY <1>4 DEF WorkerSound
  <2>2. JobOf(w)' = JobOf(w) /\ (Finished(JobOf(w)) => Finished(JobOf(w))')
    BY <1>1, <2>1 DEF JobOf, Finished, Decided
  <2> QED
    BY <1>1, <1>2, <2>1, <2>2 DEF WorkerSound, At, Finished, Decided
<1> QED
  BY <1>3, <1>4

(* A worker at the top of its loop, with the batch and outcomes it has then. *)
LEMMA Resting ==
  ASSUME PubSubTypeOK, Grows, NEW w \in Worker,
         \A m \in Msg : msg[m].place # "free" => msg[m].job \in Job,
         worker'[w] \in WorkerState, settled'[w] \in Outcome,
         worker'[w].pc = "poll", worker'[w].result # "invalid",
         \A m \in worker'[w].batch \cup settled'[w].ack \cup settled'[w].nack :
           msg[m].place # "free",
         \A m \in settled'[w].ack : Finished(msg[m].job)
  PROVE  WorkerSound(w)'
<1>1. \A m \in Msg : msg[m].place # "free" =>
        /\ msg'[m].place # "free" /\ msg'[m].job = msg[m].job
        /\ Finished(msg[m].job) => Finished(msg[m].job)'
  BY DEF Grows, Finished, Decided
<1>2. \A m \in worker'[w].batch \cup settled'[w].ack \cup settled'[w].nack : m \in Msg
  BY DEF WorkerState, Outcome
<1> QED
  BY <1>1, <1>2 DEF WorkerSound, At, Finished, Decided

(* A worker that goes on with the message in hand.                         *)
LEMMA Moving ==
  ASSUME PubSubTypeOK, WorkerTypeOK, Grows, NEW w \in Worker, WorkerSound(w), ~At(w, "poll"),
         \A m \in Msg : msg[m].place # "free" => msg[m].job \in Job,
         settled' = settled,
         NEW s \in WorkerState, worker' = [worker EXCEPT ![w] = s],
         s.batch = worker[w].batch, s.cur = worker[w].cur, s.pc # "poll",
         s.pc = "persist" => s.result \in Verdict,
         s.result = "invalid" => JobOf(w) \in Rejected,
         s.pc = "ack" => Finished(JobOf(w)) \/ Decided(JobOf(w))'
  PROVE  WorkerTypeOK' /\ WorkerSound(w)'
<1>1. WorkerTypeOK' /\ worker'[w] = s
  BY RecordSet
<1>2. \A m \in Msg : msg[m].place # "free" =>
        /\ msg'[m].place # "free" /\ msg'[m].job = msg[m].job
        /\ Finished(msg[m].job) => Finished(msg[m].job)'
  BY DEF Grows, Finished, Decided
<1>3. \A m \in worker[w].batch \cup settled[w].ack \cup settled[w].nack :
        m \in Msg /\ msg[m].place # "free"
  BY DEF WorkerSound, WorkerTypeOK, WorkerState, PubSubTypeOK, Outcome
<1>4. s.cur \in Msg /\ msg[s.cur].place # "free"
  BY DEF WorkerSound
<1>5. JobOf(w)' = JobOf(w) /\ (Finished(JobOf(w)) => Finished(JobOf(w))')
  BY <1>1, <1>2, <1>4 DEF JobOf, Finished, Decided
<1>6. s.pc = "ack" => Finished(JobOf(w))'
  BY <1>5 DEF Finished, Decided
<1>7. \A m \in settled[w].ack : Finished(msg[m].job)
  BY DEF WorkerSound
<1>8. \A m \in settled'[w].ack : Finished(msg[m].job)'
  BY <1>2, <1>3, <1>7 DEF Finished, Decided
<1> QED
  BY <1>1, <1>2, <1>3, <1>4, <1>5, <1>6, <1>8 DEF WorkerSound, At
-----------------------------------------------------------------------------
(* Only a worker's persist writes a decision or a review row.              *)
LEMMA OnlyPersistDecides ==
  ASSUME [Next]_vars
  PROVE  UNCHANGED <<decision, review>> \/ \E w \in Worker : Persist(w)
<1>1. ASSUME NEW j \in Job, ApiStepOf(j) \/ GiveUp(j) \/ PublishLate(j)
      PROVE  UNCHANGED <<decision, review>>
  BY <1>1 DEF ApiStepOf, Submit, SendOk, SendError, MarkUnsent, ApiCrash, GiveUp, PublishLate,
              InsertJob, SetStatus, dbVars
<1>2. ASSUME NEW w \in Worker, LoopStep(w), ~Persist(w) PROVE UNCHANGED <<decision, review>>
  BY <1>2 DEF LoopStep, LoopRuns, Handling, Pull, Take, ReadStatus, LookupDecision, StartAttempt,
              Analyze, Raise, CountAttempts, MarkFailed, LogFailure, NoteAck, NoteFailure, Escape,
              Acknowledge, ReturnNacks, Die, BeginAttempt, SetStatus, dbVars
<1> QED
  BY <1>1, <1>2 DEF Next, vars, dbVars

LEMMA DecisionKept ==
  ASSUME TypeOK, [Next]_vars, NEW j \in Job, Decided(j)
  PROVE  decision'[j] = decision[j] /\ Decided(j)'
<1>1. CASE UNCHANGED decision
  BY <1>1 DEF Decided
<1>2. ASSUME NEW w \in Worker, Persist(w) PROVE decision'[j] = decision[j]
  BY <1>2 DEF Persist, PersistEnvelope, dbVars, Decided, TypeOK, DbTypeOK
<1> QED
  BY <1>1, <1>2, OnlyPersistDecides DEF Decided

LEMMA StepGrows == TypeOK /\ [Next]_vars => Grows
<1> SUFFICES ASSUME TypeOK, [Next]_vars PROVE Grows
  OBVIOUS
<1>1. ASSUME NEW m \in Msg, msg[m].place # "free"
      PROVE  msg'[m].place # "free" /\ msg'[m].job = msg[m].job
  <2>1. ASSUME NEW j, Send(j) PROVE msg'[m] = msg[m]
    BY <1>1, <2>1, PublishGrows
  <2>2. ASSUME NEW j \in Job, ApiStepOf(j) \/ GiveUp(j) \/ PublishLate(j)
        PROVE  msg'[m] = msg[m]
    BY <2>1, <2>2 DEF ApiStepOf, Submit, SendOk, SendError, MarkUnsent, ApiCrash, GiveUp, PublishLate
  <2>3. ASSUME NEW w \in Worker, LoopStep(w)
        PROVE  msg'[m].place # "free" /\ msg'[m].job = msg[m].job
    BY <1>1, <2>3, LoopMessages DEF TypeOK
  <2>4. ASSUME NEW x \in Msg, Expire(x)
        PROVE  msg'[m].place # "free" /\ msg'[m].job = msg[m].job
    BY <1>1, <2>4 DEF Expire, TypeOK, PubSubTypeOK, Slot
  <2> QED
    BY <1>1, <2>2, <2>3, <2>4 DEF Next, vars
<1> QED
  BY <1>1, DecisionKept DEF Grows

(* The outcomes of a batch stay well typed.                                *)
LEMMA SettledType ==
  ASSUME TypeOK, InHand, NEW w \in Worker, LoopStep(w)
  PROVE  settled' \in [Worker -> Outcome]
<1> USE DEF TypeOK, PubSubTypeOK
<1>1. CASE UNCHANGED settled
  BY <1>1
<1>2. ASSUME ~At(w, "poll"), Acked(w) \/ Nacked(w) PROVE settled' \in [Worker -> Outcome]
  <2>1. worker[w].cur \in Msg
    BY <1>2 DEF InHand
  <2> QED
    BY <1>2, <2>1 DEF Acked, Nacked, Outcome
<1>3. CASE NoteAck(w) \/ NoteFailure(w) \/ Escape(w)
  BY <1>1, <1>2, <1>3 DEF NoteAck, NoteFailure, LogFailure, Escape, At
<1>4. CASE Acknowledge(w)
  BY <1>4 DEF Acknowledge, Outcome
<1>5. CASE ReturnNacks(w) \/ Die(w)
  BY <1>5 DEF ReturnNacks, Die, Unsettled, Outcome
<1> QED
  BY <1>1, <1>3, <1>4, <1>5 DEF LoopStep, LoopRuns, Pull

(* The rows stay well typed.                                               *)
LEMMA LoopRows ==
  ASSUME TypeOK, AckJustified, NEW w \in Worker, LoopStep(w)
  PROVE  DbTypeOK'
<1>1. CASE StartAttempt(w)
  BY <1>1, AttemptType DEF StartAttempt, TypeOK
<1>2. CASE Persist(w)
  BY <1>2, PersistType DEF Persist, AckJustified, TypeOK
<1>3. CASE MarkFailed(w)
  <2>1. worker[w].mark \in Status
    BY DEF TypeOK, WorkerTypeOK, WorkerState, Status, At
  <2> QED
    BY <1>3, <2>1, SetStatusType DEF MarkFailed, TypeOK
<1>4. CASE UNCHANGED dbVars
  BY <1>4 DEF dbVars, TypeOK, DbTypeOK
<1> QED
  BY <1>1, <1>2, <1>3, <1>4
  DEF LoopStep, LoopRuns, Handling, Pull, Take, ReadStatus, LookupDecision, Analyze, Raise,
      CountAttempts, LogFailure, NoteAck, NoteFailure, Escape, Acknowledge, ReturnNacks, Die

(* A worker's own step leaves it justified: it acknowledges what it has      *)
(* seen decided or refused and nothing else.                                *)
LEMMA OwnStepSound ==
  ASSUME TypeOK, SucceededIsDecided, InHand, AckJustified, Grows, NEW w \in Worker, LoopStep(w)
  PROVE  WorkerTypeOK' /\ WorkerSound(w)'
<1> DEFINE S == worker[w]
<1>0. /\ settled[w] \in Outcome /\ WorkerSound(w) /\ PubSubTypeOK /\ WorkerTypeOK
      /\ \A m \in Msg : msg[m].place # "free" => msg[m].job \in Job
  BY SoundIsInv DEF TypeOK, WorkerTypeOK, PubSubTypeOK
<1>1. S \in WorkerState
  BY DEF TypeOK, WorkerTypeOK
<1>2. settled' \in [Worker -> Outcome]
  BY SettledType
<1>3. /\ \A m \in S.batch \cup settled[w].ack \cup settled[w].nack : msg[m].place # "free"
      /\ \A m \in settled[w].ack : Finished(msg[m].job)
      /\ S.batch \in SUBSET Msg
      /\ S.pc = "poll" => S.result # "invalid"
      /\ S.pc # "poll" => S.cur \in Msg /\ msg[S.cur].place # "free" /\ JobOf(w) \in Job
      /\ S.result = "invalid" => JobOf(w) \in Rejected
      /\ S.pc = "persist" => S.result \in Verdict
      /\ S.pc = "ack" => Finished(JobOf(w))
  BY <1>0, <1>1 DEF WorkerSound, WorkerState, At, JobOf
<1>4. \A m \in Msg : msg[m].place # "free" => (Finished(msg[m].job) => Finished(msg[m].job)')
  BY <1>0 DEF Grows, Finished, Decided
<1> HIDE DEF S
<1>5. CASE Pull(w)
  <2>1. PICK ms \in SUBSET {m \in Msg : msg[m].place = "main" /\ msg[m].visible} :
          worker' = [worker EXCEPT ![w].batch = ms]
    BY <1>5 DEF Pull
  <2> DEFINE T == [S EXCEPT !.batch = ms]
  <2>2. worker' = [worker EXCEPT ![w] = T]
    BY <2>1 DEF S
  <2>3. S.pc = "poll" /\ settled' = settled
    BY <1>5 DEF Pull, At, S
  <2>4. T \in WorkerState /\ T.pc = "poll" /\ T.result = S.result /\ T.batch = ms
    BY <1>1, <2>3 DEF WorkerState
  <2> HIDE DEF T
  <2>5. WorkerTypeOK' /\ worker'[w] = T
    BY <1>0, <2>2, <2>4, RecordSet
  <2>6. \A m \in ms : msg[m].place # "free"
    OBVIOUS
  <2> QED
    BY <1>0, <1>3, <2>3, <2>4, <2>5, <2>6, Resting
<1>6. CASE Take(w) /\ UNCHANGED settled
  <2>1. PICK m \in S.batch :
          worker' = [worker EXCEPT ![w] = [S EXCEPT !.pc = "status", !.cur = m,
                                                    !.batch = @ \ {m}]]
    BY <1>6 DEF Take, S
  <2> DEFINE T == [S EXCEPT !.pc = "status", !.cur = m, !.batch = @ \ {m}]
  <2>2. S.pc = "poll" /\ settled' = settled /\ msg' = msg
    BY <1>6 DEF Take, At, S
  <2>3. m \in Msg /\ S.batch \ {m} \in SUBSET Msg
    BY <1>3, <2>1
  <2>4. /\ T \in WorkerState /\ T.pc = "status" /\ T.result = S.result
        /\ T.cur = m /\ T.batch = S.batch \ {m}
    BY <1>1, <2>3 DEF WorkerState, WorkerPc
  <2>5. worker' = [worker EXCEPT ![w] = T]
    BY <2>1
  <2> HIDE DEF T
  <2>6. WorkerTypeOK' /\ worker'[w] = T
    BY <1>0, <2>4, <2>5, RecordSet
  <2>7. \A i \in settled[w].ack : Finished(msg[i].job)'
    BY <1>0, <1>3, <1>4 DEF Outcome
  <2> QED
    BY <1>3, <2>1, <2>2, <2>3, <2>4, <2>6, <2>7 DEF WorkerSound, At
(* The message in hand stays in hand.                                      *)
<1>7. ASSUME S.pc # "poll", settled' = settled,
             NEW T \in WorkerState, worker' = [worker EXCEPT ![w] = T],
             T.batch = S.batch, T.cur = S.cur, T.pc # "poll",
             T.pc = "persist" => T.result \in Verdict,
             T.result = "invalid" => JobOf(w) \in Rejected,
             T.pc = "ack" => Finished(JobOf(w)) \/ Decided(JobOf(w))'
      PROVE  WorkerTypeOK' /\ WorkerSound(w)'
  BY <1>0, <1>7, Moving DEF At, S
<1>8. ASSUME settled' = settled, S.pc # "poll",
             NEW pc \in WorkerPc \ {"poll", "persist"},
             worker' = [worker EXCEPT ![w].pc = pc],
             pc = "ack" => Finished(JobOf(w))
      PROVE  WorkerTypeOK' /\ WorkerSound(w)'
  <2> DEFINE T == [S EXCEPT !.pc = pc]
  <2>1. worker' = [worker EXCEPT ![w] = T]
    BY <1>8 DEF S
  <2>2. /\ T \in WorkerState /\ T.pc = pc /\ T.result = S.result
        /\ T.cur = S.cur /\ T.batch = S.batch
    BY <1>1 DEF WorkerState
  <2> HIDE DEF T
  <2> QED
    BY <1>3, <1>7, <1>8, <2>1, <2>2
<1>9. ASSUME settled' = settled, S.pc # "poll",
             NEW pc \in WorkerPc \ {"poll"}, NEW v \in Verdict \cup {"none", "invalid", "error"},
             worker' = [worker EXCEPT ![w] = [@ EXCEPT !.pc = pc, !.result = v]],
             pc = "persist" => v \in Verdict, v = "invalid" => JobOf(w) \in Rejected,
             pc = "ack" => Decided(JobOf(w))'
      PROVE  WorkerTypeOK' /\ WorkerSound(w)'
  <2> DEFINE T == [S EXCEPT !.pc = pc, !.result = v]
  <2>1. worker' = [worker EXCEPT ![w] = T]
    BY <1>9 DEF S
  <2>2. T \in WorkerState /\ T.pc = pc /\ T.result = v /\ T.cur = S.cur /\ T.batch = S.batch
    BY <1>1 DEF WorkerState
  <2> HIDE DEF T
  <2> QED
    BY <1>7, <1>9, <2>1, <2>2
<1>10. ASSUME settled' = settled, S.pc # "poll",
              NEW pc \in {"mark", "log"}, NEW k \in {"none", "failed", "dead"},
              worker' = [worker EXCEPT ![w] = [@ EXCEPT !.pc = pc, !.mark = k]]
       PROVE  WorkerTypeOK' /\ WorkerSound(w)'
  <2> DEFINE T == [S EXCEPT !.pc = pc, !.mark = k]
  <2>1. worker' = [worker EXCEPT ![w] = T]
    BY <1>10 DEF S
  <2>2. /\ T \in WorkerState /\ T.pc = pc /\ T.result = S.result
        /\ T.cur = S.cur /\ T.batch = S.batch
    BY <1>1 DEF WorkerState, WorkerPc
  <2> HIDE DEF T
  <2> QED
    BY <1>3, <1>7, <1>10, <2>1, <2>2
<1>11. CASE (ReadStatus(w) \/ LookupDecision(w) \/ StartAttempt(w)) /\ UNCHANGED settled
  <2>1. JobOf(w) \in Job => (jobs[JobOf(w)].status = "succeeded" => Finished(JobOf(w)))
    BY DEF SucceededIsDecided, Finished
  <2>2. Decided(JobOf(w)) => Finished(JobOf(w))
    BY DEF Finished
  <2> QED
    BY <1>3, <1>8, <1>11, <2>1, <2>2 DEF ReadStatus, LookupDecision, StartAttempt, Goto, At, S, WorkerPc
<1>12. CASE (Analyze(w) \/ Raise(w)) /\ UNCHANGED settled
  <2>1. S.pc # "poll" /\ settled' = settled
    BY <1>12 DEF Analyze, Raise, At, S
  <2>2. "count" \in WorkerPc \ {"poll"} /\ "persist" \in WorkerPc \ {"poll"}
    BY DEF WorkerPc
  <2>3. CASE Analyze(w) /\ JobOf(w) \in Rejected
    <3>1. worker' = [worker EXCEPT ![w] = [@ EXCEPT !.pc = "count", !.result = "invalid"]]
      BY <2>3 DEF Analyze
    <3> QED
      BY <1>9, <2>1, <2>2, <2>3, <3>1
  <2>4. CASE Analyze(w) /\ JobOf(w) \notin Rejected
    <3>1. PICK v \in Verdict :
            worker' = [worker EXCEPT ![w] = [@ EXCEPT !.pc = "persist", !.result = v]]
      BY <2>4 DEF Analyze
    <3>2. v # "invalid"
      BY NoVerdictAssumption
    <3> QED
      BY <1>9, <2>1, <2>2, <3>1, <3>2
  <2>5. CASE Raise(w)
    <3>1. worker' = [worker EXCEPT ![w] = [@ EXCEPT !.pc = "count", !.result = "error"]]
      BY <2>5 DEF Raise
    <3>2. "error" \in Verdict \cup {"none", "invalid", "error"}
      OBVIOUS
    <3> QED
      BY <1>9, <2>1, <2>2, <3>1, <3>2, Zenon
  <2> QED
    BY <1>12, <2>3, <2>4, <2>5
<1>13. CASE Persist(w) /\ UNCHANGED settled
  <2>1. S.pc = "persist"
    BY <1>13 DEF Persist, At, S
  <2>2. worker[w].result \in Verdict /\ JobOf(w) \in Job
    BY <1>3, <2>1 DEF S
  <2>3. decision'[JobOf(w)] # "none"
    BY <1>13, <2>2, NoVerdictAssumption DEF Persist, PersistEnvelope, dbVars, TypeOK, DbTypeOK
  <2>4. JobOf(w)' = JobOf(w)
    <3>1. msg' = msg /\ worker' = [worker EXCEPT ![w] = [@ EXCEPT !.pc = "ack", !.result = "none"]]
      BY <1>13 DEF Persist
    <3> QED
      BY <1>0, <3>1 DEF JobOf, WorkerTypeOK, WorkerState
  <2>5. Decided(JobOf(w))'
    BY <2>3, <2>4 DEF Decided
  <2>6. worker' = [worker EXCEPT ![w] = [@ EXCEPT !.pc = "ack", !.result = "none"]]
    BY <1>13 DEF Persist
  <2>7. "ack" \in WorkerPc \ {"poll"} /\ settled' = settled /\ S.pc # "poll"
    BY <1>13, <2>1 DEF WorkerPc
  <2>8. "none" \in Verdict \cup {"none", "invalid", "error"}
    OBVIOUS
  <2> QED
    BY <1>9, <2>5, <2>6, <2>7, <2>8, Zenon
<1>14. CASE (CountAttempts(w) \/ MarkFailed(w)) /\ UNCHANGED settled
  <2>1. FailureStatus(jobs[JobOf(w)].attempts) \in {"none", "failed", "dead"}
    BY DEF FailureStatus
  <2> QED
    BY <1>10, <1>14, <2>1 DEF CountAttempts, MarkFailed, At, S
(* Back to the top of the loop, the message in hand noted in one list.     *)
<1>15. ASSUME NextMessage(w), S.pc # "poll",
              Nacked(w) \/ (Acked(w) /\ Finished(JobOf(w)))
       PROVE  WorkerTypeOK' /\ WorkerSound(w)'
  <2> DEFINE T == PollingWith(S.batch)
  <2>1. worker' = [worker EXCEPT ![w] = T]
    BY <1>15 DEF NextMessage, S
  <2>2. T \in WorkerState /\ T.pc = "poll" /\ T.result = "none" /\ T.batch = S.batch
    BY <1>3 DEF PollingWith, WorkerState, WorkerPc
  <2> HIDE DEF T
  <2>3. WorkerTypeOK' /\ worker'[w] = T
    BY <1>0, <2>1, <2>2, RecordSet
  <2>4. \/ /\ settled'[w].ack = settled[w].ack \cup {S.cur}
           /\ settled'[w].nack = settled[w].nack
           /\ Finished(msg[S.cur].job)
        \/ /\ settled'[w].ack = settled[w].ack
           /\ settled'[w].nack = settled[w].nack \cup {S.cur}
    BY <1>0, <1>15 DEF Acked, Nacked, PubSubTypeOK, Outcome, JobOf, S
  <2>5. /\ \A m \in settled'[w].ack \cup settled'[w].nack : msg[m].place # "free"
        /\ \A m \in settled'[w].ack : Finished(msg[m].job)
    BY <1>3, <1>15, <2>4
  <2> QED
    BY <1>0, <1>2, <1>3, <2>2, <2>3, <2>5, Resting
<1>16. CASE NoteAck(w)
  BY <1>3, <1>15, <1>16 DEF NoteAck, At, S
<1>17. CASE Escape(w)
  BY <1>15, <1>17 DEF Escape, S
<1>18. CASE NoteFailure(w)
  <2>1. S.pc = "log"
    BY <1>18 DEF NoteFailure, LogFailure, At, S
  <2>2. CASE worker[w].result = "invalid"
    <3>1. worker' = [worker EXCEPT ![w].pc = "ack"] /\ settled' = settled
      BY <1>18, <2>2 DEF NoteFailure, LogFailure, Goto
    <3>2. Finished(JobOf(w))
      BY <1>3, <2>2 DEF Finished, S
    <3> QED
      BY <1>8, <2>1, <3>1, <3>2 DEF WorkerPc
  <2>3. CASE worker[w].result # "invalid"
    BY <1>15, <1>18, <2>1, <2>3 DEF NoteFailure, LogFailure
  <2> QED
    BY <2>2, <2>3
<1>19. CASE Acknowledge(w) \/ ReturnNacks(w)
  <2>1. S.pc = "poll" /\ worker' = worker
    BY <1>19 DEF Acknowledge, ReturnNacks, BatchDone, At, S
  <2>2. settled'[w].ack \subseteq settled[w].ack /\ settled'[w].nack \subseteq settled[w].nack
    <3>1. CASE Acknowledge(w)
      BY <1>0, <3>1 DEF Acknowledge, PubSubTypeOK, Outcome
    <3>2. CASE ReturnNacks(w)
      <4>1. settled'[w] = Unsettled
        BY <1>0, <3>2 DEF ReturnNacks, PubSubTypeOK
      <4> QED
        BY <4>1 DEF Unsettled
    <3> QED
      BY <1>19, <3>1, <3>2
  <2>3. worker'[w] = S /\ WorkerTypeOK'
    BY <1>0, <2>1 DEF S, WorkerTypeOK
  <2> QED
    BY <1>0, <1>1, <1>2, <1>3, <2>1, <2>2, <2>3, Resting
<1>20. CASE Die(w)
  <2>1. worker' = [worker EXCEPT ![w] = Polling] /\ settled' = [settled EXCEPT ![w] = Unsettled]
    BY <1>20 DEF Die
  <2>2. /\ Polling \in WorkerState /\ Polling.pc = "poll" /\ Polling.result = "none"
        /\ Polling.batch = {}
    BY DEF Polling, PollingWith, WorkerState, WorkerPc
  <2>3. WorkerTypeOK' /\ worker'[w] = Polling
    BY <1>0, <2>1, <2>2, RecordSet
  <2>4. settled'[w].ack = {} /\ settled'[w].nack = {}
    BY <1>0, <2>1 DEF PubSubTypeOK, Unsettled
  <2> QED
    BY <1>0, <1>2, <2>2, <2>3, <2>4, Resting
<1> QED
  BY <1>5, <1>6, <1>11, <1>12, <1>13, <1>14, <1>16, <1>17, <1>18, <1>19, <1>20
  DEF LoopStep, LoopRuns, Handling

LEMMA StepTypeOK == IInv /\ [Next]_vars => TypeOK'
<1> SUFFICES ASSUME IInv, [Next]_vars PROVE TypeOK'
  OBVIOUS
<1>0. TypeOK /\ Grows
  BY StepGrows DEF IInv
<1> USE DEF TypeOK
<1>1. ASSUME NEW j \in Job, ApiStepOf(j) \/ GiveUp(j) \/ PublishLate(j),
             UNCHANGED <<worker, settled>>
      PROVE  msg' \in [Msg -> Slot] /\ DbTypeOK' /\ ApiTypeOK' /\ WorkerTypeOK'
  <2>1. msg' \in [Msg -> Slot]
    BY <1>0, <1>1, PublishType DEF ApiStepOf, Submit, SendOk, SendError, MarkUnsent, ApiCrash,
                                   GiveUp, PublishLate, PubSubTypeOK
  <2>2. DbTypeOK'
    BY <1>0, <1>1 DEF ApiStepOf, Submit, SendOk, SendError, MarkUnsent, ApiCrash, GiveUp,
                      PublishLate, InsertJob, SetStatus, DbTypeOK, Status, dbVars
  <2>3. ApiTypeOK'
    BY <1>0, <1>1 DEF ApiStepOf, Submit, SendOk, SendError, MarkUnsent, ApiCrash, GiveUp,
                      PublishLate, ApiGoto, ApiTypeOK, ApiStep
  <2> QED
    BY <1>0, <1>1, <2>1, <2>2, <2>3 DEF WorkerTypeOK
<1>2. CASE \E j \in Job : ApiStepOf(j) /\ UNCHANGED <<worker, settled, pending>>
  BY <1>0, <1>1, <1>2 DEF PubSubTypeOK
<1>3. CASE \E j \in Job : (GiveUp(j) \/ PublishLate(j)) /\ UNCHANGED <<worker, settled>>
  <2>1. pending' \in SUBSET Job
    BY <1>0, <1>3 DEF GiveUp, PublishLate, PubSubTypeOK
  <2> QED
    BY <1>0, <1>1, <1>3, <2>1 DEF PubSubTypeOK
<1>4. ASSUME NEW w \in Worker, LoopStep(w), UNCHANGED <<api, pending>> PROVE TypeOK'
  <2>1. /\ msg' \in [Msg -> Slot] /\ settled' \in [Worker -> Outcome]
        /\ DbTypeOK' /\ WorkerTypeOK'
    BY <1>0, <1>4, LoopMessages, SettledType, LoopRows, OwnStepSound DEF IInv
  <2> QED
    BY <1>0, <1>4, <2>1 DEF PubSubTypeOK, ApiTypeOK
<1>5. ASSUME NEW m \in Msg, Expire(m), UNCHANGED <<dbVars, api, worker, settled, pending>>
      PROVE  TypeOK'
  <2>1. msg' \in [Msg -> Slot]
    BY <1>0, <1>5 DEF Expire, PubSubTypeOK, Slot
  <2> QED
    BY <1>0, <1>5, <2>1 DEF PubSubTypeOK, DbTypeOK, ApiTypeOK, WorkerTypeOK, dbVars
<1>6. CASE UNCHANGED vars
  BY <1>0, <1>6 DEF vars, PubSubTypeOK, DbTypeOK, ApiTypeOK, WorkerTypeOK
<1> QED
  BY <1>2, <1>3, <1>4, <1>5, <1>6 DEF Next

(* Every worker stays justified, whoever takes the step.                   *)
LEMMA JustifiedKept == IInv /\ [Next]_vars => (InHand /\ AckJustified)'
<1> SUFFICES ASSUME IInv, [Next]_vars PROVE (InHand /\ AckJustified)'
  OBVIOUS
<1>0. /\ TypeOK /\ SucceededIsDecided /\ InHand /\ AckJustified /\ Grows
      /\ \A m \in Msg : msg[m].place # "free" => msg[m].job \in Job
      /\ \A w \in Worker : WorkerSound(w)
  BY StepGrows, SoundIsInv DEF IInv
<1>1. ASSUME NEW w \in Worker PROVE WorkerSound(w)'
  <2>1. CASE LoopStep(w)
    BY <1>0, <2>1, OwnStepSound
  <2>2. ASSUME NEW v \in Worker, v # w, LoopStep(v)
        PROVE  worker'[w] = worker[w] /\ settled'[w] = settled[w]
    BY <1>0, <2>2
    DEF LoopStep, LoopRuns, Handling, Pull, Take, ReadStatus, LookupDecision, StartAttempt, Analyze,
        Persist, Raise, CountAttempts, MarkFailed, LogFailure, NoteAck, NoteFailure, Escape,
        Acknowledge, ReturnNacks, Die, Acked, Nacked, Goto, NextMessage, TypeOK, WorkerTypeOK,
        PubSubTypeOK
  <2>3. CASE worker'[w] = worker[w] /\ settled'[w] = settled[w]
    BY <1>0, <2>3, SoundStays DEF TypeOK
  <2> QED
    BY <2>1, <2>2, <2>3 DEF Next, vars
<1>2. ASSUME NEW m \in Msg, msg'[m].place # "free" PROVE msg'[m].job \in Job
  <2>1. CASE msg[m].place # "free"
    BY <1>0, <2>1 DEF Grows
  <2>2. CASE msg[m].place = "free"
    <3>1. ASSUME NEW j \in Job, Send(j) PROVE msg'[m].job \in Job
      BY <1>0, <1>2, <2>2, <3>1, PublishGrows
    <3>2. ASSUME NEW j \in Job, ApiStepOf(j) \/ GiveUp(j) \/ PublishLate(j)
          PROVE  msg'[m].job \in Job
      BY <1>2, <2>2, <3>1, <3>2 DEF ApiStepOf, Submit, SendOk, SendError, MarkUnsent, ApiCrash,
                                    GiveUp, PublishLate
    <3>3. ASSUME NEW w \in Worker, LoopStep(w) PROVE FALSE
      BY <1>0, <1>2, <2>2, <3>3, LoopMessages DEF TypeOK, WorkerSound
    <3>4. ASSUME NEW x \in Msg, Expire(x) PROVE FALSE
      BY <1>0, <1>2, <2>2, <3>4 DEF Expire, TypeOK, PubSubTypeOK, Slot
    <3> QED
      BY <1>2, <2>2, <3>2, <3>3, <3>4 DEF Next, vars
  <2> QED
    BY <2>1, <2>2
<1> QED
  BY <1>1, <1>2 DEF InHand, AckJustified, WorkerSound

(* Only a worker's persist makes a job succeeded.                          *)
LEMMA SucceededKept == IInv /\ [Next]_vars => SucceededIsDecided'
<1> SUFFICES ASSUME IInv, [Next]_vars, NEW j \in Job, jobs'[j].status = "succeeded"
             PROVE  Decided(j)'
  BY DEF SucceededIsDecided
<1>0. TypeOK
  BY DEF IInv
<1>1. CASE jobs[j].status = "succeeded"
  BY <1>0, <1>1, DecisionKept DEF SucceededIsDecided, IInv
<1>2. CASE jobs[j].status # "succeeded"
  <2> USE DEF TypeOK, DbTypeOK
  <2>1. ASSUME NEW i \in Job, ApiStepOf(i) \/ GiveUp(i) \/ PublishLate(i) PROVE FALSE
    BY <1>0, <1>2, <2>1 DEF ApiStepOf, Submit, SendOk, SendError, MarkUnsent, ApiCrash, GiveUp,
                            PublishLate, InsertJob, SetStatus, dbVars
  <2>2. ASSUME NEW w \in Worker, LoopStep(w) PROVE Decided(j)'
    <3>1. CASE StartAttempt(w)
      BY <1>0, <1>2, <3>1 DEF StartAttempt, BeginAttempt
    <3>2. CASE Persist(w)
      <4>1. worker[w].result \in Verdict
        BY <3>2 DEF IInv, AckJustified, Persist
      <4>2. JobOf(w) = j /\ decision' = [decision EXCEPT ![JobOf(w)] = worker[w].result]
        BY <1>0, <1>2, <3>2 DEF Persist, PersistEnvelope, dbVars
      <4> QED
        BY <1>0, <4>1, <4>2, NoVerdictAssumption DEF Decided
    <3>3. CASE MarkFailed(w)
      <4>1. worker[w].mark # "succeeded"
        BY <1>0 DEF WorkerTypeOK, WorkerState
      <4> QED
        BY <1>0, <1>2, <3>3, <4>1 DEF MarkFailed, SetStatus
    <3>4. CASE UNCHANGED jobs
      BY <1>2, <3>4
    <3> QED
      BY <2>2, <3>1, <3>2, <3>3, <3>4
      DEF LoopStep, LoopRuns, Handling, Pull, Take, ReadStatus, LookupDecision, Analyze, Raise,
          CountAttempts, LogFailure, NoteAck, NoteFailure, Escape, Acknowledge, ReturnNacks, Die, dbVars
  <2> QED
    BY <1>2, <2>1, <2>2 DEF Next, vars, dbVars
<1> QED
  BY <1>1, <1>2

(* Only an acknowledgement of a finished job removes a message.            *)
LEMMA GoneKept == IInv /\ [Next]_vars => GoneIsFinished'
<1> SUFFICES ASSUME IInv, [Next]_vars PROVE GoneIsFinished'
  OBVIOUS
<1>0. TypeOK /\ InHand /\ AckJustified /\ GoneIsFinished
  BY DEF IInv
<1> SUFFICES ASSUME NEW m \in Msg, msg'[m].place = "gone"
             PROVE  Finished(msg[m].job) /\ msg[m].place # "free"
  <2>1. Grows
    BY <1>0, StepGrows
  <2> QED
    BY <1>0, <2>1 DEF GoneIsFinished, Finished, Decided, Grows, InHand, TypeOK, PubSubTypeOK, Slot, DbTypeOK
<1>1. CASE msg[m].place = "gone"
  BY <1>0, <1>1 DEF GoneIsFinished
<1>2. ASSUME msg[m].place # "gone", NEW j \in Job, ApiStepOf(j) \/ GiveUp(j) \/ PublishLate(j)
      PROVE  FALSE
  <2>1. ASSUME NEW i, Send(i) PROVE FALSE
    BY <1>0, <1>2, <2>1, PublishGrows
  <2> QED
    BY <1>2, <2>1 DEF ApiStepOf, Submit, SendOk, SendError, MarkUnsent, ApiCrash, GiveUp, PublishLate
<1>3. ASSUME msg[m].place # "gone", NEW w \in Worker, LoopStep(w)
      PROVE  Finished(msg[m].job) /\ msg[m].place # "free"
  BY <1>0, <1>3, LoopMessages DEF TypeOK, AckJustified, InHand
<1>4. ASSUME msg[m].place # "gone", NEW x \in Msg, Expire(x) PROVE FALSE
  BY <1>0, <1>4 DEF Expire, TypeOK, PubSubTypeOK, Slot
<1> QED
  BY <1>1, <1>2, <1>3, <1>4 DEF Next, vars

(* The invariant is inductive.                                             *)
THEOREM Inductive == Spec => []IInv
<1>1. IInv /\ [Next]_vars => IInv'
  BY StepTypeOK, JustifiedKept, SucceededKept, GoneKept DEF IInv
<1> QED
  BY InitIInv, <1>1, PTL DEF Spec

(* Every reachable state is well typed.                                    *)
THEOREM TypeCorrect == Spec => []TypeOK
<1>1. IInv => TypeOK
  BY DEF IInv
<1> QED
  BY <1>1, Inductive, PTL

(* A published job that is neither decided nor refused stays in the          *)
(* subscription, whatever is redelivered, acknowledged late or not at all,   *)
(* and whichever worker dies in the middle of a batch.                      *)
THEOREM NothingIsLost == Spec => []NothingLost
<1>1. IInv => NothingLost
  BY DEF IInv, TypeOK, PubSubTypeOK, Slot, GoneIsFinished, Finished, NothingLost, Sent, Live
<1> QED
  BY <1>1, Inductive, PTL
-----------------------------------------------------------------------------
(* The review desk has a row for exactly the decisions that need one.      *)
THEOREM ReviewRows == Spec => []ReviewRowIffNeeded
<1>1. Init => ReviewRowIffNeeded
  BY NoVerdictAssumption, VerdictAssumption DEF Init, DbInit, ReviewRowIffNeeded
<1>2. IInv /\ ReviewRowIffNeeded /\ [Next]_vars => ReviewRowIffNeeded'
  <2> SUFFICES ASSUME IInv, ReviewRowIffNeeded, [Next]_vars, NEW j \in Job
               PROVE  review'[j] <=> decision'[j] \in ReviewVerdict
    BY DEF ReviewRowIffNeeded
  <2>0. /\ review[j] <=> decision[j] \in ReviewVerdict
        /\ decision[j] = "none" => ~review[j]
        /\ DbTypeOK
    BY NoVerdictAssumption, VerdictAssumption DEF ReviewRowIffNeeded, IInv, TypeOK
  <2>1. CASE UNCHANGED <<decision, review>>
    BY <2>0, <2>1
  <2>2. ASSUME NEW w \in Worker, Persist(w)
        PROVE  review'[j] <=> decision'[j] \in ReviewVerdict
    <3>1. CASE UNCHANGED dbVars
      BY <2>0, <3>1 DEF dbVars
    <3>2. CASE /\ decision[JobOf(w)] = "none"
               /\ decision' = [decision EXCEPT ![JobOf(w)] = worker[w].result]
               /\ review' = [review EXCEPT ![JobOf(w)] = @ \/ worker[w].result \in ReviewVerdict]
      <4>1. CASE j = JobOf(w)
        <5>1. decision'[j] = worker[w].result
          BY <2>0, <3>2, <4>1 DEF DbTypeOK
        <5>2. review'[j] = (review[j] \/ worker[w].result \in ReviewVerdict)
          BY <2>0, <3>2, <4>1 DEF DbTypeOK
        <5> QED
          BY <2>0, <3>2, <4>1, <5>1, <5>2
      <4>2. CASE j # JobOf(w)
        BY <2>0, <3>2, <4>2 DEF DbTypeOK
      <4> QED
        BY <4>1, <4>2
    <3> QED
      BY <2>2, <3>1, <3>2 DEF Persist, PersistEnvelope
  <2> QED
    BY <2>1, <2>2, OnlyPersistDecides
<1> QED
  BY <1>1, <1>2, InitIInv, Inductive, PTL DEF Spec

(* A persist that writes is the ledger's Decide.                           *)
LEMMA PersistIsDecide ==
  ASSUME IInv, ReviewRowIffNeeded, NEW w \in Worker, Persist(w)
  PROVE  UNCHANGED <<decision, review>> \/ Ledger!LedgerNext
<1> DEFINE j == JobOf(w)
           v == worker[w].result
<1>1. CASE UNCHANGED dbVars
  BY <1>1 DEF dbVars
<1>2. CASE /\ decision[j] = "none"
           /\ decision' = [decision EXCEPT ![j] = v]
           /\ review' = [review EXCEPT ![j] = @ \/ v \in ReviewVerdict]
  <2>1. v \in Verdict /\ j \in Job
    BY DEF IInv, AckJustified, InHand, Persist, JobOf, At
  <2>2. review[j] = FALSE
    <3>1. review[j] \in BOOLEAN
      BY <2>1 DEF IInv, TypeOK, DbTypeOK
    <3>2. "none" \notin ReviewVerdict
      BY NoVerdictAssumption, VerdictAssumption
    <3> QED
      BY <1>2, <2>1, <3>1, <3>2 DEF ReviewRowIffNeeded
  <2>3. review' = [review EXCEPT ![j] = v \in ReviewVerdict]
    <3>1. (review[j] \/ v \in ReviewVerdict) = (v \in ReviewVerdict)
      BY <2>2
    <3>2. review' = [review EXCEPT ![j] = (review[j] \/ v \in ReviewVerdict)]
      BY <1>2
    <3> QED
      BY <3>1, <3>2
  <2>4. Ledger!Decide(j, v)
    BY <1>2, <2>3 DEF Ledger!Decide
  <2> QED
    BY <2>1, <2>4 DEF Ledger!LedgerNext
<1> QED
  BY <1>1, <1>2 DEF Persist, PersistEnvelope

(* With Pub/Sub in place of SQS the pipeline is still a ledger of decisions: *)
(* each job decided at most once, its review row with it.                   *)
THEOREM LedgerImplemented == Spec => ImplementsLedger
<1>1. Init => Ledger!LedgerInit
  BY DEF Init, DbInit, Ledger!LedgerInit, Ledger!Open
<1>2. IInv /\ ReviewRowIffNeeded /\ [Next]_vars => [Ledger!LedgerNext]_(Ledger!entries)
  BY OnlyPersistDecides, PersistIsDecide DEF Ledger!entries
<1> QED
  BY <1>1, <1>2, Inductive, ReviewRows, PTL DEF Spec, ImplementsLedger, Ledger!LedgerSpec

(* The first decision of a job stands, for the ledger lets no other follow:  *)
(* with Pub/Sub too, ON CONFLICT DO NOTHING keeps it (pipeline.py).         *)
DecisionImmutable == [][\A j \in Job : Decided(j) => decision'[j] = decision[j]]_vars

THEOREM DecisionsAreImmutable == Spec => DecisionImmutable
<1>1. IInv /\ [Ledger!LedgerNext]_(Ledger!entries) =>
        [\A j \in Job : Decided(j) => decision'[j] = decision[j]]_vars
  <2> SUFFICES ASSUME TypeOK, [Ledger!LedgerNext]_(Ledger!entries), NEW j \in Job, Decided(j)
               PROVE  decision'[j] = decision[j]
    BY DEF IInv
  <2>1. CASE UNCHANGED Ledger!entries
    BY <2>1 DEF Ledger!entries
  <2>2. ASSUME NEW i \in Job, NEW v \in Verdict, Ledger!Decide(i, v)
        PROVE  decision'[j] = decision[j]
    BY <2>2 DEF Ledger!Decide, Decided, TypeOK, DbTypeOK
  <2> QED
    BY <2>1, <2>2 DEF Ledger!LedgerNext
<1> QED
  BY <1>1, Inductive, LedgerImplemented, PTL DEF ImplementsLedger, Ledger!LedgerSpec, DecisionImmutable
=============================================================================
