-------------------------------- MODULE Sqs --------------------------------
(***************************************************************************)
(* The two SQS queues the job pipeline runs on, as src/ uses them: the     *)
(* main queue moderation-jobs and its dead-letter queue.  SQS is external; *)
(* this is what the callers rely on (infra/localstack-init.sh creates the  *)
(* queues): a received message is hidden for a visibility timeout, comes   *)
(* back when the timeout passes before the delete, and is moved to the DLQ *)
(* once it has been received maxReceiveCount times.  Delivery is unordered *)
(* and a timeout may pass at any time.                                     *)
(***************************************************************************)
EXTENDS Messages, Naturals, FiniteSets

CONSTANTS Redriver,     \* running copies of scripts/redrive.py, consumers of the DLQ
          MaxReceives   \* maxReceiveCount of the redrive policy

Consumer == Worker \cup Redriver

ASSUME MaxReceivesAssumption == MaxReceives \in Nat \ {0}
ASSUME NoneAssumption == None \notin Job \cup Msg \cup Consumer

Place == {"free", "main", "dlq", "gone"}

Slot == [place    : Place,
         job      : Job \cup {None},       \* the job_id in the body
         visible  : BOOLEAN,
         receives : 0..MaxReceives,        \* receives from the main queue
         holder   : Consumer \cup {None}]  \* who has the latest receipt handle

\* a slot nobody has a receipt for
Idle(p, j, v) == [place |-> p, job |-> j, visible |-> v, receives |-> 0, holder |-> None]

Unused == Idle("free", None, FALSE)

SqsTypeOK == msg \in [Msg -> Slot]

SqsInit == msg = [m \in Msg |-> Unused]

(* What receive_message may return from queue q.                           *)
Receivable(q) ==
  {m \in Msg : /\ msg[m].place = q
               /\ msg[m].visible
               /\ q = "main" => msg[m].receives < MaxReceives}

(* receive_message: c gets the messages ms and a receipt for each.         *)
Deliver(q, c, ms) ==
  msg' = [m \in Msg |->
            IF m \notin ms THEN msg[m]
            ELSE [msg[m] EXCEPT !.visible = FALSE,
                                !.receives = IF q = "main" THEN @ + 1 ELSE @,
                                !.holder = c]]

(* delete_message with c's receipt for m.  The latest receipt deletes, also *)
(* after the timeout; an older one may or may not.                          *)
Delete(q, c, m) ==
  \/ /\ msg[m].place = q
     /\ msg' = [msg EXCEPT ![m] = Idle("gone", msg[m].job, FALSE)]
  \/ /\ msg[m].place # q \/ msg[m].holder # c
     /\ UNCHANGED msg

(* Mutant: one receive too many is asked for.                              *)
MoveToDlqLate(m) ==
  /\ msg[m].place = "main"
  /\ msg[m].visible
  /\ msg[m].receives > MaxReceives
  /\ msg' = [msg EXCEPT ![m] = Idle("dlq", msg[m].job, TRUE)]

(* The redrive policy: m has used up its receives.                         *)
MoveToDlq(m) ==
  /\ msg[m].place = "main"
  /\ msg[m].visible
  /\ msg[m].receives = MaxReceives
  /\ msg' = [msg EXCEPT ![m] = Idle("dlq", msg[m].job, TRUE)]
=============================================================================
