------------------------------- MODULE PubSub -------------------------------
(***************************************************************************)
(* The job queue on Google Pub/Sub: enqueue_pubsub (apps/api/app/queue.py)  *)
(* and poll_pubsub (apps/worker/worker/main.py).  The handler is that of    *)
(* SQS; the loop is not: it remembers the outcome of each message and       *)
(* settles the whole batch at its end, and nothing limits how often a       *)
(* message is delivered.  The subscription is external, and what the two    *)
(* functions rely on: an acknowledgement may be lost or come too late, and  *)
(* then the message is delivered again.                                     *)
(***************************************************************************)
EXTENDS Enqueue, Handler

ASSUME NoneAssumption == None \notin Job \cup Msg

VARIABLES settled,  \* per worker: ack_ids and nack_ids of the batch in hand
          pending   \* jobs whose publish the API has stopped waiting for

Slot == [place : {"free", "main", "gone"}, job : Job \cup {None}, visible : BOOLEAN]

Outcome == [ack : SUBSET Msg, nack : SUBSET Msg]

Unsettled == [ack |-> {}, nack |-> {}]

PubSubTypeOK ==
  /\ msg \in [Msg -> Slot]
  /\ settled \in [Worker -> Outcome]
  /\ pending \in SUBSET Job

PubSubInit ==
  /\ msg = [m \in Msg |-> [place |-> "free", job |-> None, visible |-> FALSE]]
  /\ settled = [w \in Worker |-> Unsettled]
  /\ pending = {}

(* future.result(timeout=30) gives up, an error to accept_image; the         *)
(* publisher goes on, also when an attempt has got through unanswered ...   *)
GiveUp(j) ==
  /\ ApiGoto(j, "send", "unsent")
  /\ Send(j) \/ UNCHANGED msg
  /\ pending' = pending \cup {j}
  /\ UNCHANGED dbVars

(* ... and may get it through later.                                       *)
PublishLate(j) ==
  /\ j \in pending
  /\ Send(j)
  /\ pending' = pending \ {j}
  /\ UNCHANGED <<dbVars, api>>

(* subscriber.pull, once the last batch is settled.                        *)
Pull(w) ==
  /\ At(w, "poll") /\ worker[w].batch = {} /\ settled[w] = Unsettled
  /\ \E ms \in SUBSET {m \in Msg : msg[m].place = "main" /\ msg[m].visible} :
       /\ Cardinality(ms) \in 1..MaxBatch
       /\ msg' = [m \in Msg |-> [msg[m] EXCEPT !.visible = @ /\ m \notin ms]]
       /\ worker' = [worker EXCEPT ![w].batch = ms]
  /\ UNCHANGED <<dbVars, settled>>

Acked(w) == settled' = [settled EXCEPT ![w].ack = @ \cup {worker[w].cur}]

Nacked(w) == settled' = [settled EXCEPT ![w].nack = @ \cup {worker[w].cur}]

(* handle_message returned, or raised a ValidationError: ack_ids.append.   *)
NoteAck(w) ==
  /\ At(w, "ack")
  /\ Acked(w)
  /\ NextMessage(w)
  /\ UNCHANGED <<msg, dbVars>>

(* Mutant: the exception is taken for handled.                             *)
NoteFailureAsAck(w) ==
  /\ LogFailure(w)
  /\ IF worker[w].result = "invalid" THEN UNCHANGED settled ELSE Acked(w)

(* mark_failed is done and the exception goes on: nack_ids.append, unless   *)
(* it is a ValidationError.                                                 *)
NoteFailure(w) ==
  /\ LogFailure(w)
  /\ IF worker[w].result = "invalid" THEN UNCHANGED settled ELSE Nacked(w)

(* A statement of handle_message or mark_failed raises, or leaving          *)
(* handle_message does once the job is finished: nack_ids.append, also when *)
(* what mark_failed was recording is a ValidationError.                     *)
Escape(w) ==
  /\ worker[w].pc \in {"status", "ack", "count", "mark", "log"}
  /\ Nacked(w)
  /\ NextMessage(w)
  /\ UNCHANGED <<msg, dbVars>>

BatchDone(w) == At(w, "poll") /\ worker[w].batch = {}

(* Mutant: the two lists are swapped.                                      *)
AcknowledgeNacks(w) ==
  /\ BatchDone(w) /\ settled[w].ack # {}
  /\ msg' = [m \in Msg |-> IF m \in settled[w].nack
                           THEN [msg[m] EXCEPT !.place = "gone", !.visible = FALSE]
                           ELSE msg[m]]
  /\ settled' = [settled EXCEPT ![w].ack = {}]
  /\ UNCHANGED <<dbVars, worker>>

(* subscriber.acknowledge with the ack_ids: those whose deadline has passed *)
(* may be ignored, and the call promises nothing for the others either.     *)
Acknowledge(w) ==
  /\ BatchDone(w) /\ settled[w].ack # {}
  /\ \E done \in SUBSET settled[w].ack :
       msg' = [m \in Msg |-> IF m \in done
                             THEN [msg[m] EXCEPT !.place = "gone", !.visible = FALSE]
                             ELSE msg[m]]
  /\ settled' = [settled EXCEPT ![w].ack = {}]
  /\ UNCHANGED <<dbVars, worker>>

(* subscriber.modify_ack_deadline to 0: what is still held is visible again.*)
ReturnNacks(w) ==
  /\ BatchDone(w) /\ settled[w].ack = {} /\ settled[w].nack # {}
  /\ \E back \in SUBSET settled[w].nack :
       msg' = [m \in Msg |-> IF m \in back
                             THEN [msg[m] EXCEPT !.visible = msg[m].place = "main"]
                             ELSE msg[m]]
  /\ settled' = [settled EXCEPT ![w] = Unsettled]
  /\ UNCHANGED <<dbVars, worker>>

(* The process dies and is started again, having forgotten the batch and    *)
(* its outcomes.  Neither call that settles a batch is inside a try: one    *)
(* that raises ends the process too, with or without its effect, and takes   *)
(* the nacks along.                                                         *)
Die(w) ==
  /\ worker[w] # Polling \/ settled[w] # Unsettled
  /\ worker' = [worker EXCEPT ![w] = Polling]
  /\ settled' = [settled EXCEPT ![w] = Unsettled]
  /\ UNCHANGED <<msg, dbVars>>

(* The loop of a process that keeps running.                               *)
LoopRuns(w) ==
  \/ Handling(w) /\ UNCHANGED settled
  \/ NoteAck(w) \/ NoteFailure(w) \/ Escape(w) \/ Acknowledge(w) \/ ReturnNacks(w)

LoopStep(w) == Pull(w) \/ LoopRuns(w) \/ Die(w)
=============================================================================
