------------------------------ MODULE Messages ------------------------------
(***************************************************************************)
(* What the two queue providers have in common, SQS (module Sqs) and        *)
(* Pub/Sub (module PubSub): messages in slots, each with a job in its body,  *)
(* hidden from other receives while somebody holds them and visible again    *)
(* when the deadline passes.  Delivery is unordered and a deadline may pass  *)
(* at any time: nothing in src/ extends one.                                *)
(***************************************************************************)
EXTENDS Jobs

CONSTANTS Msg,    \* message slots: bounds how often anyone calls send_message
          Worker  \* worker processes, consumers of the queue

\* what the provider stores in each slot, a record with at least the fields
\* place, job and visible
VARIABLE msg

(* enqueue_job: a new message for j.                                       *)
Send(j) ==
  \E m \in Msg :
    /\ msg[m].place = "free"
    /\ msg' = [msg EXCEPT ![m] = [@ EXCEPT !.place = "main", !.job = j, !.visible = TRUE]]

(* The visibility timeout or acknowledgement deadline of m passes.         *)
Expire(m) ==
  /\ msg[m].place \in {"main", "dlq"}
  /\ ~msg[m].visible
  /\ msg' = [msg EXCEPT ![m].visible = TRUE]

(* A message somebody can still receive, now or after its deadline.        *)
Live(m) == msg[m].place \in {"main", "dlq"}

(* j was handed to the queue at least once.                                *)
Sent(j) == \E m \in Msg : msg[m].place # "free" /\ msg[m].job = j
=============================================================================
