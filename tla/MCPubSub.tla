------------------------------ MODULE MCPubSub ------------------------------
(* Constants of the TLC runs of PubSubPipeline.                            *)
EXTENDS PubSubPipeline, TLC

\* The slots, and separately the workers, are interchangeable.
MCSymmetry == Permutations(Msg) \cup Permutations(Worker)

(* A later state to start from: the jobs validation will refuse have been    *)
(* published, one message each, and nothing was pulled.                     *)
MCInit ==
  /\ \E slot \in [Rejected -> Msg] :
       /\ \A i, j \in Rejected : slot[i] = slot[j] => i = j
       /\ msg = [m \in Msg |->
                   IF \E j \in Rejected : slot[j] = m
                   THEN [place   |-> "main",
                         job     |-> CHOOSE j \in Rejected : slot[j] = m,
                         visible |-> TRUE]
                   ELSE [place |-> "free", job |-> None, visible |-> FALSE]]
  /\ jobs = [j \in Job |-> [status   |-> IF j \in Rejected THEN "queued" ELSE "none",
                            attempts |-> 0]]
  /\ decision = [j \in Job |-> "none"]
  /\ review = [j \in Job |-> FALSE]
  /\ api = [j \in Job |-> IF j \in Rejected THEN "over" ELSE "idle"]
  /\ WorkerInit
  /\ settled = [w \in Worker |-> Unsettled]
  /\ pending = {}

MCSpec == MCInit /\ [][Next]_vars

(* How an upload ended, and whether a publish is still going when no slot is *)
(* left for it, make no difference to what can happen next: a slot that was *)
(* used is never free again.                                                *)
MCView ==
  <<msg, dbVars, worker, settled,
    [j \in Job |-> IF api[j] = "refused" THEN "over" ELSE api[j]],
    IF \E m \in Msg : msg[m].place = "free" THEN pending ELSE {}>>
=============================================================================
