------------------------------- MODULE Ingest -------------------------------
(***************************************************************************)
(* The two ingest endpoints after the rate limit (routes/ingest.py) and     *)
(* accept_image (apps/api/app/ingest_service.py): one upload of a content   *)
(* hash, with the Redis ingest lock, the object store, the UNIQUE           *)
(* content_hash and the send to the queue.  Uploads of the same content run *)
(* concurrently; each would create a job and an object of its own, so the   *)
(* upload stands for both ids.                                              *)
(***************************************************************************)
EXTENDS Admission

CONSTANTS Upload,    \* requests
          MaxPolls   \* how often a request without the lock looks for the job

ASSUME MaxPollsAssumption == MaxPolls \in Nat \ {0}
ASSUME NoUploadAssumption == None \notin Upload \cup Hash

VARIABLES up,    \* the requests
          lock,  \* the Redis key ingest:<hash>; its value is a constant, so it
                 \* names nobody: TRUE while the key exists
          row,   \* the jobs row of each hash
          object, \* content type of the object each upload has stored, or None
          sent   \* uploads whose job was handed to the queue

vars == <<up, lock, row, object, sent>>

Pc == {"new", "fetch", "check", "lookup", "lock", "wait", "store", "insert", "enqueue",
       "mark", "done"}

\* "refused" is an answer before anything was looked up, "conflict" the 409, "error"
\* any other failure, "lost" a dead process
Answer == {"none", "refused", "accepted", "deduplicated", "conflict", "error", "lost"}

UploadState ==
  [pc     : Pc,
   hash   : Hash \cup {None},
   type   : Type \cup {None},  \* content_type, while the request is served
   polls  : 0..MaxPolls,
   answer : Answer]

TypeOK ==
  /\ up \in [Upload -> UploadState]
  /\ lock \in [Hash -> BOOLEAN]
  /\ row \in [Hash -> [status : {"none", "queued", "failed"}, job : Upload \cup {None}]]
  /\ object \in [Upload -> Type \cup {None}]
  /\ sent \subseteq Upload

Init ==
  /\ up = [u \in Upload |-> [pc |-> "new", hash |-> None, type |-> None, polls |-> 0,
                             answer |-> "none"]]
  /\ lock = [h \in Hash |-> FALSE]
  /\ row = [h \in Hash |-> [status |-> "none", job |-> None]]
  /\ object = [u \in Upload |-> None]
  /\ sent = {}

At(u, pc) == up[u].pc = pc

HashOf(u) == up[u].hash

Committed(h) == row[h].status # "none"

Running(u) == up[u].pc \notin {"new", "done"}

Goto(u, pc) == up' = [up EXCEPT ![u].pc = pc]

Reply(u, a) == up' = [up EXCEPT ![u] = [@ EXCEPT !.pc = "done", !.type = None, !.answer = a]]

\* before the hash: nothing is known of the content afterwards
Refuse(u) ==
  up' = [up EXCEPT ![u] = [@ EXCEPT !.pc = "done", !.type = None, !.hash = None,
                                    !.answer = "refused"]]

(* A request brings its bytes and says what type they are, or names a URL   *)
(* whose server will.                                                       *)
Arrive(u) ==
  /\ At(u, "new")
  /\ \E h \in Hash, declared \in Type, next \in {"check", "fetch"} :
       up' = [up EXCEPT ![u] = [@ EXCEPT !.pc = next, !.hash = h, !.type = declared]]
  /\ UNCHANGED <<lock, row, object, sent>>

(* fetch_image_bytes.  The URL may be one that is not followed, and the     *)
(* server may fail; a download that succeeds has been checked.              *)
Fetch(u) ==
  /\ At(u, "fetch")
  /\ \/ Refuse(u)
     \/ /\ Fetchable(HashOf(u), up[u].type)
        /\ up' = [up EXCEPT ![u] = [@ EXCEPT !.pc = "check", !.type = Sniffed(HashOf(u), up[u].type)]]
  /\ UNCHANGED <<lock, row, object, sent>>

(* accept_image's checks, and the hash.                                    *)
Check(u) ==
  /\ At(u, "check")
  /\ IF Admitted(HashOf(u), up[u].type) THEN Goto(u, "lookup") ELSE Refuse(u)
  /\ UNCHANGED <<lock, row, object, sent>>

LookupJob(u) ==
  /\ At(u, "lookup")
  /\ IF Committed(HashOf(u)) THEN Reply(u, "deduplicated") ELSE Goto(u, "lock")
  /\ UNCHANGED <<lock, row, object, sent>>

(* acquire_ingest_lock: SET NX EX 120.  Nothing ever deletes the key.      *)
AcquireIngestLock(u) ==
  /\ At(u, "lock")
  /\ lock' = [lock EXCEPT ![HashOf(u)] = TRUE]
  /\ Goto(u, IF lock[HashOf(u)] THEN "wait" ELSE "store")
  /\ UNCHANGED <<row, object, sent>>

(* Mutant: one poll too many.                                              *)
PollOnceMore(u) ==
  /\ At(u, "wait") /\ up[u].polls <= MaxPolls
  /\ IF Committed(HashOf(u)) THEN Reply(u, "deduplicated")
     ELSE up' = [up EXCEPT ![u].polls = @ + 1]
  /\ UNCHANGED <<lock, row, object, sent>>

(* Mutant: wait for the other request until its job is there.              *)
PollForever(u) ==
  /\ At(u, "wait")
  /\ Committed(HashOf(u))
  /\ Reply(u, "deduplicated")
  /\ UNCHANGED <<lock, row, object, sent>>

(* Without the lock: look for the other request's job, a bounded number of  *)
(* times.                                                                   *)
Poll(u) ==
  /\ At(u, "wait") /\ up[u].polls < MaxPolls
  /\ IF Committed(HashOf(u)) THEN Reply(u, "deduplicated")
     ELSE up' = [up EXCEPT ![u].polls = @ + 1]
  /\ UNCHANGED <<lock, row, object, sent>>

GiveUp(u) ==
  /\ At(u, "wait") /\ up[u].polls = MaxPolls
  /\ Reply(u, "conflict")
  /\ UNCHANGED <<lock, row, object, sent>>

(* put_object under a key of this upload's own, before the transaction; a   *)
(* put that raised may have stored the object.                              *)
PutObject(u) ==
  /\ At(u, "store")
  /\ LET stored == [object EXCEPT ![u] = up[u].type]
     IN  \/ object' = stored /\ Goto(u, "insert")
         \/ object' \in {object, stored} /\ Reply(u, "error")
  /\ UNCHANGED <<lock, row, sent>>

(* Mutant: no UNIQUE (content_hash).                                       *)
InsertAnyway(u) ==
  /\ At(u, "insert")
  /\ row' = [row EXCEPT ![HashOf(u)] = [status |-> "queued", job |-> u]]
  /\ Goto(u, "enqueue")
  /\ UNCHANGED <<lock, object, sent>>

(* The transaction.  A violated UNIQUE aborts it, and the SELECT that looks *)
(* for the winner's job runs inside it: PostgreSQL refuses it, so the       *)
(* request fails and "race resolved" is never returned.                     *)
InsertJob(u) ==
  /\ At(u, "insert")
  /\ IF Committed(HashOf(u)) THEN Reply(u, "error") /\ UNCHANGED row
     ELSE \/ /\ row' = [row EXCEPT ![HashOf(u)] = [status |-> "queued", job |-> u]]
             /\ Goto(u, "enqueue")
          \/ Reply(u, "error") /\ UNCHANGED row
  /\ UNCHANGED <<lock, object, sent>>

(* enqueue_job, after the commit; on an error the message may be out.      *)
Enqueue(u) ==
  /\ At(u, "enqueue")
  /\ \/ sent' = sent \cup {u} /\ Reply(u, "accepted")
     \/ sent' \in {sent, sent \cup {u}} /\ Goto(u, "mark")
  /\ UNCHANGED <<lock, row, object>>

\* Mutant: the job row stays 'queued'
ForgetEnqueueFailed(u) ==
  /\ At(u, "mark")
  /\ Reply(u, "error")
  /\ UNCHANGED <<lock, row, object, sent>>

MarkEnqueueFailed(u) ==
  /\ At(u, "mark")
  /\ row' = [row EXCEPT ![HashOf(u)].status = "failed"]
  /\ Reply(u, "error")
  /\ UNCHANGED <<lock, object, sent>>

(* The process dies, or a statement outside the try blocks raises.         *)
Die(u) ==
  /\ Running(u)
  /\ Reply(u, "lost")
  /\ UNCHANGED <<lock, row, object, sent>>

(* The 120 seconds are over, or Redis lost the key.                        *)
LockExpire(h) ==
  /\ lock[h]
  /\ lock' = [lock EXCEPT ![h] = FALSE]
  /\ UNCHANGED <<up, row, object, sent>>

Serve(u) == \/ Fetch(u) \/ Check(u) \/ LookupJob(u) \/ AcquireIngestLock(u) \/ Poll(u) \/ GiveUp(u)
            \/ PutObject(u) \/ InsertJob(u) \/ Enqueue(u) \/ MarkEnqueueFailed(u)

Next == \/ \E u \in Upload : Arrive(u) \/ Serve(u) \/ Die(u)
        \/ \E h \in Hash : LockExpire(h)

Spec == Init /\ [][Next]_vars

(* A request that was accepted by the server is run to its end.            *)
FairSpec == Spec /\ \A u \in Upload : WF_vars(Serve(u))
-----------------------------------------------------------------------------
(* Idempotent ingest: however many uploads of the same content race, expire *)
(* their lock or fail half-way, at most one job of it is ever handed to the *)
(* queue, and it is the one in the database.                                *)
OneJobPerContent ==
  \A u \in sent : Committed(HashOf(u)) /\ row[HashOf(u)].job = u

(* A job shown as queued was handed to the queue, is about to be, or its    *)
(* upload died between the commit and the send.                             *)
QueuedIsSent ==
  \A h \in Hash : row[h].status = "queued" =>
    LET u == row[h].job
    IN  u \in sent \/ up[u].pc \in {"enqueue", "mark"} \/ up[u].answer = "lost"

(* A job that is on the queue has its object, of a type the API's setting    *)
(* lists, and the worker's validate refuses it for one reason only: that     *)
(* type is not on the worker's own list.                                    *)
JobHasObject ==
  \A u \in sent :
    /\ object[u] \in ApiTypes
    /\ object[u] \in ImageTypes => Valid(HashOf(u), object[u])

(* Every upload is answered: nobody waits for the lock for ever.           *)
EveryUploadAnswered == \A u \in Upload : Running(u) ~> At(u, "done")

(* ingest_service.py:164, "idempotent hit - race resolved": an upload that  *)
(* finds at the insert that another one has won is answered with that job.  *)
RaceResolved ==
  [][\A u \in Upload :
       At(u, "insert") /\ Committed(HashOf(u)) /\ up'[u].answer \notin {"none", "lost"}
         => up'[u].answer = "deduplicated"]_vars
=============================================================================
