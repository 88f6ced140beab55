---------------------------- MODULE IngestProofs ----------------------------
(***************************************************************************)
(* Theorems of Ingest, for any uploads, contents, settings and numbers of   *)
(* polls.                                                                   *)
(***************************************************************************)
EXTENDS Ingest, TLAPS

USE SizeAssumption, MagicAssumption, TypesAssumption, SettingsAssumption, MaxPollsAssumption,
    NoUploadAssumption

(* What a request has found out by the time it gets to each step: past the   *)
(* checks its content may enter; past the put its object is stored; past the *)
(* insert the row of its content is its own; and what it sent.              *)
Early == {"new", "fetch", "check"}
Checked == {"lookup", "lock", "wait", "store", "insert", "enqueue", "mark"}

Owns(u) == row[HashOf(u)].job = u

(* What JobHasObject says of one object.                                   *)
Accepted(h, type) == type \in ApiTypes /\ (type \in ImageTypes => Valid(h, type))

UpOK(u) ==
  /\ up[u].pc \in {"fetch", "check"} => HashOf(u) \in Hash /\ up[u].type \in Type
  /\ up[u].pc \in Checked => HashOf(u) \in Hash /\ Admitted(HashOf(u), up[u].type)
  /\ up[u].pc # "done" => up[u].answer # "lost"
  /\ up[u].pc \in {"insert", "enqueue", "mark"} => object[u] = up[u].type
  /\ up[u].pc \in {"enqueue", "mark"} => row[HashOf(u)].status = "queued" /\ Owns(u)
  /\ u \in sent => /\ up[u].pc \in {"mark", "done"}
                   /\ HashOf(u) \in Hash /\ Committed(HashOf(u)) /\ Owns(u)
                   /\ Accepted(HashOf(u), object[u])
  /\ HashOf(u) \in Hash /\ row[HashOf(u)].status = "queued" /\ Owns(u) =>
       u \in sent \/ up[u].pc \in {"enqueue", "mark"} \/ up[u].answer = "lost"

UpInv == \A u \in Upload : UpOK(u)

(* The row of a content names the upload that inserted it.                 *)
RowInv ==
  \A h \in Hash : Committed(h) =>
    /\ row[h].job \in Upload
    /\ HashOf(row[h].job) = h
    /\ up[row[h].job].pc \notin Early

IInv == TypeOK /\ UpInv /\ RowInv

LEMMA InitIInv == Init => IInv
BY DEF Init, IInv, TypeOK, UploadState, Pc, Answer, UpInv, UpOK, RowInv, Checked, Committed,
       HashOf, Owns

(* What the API admits the worker accepts, if it knows the type: their       *)
(* limits on the size come from one setting.                                *)
LEMMA AdmittedIsAccepted ==
  ASSUME NEW h \in Hash, NEW type, Admitted(h, type)
  PROVE  Accepted(h, type) /\ type \in Type
BY DEF Admitted, Valid, Accepted

(* How a step rewrites the record of its own request and of no other.      *)
Rewrites(u, pc, hash, answer) ==
  /\ up' \in [Upload -> UploadState]
  /\ up'[u].pc = pc /\ up'[u].hash = hash /\ up'[u].answer = answer
  /\ \A x \in Upload \ {u} : up'[x] = up[x]

LEMMA Rewritten ==
  ASSUME TypeOK, NEW u \in Upload, NEW rec \in UploadState, up' = [up EXCEPT ![u] = rec]
  PROVE  up'[u] = rec /\ Rewrites(u, rec.pc, rec.hash, rec.answer)
BY DEF TypeOK, Rewrites

LEMMA ReplyRewrites ==
  ASSUME TypeOK, NEW u \in Upload, NEW a \in Answer, Reply(u, a)
  PROVE  Rewrites(u, "done", HashOf(u), a)
<1> DEFINE rec == [up[u] EXCEPT !.pc = "done", !.type = None, !.answer = a]
<1>1. rec \in UploadState /\ rec.pc = "done" /\ rec.hash = up[u].hash /\ rec.answer = a
  <2>1. up[u] \in UploadState
    BY DEF TypeOK
  <2> QED
    BY <2>1 DEF UploadState, Pc
<1>2. up' = [up EXCEPT ![u] = rec]
  BY DEF Reply
<1> HIDE DEF rec
<1>3. Rewrites(u, rec.pc, rec.hash, rec.answer)
  BY <1>1, <1>2, Rewritten
<1> QED
  BY <1>1, <1>3 DEF HashOf

LEMMA RefuseRewrites ==
  ASSUME TypeOK, NEW u \in Upload, Refuse(u)
  PROVE  Rewrites(u, "done", None, "refused")
<1> DEFINE rec == [up[u] EXCEPT !.pc = "done", !.type = None, !.hash = None, !.answer = "refused"]
<1>1. rec \in UploadState /\ rec.pc = "done" /\ rec.hash = None /\ rec.answer = "refused"
  <2>1. up[u] \in UploadState
    BY DEF TypeOK
  <2> QED
    BY <2>1 DEF UploadState, Pc, Answer
<1>2. up' = [up EXCEPT ![u] = rec]
  BY DEF Refuse
<1> HIDE DEF rec
<1>3. Rewrites(u, rec.pc, rec.hash, rec.answer)
  BY <1>1, <1>2, Rewritten
<1> QED
  BY <1>1, <1>3

LEMMA GotoRewrites ==
  ASSUME TypeOK, NEW u \in Upload, NEW pc \in Pc, Goto(u, pc)
  PROVE  Rewrites(u, pc, HashOf(u), up[u].answer) /\ up'[u].type = up[u].type
<1> DEFINE rec == [up[u] EXCEPT !.pc = pc]
<1>1. /\ rec \in UploadState /\ rec.pc = pc /\ rec.hash = up[u].hash
      /\ rec.answer = up[u].answer /\ rec.type = up[u].type
  <2>1. up[u] \in UploadState
    BY DEF TypeOK
  <2> QED
    BY <2>1 DEF UploadState
<1>2. up' = [up EXCEPT ![u] = rec]
  BY DEF Goto
<1> HIDE DEF rec
<1> QED
  BY <1>1, <1>2, Rewritten DEF HashOf

(* What the steps have in common: nothing of another request is touched, a  *)
(* request past its checks keeps its content, and a row changes only by the  *)
(* hand of the request that then is its owner.                              *)
Writes(u, status) ==
  /\ up[u].pc \in Checked
  /\ ~Committed(HashOf(u)) \/ Owns(u)
  /\ row' = [row EXCEPT ![HashOf(u)] = [status |-> status, job |-> u]]

Local(u) ==
  /\ up' \in [Upload -> UploadState]
  /\ \A x \in Upload \ {u} : /\ up'[x] = up[x] /\ object'[x] = object[x]
                             /\ x \in sent' <=> x \in sent
  /\ up[u].pc \notin Early => up'[u].pc \notin Early /\ HashOf(u)' = HashOf(u)
  /\ row' = row \/ \E status \in {"queued", "failed"} : Writes(u, status)

LEMMA Written ==
  ASSUME IInv, NEW u \in Upload, NEW status \in {"queued", "failed"}, Writes(u, status)
  PROVE  /\ HashOf(u) \in Hash
         /\ row' \in [Hash -> [status : {"none", "queued", "failed"}, job : Upload \cup {None}]]
         /\ row'[HashOf(u)].job = u /\ row'[HashOf(u)].status = status
         /\ \A h \in Hash \ {HashOf(u)} : row'[h] = row[h]
<1>1. HashOf(u) \in Hash
  BY DEF IInv, UpInv, UpOK, Writes
<1> QED
  BY <1>1 DEF IInv, TypeOK, Writes

LEMMA OthersKept ==
  ASSUME IInv, NEW u \in Upload, Local(u), NEW x \in Upload, x # u
  PROVE  UpOK(x)'
<1>1. UpOK(x)
  BY DEF IInv, UpInv
<1>2. up'[x] = up[x] /\ object'[x] = object[x] /\ (x \in sent' <=> x \in sent)
  BY DEF Local
<1>3. CASE row' = row
  BY <1>1, <1>2, <1>3 DEF UpOK, HashOf, Committed, Owns
<1>4. ASSUME NEW status \in {"queued", "failed"}, Writes(u, status)
      PROVE  UpOK(x)'
  <2>1. /\ HashOf(u) \in Hash /\ row'[HashOf(u)].job = u
        /\ \A h \in Hash \ {HashOf(u)} : row'[h] = row[h]
    BY <1>4, Written
  <2>2. CASE HashOf(x) # HashOf(u)
    <3>1. HashOf(x) \in Hash => row'[HashOf(x)] = row[HashOf(x)]
      BY <2>1, <2>2
    <3>2. HashOf(x) \in Hash \/ up[x].pc \notin Checked
      BY <1>1 DEF UpOK
    <3> QED
      BY <1>1, <1>2, <3>1, <3>2 DEF UpOK, HashOf, Committed, Owns, Checked
  <2>3. CASE HashOf(x) = HashOf(u)
    <3>1. up[x].pc \notin {"enqueue", "mark"} /\ x \notin sent
      BY <1>1, <1>4, <2>3 DEF UpOK, Writes, Committed, Owns
    <3>2. ~Owns(x)'
      BY <1>2, <2>1, <2>3 DEF Owns, HashOf
    <3>3. HashOf(x)' = HashOf(x)
      BY <1>2 DEF HashOf
    <3> QED
      BY <1>1, <1>2, <3>1, <3>2, <3>3 DEF UpOK
  <2> QED
    BY <2>2, <2>3
<1> QED
  BY <1>3, <1>4 DEF Local

LEMMA RowKept ==
  ASSUME IInv, NEW u \in Upload, Local(u), NEW h \in Hash, Committed(h)'
  PROVE  \E j \in Upload : /\ row'[h].job = j
                           /\ HashOf(j)' = h
                           /\ up'[j].pc \notin Early
<1>1. CASE row'[h] = row[h]
  <2> DEFINE j == row[h].job
  <2>1. j \in Upload /\ HashOf(j) = h /\ up[j].pc \notin Early
    BY <1>1 DEF IInv, RowInv, Committed
  <2>2. row'[h].job = j
    BY <1>1
  <2> HIDE DEF j
  <2>3. CASE j = u
    BY <2>1, <2>2, <2>3 DEF Local
  <2>4. CASE j # u
    BY <2>1, <2>2, <2>4 DEF Local, HashOf
  <2> QED
    BY <2>3, <2>4
<1>2. CASE row'[h] # row[h]
  <2>1. PICK status \in {"queued", "failed"} : Writes(u, status)
    BY <1>2 DEF Local
  <2>2. h = HashOf(u) /\ row'[h].job = u
    BY <1>2, <2>1, Written
  <2>3. up[u].pc \notin Early
    BY <2>1 DEF Writes, Checked, Early
  <2> QED
    BY <2>2, <2>3 DEF Local
<1> QED
  BY <1>1, <1>2

(* A step of u is harmless when it is local and leaves u as it should be.  *)
LEMMA StepKeeps ==
  ASSUME IInv, NEW u \in Upload, Local(u), UpOK(u)', TypeOK'
  PROVE  IInv'
<1>1. UpInv'
  BY OthersKept DEF UpInv
<1>2. RowInv'
  BY RowKept DEF RowInv, HashOf
<1> QED
  BY <1>1, <1>2 DEF IInv

(* The steps that answer or move on without a row, an object or a message.  *)
LEMMA OnlyUp ==
  ASSUME IInv, NEW u \in Upload, NEW pc \in Pc, NEW hash, NEW a \in Answer,
         Rewrites(u, pc, hash, a), lock' \in [Hash -> BOOLEAN], UNCHANGED <<row, object, sent>>,
         up[u].pc \notin Early => pc \notin Early /\ hash = HashOf(u)
  PROVE  Local(u) /\ TypeOK'
BY DEF IInv, TypeOK, Local, Rewrites, HashOf

LEMMA ArriveStep ==
  ASSUME IInv, NEW u \in Upload, Arrive(u)
  PROVE  IInv'
<1>1. PICK h \in Hash, declared \in Type, next \in {"check", "fetch"} :
        up' = [up EXCEPT ![u] = [@ EXCEPT !.pc = next, !.hash = h, !.type = declared]]
  BY DEF Arrive
<1> DEFINE rec == [up[u] EXCEPT !.pc = next, !.hash = h, !.type = declared]
<1>2. up[u] \in UploadState
  BY DEF IInv, TypeOK
<1>3. /\ rec \in UploadState /\ rec.pc = next /\ rec.hash = h /\ rec.type = declared
      /\ rec.answer = up[u].answer
  BY <1>2 DEF UploadState, Pc
<1>4. up' = [up EXCEPT ![u] = rec]
  BY <1>1
<1> HIDE DEF rec
<1>5. up'[u] = rec /\ Rewrites(u, rec.pc, rec.hash, rec.answer)
  BY <1>3, <1>4, Rewritten DEF IInv
<1>6. Local(u) /\ TypeOK'
  <2>1. rec.pc \in Pc /\ rec.answer \in Answer /\ up[u].pc \in Early
    BY <1>3 DEF UploadState, Arrive, At, Early
  <2>2. lock' \in [Hash -> BOOLEAN] /\ UNCHANGED <<row, object, sent>>
    BY DEF IInv, TypeOK, Arrive
  <2> QED
    BY <1>5, <2>1, <2>2, OnlyUp
<1>7. UpOK(u)'
  <2>1. UpOK(u) /\ up[u].pc = "new"
    BY DEF IInv, UpInv, Arrive, At
  <2>2. ~Committed(h) \/ row[h].job # u
    BY <2>1 DEF IInv, RowInv, Early
  <2>3. UNCHANGED <<row, object, sent>>
    BY DEF Arrive
  <2> QED
    BY <1>3, <1>5, <2>1, <2>2, <2>3 DEF UpOK, Owns, HashOf, Committed, Checked
<1> QED
  BY <1>6, <1>7, StepKeeps

LEMMA RefuseKeeps ==
  ASSUME IInv, NEW u \in Upload, up[u].pc \in Early, Refuse(u), UNCHANGED <<lock, row, object, sent>>
  PROVE  IInv'
<1>1. Rewrites(u, "done", None, "refused")
  BY RefuseRewrites DEF IInv
<1>2. Local(u) /\ TypeOK'
  <2>1. lock' \in [Hash -> BOOLEAN]
    BY DEF IInv, TypeOK
  <2>2. "done" \in Pc /\ "refused" \in Answer
    BY DEF Pc, Answer
  <2> QED
    BY <1>1, <2>1, <2>2, OnlyUp
<1>3. UpOK(u)'
  <2>1. UpOK(u)
    BY DEF IInv, UpInv
  <2> QED
    BY <1>1, <2>1 DEF UpOK, Rewrites, HashOf, Checked, Early
<1> QED
  BY <1>2, <1>3, StepKeeps

LEMMA ReplyKeeps ==
  ASSUME IInv, NEW u \in Upload, NEW a \in Answer, Reply(u, a),
         UNCHANGED <<lock, row, object, sent>>,
         up[u].pc # "done", up[u].pc \notin {"enqueue", "mark"} \/ a = "lost"
  PROVE  IInv'
<1>1. Rewrites(u, "done", HashOf(u), a)
  BY ReplyRewrites DEF IInv
<1>2. Local(u) /\ TypeOK'
  <2>1. lock' \in [Hash -> BOOLEAN]
    BY DEF IInv, TypeOK
  <2>2. "done" \in Pc /\ "done" \notin Early
    BY DEF Pc, Early
  <2> QED
    BY <1>1, <2>1, <2>2, OnlyUp
<1>3. UpOK(u)'
  <2>1. UpOK(u)
    BY DEF IInv, UpInv
  <2> QED
    BY <1>1, <2>1 DEF UpOK, Rewrites, HashOf, Checked, Committed, Owns
<1> QED
  BY <1>2, <1>3, StepKeeps

LEMMA GotoKeeps ==
  ASSUME IInv, NEW u \in Upload, NEW pc \in {"lookup", "lock", "wait", "store"}, Goto(u, pc),
         up[u].pc \in {"check", "lookup", "lock"},
         up[u].pc = "check" => Admitted(HashOf(u), up[u].type),
         lock' \in [Hash -> BOOLEAN], UNCHANGED <<row, object, sent>>
  PROVE  IInv'
<1>1. Rewrites(u, pc, HashOf(u), up[u].answer) /\ up'[u].type = up[u].type
  BY GotoRewrites DEF IInv, Pc
<1>2. Local(u) /\ TypeOK'
  <2>1. pc \in Pc /\ pc \notin Early /\ up[u].answer \in Answer
    BY DEF Pc, Early, IInv, TypeOK, UploadState
  <2> QED
    BY <1>1, <2>1, OnlyUp
<1>3. UpOK(u)'
  <2>1. UpOK(u)
    BY DEF IInv, UpInv
  <2> QED
    BY <1>1, <2>1 DEF UpOK, Rewrites, HashOf, Checked, Committed, Owns
<1> QED
  BY <1>2, <1>3, StepKeeps

LEMMA FetchStep ==
  ASSUME IInv, NEW u \in Upload, Fetch(u)
  PROVE  IInv'
<1>1. CASE Refuse(u)
  BY <1>1, RefuseKeeps DEF Fetch, At, Early
<1>2. CASE /\ Fetchable(HashOf(u), up[u].type)
           /\ up' = [up EXCEPT ![u] = [@ EXCEPT !.pc = "check", !.type = Sniffed(HashOf(u), up[u].type)]]
  <2> DEFINE type == Sniffed(HashOf(u), up[u].type)
             rec == [up[u] EXCEPT !.pc = "check", !.type = type]
  <2>1. up[u].pc = "fetch" /\ up[u] \in UploadState /\ HashOf(u) \in Hash /\ UpOK(u)
    BY DEF Fetch, At, IInv, TypeOK, UpInv, UpOK
  <2>2. type \in Type
    BY <1>2, <2>1 DEF Fetchable, Sniffed
  <2>3. up' = [up EXCEPT ![u] = rec]
    BY <1>2
  <2> HIDE DEF type
  <2>4. /\ rec \in UploadState /\ rec.pc = "check" /\ rec.hash = up[u].hash /\ rec.type = type
        /\ rec.answer = up[u].answer
    BY <2>1, <2>2 DEF UploadState, Pc
  <2> HIDE DEF rec
  <2>5. up'[u] = rec /\ Rewrites(u, rec.pc, rec.hash, rec.answer)
    BY <2>3, <2>4, Rewritten DEF IInv
  <2>6. Local(u) /\ TypeOK'
    <3>1. rec.pc \in Pc /\ rec.answer \in Answer /\ up[u].pc \in Early
      BY <2>1, <2>4 DEF UploadState, Early
    <3>2. lock' \in [Hash -> BOOLEAN] /\ UNCHANGED <<row, object, sent>>
      BY DEF IInv, TypeOK, Fetch
    <3> QED
      BY <2>5, <3>1, <3>2, OnlyUp
  <2>7. UpOK(u)'
    <3>1. UNCHANGED <<row, object, sent>>
      BY DEF Fetch
    <3> QED
      BY <2>1, <2>2, <2>4, <2>5, <3>1 DEF UpOK, Owns, HashOf, Committed, Checked
  <2> QED
    BY <2>6, <2>7, StepKeeps
<1> QED
  BY <1>1, <1>2 DEF Fetch

LEMMA CheckStep ==
  ASSUME IInv, NEW u \in Upload, Check(u)
  PROVE  IInv'
<1>1. CASE Admitted(HashOf(u), up[u].type)
  <2>1. Goto(u, "lookup") /\ up[u].pc = "check" /\ lock' \in [Hash -> BOOLEAN]
    BY <1>1 DEF Check, At, IInv, TypeOK
  <2> QED
    BY <1>1, <2>1, GotoKeeps DEF Check
<1>2. CASE ~Admitted(HashOf(u), up[u].type)
  BY <1>2, RefuseKeeps DEF Check, At, Early
<1> QED
  BY <1>1, <1>2

LEMMA LookupStep ==
  ASSUME IInv, NEW u \in Upload, LookupJob(u)
  PROVE  IInv'
<1>1. up[u].pc = "lookup" /\ lock' \in [Hash -> BOOLEAN]
  BY DEF LookupJob, At, IInv, TypeOK
<1>2. CASE Reply(u, "deduplicated")
  BY <1>1, <1>2, ReplyKeeps DEF LookupJob, Answer
<1>3. CASE Goto(u, "lock")
  BY <1>1, <1>3, GotoKeeps DEF LookupJob
<1> QED
  BY <1>2, <1>3 DEF LookupJob

LEMMA LockStep ==
  ASSUME IInv, NEW u \in Upload, AcquireIngestLock(u)
  PROVE  IInv'
<1>1. up[u].pc = "lock" /\ HashOf(u) \in Hash
  BY DEF AcquireIngestLock, At, IInv, UpInv, UpOK, Checked
<1>2. lock' \in [Hash -> BOOLEAN] /\ UNCHANGED <<row, object, sent>>
  BY <1>1 DEF AcquireIngestLock, IInv, TypeOK
<1>3. PICK pc \in {"wait", "store"} : Goto(u, pc)
  BY DEF AcquireIngestLock
<1> QED
  BY <1>1, <1>2, <1>3, GotoKeeps

LEMMA PollStep ==
  ASSUME IInv, NEW u \in Upload, Poll(u)
  PROVE  IInv'
<1>1. CASE Reply(u, "deduplicated")
  BY <1>1, ReplyKeeps DEF Poll, At, Answer
<1>2. CASE up' = [up EXCEPT ![u].polls = @ + 1]
  <2> DEFINE rec == [up[u] EXCEPT !.polls = @ + 1]
  <2>1. up[u] \in UploadState /\ up[u].pc = "wait" /\ up[u].polls < MaxPolls
    BY DEF IInv, TypeOK, Poll, At
  <2>2. /\ rec \in UploadState /\ rec.pc = "wait" /\ rec.hash = up[u].hash
        /\ rec.type = up[u].type /\ rec.answer = up[u].answer
    BY <2>1 DEF UploadState
  <2>3. up' = [up EXCEPT ![u] = rec]
    BY <1>2
  <2> HIDE DEF rec
  <2>4. up'[u] = rec /\ Rewrites(u, rec.pc, rec.hash, rec.answer)
    BY <2>2, <2>3, Rewritten DEF IInv
  <2>5. UNCHANGED <<lock, row, object, sent>>
    BY DEF Poll
  <2>6. Local(u) /\ TypeOK'
    <3>1. rec.pc \in Pc /\ rec.answer \in Answer /\ rec.pc \notin Early /\ rec.hash = HashOf(u)
      BY <2>2 DEF UploadState, Early, HashOf
    <3>2. lock' \in [Hash -> BOOLEAN]
      BY <2>5 DEF IInv, TypeOK
    <3> QED
      BY <2>4, <2>5, <3>1, <3>2, OnlyUp
  <2>7. UpOK(u)'
    <3>1. UpOK(u)
      BY DEF IInv, UpInv
    <3> QED
      BY <2>1, <2>2, <2>4, <2>5, <3>1 DEF UpOK, Owns, HashOf, Committed, Checked
  <2> QED
    BY <2>6, <2>7, StepKeeps
<1> QED
  BY <1>1, <1>2 DEF Poll

LEMMA GiveUpStep ==
  ASSUME IInv, NEW u \in Upload, GiveUp(u)
  PROVE  IInv'
BY ReplyKeeps DEF GiveUp, At, Answer

LEMMA DieStep ==
  ASSUME IInv, NEW u \in Upload, Die(u)
  PROVE  IInv'
BY ReplyKeeps DEF Die, Running, Answer

LEMMA PutStep ==
  ASSUME IInv, NEW u \in Upload, PutObject(u)
  PROVE  IInv'
<1> DEFINE stored == [object EXCEPT ![u] = up[u].type]
<1>1. /\ UpOK(u) /\ up[u].pc = "store" /\ HashOf(u) \in Hash /\ up[u].type \in Type
      /\ UNCHANGED <<lock, row, sent>>
  BY AdmittedIsAccepted DEF PutObject, At, IInv, UpInv, UpOK, Checked
<1>2. /\ stored \in [Upload -> Type \cup {None}] /\ stored[u] = up[u].type
      /\ \A x \in Upload \ {u} : stored[x] = object[x]
  BY <1>1 DEF IInv, TypeOK
<1>3. PICK pc \in {"insert", "done"}, a \in {up[u].answer, "error"} :
        /\ Rewrites(u, pc, HashOf(u), a)
        /\ pc = "insert" => object' = stored /\ a = up[u].answer
        /\ object' \in {object, stored}
        /\ up'[u].type = up[u].type \/ pc = "done"
  <2>1. CASE object' = stored /\ Goto(u, "insert")
    BY <2>1, GotoRewrites DEF IInv, Pc
  <2>2. CASE object' \in {object, stored} /\ Reply(u, "error")
    BY <2>2, ReplyRewrites DEF IInv, Answer
  <2> QED
    BY <2>1, <2>2 DEF PutObject
<1> HIDE DEF stored
<1>4. Local(u) /\ TypeOK'
  <2>1. /\ object' \in [Upload -> Type \cup {None}]
        /\ \A x \in Upload \ {u} : object'[x] = object[x]
    BY <1>2, <1>3 DEF IInv, TypeOK
  <2> QED
    BY <1>1, <1>3, <2>1 DEF IInv, TypeOK, Local, Rewrites, HashOf, Early
<1>5. UpOK(u)'
  BY <1>1, <1>2, <1>3 DEF UpOK, Rewrites, HashOf, Checked, Committed, Owns
<1> QED
  BY <1>4, <1>5, StepKeeps

(* The two steps that write the row.                                       *)
LEMMA RowWritten ==
  ASSUME IInv, NEW u \in Upload, NEW status \in {"queued", "failed"}, Writes(u, status),
         NEW pc \in Pc, NEW a \in Answer, Rewrites(u, pc, HashOf(u), a), pc \notin Early,
         UNCHANGED <<lock, object, sent>>
  PROVE  Local(u) /\ TypeOK'
<1>1. row' \in [Hash -> [status : {"none", "queued", "failed"}, job : Upload \cup {None}]]
  BY Written
<1>2. up[u].pc \notin Early
  BY DEF Writes, Checked, Early
<1> QED
  BY <1>1, <1>2 DEF IInv, TypeOK, Local, Rewrites, HashOf

LEMMA InsertStep ==
  ASSUME IInv, NEW u \in Upload, InsertJob(u)
  PROVE  IInv'
<1>1. up[u].pc = "insert" /\ UNCHANGED <<lock, object, sent>> /\ UpOK(u)
  BY DEF InsertJob, At, IInv, UpInv
<1>2. CASE Reply(u, "error") /\ UNCHANGED row
  BY <1>1, <1>2, ReplyKeeps DEF Answer
<1>3. CASE /\ ~Committed(HashOf(u))
           /\ row' = [row EXCEPT ![HashOf(u)] = [status |-> "queued", job |-> u]]
           /\ Goto(u, "enqueue")
  <2>1. Writes(u, "queued")
    BY <1>1, <1>3 DEF Writes, Checked
  <2>2. Rewrites(u, "enqueue", HashOf(u), up[u].answer) /\ up'[u].type = up[u].type
    BY <1>3, GotoRewrites DEF IInv, Pc
  <2>3. "enqueue" \in Pc /\ "enqueue" \notin Early /\ up[u].answer \in Answer
    BY DEF Pc, Early, IInv, TypeOK, UploadState
  <2>4. Local(u) /\ TypeOK'
    BY <1>1, <2>1, <2>2, <2>3, RowWritten
  <2>5. HashOf(u) \in Hash /\ row'[HashOf(u)].job = u /\ row'[HashOf(u)].status = "queued"
    BY <2>1, Written
  <2>6. UpOK(u)'
    BY <1>1, <2>2, <2>5 DEF UpOK, Rewrites, HashOf, Checked, Committed, Owns
  <2> QED
    BY <2>4, <2>6, StepKeeps
<1> QED
  BY <1>2, <1>3 DEF InsertJob

LEMMA EnqueueStep ==
  ASSUME IInv, NEW u \in Upload, Enqueue(u)
  PROVE  IInv'
<1>1. /\ up[u].pc = "enqueue" /\ UNCHANGED <<lock, row, object>> /\ UpOK(u)
      /\ HashOf(u) \in Hash /\ Accepted(HashOf(u), object[u])
  BY AdmittedIsAccepted DEF Enqueue, At, IInv, UpInv, UpOK, Checked
<1>2. PICK pc \in {"mark", "done"}, a \in {up[u].answer, "accepted"} :
        /\ Rewrites(u, pc, HashOf(u), a)
        /\ pc = "done" => sent' = sent \cup {u}
        /\ pc = "mark" => up'[u].type = up[u].type /\ a = up[u].answer
        /\ sent' \in {sent, sent \cup {u}}
  <2>1. CASE sent' = sent \cup {u} /\ Reply(u, "accepted")
    BY <2>1, ReplyRewrites DEF IInv, Answer
  <2>2. CASE sent' \in {sent, sent \cup {u}} /\ Goto(u, "mark")
    BY <2>2, GotoRewrites DEF IInv, Pc
  <2> QED
    BY <2>1, <2>2 DEF Enqueue
<1>3. Local(u) /\ TypeOK'
  BY <1>1, <1>2 DEF IInv, TypeOK, Local, Rewrites, HashOf, Early
<1>4. UpOK(u)'
  BY <1>1, <1>2 DEF UpOK, Rewrites, HashOf, Checked, Committed, Owns
<1> QED
  BY <1>3, <1>4, StepKeeps

LEMMA MarkStep ==
  ASSUME IInv, NEW u \in Upload, MarkEnqueueFailed(u)
  PROVE  IInv'
<1>1. /\ up[u].pc = "mark" /\ UNCHANGED <<lock, object, sent>> /\ UpOK(u)
      /\ HashOf(u) \in Hash /\ Owns(u)
  BY DEF MarkEnqueueFailed, At, IInv, UpInv, UpOK, Checked
<1>2. Writes(u, "failed")
  <2> DEFINE rec == [row[HashOf(u)] EXCEPT !.status = "failed"]
  <2>1. row[HashOf(u)] \in [status : {"none", "queued", "failed"}, job : Upload \cup {None}]
    BY <1>1 DEF IInv, TypeOK
  <2>2. rec = [status |-> "failed", job |-> u]
    BY <1>1, <2>1 DEF Owns
  <2>3. row' = [row EXCEPT ![HashOf(u)] = rec]
    BY DEF MarkEnqueueFailed
  <2> HIDE DEF rec
  <2> QED
    BY <1>1, <2>2, <2>3 DEF Writes, Checked
<1>3. Rewrites(u, "done", HashOf(u), "error")
  BY ReplyRewrites DEF MarkEnqueueFailed, IInv, Answer
<1>4. Local(u) /\ TypeOK'
  BY <1>1, <1>2, <1>3, RowWritten DEF Pc, Answer, Early
<1>5. row'[HashOf(u)].job = u /\ row'[HashOf(u)].status = "failed"
  BY <1>2, Written
<1>6. UpOK(u)'
  BY <1>1, <1>3, <1>5 DEF UpOK, Rewrites, HashOf, Checked, Committed, Owns
<1> QED
  BY <1>4, <1>6, StepKeeps

LEMMA LockExpireStep ==
  ASSUME IInv, NEW h \in Hash, LockExpire(h)
  PROVE  IInv'
<1>1. TypeOK'
  BY DEF IInv, TypeOK, LockExpire
<1>2. UNCHANGED <<up, row, object, sent>>
  BY DEF LockExpire
<1> QED
  BY <1>1, <1>2 DEF IInv, UpInv, UpOK, RowInv, HashOf, Committed, Owns

LEMMA StepIInv ==
  ASSUME IInv, [Next]_vars
  PROVE  IInv'
<1>1. ASSUME NEW u \in Upload, Arrive(u) \/ Serve(u) \/ Die(u)
      PROVE  IInv'
  BY <1>1, ArriveStep, FetchStep, CheckStep, LookupStep, LockStep, PollStep, GiveUpStep,
     PutStep, InsertStep, EnqueueStep, MarkStep, DieStep DEF Serve
<1>2. ASSUME NEW h \in Hash, LockExpire(h)
      PROVE  IInv'
  BY <1>2, LockExpireStep
<1>3. CASE UNCHANGED vars
  BY <1>3 DEF vars, IInv, TypeOK, UpInv, UpOK, RowInv, HashOf, Committed, Owns
<1> QED
  BY <1>1, <1>2, <1>3 DEF Next

(* However uploads race, fail or die, what each has found out stays true    *)
(* and the row of a content names the upload that inserted it.              *)
THEOREM Inductive == Spec => []IInv
BY InitIInv, StepIInv, PTL DEF Spec

(* The variables keep their types.                                         *)
THEOREM TypeCorrect == Spec => []TypeOK
<1>1. IInv => TypeOK
  BY DEF IInv
<1> QED
  BY <1>1, Inductive, PTL

(* Of one content at most one job is handed to the queue, for any number    *)
(* of uploads and however the Redis lock expires: the UNIQUE alone carries   *)
(* it.                                                                      *)
THEOREM OneJob == Spec => []OneJobPerContent
<1>1. IInv => OneJobPerContent
  BY DEF IInv, TypeOK, UpInv, UpOK, OneJobPerContent, Owns
<1> QED
  BY <1>1, Inductive, PTL

(* A job row that says 'queued' was sent, is about to be, or its upload's   *)
(* process died.                                                            *)
THEOREM QueuedWasSent == Spec => []QueuedIsSent
<1>1. IInv => QueuedIsSent
  <2> SUFFICES ASSUME IInv, NEW h \in Hash, row[h].status = "queued"
               PROVE  LET u == row[h].job
                      IN  u \in sent \/ up[u].pc \in {"enqueue", "mark"} \/ up[u].answer = "lost"
    BY DEF QueuedIsSent
  <2>1. PICK u \in Upload : row[h].job = u /\ HashOf(u) = h
    BY DEF IInv, RowInv, Committed
  <2>2. UpOK(u)
    BY DEF IInv, UpInv
  <2> QED
    BY <2>1, <2>2 DEF UpOK, Owns
<1> QED
  BY <1>1, Inductive, PTL

(* A message on the queue names an object that exists, whatever was fetched,  *)
(* declared or stored; the worker refuses it only if ALLOWED_CONTENT_TYPES   *)
(* has a type that the worker's own list has not.                           *)
THEOREM JobsHaveObjects == Spec => []JobHasObject
<1>1. IInv => JobHasObject
  BY DEF IInv, TypeOK, UpInv, UpOK, JobHasObject, Accepted
<1> QED
  BY <1>1, Inductive, PTL
-----------------------------------------------------------------------------
(* What the Redis lock is for.  The key of a content outlasts its uploads    *)
(* when it never goes while one of them stands between its lookup and its    *)
(* insert; then no two of them store the content, and no insert finds that   *)
(* another one has won.                                                     *)
Placing == {"store", "insert"}

LockOutlasts ==
  [][\A h \in Hash : lock[h] /\ ~lock'[h] =>
       \A u \in Upload : HashOf(u) = h => up[u].pc \notin {"lock"} \cup Placing]_vars

OneAtATime ==
  \A u \in Upload : up[u].pc \in Placing =>
    /\ ~Committed(HashOf(u))
    /\ \A x \in Upload : up[x].pc \in Placing /\ HashOf(x) = HashOf(u) => x = u

(* The key is there while an upload is placing its content, and for those    *)
(* that have looked up in vain before another one placed it.                *)
LockHeld ==
  \A u \in Upload : up[u].pc \in Placing \/ (up[u].pc = "lock" /\ Committed(HashOf(u))) =>
    lock[HashOf(u)]

(* A request's step as the lock sees it.                                   *)
LEMMA LockPath ==
  ASSUME IInv, NEW u \in Upload, Arrive(u) \/ Serve(u) \/ Die(u)
  PROVE  /\ \A x \in Upload \ {u} : up'[x] = up[x]
         /\ \A h \in Hash : lock[h] => lock'[h]
         /\ \A h \in Hash : Committed(h)' => Committed(h) \/ (up[u].pc = "insert" /\ h = HashOf(u))
         /\ up'[u].pc \in {"lock"} \cup Placing =>
              /\ HashOf(u)' = HashOf(u) /\ HashOf(u) \in Hash
              /\ \/ up[u].pc = "lookup" /\ up'[u].pc = "lock" /\ ~Committed(HashOf(u))
                 \/ /\ up[u].pc = "lock" /\ up'[u].pc = "store"
                    /\ ~lock[HashOf(u)] /\ lock'[HashOf(u)]
                 \/ up[u].pc = "store" /\ up'[u].pc = "insert"
<1> DEFINE Others == \A x \in Upload \ {u} : up'[x] = up[x]
           Ends == up'[u].pc \notin {"lock"} \cup Placing
<1>0. /\ TypeOK /\ UpOK(u) /\ up[u] \in UploadState
      /\ \A a \in Answer : Reply(u, a) => Others /\ Ends
      /\ Refuse(u) => Others /\ Ends
      /\ \A pc \in Pc : Goto(u, pc) => Others /\ up'[u].pc = pc /\ HashOf(u)' = HashOf(u)
  <2>1. TypeOK /\ UpOK(u) /\ up[u] \in UploadState
    BY DEF IInv, UpInv, TypeOK
  <2>2. \A a \in Answer : Reply(u, a) => Rewrites(u, "done", HashOf(u), a)
    BY <2>1, ReplyRewrites
  <2>3. Refuse(u) => Rewrites(u, "done", None, "refused")
    BY <2>1, RefuseRewrites
  <2>4. \A pc \in Pc : Goto(u, pc) => Rewrites(u, pc, HashOf(u), up[u].answer)
    BY <2>1, GotoRewrites
  <2> QED
    BY <2>1, <2>2, <2>3, <2>4 DEF Rewrites, Placing, HashOf
<1> HIDE DEF Others, Ends
<1> USE DEF At, Placing
<1>1. CASE Arrive(u) \/ Fetch(u) \/ Poll(u)
  <2>1. UNCHANGED <<lock, row>>
    BY <1>1 DEF Arrive, Fetch, Poll
  <2>2. ASSUME NEW rec, up' = [up EXCEPT ![u] = rec] PROVE Others /\ up'[u] = rec
    BY <1>0, <2>2 DEF TypeOK, Others
  <2>3. CASE Arrive(u)
    <3>1. PICK h \in Hash, declared \in Type, next \in {"check", "fetch"} :
            up' = [up EXCEPT ![u] = [@ EXCEPT !.pc = next, !.hash = h, !.type = declared]]
      BY <2>3 DEF Arrive
    <3> DEFINE rec == [up[u] EXCEPT !.pc = next, !.hash = h, !.type = declared]
    <3>2. rec.pc = next
      BY <1>0 DEF UploadState
    <3>3. Others /\ up'[u] = rec
      BY <2>2, <3>1
    <3> HIDE DEF rec
    <3> QED
      BY <2>1, <3>2, <3>3 DEF Committed, Others
  <2>4. CASE Fetch(u)
    <3> DEFINE rec == [up[u] EXCEPT !.pc = "check", !.type = Sniffed(HashOf(u), up[u].type)]
    <3>0. rec.pc = "check"
      BY <1>0 DEF UploadState
    <3>1. Others /\ Ends
      <4>1. CASE Refuse(u)
        BY <1>0, <4>1
      <4>2. CASE up' = [up EXCEPT ![u] = rec]
        <5>1. Others /\ up'[u] = rec
          BY <2>2, <4>2
        <5> HIDE DEF rec
        <5> QED
          BY <3>0, <5>1 DEF Ends
      <4> QED
        BY <2>4, <4>1, <4>2 DEF Fetch
    <3> QED
      BY <2>1, <3>1 DEF Committed, Others, Ends
  <2>5. CASE Poll(u)
    <3>1. up[u].pc = "wait" /\ (Reply(u, "deduplicated") \/ up' = [up EXCEPT ![u].polls = @ + 1])
      BY <2>5 DEF Poll
    <3>2. Others /\ Ends
      BY <1>0, <2>2, <3>1 DEF Answer, Ends, UploadState
    <3> QED
      BY <2>1, <3>2 DEF Committed, Others, Ends
  <2> QED
    BY <1>1, <2>3, <2>4, <2>5
<1>2. CASE Check(u)
  BY <1>0, <1>2 DEF Check, Committed, Others, Ends, Pc
<1>3. CASE LookupJob(u)
  BY <1>0, <1>3 DEF LookupJob, Committed, Others, Ends, Pc, Answer, UpOK, Checked
<1>4. CASE AcquireIngestLock(u)
  <2>1. HashOf(u) \in Hash /\ up[u].pc = "lock"
    BY <1>0, <1>4 DEF AcquireIngestLock, UpOK, Checked
  <2>2. \A h \in Hash : lock[h] => lock'[h]
    BY <1>0, <1>4 DEF AcquireIngestLock, TypeOK
  <2>3. lock'[HashOf(u)]
    BY <1>0, <1>4, <2>1 DEF AcquireIngestLock, TypeOK
  <2> QED
    BY <1>0, <1>4, <2>1, <2>2, <2>3 DEF AcquireIngestLock, Committed, Others, Pc
<1>5. CASE GiveUp(u) \/ Die(u)
  BY <1>0, <1>5 DEF GiveUp, Die, Committed, Others, Ends, Answer
<1>6. CASE PutObject(u)
  BY <1>0, <1>6 DEF PutObject, Committed, Others, Ends, Pc, Answer, UpOK, Checked
<1>7. CASE InsertJob(u)
  BY <1>0, <1>7 DEF InsertJob, Committed, Others, Ends, Pc, Answer, TypeOK
<1>8. CASE Enqueue(u)
  BY <1>0, <1>8 DEF Enqueue, Committed, Others, Ends, Pc, Answer
<1>9. CASE MarkEnqueueFailed(u)
  BY <1>0, <1>9 DEF MarkEnqueueFailed, Committed, Others, Ends, Pc, Answer, UpOK, TypeOK
<1> QED
  BY <1>1, <1>2, <1>3, <1>4, <1>5, <1>6, <1>7, <1>8, <1>9 DEF Serve

LEMMA StepOneAtATime ==
  ASSUME IInv, OneAtATime, LockHeld, NEW u \in Upload, Arrive(u) \/ Serve(u) \/ Die(u)
  PROVE  OneAtATime' /\ LockHeld'
<1>0. /\ up[u].pc \in Placing =>
           /\ ~Committed(HashOf(u)) /\ lock[HashOf(u)]
           /\ \A x \in Upload : up[x].pc \in Placing /\ HashOf(x) = HashOf(u) => x = u
      /\ up[u].pc = "lock" /\ Committed(HashOf(u)) => lock[HashOf(u)]
  BY DEF OneAtATime, LockHeld
<1>1. \A x \in Upload : up[x].pc \in {"lock"} \cup Placing => HashOf(x) \in Hash
  BY DEF IInv, UpInv, UpOK, Checked, Placing
<1>2. ASSUME NEW x \in Upload, up'[x].pc \in Placing
      PROVE  /\ ~Committed(HashOf(x))' /\ lock'[HashOf(x)'] /\ HashOf(x)' = HashOf(x)
             /\ x # u => up[x].pc \in Placing
             /\ x = u => \/ up[u].pc = "store"
                         \/ up[u].pc = "lock" /\ ~lock[HashOf(u)]
  <2>1. CASE x # u
    <3>1. up'[x] = up[x] /\ HashOf(x)' = HashOf(x) /\ HashOf(x) \in Hash
      BY <1>1, <1>2, <2>1, LockPath DEF HashOf
    <3>2. lock[HashOf(x)] /\ ~Committed(HashOf(x))
      BY <1>2, <3>1 DEF OneAtATime, LockHeld
    <3>3. ~(up[u].pc = "insert" /\ HashOf(x) = HashOf(u))
      BY <1>0, <1>2, <2>1, <3>1 DEF Placing
    <3>4. ~Committed(HashOf(x))' /\ lock'[HashOf(x)]
      BY <3>1, <3>2, <3>3, LockPath DEF Committed
    <3> QED
      BY <1>2, <2>1, <3>1, <3>4
  <2>2. CASE x = u
    <3>1. /\ HashOf(u)' = HashOf(u) /\ HashOf(u) \in Hash /\ lock'[HashOf(u)]
          /\ \/ up[u].pc = "store"
             \/ up[u].pc = "lock" /\ ~lock[HashOf(u)]
      BY <1>0, <1>2, <2>2, LockPath DEF Placing
    <3>2. ~Committed(HashOf(u))
      BY <1>0, <3>1 DEF Placing
    <3>3. ~Committed(HashOf(u))'
      BY <3>1, <3>2, LockPath DEF Committed
    <3> QED
      BY <2>2, <3>1, <3>3
  <2> QED
    BY <2>1, <2>2
<1>3. OneAtATime'
  <2> SUFFICES ASSUME NEW x \in Upload, NEW y \in Upload,
                      up'[x].pc \in Placing, up'[y].pc \in Placing,
                      HashOf(x)' = HashOf(y)', x # y
               PROVE  FALSE
    BY <1>2 DEF OneAtATime
  <2>1. HashOf(x) = HashOf(y)
    BY <1>2
  <2>2. CASE x # u /\ y # u
    BY <1>2, <2>1, <2>2 DEF OneAtATime
  <2>3. ASSUME NEW z \in Upload, up'[z].pc \in Placing, z # u, HashOf(z) = HashOf(u),
               up'[u].pc \in Placing
        PROVE  FALSE
    <3>1. up[z].pc \in Placing /\ lock[HashOf(u)]
      BY <1>2, <2>3 DEF LockHeld
    <3>2. up[u].pc = "store"
      BY <1>2, <2>3, <3>1
    <3> QED
      BY <1>0, <2>3, <3>1, <3>2 DEF Placing
  <2> QED
    BY <2>1, <2>2, <2>3
<1>4. LockHeld'
  <2> SUFFICES ASSUME NEW x \in Upload, up'[x].pc = "lock", Committed(HashOf(x))'
               PROVE  lock'[HashOf(x)']
    BY <1>2 DEF LockHeld
  <2>1. CASE x # u
    <3>1. up'[x] = up[x] /\ HashOf(x)' = HashOf(x) /\ HashOf(x) \in Hash
      BY <1>1, <2>1, LockPath DEF HashOf
    <3>2. Committed(HashOf(x)) \/ (up[u].pc = "insert" /\ HashOf(x) = HashOf(u))
      BY <3>1, LockPath DEF Committed
    <3>3. lock[HashOf(x)]
      BY <1>0, <3>1, <3>2 DEF LockHeld, Placing
    <3> QED
      BY <3>1, <3>3, LockPath
  <2>2. CASE x = u
    <3>1. HashOf(u)' = HashOf(u) /\ HashOf(u) \in Hash /\ up[u].pc = "lookup" /\ ~Committed(HashOf(u))
      BY <2>2, LockPath DEF Placing
    <3> QED
      BY <2>2, <3>1, LockPath DEF Committed
  <2> QED
    BY <2>1, <2>2
<1> QED
  BY <1>3, <1>4

(* An expiry that waits for the uploads takes nothing from them.           *)
LEMMA ExpireOneAtATime ==
  ASSUME IInv, OneAtATime, LockHeld, NEW h \in Hash, LockExpire(h),
         \A k \in Hash : lock[k] /\ ~lock'[k] =>
           \A u \in Upload : HashOf(u) = k => up[u].pc \notin {"lock"} \cup Placing
  PROVE  OneAtATime' /\ LockHeld'
<1>1. OneAtATime'
  BY DEF LockExpire, OneAtATime, Committed, HashOf
<1>2. LockHeld'
  <2> SUFFICES ASSUME NEW u \in Upload,
                      up[u].pc \in Placing \/ (up[u].pc = "lock" /\ Committed(HashOf(u)))
               PROVE  lock'[HashOf(u)]
    BY DEF LockExpire, LockHeld, Committed, HashOf
  <2>1. HashOf(u) \in Hash /\ lock[HashOf(u)]
    BY DEF IInv, UpInv, UpOK, Checked, Placing, LockHeld
  <2> QED
    BY <2>1
<1> QED
  BY <1>1, <1>2

(* With a lock that outlasts them the uploads of one content place it one at *)
(* a time, and the branch of the insert that loses the race                 *)
(* (ingest_service.py, UniqueViolation) is never reached; the UNIQUE is what *)
(* is left when the 120 seconds are too short.                              *)
THEOREM OutlastingLockPreventsRace == Spec /\ LockOutlasts => []OneAtATime
<1> DEFINE Outlasts == \A h \in Hash : lock[h] /\ ~lock'[h] =>
                         \A u \in Upload : HashOf(u) = h => up[u].pc \notin {"lock"} \cup Placing
<1>1. Init => OneAtATime /\ LockHeld
  BY DEF Init, OneAtATime, LockHeld, Placing
<1>2. IInv /\ OneAtATime /\ LockHeld /\ [Next]_vars /\ [Outlasts]_vars =>
        OneAtATime' /\ LockHeld'
  <2>1. CASE UNCHANGED vars
    BY <2>1 DEF vars, OneAtATime, LockHeld, Committed, HashOf
  <2> QED
    BY <2>1, StepOneAtATime, ExpireOneAtATime DEF Next
<1> QED
  BY <1>1, <1>2, Inductive, PTL DEF Spec, LockOutlasts
=============================================================================
