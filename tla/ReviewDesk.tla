----------------------------- MODULE ReviewDesk -----------------------------
(***************************************************************************)
(* The human review desk of the API: claim_review, resolve_review and       *)
(* list_reviews (routes/review.py) with the Redis claim lock                *)
(* (redis_client.py) and the expiry sweep over review_queue                 *)
(* (review_claims.py).  A request is a sequence of Redis commands and SQL   *)
(* statements; requests interleave between any two of them.  Reads that     *)
(* decide nothing (the row returned to the client) and audit inserts are    *)
(* left out; an exception anywhere, a 4xx answer before the first write, or *)
(* the death of the process is Abort.                                       *)
(***************************************************************************)
EXTENDS Naturals

CONSTANTS Review,    \* rows of review_queue
          Reviewer,  \* names typed into the desk
          Request,   \* slots for claim and resolve requests in flight
          Poller,    \* slots for list requests: open dashboards
          TTL,       \* CLAIM_TTL_SECONDS, in ticks
          MaxTime,   \* bound: the clock stops there
          None

ASSUME TTLAssumption == TTL \in Nat \ {0}
ASSUME MaxTimeAssumption == MaxTime \in Nat
ASSUME SlotsAssumption == Request \cap Poller = {}
ASSUME NoReviewerAssumption == None \notin Reviewer

VARIABLES now,   \* the clock of the API, Redis and the timestamps
          lock,  \* the Redis key claim:<review>, with its expiry
          row,   \* the review_queue row
          req    \* the requests in flight

vars == <<now, lock, row, req>>

Slots == Request \cup Poller
Time == 0..(MaxTime + TTL)

Resolution == {"approved", "rejected"}
NoLock == [owner |-> None, until |-> 0]
Pending == [status |-> "pending", by |-> None, expires |-> 0]

\* pc names the next command: the Redis commands of acquire_review_claim (get,
\* setnx, reget, expire), the SQL (sweep, free, claim, resolve), the owner check
\* of resolve (owner), and release_review_claim (relget, del).
Pc == {"idle", "get", "setnx", "reget", "expire", "sweep", "free", "claim",
       "owner", "resolve", "relget", "del"}

Idle == [pc |-> "idle", who |-> None, review |-> None, at |-> 0,
         choice |-> "approved", stale |-> {}]

ReqState == [pc     : Pc,
             who    : Reviewer \cup {None},
             review : Review \cup {None},
             at     : Time,             \* utcnow() of the handler; resolve only stamps the row with it
             choice : Resolution,
             stale  : SUBSET Review]    \* what the sweep's subquery has read

TypeOK ==
  /\ now \in 0..MaxTime
  /\ lock \in [Review -> [owner : Reviewer \cup {None}, until : Time]]
  /\ row \in [Review -> [status : {"pending", "claimed"} \cup Resolution,
                         by : Reviewer \cup {None}, expires : Time]]
  /\ req \in [Slots -> ReqState]
  /\ \A v \in Review : lock[v].until <= now + TTL /\ row[v].expires <= now + TTL

Init ==
  /\ now = 0
  /\ lock = [v \in Review |-> NoLock]
  /\ row = [v \in Review |-> Pending]
  /\ req = [h \in Slots |-> Idle]

At(h, pc) == req[h].pc = pc

Goto(h, pc) == req' = [req EXCEPT ![h].pc = pc]

Done(h) == req' = [req EXCEPT ![h] = Idle]

Owner(h) == lock[req[h].review].owner

SetLock(v, l) == lock' = [lock EXCEPT ![v] = l]

\* Mutant: the lock outlives CLAIM_TTL_SECONDS
LockTooLong(a) == [owner |-> a, until |-> now + TTL + 1]

LockFor(a) == [owner |-> a, until |-> now + TTL]
-----------------------------------------------------------------------------
(* acquire_review_claim.                                                   *)
ClaimStart(h) ==
  /\ At(h, "idle")
  /\ \E v \in Review, a \in Reviewer :
       req' = [req EXCEPT ![h] = [Idle EXCEPT !.pc = "get", !.who = a, !.review = v, !.at = now]]
  /\ UNCHANGED <<now, lock, row>>

\* another reviewer's lock: the request ends in a 409
AfterGet(h, ifFree) ==
  IF Owner(h) = req[h].who THEN Goto(h, "expire")
  ELSE IF Owner(h) = None THEN ifFree ELSE Done(h)

GetLock(h) ==
  /\ At(h, "get")
  /\ AfterGet(h, Goto(h, "setnx"))
  /\ UNCHANGED <<now, lock, row>>

SetNx(h) ==
  /\ At(h, "setnx")
  /\ IF Owner(h) = None
     THEN SetLock(req[h].review, LockFor(req[h].who)) /\ Goto(h, "sweep")
     ELSE UNCHANGED lock /\ Goto(h, "reget")
  /\ UNCHANGED <<now, row>>

\* the key may have gone again: (False, None), a 409 as well
GetAgain(h) ==
  /\ At(h, "reget")
  /\ AfterGet(h, Done(h))
  /\ UNCHANGED <<now, lock, row>>

\* EXPIRE acts on whatever key is there by now, or on none
ExpireLock(h) ==
  /\ At(h, "expire")
  /\ IF Owner(h) = None THEN UNCHANGED lock
     ELSE lock' = [lock EXCEPT ![req[h].review].until = now + TTL]
  /\ Goto(h, "sweep")
  /\ UNCHANGED <<now, row>>
-----------------------------------------------------------------------------
(* Mutant: the comparison the wrong way round.                             *)
NotExpiredSql(v, t) == row[v].status = "claimed" /\ row[v].expires > t

(* release_expired_claims, from claim_review and list_reviews.  The SQL     *)
(* takes a claim without claim_expires_at too: claim_review writes none.    *)
ExpiredSql(v, t) == row[v].status = "claimed" /\ row[v].expires < t

ListStart(h) ==
  /\ At(h, "idle")
  /\ req' = [req EXCEPT ![h] = [Idle EXCEPT !.pc = "sweep", !.at = now]]
  /\ UNCHANGED <<now, lock, row>>

AfterSweep(h) == IF h \in Poller THEN Done(h)
                 ELSE req' = [req EXCEPT ![h].pc = "claim", ![h].stale = {}]

Free(vs) == row' = [v \in Review |-> IF v \in vs THEN Pending ELSE row[v]]

\* The UPDATE joins review_queue with a subquery on review_queue.  PostgreSQL
\* (READ COMMITTED) reads the subquery first ...
Sweep(h) ==
  /\ At(h, "sweep")
  /\ req' = [req EXCEPT ![h].pc = "free",
                        ![h].stale = {v \in Review : ExpiredSql(v, req[h].at)}]
  /\ UNCHANGED <<now, lock, row>>

\* ... and a row that changed before its write is checked again by the join's id only,
\* so it is freed all the same.
FreeStale(h) ==
  /\ At(h, "free")
  /\ Free(req[h].stale)
  /\ AfterSweep(h)
  /\ UNCHANGED <<now, lock>>
-----------------------------------------------------------------------------
(* Mutant: a claimed row goes to whoever asks.                             *)
AnyoneMayClaim(v, a, t) == row[v].status \in {"pending", "claimed"}

(* claim_review's UPDATE; no row: release the lock and answer 409.         *)
Claimable(v, a, t) ==
  \/ row[v].status = "pending"
  \/ ExpiredSql(v, t)
  \/ row[v].status = "claimed" /\ row[v].by = a

ClaimRow(h) ==
  /\ At(h, "claim")
  /\ LET v == req[h].review IN
       IF Claimable(v, req[h].who, req[h].at)
       THEN /\ row' = [row EXCEPT ![v] = [status |-> "claimed", by |-> req[h].who,
                                          expires |-> req[h].at + TTL]]
            /\ Done(h)
       ELSE UNCHANGED row /\ Goto(h, "relget")
  /\ UNCHANGED <<now, lock>>

(* resolve_review: the lock check, the UPDATE, then the lock is released.  *)
ResolveStart(h) ==
  /\ At(h, "idle")
  /\ \E v \in Review, a \in Reviewer, c \in Resolution :
       req' = [req EXCEPT ![h] = [Idle EXCEPT !.pc = "owner", !.who = a, !.review = v,
                                              !.choice = c]]
  /\ UNCHANGED <<now, lock, row>>

CheckOwner(h) ==
  /\ At(h, "owner")
  /\ IF Owner(h) = req[h].who THEN Goto(h, "resolve") ELSE Done(h)
  /\ UNCHANGED <<now, lock, row>>

\* Mutant: the UPDATE asks for the reviewer only
ResolveTwice(h) ==
  /\ At(h, "resolve")
  /\ LET v == req[h].review IN
       IF row[v].by = req[h].who
       THEN row' = [row EXCEPT ![v].status = req[h].choice] /\ Goto(h, "relget")
       ELSE UNCHANGED row /\ Done(h)
  /\ UNCHANGED <<now, lock>>

ResolveRow(h) ==
  /\ At(h, "resolve")
  /\ LET v == req[h].review IN
       IF row[v].status = "claimed" /\ row[v].by = req[h].who
       THEN row' = [row EXCEPT ![v].status = req[h].choice] /\ Goto(h, "relget")
       ELSE UNCHANGED row /\ Done(h)
  /\ UNCHANGED <<now, lock>>

(* release_review_claim: GET, then DELETE of whatever is there by then.    *)
ReleaseGet(h) ==
  /\ At(h, "relget")
  /\ IF Owner(h) = req[h].who THEN Goto(h, "del") ELSE Done(h)
  /\ UNCHANGED <<now, lock, row>>

ReleaseDel(h) ==
  /\ At(h, "del")
  /\ SetLock(req[h].review, NoLock)
  /\ Done(h)
  /\ UNCHANGED <<now, row>>
-----------------------------------------------------------------------------
Abort(h) ==
  /\ ~At(h, "idle")
  /\ Done(h)
  /\ UNCHANGED <<now, lock, row>>

(* Time passes; Redis drops the keys that have outlived their expiry.      *)
Tick ==
  /\ now < MaxTime
  /\ now' = now + 1
  /\ lock' = [v \in Review |-> IF lock[v].until <= now + 1 THEN NoLock ELSE lock[v]]
  /\ UNCHANGED <<row, req>>

(* Redis restarts; it may have lost any keys since its last snapshot.      *)
RedisRestart ==
  /\ \E lost \in SUBSET Review :
       lock' = [v \in Review |-> IF v \in lost THEN NoLock ELSE lock[v]]
  /\ UNCHANGED <<now, row, req>>

Listing(h) == ListStart(h) \/ Sweep(h) \/ FreeStale(h)

Handling(h) ==
  \/ ClaimStart(h) \/ GetLock(h) \/ SetNx(h) \/ GetAgain(h) \/ ExpireLock(h)
  \/ Sweep(h) \/ FreeStale(h) \/ ClaimRow(h)
  \/ ResolveStart(h) \/ CheckOwner(h) \/ ResolveRow(h) \/ ReleaseGet(h) \/ ReleaseDel(h)

Next ==
  \/ \E h \in Request : Handling(h)
  \/ \E h \in Poller : Listing(h)
  \/ \E h \in Slots : Abort(h)
  \/ Tick
  \/ RedisRestart

Spec == Init /\ [][Next]_vars

(* Dashboards keep polling (App.tsx) and not every poll fails; time passes. *)
(* Nothing is assumed of the reviewers.                                     *)
Fairness ==
  /\ WF_vars(Tick)
  /\ \A h \in Poller : /\ WF_vars(ListStart(h))
                       /\ SF_vars(Sweep(h))
                       /\ SF_vars(FreeStale(h))

FairSpec == Spec /\ Fairness
-----------------------------------------------------------------------------
(* The rows as leases.                                                     *)
LeaseOf(v) ==
  CASE row[v].status = "pending" -> [phase |-> "free", by |-> None, until |-> 0]
    [] row[v].status = "claimed" -> [phase |-> "held", by |-> row[v].by, until |-> row[v].expires]
    [] OTHER                     -> [phase |-> "closed", by |-> row[v].by, until |-> 0]

Lease == INSTANCE ClaimLease WITH clock <- now, lease <- [v \in Review |-> LeaseOf(v)]

(* No row a sweep has read is claimed or resolved before the sweep writes    *)
(* it; another sweep may have freed it.  Nothing in release_expired_claims   *)
(* sees to that.                                                            *)
SweepsUndisturbed ==
  \A h \in Slots : At(h, "free") /\ At(h, "free")' =>
    \A v \in req[h].stale : row'[v] = row[v] \/ row'[v].status = "pending"

(* As long as sweeps are undisturbed, the desk is a lease: whatever requests *)
(* race, fail half-way or lose their Redis lock, nobody gets a review before *)
(* the current claim has run out, and an approved or rejected review stays   *)
(* as it is.                                                                *)
ImplementsLease == Lease!LeaseSpec

(* Whatever a sweep frees by mistake, nobody takes a review over from the    *)
(* reviewer who has it (the WHERE clause of claim_review's UPDATE): it is    *)
(* free first, or its claim has run out, and only its holder closes it.      *)
NeverTakenOver == Lease!RevocableSpec

(* As long as sweeps are undisturbed, what a reviewer has decided stands,    *)
(* verdict and name, for that reviewer's second thoughts and second clicks   *)
(* too (the status = 'claimed' of resolve_review's UPDATE).                 *)
ResolvedIsFinal == [][\A v \in Review : row[v].status \in Resolution => row'[v] = row[v]]_vars

(* README, "Claim locks": a crashed reviewer cannot strand an item.  Every  *)
(* claim that runs out while the clock still runs is eventually ended,      *)
(* renewed or resolved.                                                     *)
NotStranded ==
  \A v \in Review, t \in 0..MaxTime :
    t < MaxTime /\ row[v].status = "claimed" /\ row[v].expires = t
      ~> ~(row[v].status = "claimed" /\ row[v].expires = t)

(* redis_client.py:68, "Drop the claim lock if owned by this reviewer."    *)
ReleaseDropsOwnLock ==
  [][\A h \in Request :
       At(h, "del") /\ ~At(h, "del")' /\ lock' # lock => Owner(h) = req[h].who]_vars

(* review_claims.py:70, "Return expired claimed rows to pending": only     *)
(* those.                                                                   *)
OnlyExpiredReturn ==
  [][\A v \in Review :
       row[v].status # "pending" /\ row'[v].status = "pending" => ExpiredSql(v, now)]_vars
=============================================================================
