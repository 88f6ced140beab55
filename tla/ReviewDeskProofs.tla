------------------------- MODULE ReviewDeskProofs --------------------------
(***************************************************************************)
(* Theorems of ReviewDesk, for any reviews, reviewers, requests in flight   *)
(* and time to live.                                                        *)
(***************************************************************************)
EXTENDS ReviewDesk, TLAPS

USE TTLAssumption, MaxTimeAssumption, SlotsAssumption, NoReviewerAssumption

Lock == [owner : Reviewer \cup {None}, until : Time]
Row == [status : {"pending", "claimed"} \cup Resolution, by : Reviewer \cup {None}, expires : Time]

(* A request took its time from the clock, and knows whom and what it is    *)
(* about.                                                                   *)
ReqOK(h) ==
  /\ req[h].at <= now
  /\ h \in Request /\ req[h].pc # "idle" => req[h].who \in Reviewer /\ req[h].review \in Review

IInv == TypeOK /\ \A h \in Slots : ReqOK(h)

LEMMA Clock ==
  ASSUME TypeOK
  PROVE  /\ now \in Nat /\ now \in 0..MaxTime /\ now + TTL \in Time /\ now \in Time /\ 0 \in Time
         /\ \A t \in Time : t \in Nat
BY DEF TypeOK, Time

LEMMA IdleTyped == Idle \in ReqState /\ Idle.at = 0 /\ Idle.pc = "idle"
BY DEF Idle, ReqState, Pc, Time, Resolution

LEMMA InitIInv == Init => IInv
<1> SUFFICES ASSUME Init PROVE IInv
  OBVIOUS
<1>1. now \in 0..MaxTime /\ 0 \in Time
  BY DEF Init, Time
<1>2. NoLock \in Lock /\ Pending \in Row
  BY <1>1 DEF NoLock, Pending, Lock, Row
<1>3. TypeOK
  BY <1>1, <1>2, IdleTyped DEF Init, TypeOK, Lock, Row, NoLock, Pending
<1>4. \A h \in Slots : ReqOK(h)
  BY IdleTyped DEF Init, ReqOK
<1> QED
  BY <1>3, <1>4 DEF IInv

(* How a step of request h leaves the records of the requests.             *)
Served == req' \in [Slots -> ReqState] /\ \A h \in Slots : ReqOK(h)'

LEMMA Replaced ==
  ASSUME IInv, NEW h \in Slots, NEW r \in ReqState, req' = [req EXCEPT ![h] = r], now' = now,
         r.at <= now,
         h \in Request /\ r.pc # "idle" => r.who \in Reviewer /\ r.review \in Review
  PROVE  Served
<1>1. req' \in [Slots -> ReqState] /\ req'[h] = r /\ \A x \in Slots \ {h} : req'[x] = req[x]
  BY DEF IInv, TypeOK
<1> QED
  BY <1>1 DEF Served, IInv, ReqOK

LEMMA DoneServed ==
  ASSUME IInv, NEW h \in Slots, Done(h), now' = now
  PROVE  Served
<1>1. Idle.at <= now
  BY IdleTyped, Clock DEF IInv
<1> QED
  BY <1>1, IdleTyped, Replaced DEF Done

LEMMA GotoServed ==
  ASSUME IInv, NEW h \in Slots, NEW pc \in Pc \ {"idle", "free"}, Goto(h, pc), now' = now,
         req[h].pc # "idle"
  PROVE  Served
<1> DEFINE r == [req[h] EXCEPT !.pc = pc]
<1>1. req[h] \in ReqState /\ ReqOK(h)
  BY DEF IInv, TypeOK
<1>2. /\ r \in ReqState /\ r.pc = pc /\ r.at = req[h].at /\ r.who = req[h].who
      /\ r.review = req[h].review
  BY <1>1 DEF ReqState
<1>3. req' = [req EXCEPT ![h] = r]
  BY DEF Goto
<1> HIDE DEF r
<1> QED
  BY <1>1, <1>2, <1>3, Replaced DEF ReqOK

LEMMA AfterSweepServed ==
  ASSUME IInv, NEW h \in Slots, AfterSweep(h), now' = now, req[h].pc # "idle"
  PROVE  Served
<1>1. CASE h \in Poller
  BY <1>1, DoneServed DEF AfterSweep
<1>2. CASE h \notin Poller
  <2> DEFINE r == [req[h] EXCEPT !.pc = "claim", !.stale = {}]
  <2>1. req[h] \in ReqState /\ ReqOK(h)
    BY DEF IInv, TypeOK
  <2>2. /\ r \in ReqState /\ r.pc = "claim" /\ r.at = req[h].at /\ r.who = req[h].who
        /\ r.review = req[h].review
    BY <2>1 DEF ReqState, Pc
  <2>3. req' = [req EXCEPT ![h] = r]
    BY <1>2 DEF AfterSweep, IInv, TypeOK
  <2> HIDE DEF r
  <2> QED
    BY <2>1, <2>2, <2>3, Replaced DEF ReqOK
<1> QED
  BY <1>1, <1>2

(* The locks and the rows, typed and never good for longer than TTL.       *)
Locks == lock \in [Review -> Lock] /\ \A v \in Review : lock[v].until <= now + TTL
Rows == row \in [Review -> Row] /\ \A v \in Review : row[v].expires <= now + TTL

LEMMA Parts == TypeOK <=> now \in 0..MaxTime /\ Locks /\ Rows /\ req \in [Slots -> ReqState]
BY DEF TypeOK, Locks, Rows, Lock, Row

LEMMA PartsPrime ==
  ASSUME now' \in 0..MaxTime, Locks', Rows', Served
  PROVE  IInv'
BY DEF IInv, TypeOK, Locks, Rows, Lock, Row, Served

(* A request that is running.                                              *)
LEMMA Running ==
  ASSUME IInv, NEW h \in Request, req[h].pc # "idle"
  PROVE  /\ h \in Slots /\ req[h] \in ReqState
         /\ req[h].who \in Reviewer /\ req[h].review \in Review
         /\ req[h].at \in Nat /\ req[h].at <= now
<1>1. h \in Slots
  BY DEF Slots
<1>2. req[h] \in ReqState /\ ReqOK(h)
  BY <1>1 DEF IInv, TypeOK
<1>3. req[h].at \in Time
  BY <1>2 DEF ReqState
<1> QED
  BY <1>1, <1>2, <1>3, Clock DEF IInv, ReqOK

(* The steps that write nothing.                                           *)
LEMMA QuietStep ==
  ASSUME IInv, NEW h \in Request, UNCHANGED <<now, lock, row>>,
         \/ ClaimStart(h) \/ GetLock(h) \/ GetAgain(h) \/ ResolveStart(h) \/ CheckOwner(h)
         \/ ReleaseGet(h)
  PROVE  Served
<1>1. h \in Slots /\ Idle \in ReqState /\ now \in Time /\ now <= now /\ 0 <= now
  BY IdleTyped, Clock DEF Slots, IInv
<1>2. CASE ClaimStart(h)
  <2>1. PICK v \in Review, a \in Reviewer :
          req' = [req EXCEPT ![h] = [Idle EXCEPT !.pc = "get", !.who = a, !.review = v, !.at = now]]
    BY <1>2 DEF ClaimStart
  <2> DEFINE r == [Idle EXCEPT !.pc = "get", !.who = a, !.review = v, !.at = now]
  <2>2. r \in ReqState /\ r.pc = "get" /\ r.who = a /\ r.review = v /\ r.at = now
    BY <1>1 DEF ReqState, Pc
  <2>3. req' = [req EXCEPT ![h] = r]
    BY <2>1
  <2> HIDE DEF r
  <2> QED
    BY <1>1, <2>2, <2>3, Replaced
<1>3. CASE ResolveStart(h)
  <2>1. PICK v \in Review, a \in Reviewer, c \in Resolution :
          req' = [req EXCEPT ![h] = [Idle EXCEPT !.pc = "owner", !.who = a, !.review = v,
                                                 !.choice = c]]
    BY <1>3 DEF ResolveStart
  <2> DEFINE r == [Idle EXCEPT !.pc = "owner", !.who = a, !.review = v, !.choice = c]
  <2>2. r \in ReqState /\ r.pc = "owner" /\ r.who = a /\ r.review = v /\ r.at = 0
    BY <1>1, IdleTyped DEF ReqState, Pc
  <2>3. req' = [req EXCEPT ![h] = r]
    BY <2>1
  <2> HIDE DEF r
  <2> QED
    BY <1>1, <2>2, <2>3, Replaced
<1>4. CASE GetLock(h) \/ GetAgain(h)
  <2>1. \/ Done(h)
        \/ req[h].pc # "idle" /\ \E pc \in {"expire", "setnx"} : Goto(h, pc)
    BY <1>4 DEF GetLock, GetAgain, AfterGet, At
  <2> QED
    BY <1>1, <2>1, DoneServed, GotoServed DEF Pc
<1>5. CASE CheckOwner(h) \/ ReleaseGet(h)
  <2>1. \/ Done(h)
        \/ req[h].pc # "idle" /\ \E pc \in {"resolve", "del"} : Goto(h, pc)
    BY <1>5 DEF CheckOwner, ReleaseGet, At
  <2> QED
    BY <1>1, <2>1, DoneServed, GotoServed DEF Pc
<1> QED
  BY <1>2, <1>3, <1>4, <1>5

(* The steps that write the Redis lock.                                    *)
LEMMA LockStep ==
  ASSUME IInv, NEW h \in Request, SetNx(h) \/ ExpireLock(h) \/ ReleaseDel(h)
  PROVE  Locks' /\ Served /\ UNCHANGED <<now, row>>
<1>1. /\ UNCHANGED <<now, row>> /\ h \in Slots /\ req[h].review \in Review /\ req[h].who \in Reviewer
      /\ req[h].pc # "idle"
  BY Running DEF SetNx, ExpireLock, ReleaseDel, At
<1>2. Locks /\ now + TTL \in Time /\ 0 \in Time /\ now + TTL \in Nat
  BY Parts, Clock DEF IInv
<1>3. Served
  <2>1. Done(h) \/ \E pc \in {"sweep", "reget"} : Goto(h, pc)
    BY DEF SetNx, ExpireLock, ReleaseDel
  <2> QED
    BY <1>1, <2>1, DoneServed, GotoServed DEF Pc
<1>4. Locks'
  <2>1. CASE lock' = lock
    BY <1>1, <1>2, <2>1 DEF Locks
  <2>2. ASSUME NEW l \in Lock, lock' = [lock EXCEPT ![req[h].review] = l], l.until <= now + TTL
        PROVE  Locks'
    BY <1>1, <1>2, <2>2 DEF Locks
  <2>3. NoLock \in Lock /\ LockFor(req[h].who) \in Lock
        /\ NoLock.until <= now + TTL /\ LockFor(req[h].who).until <= now + TTL
    BY <1>1, <1>2 DEF NoLock, LockFor, Lock
  <2>4. ASSUME lock' = [lock EXCEPT ![req[h].review].until = now + TTL]
        PROVE  Locks'
    <3> DEFINE l == [lock[req[h].review] EXCEPT !.until = now + TTL]
    <3>1. lock[req[h].review] \in Lock
      BY <1>1, <1>2 DEF Locks
    <3>2. l \in Lock /\ l.until = now + TTL
      BY <1>2, <3>1 DEF Lock
    <3>3. lock' = [lock EXCEPT ![req[h].review] = l]
      BY <2>4
    <3> HIDE DEF l
    <3>4. l.until <= now + TTL
      BY <1>2, <3>2
    <3> QED
      BY <2>2, <3>2, <3>3, <3>4
  <2> QED
    BY <2>1, <2>2, <2>3, <2>4 DEF SetNx, ExpireLock, ReleaseDel, SetLock
<1> QED
  BY <1>1, <1>3, <1>4

(* The rows seen as leases, and what a step does to them.                  *)
Leases == [v \in Review |-> LeaseOf(v)]
LeaseStep == [Lease!LeaseNext]_<<now, Leases>>
RevocableStep == [Lease!LeaseNext \/ Lease!Revoke]_<<now, Leases>>

LEMMA SameRows ==
  ASSUME UNCHANGED <<now, row>>
  PROVE  LeaseStep
BY DEF LeaseStep, Leases, LeaseOf

LEMMA LeaseIsRevocable == LeaseStep => RevocableStep
BY DEF LeaseStep, RevocableStep

(* What a sweep has read and will free has run out, or is free by now.     *)
StaleLapsed ==
  \A h \in Slots : At(h, "free") =>
    \A v \in req[h].stale : row[v].status = "pending" \/ ExpiredSql(v, now)

(* Freeing rows: a release, if each of them had run out or was free, and    *)
(* otherwise a revocation.                                                  *)
LEMMA FreeRows ==
  ASSUME IInv, NEW vs \in SUBSET Review, Free(vs), now' = now
  PROVE  /\ Rows'
         /\ (\A v \in vs : row[v].status = "pending" \/ ExpiredSql(v, now)) => LeaseStep
         /\ RevocableStep
<1>1. Rows /\ Pending \in Row /\ Pending.expires <= now + TTL
  BY Parts, Clock DEF IInv, Pending, Row
<1>2. Rows'
  BY <1>1 DEF Rows, Free
<1>0. \A v \in Review : LeaseOf(v)' = IF v \in vs THEN Lease!Free ELSE LeaseOf(v)
  BY DEF Free, LeaseOf, Lease!Free, Pending
<1>3. ASSUME \A v \in vs : row[v].status = "pending" \/ ExpiredSql(v, now)
      PROVE  Lease!Release
  <2> DEFINE ended == {v \in vs : row[v].status # "pending"}
  <2>2. \A v \in vs : row[v].status = "pending" => LeaseOf(v) = Lease!Free
    BY DEF LeaseOf, Lease!Free
  <2>3. \A v \in ended : LeaseOf(v).phase = "held" /\ LeaseOf(v).until < now
    BY <1>3 DEF LeaseOf, ExpiredSql
  <2>4. ended \in SUBSET {v \in Review : Lease!Lapsed(v)}
    BY <2>3 DEF Lease!Lapsed, Lease!Held
  <2>5. Leases' = [v \in Review |-> IF v \in ended THEN Lease!Free ELSE Leases[v]]
    BY <1>0, <2>2 DEF Leases
  <2> QED
    BY <2>4, <2>5 DEF Lease!Release, Leases
<1>4. Lease!Revoke
  <2>1. Leases' = [v \in Review |-> IF v \in vs THEN Lease!Free ELSE Leases[v]]
    BY <1>0 DEF Leases
  <2> QED
    BY <2>1 DEF Lease!Revoke, Leases
<1> QED
  BY <1>2, <1>3, <1>4 DEF LeaseStep, RevocableStep, Lease!LeaseNext

LEMMA SweepStep ==
  ASSUME IInv, NEW h \in Slots, Sweep(h) \/ FreeStale(h)
  PROVE  Rows' /\ Served /\ UNCHANGED <<now, lock>> /\ (StaleLapsed => LeaseStep) /\ RevocableStep
<1> DEFINE expired == {v \in Review : ExpiredSql(v, req[h].at)}
<1>1. /\ UNCHANGED <<now, lock>> /\ req[h] \in ReqState /\ ReqOK(h) /\ req[h].pc # "idle"
      /\ Rows /\ expired \in SUBSET Review
  BY Parts DEF IInv, TypeOK, Sweep, FreeStale, At
<1>2. CASE Sweep(h)
  <2> DEFINE r == [req[h] EXCEPT !.pc = "free", !.stale = expired]
  <2>1. /\ r \in ReqState /\ r.pc = "free" /\ r.at = req[h].at /\ r.who = req[h].who
        /\ r.review = req[h].review
    BY <1>1 DEF ReqState, Pc
  <2>2. req' = [req EXCEPT ![h] = r] /\ row' = row
    BY <1>2 DEF Sweep, IInv, TypeOK
  <2> HIDE DEF r
  <2>3. Served
    BY <1>1, <1>2, <2>1, <2>2, Replaced DEF ReqOK
  <2> QED
    BY <1>1, <2>2, <2>3, SameRows, LeaseIsRevocable DEF Rows
<1>3. CASE FreeStale(h)
  <2>1. Free(req[h].stale) /\ AfterSweep(h) /\ req[h].stale \in SUBSET Review
    BY <1>1, <1>3 DEF FreeStale, ReqState
  <2>2. StaleLapsed => \A v \in req[h].stale : row[v].status = "pending" \/ ExpiredSql(v, now)
    BY <1>3 DEF StaleLapsed, FreeStale
  <2> QED
    BY <1>1, <2>1, <2>2, FreeRows, AfterSweepServed
<1> QED
  BY <1>2, <1>3

(* One row is rewritten: a claim grants the lease, a resolution closes it.  *)
LEMMA OneRow ==
  ASSUME IInv, NEW v \in Review, NEW r \in Row, row' = [row EXCEPT ![v] = r], now' = now,
         r.expires <= now + TTL
  PROVE  /\ Rows'
         /\ r.status = "claimed" => Leases' = [Leases EXCEPT ![v] = Lease!HeldBy(r.by, r.expires)]
         /\ r.status \in Resolution => Leases' = [Leases EXCEPT ![v] = Lease!ClosedBy(r.by)]
<1>1. Rows
  BY Parts DEF IInv
<1>2. row'[v] = r /\ \A x \in Review \ {v} : row'[x] = row[x]
  BY <1>1 DEF Rows
<1>3. Rows'
  BY <1>1, <1>2 DEF Rows
<1>4. \A x \in Review \ {v} : LeaseOf(x)' = LeaseOf(x)
  BY <1>2 DEF LeaseOf
<1>5. ASSUME r.status = "claimed"
      PROVE  LeaseOf(v)' = Lease!HeldBy(r.by, r.expires)
  BY <1>2, <1>5 DEF LeaseOf, Lease!HeldBy
<1>6. ASSUME r.status \in Resolution
      PROVE  LeaseOf(v)' = Lease!ClosedBy(r.by)
  BY <1>2, <1>6 DEF LeaseOf, Lease!ClosedBy, Resolution
<1> QED
  BY <1>3, <1>4, <1>5, <1>6 DEF Leases

LEMMA ClaimStep ==
  ASSUME IInv, NEW h \in Request, ClaimRow(h)
  PROVE  Rows' /\ Served /\ UNCHANGED <<now, lock>> /\ LeaseStep
<1> DEFINE v == req[h].review
           a == req[h].who
           t == req[h].at
           r == [status |-> "claimed", by |-> a, expires |-> t + TTL]
<1>1. /\ UNCHANGED <<now, lock>> /\ h \in Slots /\ req[h].pc = "claim"
      /\ v \in Review /\ a \in Reviewer /\ t \in Nat /\ t <= now
      /\ now \in Nat /\ now \in 0..MaxTime /\ Rows
  BY Running, Clock, Parts DEF ClaimRow, At, IInv
<1>2. CASE ~Claimable(v, a, t)
  <2>1. Goto(h, "relget") /\ row' = row
    BY <1>2 DEF ClaimRow
  <2>2. "relget" \in Pc \ {"idle", "free"}
    BY DEF Pc
  <2>3. Served
    BY <1>1, <2>1, <2>2, GotoServed
  <2> QED
    BY <1>1, <2>1, <2>3, SameRows DEF Rows
<1>3. CASE Claimable(v, a, t)
  <2>1. row' = [row EXCEPT ![v] = r] /\ Done(h)
    BY <1>3 DEF ClaimRow
  <2>2. LeaseOf(v).phase = "free" \/ (LeaseOf(v).phase = "held" /\ LeaseOf(v).until < now)
        \/ (LeaseOf(v).phase = "held" /\ LeaseOf(v).by = a)
    <3>1. row[v].expires \in Nat
      BY <1>1, Clock DEF Rows, Row, IInv
    <3> QED
      BY <1>1, <1>3, <3>1 DEF Claimable, ExpiredSql, LeaseOf
  <2> HIDE DEF v, a, t
  <2>3. r \in Row /\ r.status = "claimed" /\ r.by = a /\ r.expires = t + TTL
        /\ t + TTL <= now + TTL /\ t + TTL \in 0..(now + TTL)
    BY <1>1 DEF Row, Time
  <2> HIDE DEF r
  <2>4. Rows' /\ Leases' = [Leases EXCEPT ![v] = Lease!HeldBy(a, t + TTL)]
    <3>1. r.expires <= now + TTL /\ now' = now
      BY <1>1, <2>3
    <3>2. Rows' /\ Leases' = [Leases EXCEPT ![v] = Lease!HeldBy(r.by, r.expires)]
      BY <1>1, <2>1, <2>3, <3>1, OneRow
    <3> QED
      BY <2>3, <3>2
  <2>5. Lease!Grant(v, a)
    BY <1>1, <2>2, <2>3, <2>4 DEF Lease!Grant, Lease!Lapsed, Lease!Held, Leases
  <2> QED
    BY <1>1, <2>1, <2>4, <2>5, DoneServed DEF LeaseStep, Lease!LeaseNext
<1> QED
  BY <1>2, <1>3

LEMMA ResolveStep ==
  ASSUME IInv, NEW h \in Request, ResolveRow(h)
  PROVE  Rows' /\ Served /\ UNCHANGED <<now, lock>> /\ LeaseStep
<1> DEFINE v == req[h].review
           a == req[h].who
           r == [row[v] EXCEPT !.status = req[h].choice]
<1>1. /\ UNCHANGED <<now, lock>> /\ h \in Slots /\ req[h].pc = "resolve" /\ Rows
      /\ v \in Review /\ a \in Reviewer /\ req[h].choice \in Resolution
  BY Running, Parts DEF ResolveRow, At, IInv, ReqState
<1>2. CASE row[v].status = "claimed" /\ row[v].by = a
  <2>1. row' = [row EXCEPT ![v] = r] /\ Goto(h, "relget")
    BY <1>2 DEF ResolveRow
  <2>2. row[v] \in Row /\ row[v].expires <= now + TTL
    BY <1>1 DEF Rows
  <2>3. /\ r \in Row /\ r.status \in Resolution /\ r.by = a /\ r.expires = row[v].expires
    BY <1>1, <1>2, <2>2 DEF Row
  <2>4. LeaseOf(v).phase = "held" /\ LeaseOf(v).by = a
    BY <1>2 DEF LeaseOf
  <2> HIDE DEF v, a, r
  <2>5. Rows' /\ Leases' = [Leases EXCEPT ![v] = Lease!ClosedBy(a)]
    BY <1>1, <2>1, <2>2, <2>3, OneRow
  <2>6. Lease!Close(v, a)
    BY <1>1, <2>4, <2>5 DEF Lease!Close, Lease!Held, Leases
  <2>7. Served
    BY <1>1, <2>1, GotoServed DEF Pc
  <2> QED
    BY <1>1, <2>5, <2>6, <2>7 DEF LeaseStep, Lease!LeaseNext
<1>3. CASE ~(row[v].status = "claimed" /\ row[v].by = a)
  <2>1. Done(h) /\ row' = row
    BY <1>3 DEF ResolveRow
  <2> QED
    BY <1>1, <2>1, DoneServed, SameRows DEF Rows
<1> QED
  BY <1>2, <1>3

LEMMA TickStep ==
  ASSUME IInv, Tick
  PROVE  IInv' /\ LeaseStep
<1>1. /\ now \in Nat /\ now < MaxTime /\ now' = now + 1 /\ UNCHANGED <<row, req>>
      /\ Locks /\ Rows /\ 0 \in Time
      /\ lock' = [v \in Review |-> IF lock[v].until <= now + 1 THEN NoLock ELSE lock[v]]
  BY Clock, Parts DEF Tick, IInv
<1>2. now' \in 0..MaxTime
  BY <1>1
<1>3. Rows'
  <2>1. \A v \in Review : row[v].expires \in Nat /\ row[v].expires <= now + TTL
    BY <1>1, Clock DEF Rows, Row, IInv
  <2> QED
    BY <1>1, <2>1 DEF Rows
<1>4. Locks'
  <2>1. \A v \in Review : lock[v].until \in Nat /\ lock[v].until <= now + TTL
    BY <1>1, Clock DEF Locks, Lock, IInv
  <2>2. NoLock \in Lock /\ NoLock.until = 0
    BY <1>1 DEF NoLock, Lock
  <2> QED
    BY <1>1, <2>1, <2>2 DEF Locks
<1>5. Served
  <2>1. req \in [Slots -> ReqState] /\ \A h \in Slots : ReqOK(h)
    BY DEF IInv, TypeOK
  <2>2. \A h \in Slots : req[h].at \in Nat
    BY <2>1, Clock DEF ReqState, IInv
  <2> QED
    BY <1>1, <2>1, <2>2 DEF Served, ReqOK
<1>6. Lease!Elapse
  BY <1>1 DEF Lease!Elapse, LeaseOf
<1> QED
  BY <1>2, <1>3, <1>4, <1>5, <1>6, PartsPrime DEF LeaseStep, Lease!LeaseNext

LEMMA RestartStep ==
  ASSUME IInv, RedisRestart
  PROVE  IInv' /\ LeaseStep
<1>1. UNCHANGED <<now, row, req>> /\ Locks /\ Rows /\ now \in 0..MaxTime /\ 0 <= now + TTL /\ 0 \in Time
  BY Clock, Parts DEF RedisRestart, IInv
<1>2. Locks'
  <2>1. NoLock \in Lock /\ NoLock.until = 0
    BY <1>1 DEF NoLock, Lock
  <2> QED
    BY <1>1, <2>1 DEF Locks, RedisRestart
<1>3. Rows' /\ Served
  BY <1>1 DEF Rows, Served, IInv, TypeOK, ReqOK
<1> QED
  BY <1>1, <1>2, <1>3, PartsPrime, SameRows

LEMMA ListStartServed ==
  ASSUME IInv, NEW h \in Poller, ListStart(h)
  PROVE  Served
<1> DEFINE r == [Idle EXCEPT !.pc = "sweep", !.at = now]
<1>1. h \in Slots /\ h \notin Request /\ now \in Time /\ now \in Nat /\ now' = now
  BY Clock DEF Slots, IInv, ListStart
<1>2. r \in ReqState /\ r.pc = "sweep" /\ r.at = now
  BY <1>1, IdleTyped DEF ReqState, Pc
<1>3. req' = [req EXCEPT ![h] = r]
  BY DEF ListStart
<1> HIDE DEF r
<1>4. r.at <= now
  BY <1>1, <1>2
<1> QED
  BY <1>1, <1>2, <1>3, <1>4, Replaced

(* Every step keeps the invariant; it is a step of the lease or none if no   *)
(* sweep frees what is claimed, and otherwise a revocation.                 *)
LEMMA Step ==
  ASSUME IInv, [Next]_vars
  PROVE  IInv' /\ (StaleLapsed => LeaseStep) /\ RevocableStep
<1>1. now \in 0..MaxTime /\ Locks /\ Rows
  BY Parts DEF IInv
<1>2. ASSUME UNCHANGED <<now, lock, row>>, Served
      PROVE  IInv' /\ LeaseStep /\ RevocableStep
  BY <1>1, <1>2, PartsPrime, SameRows, LeaseIsRevocable DEF Locks, Rows
<1>3. ASSUME NEW h \in Request, Handling(h)
      PROVE  IInv' /\ (StaleLapsed => LeaseStep) /\ RevocableStep
  <2>1. CASE \/ ClaimStart(h) \/ GetLock(h) \/ GetAgain(h) \/ ResolveStart(h) \/ CheckOwner(h)
             \/ ReleaseGet(h)
    <3>1. UNCHANGED <<now, lock, row>>
      BY <2>1 DEF ClaimStart, GetLock, GetAgain, ResolveStart, CheckOwner, ReleaseGet
    <3> QED
      BY <1>2, <2>1, <3>1, QuietStep
  <2>2. CASE SetNx(h) \/ ExpireLock(h) \/ ReleaseDel(h)
    <3>1. Locks' /\ Served /\ UNCHANGED <<now, row>>
      BY <2>2, LockStep
    <3> QED
      BY <1>1, <3>1, PartsPrime, SameRows, LeaseIsRevocable DEF Rows
  <2>3. CASE Sweep(h) \/ FreeStale(h)
    <3>1. Rows' /\ Served /\ UNCHANGED <<now, lock>> /\ (StaleLapsed => LeaseStep) /\ RevocableStep
      BY <2>3, SweepStep DEF Slots
    <3> QED
      BY <1>1, <3>1, PartsPrime DEF Locks
  <2>4. CASE ClaimRow(h) \/ ResolveRow(h)
    <3>1. Rows' /\ Served /\ UNCHANGED <<now, lock>> /\ LeaseStep
      BY <2>4, ClaimStep, ResolveStep
    <3> QED
      BY <1>1, <3>1, PartsPrime, LeaseIsRevocable DEF Locks
  <2> QED
    BY <1>3, <2>1, <2>2, <2>3, <2>4 DEF Handling
<1>4. ASSUME NEW h \in Poller, Listing(h)
      PROVE  IInv' /\ (StaleLapsed => LeaseStep) /\ RevocableStep
  <2>1. CASE ListStart(h)
    BY <1>2, <2>1, ListStartServed DEF ListStart
  <2>2. CASE Sweep(h) \/ FreeStale(h)
    <3>1. Rows' /\ Served /\ UNCHANGED <<now, lock>> /\ (StaleLapsed => LeaseStep) /\ RevocableStep
      BY <2>2, SweepStep DEF Slots
    <3> QED
      BY <1>1, <3>1, PartsPrime DEF Locks
  <2> QED
    BY <1>4, <2>1, <2>2 DEF Listing
<1>5. ASSUME NEW h \in Slots, Abort(h)
      PROVE  IInv' /\ LeaseStep
  BY <1>2, <1>5, DoneServed DEF Abort
<1>6. CASE UNCHANGED vars
  <2>1. UNCHANGED <<now, lock, row>> /\ Served
    BY <1>6 DEF vars, Served, IInv, TypeOK, ReqOK
  <2> QED
    BY <1>2, <2>1
<1> QED
  BY <1>3, <1>4, <1>5, <1>6, TickStep, RestartStep, LeaseIsRevocable DEF Next

(* The records of the requests stay what the steps of the handlers need.   *)
THEOREM Inductive == Spec => []IInv
<1>1. IInv /\ [Next]_vars => IInv'
  BY Step
<1> QED
  BY <1>1, InitIInv, PTL DEF Spec

(* The variables keep their types, and no lock or claim is good for longer  *)
(* than CLAIM_TTL_SECONDS from now.                                         *)
THEOREM TypeCorrect == Spec => []TypeOK
<1>1. IInv => TypeOK
  BY DEF IInv
<1> QED
  BY <1>1, Inductive, PTL

-----------------------------------------------------------------------------
(* A step changes the record of the request that takes it only.            *)
LEMMA OwnRequestStep ==
  ASSUME IInv, [Next]_vars, NEW h \in Slots
  PROVE  \/ h \in Request /\ Handling(h)
         \/ h \in Poller /\ Listing(h)
         \/ Abort(h)
         \/ req'[h] = req[h]
<1>0. req \in [Slots -> ReqState]
  BY DEF IInv, TypeOK
<1>1. ASSUME NEW k \in Slots, k # h, \/ Done(k) \/ AfterSweep(k) \/ \E pc : Goto(k, pc)
      PROVE  req'[h] = req[h]
  <2>1. CASE Done(k)
    BY <1>0, <1>1, <2>1 DEF Done
  <2>2. ASSUME NEW pc, Goto(k, pc) PROVE req'[h] = req[h]
    BY <1>0, <1>1, <2>2 DEF Goto
  <2>3. CASE AfterSweep(k)
    BY <1>0, <1>1, <2>1, <2>3 DEF AfterSweep
  <2> QED
    BY <1>1, <2>1, <2>2, <2>3
<1>2. ASSUME NEW k \in Slots, k # h, ClaimStart(k) \/ ListStart(k) \/ ResolveStart(k)
      PROVE  req'[h] = req[h]
  BY <1>0, <1>2 DEF ClaimStart, ListStart, ResolveStart
<1>3. ASSUME NEW k \in Slots, k # h, Sweep(k) \/ FreeStale(k)
      PROVE  req'[h] = req[h]
  <2>1. CASE req' = [req EXCEPT ![k].pc = "free", ![k].stale = {v \in Review : ExpiredSql(v, req[k].at)}]
    BY <1>0, <1>3, <2>1
  <2> QED
    BY <1>1, <1>3, <2>1 DEF Sweep, FreeStale
<1>4. ASSUME NEW k \in Request, k # h, Handling(k) PROVE req'[h] = req[h]
  BY <1>1, <1>2, <1>3, <1>4 DEF Handling, Slots, GetLock, SetNx, GetAgain, AfterGet, ExpireLock,
     ClaimRow, CheckOwner, ResolveRow, ReleaseGet, ReleaseDel
<1>5. ASSUME NEW k \in Poller, k # h, Listing(k) PROVE req'[h] = req[h]
  BY <1>0, <1>2, <1>3, <1>5 DEF Listing, Slots
<1>6. ASSUME NEW k \in Slots, k # h, Abort(k) PROVE req'[h] = req[h]
  BY <1>1, <1>6 DEF Abort
<1> QED
  BY <1>4, <1>5, <1>6 DEF Next, vars, Tick, RedisRestart

(* A sweep has rows left to free because it has just read them, or had them  *)
(* left before.                                                             *)
LEMMA FreePath ==
  ASSUME IInv, [Next]_vars, NEW h \in Slots, At(h, "free")'
  PROVE  \/ req'[h] = req[h]
         \/ /\ UNCHANGED <<now, row>>
            /\ req'[h].stale = {v \in Review : ExpiredSql(v, req[h].at)}
<1>0. req \in [Slots -> ReqState] /\ req[h] \in ReqState
  BY DEF IInv, TypeOK
<1>1. ASSUME NEW pc, Goto(h, pc) PROVE pc = "free"
  BY <1>0, <1>1 DEF Goto, At
<1>2. ASSUME Done(h) PROVE FALSE
  BY <1>0, <1>2 DEF Done, At, Idle
<1>3. ASSUME ClaimStart(h) \/ ResolveStart(h) \/ ListStart(h) PROVE FALSE
  BY <1>0, <1>3 DEF ClaimStart, ResolveStart, ListStart, At, Idle
<1>4. ASSUME AfterSweep(h) PROVE FALSE
  <2>1. CASE req' = [req EXCEPT ![h].pc = "claim", ![h].stale = {}]
    BY <1>0, <2>1 DEF At
  <2> QED
    BY <1>2, <1>4, <2>1 DEF AfterSweep
<1>5. CASE Sweep(h)
  <2> DEFINE expired == {v \in Review : ExpiredSql(v, req[h].at)}
  <2>1. req' = [req EXCEPT ![h].pc = "free", ![h].stale = expired] /\ UNCHANGED <<now, row>>
    BY <1>4, <1>5 DEF Sweep
  <2> HIDE DEF expired
  <2>2. req'[h].stale = expired
    BY <1>0, <2>1 DEF ReqState
  <2> QED
    BY <2>1, <2>2 DEF expired
<1>6. ASSUME \/ GetLock(h) \/ SetNx(h) \/ GetAgain(h) \/ ExpireLock(h) \/ FreeStale(h) \/ ClaimRow(h)
             \/ CheckOwner(h) \/ ResolveRow(h) \/ ReleaseGet(h) \/ ReleaseDel(h) \/ Abort(h)
      PROVE  FALSE
  BY <1>1, <1>2, <1>4, <1>6 DEF GetLock, SetNx, GetAgain, AfterGet, ExpireLock, FreeStale, ClaimRow,
     CheckOwner, ResolveRow, ReleaseGet, ReleaseDel, Abort
<1> QED
  BY <1>3, <1>5, <1>6, OwnRequestStep DEF Handling, Listing

(* Between the read of a sweep and its write, no row it has read is claimed  *)
(* or resolved; another sweep may free it.                                  *)
SweepUndisturbed == [][SweepsUndisturbed]_vars

LEMMA StaleLapsedKept ==
  ASSUME IInv, StaleLapsed, [Next]_vars, SweepsUndisturbed
  PROVE  StaleLapsed'
<1> SUFFICES ASSUME NEW h \in Slots, At(h, "free")', NEW v \in req'[h].stale
             PROVE  row'[v].status = "pending" \/ ExpiredSql(v, now)'
  BY DEF StaleLapsed
<1>0. /\ now \in Nat /\ now' \in Nat /\ now <= now' /\ req[h].at \in Nat /\ req[h].at <= now
      /\ Rows /\ req[h].stale \subseteq Review
  <2>1. now \in Nat /\ Rows /\ req[h] \in ReqState /\ req[h].at <= now
    BY Parts, Clock DEF IInv, TypeOK, ReqOK
  <2>2. now' = now \/ now' = now + 1
    BY DEF Next, Handling, Listing, vars, ClaimStart, GetLock, SetNx, GetAgain, ExpireLock, Sweep,
           FreeStale, ClaimRow, ResolveStart, CheckOwner, ResolveRow, ReleaseGet, ReleaseDel,
           ListStart, Abort, Tick, RedisRestart
  <2> QED
    BY <2>1, <2>2, Clock DEF ReqState, IInv
<1>1. CASE req'[h] = req[h]
  <2>1. At(h, "free") /\ v \in req[h].stale /\ v \in Review
    BY <1>0, <1>1 DEF At
  <2>2. row'[v] = row[v] \/ row'[v].status = "pending"
    BY <2>1 DEF SweepsUndisturbed
  <2>3. row[v].status = "pending" \/ ExpiredSql(v, now)
    BY <2>1 DEF StaleLapsed
  <2>4. row[v].expires \in Nat
    BY <1>0, <2>1, Clock DEF Rows, Row, IInv
  <2> QED
    BY <1>0, <2>2, <2>3, <2>4 DEF ExpiredSql
<1>2. CASE UNCHANGED <<now, row>> /\ req'[h].stale = {x \in Review : ExpiredSql(x, req[h].at)}
  <2>1. v \in Review /\ ExpiredSql(v, req[h].at)
    BY <1>2
  <2>2. row[v].expires \in Nat
    BY <1>0, <2>1, Clock DEF Rows, Row, IInv
  <2> QED
    BY <1>0, <1>2, <2>1, <2>2 DEF ExpiredSql
<1> QED
  BY <1>1, <1>2, FreePath

LEMMA UndisturbedStale == Spec /\ SweepUndisturbed => []StaleLapsed
<1>1. Init => StaleLapsed
  BY IdleTyped DEF Init, StaleLapsed, At
<1>2. IInv /\ StaleLapsed /\ [Next]_vars /\ [SweepsUndisturbed]_vars => StaleLapsed'
  <2>1. CASE UNCHANGED vars
    BY <2>1 DEF vars, StaleLapsed, At, ExpiredSql
  <2> QED
    BY <2>1, StaleLapsedKept
<1> QED
  BY <1>1, <1>2, Inductive, PTL DEF Spec, SweepUndisturbed

(* The desk is a lease, for any number of reviews, reviewers and requests:   *)
(* the SQL conditions carry it, whatever becomes of the Redis locks.  It     *)
(* needs that nobody claims or resolves a row between a sweep's read of it   *)
(* and its write: claim_review's and resolve_review's UPDATEs are not safe   *)
(* against release_expired_claims' join.                                    *)
THEOREM UndisturbedLease == Spec /\ SweepUndisturbed => ImplementsLease
<1>1. Init => Lease!LeaseInit
  BY DEF Init, Lease!LeaseInit, LeaseOf, Lease!Free, Pending
<1>2. IInv /\ StaleLapsed /\ [Next]_vars => [Lease!LeaseNext]_<<now, Leases>>
  BY Step DEF LeaseStep
<1> QED
  BY <1>1, <1>2, Inductive, UndisturbedStale, PTL
  DEF Spec, ImplementsLease, Lease!LeaseSpec, Leases

(* Without that condition, a sweep may take reviews back, but nobody else    *)
(* does: a review never passes from the reviewer who has it to another one   *)
(* before the claim has run out, and only its holder closes it              *)
(* (claim_review's and resolve_review's WHERE clauses).                     *)
THEOREM ClaimsNeverTakenOver == Spec => NeverTakenOver
<1>1. Init => Lease!LeaseInit
  BY DEF Init, Lease!LeaseInit, LeaseOf, Lease!Free, Pending
<1>2. IInv /\ [Next]_vars => [Lease!LeaseNext \/ Lease!Revoke]_<<now, Leases>>
  BY Step DEF RevocableStep
<1> QED
  BY <1>1, <1>2, Inductive, PTL
  DEF Spec, NeverTakenOver, Lease!RevocableSpec, Leases

(* What the sweep's docstring says ("Return expired claimed rows to         *)
(* pending", review_claims.py) holds under the same condition: only a claim  *)
(* that has run out returns, although the sweep compares with the time its   *)
(* request arrived.  The run desk_sweep shows that one renewal inside a      *)
(* sweep is enough to break it.                                             *)
THEOREM UndisturbedSweepFreesExpired ==
  Spec /\ SweepUndisturbed => OnlyExpiredReturn
<1> DEFINE Justified == \A v \in Review :
                          row[v].status # "pending" /\ row'[v].status = "pending" =>
                            ExpiredSql(v, now)
<1>1. IInv /\ StaleLapsed /\ [Next]_vars => [Justified]_vars
  <2> SUFFICES ASSUME IInv, StaleLapsed, [Next]_vars, NEW v \in Review,
                      row[v].status # "pending", row'[v].status = "pending"
               PROVE  ExpiredSql(v, now)
    OBVIOUS
  <2>0. Rows /\ now \in Nat
    BY Parts, Clock DEF IInv
  <2>1. ASSUME NEW h \in Slots, Sweep(h) PROVE ExpiredSql(v, now)
    BY <2>1 DEF Sweep
  <2>2. ASSUME NEW h \in Slots, FreeStale(h) PROVE ExpiredSql(v, now)
    <3>1. v \in req[h].stale
      BY <2>2 DEF FreeStale, Free
    <3> QED
      BY <2>2, <3>1 DEF FreeStale, StaleLapsed
  <2>3. ASSUME NEW h \in Request, ClaimRow(h) PROVE FALSE
    BY <2>0, <2>3 DEF ClaimRow, Rows
  <2>4. ASSUME NEW h \in Request, ResolveRow(h) PROVE FALSE
    <3>1. req[h].choice \in Resolution
      BY DEF IInv, TypeOK, ReqState, Slots
    <3> QED
      BY <2>0, <2>4, <3>1 DEF ResolveRow, Rows, Row, Resolution
  <2>5. row' # row
    OBVIOUS
  <2> QED
    BY <2>1, <2>2, <2>3, <2>4, <2>5 DEF Next, Handling, Listing, vars, Slots, ClaimStart, GetLock, SetNx,
       GetAgain, ExpireLock, ResolveStart, CheckOwner, ReleaseGet, ReleaseDel, ListStart, Abort,
       Tick, RedisRestart
<1> QED
  BY <1>1, Inductive, UndisturbedStale, PTL DEF Spec, OnlyExpiredReturn

(* Under the same condition an approved or rejected review stays as it is,    *)
(* its verdict and its reviewer: resolve_review's and claim_review's UPDATEs *)
(* do not match it, and no sweep has it among its rows.                     *)
THEOREM UndisturbedResolutionStands == Spec /\ SweepUndisturbed => ResolvedIsFinal
<1> DEFINE Stands == \A v \in Review : row[v].status \in Resolution => row'[v] = row[v]
<1>1. IInv /\ StaleLapsed /\ [Next]_vars => [Stands]_vars
  <2> SUFFICES ASSUME IInv, StaleLapsed, [Next]_vars, NEW v \in Review, row[v].status \in Resolution
               PROVE  row'[v] = row[v]
    OBVIOUS
  <2>0. Rows /\ row[v].status # "pending" /\ row[v].status # "claimed"
    BY Parts DEF IInv, Resolution
  <2>1. ASSUME NEW h \in Slots, Sweep(h) PROVE row'[v] = row[v]
    BY <2>1 DEF Sweep
  <2>2. ASSUME NEW h \in Slots, FreeStale(h) PROVE row'[v] = row[v]
    <3>1. v \notin req[h].stale
      BY <2>0, <2>2 DEF FreeStale, StaleLapsed, ExpiredSql
    <3> QED
      BY <2>2, <3>1 DEF FreeStale, Free
  <2>3. ASSUME NEW h \in Request, ClaimRow(h) PROVE row'[v] = row[v]
    BY <2>0, <2>3 DEF ClaimRow, Claimable, ExpiredSql, Rows
  <2>4. ASSUME NEW h \in Request, ResolveRow(h) PROVE row'[v] = row[v]
    BY <2>0, <2>4 DEF ResolveRow, Rows
  <2> QED
    BY <2>1, <2>2, <2>3, <2>4 DEF Next, Handling, Listing, vars, Slots, ClaimStart, GetLock, SetNx,
       GetAgain, ExpireLock, ResolveStart, CheckOwner, ReleaseGet, ReleaseDel, ListStart, Abort,
       Tick, RedisRestart
<1> QED
  BY <1>1, Inductive, UndisturbedStale, PTL DEF Spec, ResolvedIsFinal
-----------------------------------------------------------------------------
(* The Redis claim lock is never handed over: SET NX gives it to nobody      *)
(* while it has an owner, so between two owners the key is gone.            *)
NeverHandedOver ==
  [][\A v \in Review : lock[v].owner # None /\ lock'[v].owner # None =>
       lock'[v].owner = lock[v].owner]_vars

LEMMA OwnerKept ==
  ASSUME IInv, [Next]_vars, NEW v \in Review, lock[v].owner # None, lock'[v].owner # None
  PROVE  lock'[v].owner = lock[v].owner
<1>0. Locks
  BY Parts DEF IInv
<1>1. ASSUME NEW h \in Request, SetNx(h) PROVE lock'[v].owner = lock[v].owner
  <2>1. CASE UNCHANGED lock
    BY <2>1
  <2>2. CASE Owner(h) = None /\ SetLock(req[h].review, LockFor(req[h].who))
    BY <1>0, <2>2 DEF SetLock, Owner, Locks
  <2> QED
    BY <1>1, <2>1, <2>2 DEF SetNx
<1>2. ASSUME NEW h \in Request, ExpireLock(h) PROVE lock'[v].owner = lock[v].owner
  BY <1>0, <1>2 DEF ExpireLock, Locks, Lock
<1>3. ASSUME NEW h \in Request, ReleaseDel(h) PROVE lock'[v].owner = lock[v].owner
  BY <1>0, <1>3 DEF ReleaseDel, SetLock, NoLock, Locks
<1>4. CASE Tick \/ RedisRestart
  BY <1>4 DEF Tick, RedisRestart, NoLock
<1>5. CASE UNCHANGED lock
  BY <1>5
<1> QED
  BY <1>1, <1>2, <1>3, <1>4, <1>5 DEF Next, Handling, Listing, vars, ClaimStart, GetLock, GetAgain,
     Sweep, FreeStale, ClaimRow, ResolveStart, CheckOwner, ResolveRow, ReleaseGet, ListStart, Abort

THEOREM LockNeverHandedOver == Spec => NeverHandedOver
<1>1. IInv /\ [Next]_vars =>
        [\A v \in Review : lock[v].owner # None /\ lock'[v].owner # None =>
           lock'[v].owner = lock[v].owner]_vars
  BY OwnerKept
<1> QED
  BY <1>1, Inductive, PTL DEF Spec, NeverHandedOver

(* No lock vanishes while a release stands between its GET and its DELETE:   *)
(* it does not expire there, Redis does not lose it, and no second request   *)
(* deletes it.                                                              *)
ReleaseUndisturbed ==
  [][\A h \in Request :
       At(h, "del") /\ At(h, "del")' /\ Owner(h) # None =>
         lock'[req[h].review].owner # None]_vars

(* The lock a release is about to delete is its reviewer's.                *)
DelOwns == \A h \in Request : At(h, "del") => Owner(h) = req[h].who

(* The DELETE of a release comes right after its GET.                      *)
LEMMA OnlyGetArms ==
  ASSUME IInv, NEW h \in Request, Handling(h) \/ Abort(h), At(h, "del")'
  PROVE  ReleaseGet(h) /\ Owner(h) = req[h].who /\ Goto(h, "del")
<1>0. h \in Slots /\ h \notin Poller /\ req \in [Slots -> ReqState]
  BY DEF Slots, IInv, TypeOK
<1>1. ASSUME NEW pc, Goto(h, pc) PROVE pc = "del"
  BY <1>0, <1>1 DEF Goto, At
<1>2. ASSUME Done(h) PROVE FALSE
  BY <1>0, <1>2 DEF Done, At, Idle
<1>3. ASSUME ClaimStart(h) \/ ResolveStart(h) PROVE FALSE
  BY <1>0, <1>3 DEF ClaimStart, ResolveStart, At, Idle
<1>4. ASSUME Sweep(h) \/ FreeStale(h) PROVE FALSE
  <2>1. CASE req' = [req EXCEPT ![h].pc = "free", ![h].stale = {v \in Review : ExpiredSql(v, req[h].at)}]
    BY <1>0, <2>1 DEF At
  <2>2. CASE req' = [req EXCEPT ![h].pc = "claim", ![h].stale = {}]
    BY <1>0, <2>2 DEF At
  <2> QED
    BY <1>0, <1>4, <2>1, <2>2 DEF Sweep, FreeStale, AfterSweep
<1>5. ASSUME \/ GetLock(h) \/ SetNx(h) \/ GetAgain(h) \/ ExpireLock(h) \/ ClaimRow(h)
             \/ CheckOwner(h) \/ ResolveRow(h) \/ ReleaseDel(h) \/ Abort(h)
      PROVE  FALSE
  BY <1>1, <1>2, <1>5 DEF GetLock, SetNx, GetAgain, AfterGet, ExpireLock, ClaimRow, CheckOwner,
     ResolveRow, ReleaseDel, Abort
<1> QED
  BY <1>2, <1>3, <1>4, <1>5 DEF Handling, ReleaseGet

LEMMA DelOwnsKept ==
  ASSUME IInv, DelOwns, [Next]_vars,
         \A h \in Request : At(h, "del") /\ At(h, "del")' /\ Owner(h) # None =>
           lock'[req[h].review].owner # None
  PROVE  DelOwns'
<1> SUFFICES ASSUME NEW h \in Request, At(h, "del")'
             PROVE  lock'[req'[h].review].owner = req'[h].who
  BY DEF DelOwns, Owner
<1>0. h \in Slots /\ req \in [Slots -> ReqState]
  BY DEF Slots, IInv, TypeOK
<1>1. CASE Handling(h) \/ Abort(h)
  <2>1. ReleaseGet(h) /\ Owner(h) = req[h].who /\ Goto(h, "del")
    BY <1>1, OnlyGetArms
  <2>2. req'[h].review = req[h].review /\ req'[h].who = req[h].who
    BY <1>0, <2>1 DEF Goto, ReqState
  <2> QED
    BY <2>1, <2>2 DEF ReleaseGet, Owner
<1>2. CASE req'[h] = req[h]
  <2>1. At(h, "del") /\ Owner(h) = req[h].who
    BY <1>2 DEF At, DelOwns
  <2>2. req[h].who \in Reviewer /\ req[h].review \in Review
    BY <2>1, Running DEF At
  <2>3. lock'[req[h].review].owner # None
    BY <2>1, <2>2
  <2> QED
    BY <1>2, <2>1, <2>2, <2>3, OwnerKept DEF Owner
<1> QED
  BY <1>0, <1>1, <1>2, OwnRequestStep DEF Slots

(* What release_review_claim's docstring says ("Drop the claim lock if owned *)
(* by this reviewer", redis_client.py) holds of the GET and DELETE it is made *)
(* of as long as the lock is not lost in between. The run desk_release shows *)
(* that an expiry there is enough to delete another reviewer's lock.        *)
THEOREM UndisturbedReleaseDropsOwn ==
  Spec /\ ReleaseUndisturbed => ReleaseDropsOwnLock
<1> DEFINE Kept == \A h \in Request :
                     At(h, "del") /\ At(h, "del")' /\ Owner(h) # None =>
                       lock'[req[h].review].owner # None
           Own == \A h \in Request :
                    At(h, "del") /\ ~At(h, "del")' /\ lock' # lock => Owner(h) = req[h].who
<1>1. Init => DelOwns
  BY DEF Init, DelOwns, At, Idle, Slots
<1>2. IInv /\ DelOwns /\ [Next]_vars /\ [Kept]_vars => DelOwns'
  <2>1. CASE UNCHANGED vars
    BY <2>1 DEF vars, DelOwns, At, Owner
  <2> QED
    BY <2>1, DelOwnsKept
<1>3. DelOwns => [Own]_vars
  BY DEF DelOwns
<1> QED
  BY <1>1, <1>2, <1>3, Inductive, PTL DEF Spec, ReleaseUndisturbed, ReleaseDropsOwnLock
=============================================================================
