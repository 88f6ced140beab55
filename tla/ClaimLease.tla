----------------------------- MODULE ClaimLease -----------------------------
(***************************************************************************)
(* What claiming promises to reviewers, without Redis, SQL or requests: a   *)
(* review is leased to one reviewer until a time, nobody else gets it       *)
(* before that time has passed, and once closed it stays closed.  The weaker *)
(* promise lets the desk itself take reviews back.                          *)
(***************************************************************************)
EXTENDS Naturals

CONSTANTS Review, Reviewer, TTL, None

VARIABLES clock, lease

Free == [phase |-> "free", by |-> None, until |-> 0]
HeldBy(a, t) == [phase |-> "held", by |-> a, until |-> t]
ClosedBy(a) == [phase |-> "closed", by |-> a, until |-> 0]

LeaseInit == clock = 0 /\ lease = [v \in Review |-> Free]

Held(v) == lease[v].phase = "held"
Lapsed(v) == Held(v) /\ lease[v].until < clock

(* A free or lapsed review goes to a; a's own lease may be set anew.       *)
Grant(v, a) ==
  /\ lease[v].phase = "free" \/ Lapsed(v) \/ (Held(v) /\ lease[v].by = a)
  /\ \E t \in 0..(clock + TTL) : lease' = [lease EXCEPT ![v] = HeldBy(a, t)]
  /\ UNCHANGED clock

(* Any lapsed leases end.                                                  *)
Release ==
  /\ \E vs \in SUBSET {v \in Review : Lapsed(v)} :
       lease' = [v \in Review |-> IF v \in vs THEN Free ELSE lease[v]]
  /\ UNCHANGED clock

(* The holder closes the review; a lease that lapsed counts until released. *)
Close(v, a) ==
  /\ Held(v) /\ lease[v].by = a
  /\ lease' = [lease EXCEPT ![v] = ClosedBy(a)]
  /\ UNCHANGED clock

Elapse == clock' = clock + 1 /\ UNCHANGED lease

LeaseNext == \/ \E v \in Review, a \in Reviewer : Grant(v, a) \/ Close(v, a)
             \/ Release
             \/ Elapse

LeaseSpec == LeaseInit /\ [][LeaseNext]_<<clock, lease>>

(* Leases end before their time, also closed ones.                         *)
Revoke ==
  /\ \E vs \in SUBSET Review :
       lease' = [v \in Review |-> IF v \in vs THEN Free ELSE lease[v]]
  /\ UNCHANGED clock

RevocableSpec == LeaseInit /\ [][LeaseNext \/ Revoke]_<<clock, lease>>
=============================================================================
