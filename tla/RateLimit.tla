----------------------------- MODULE RateLimit -----------------------------
(***************************************************************************)
(* check_tenant_rate_limit (apps/api/app/rate_limit.py) for one tenant: a   *)
(* Redis counter per window, INCR and EXPIRE as separate commands, requests *)
(* interleaved between any two of them.  Tenants share no key.              *)
(***************************************************************************)
EXTENDS Integers, FiniteSets

CONSTANTS Request,
          Limits,   \* values of RATE_LIMIT_REQUESTS
          Window,   \* RATE_LIMIT_WINDOW_SECONDS, in ticks
          MaxTime   \* bound: the clock stops there

ASSUME RequestAssumption == IsFiniteSet(Request)
ASSUME LimitsAssumption == Limits \subseteq Int
ASSUME WindowAssumption == Window \in Nat \ {0}
ASSUME MaxTimeAssumption == MaxTime \in Nat

VARIABLES now,
          limit,    \* the configured limit
          counter,  \* the key of each window: count, 0 if absent; until, 0 without expiry
          req,
          wiped     \* history: windows whose key a Redis restart has lost

vars == <<now, limit, counter, req, wiped>>

\* Mutant: one key per tenant for all windows
OneWindow(t) == 0

\* the bucket of _window_key
WindowOf(t) == t \div Window

Windows == 0..WindowOf(MaxTime)

NoKey == [count |-> 0, until |-> 0]

Answer == {"none", "allowed", "denied", "error"}

TypeOK ==
  /\ now \in 0..MaxTime
  /\ limit \in Limits
  /\ counter \in [Windows -> [count : 0..Cardinality(Request), until : 0..(MaxTime + Window)]]
  /\ req \in [Request -> [pc : {"new", "incr", "expire", "done"}, at : 0..MaxTime,
                          counted : 0..MaxTime, answer : Answer, retry : 0..Window]]
  /\ wiped \subseteq Windows

Init ==
  /\ now = 0
  /\ limit \in Limits
  /\ counter = [w \in Windows |-> NoKey]
  /\ req = [r \in Request |-> [pc |-> "new", at |-> 0, counted |-> 0,
                               answer |-> "none", retry |-> 0]]
  /\ wiped = {}

\* Mutant: the last second of the window
ResetEarly(ts) == (ts \div Window) * Window + Window - 1

\* the end of the window ts is in
ResetAt(ts) == ((ts \div Window) + 1) * Window

\* Mutant: the count before this request is compared
AllowedBefore(count) == count - 1 <= limit

Allowed(count) == count <= limit

\* Mutant: the time of the reset instead of the seconds until it
RetryAbsolute(ts) == ResetAt(ts)

RetryAfter(ts) == IF ResetAt(ts) - ts >= 1 THEN ResetAt(ts) - ts ELSE 1

(* evaluate_fixed_window, from the counter after the increment; x is the    *)
(* request as it stands.                                                    *)
Evaluated(x, count) ==
  IF Allowed(count)
  THEN [x EXCEPT !.pc = "done", !.answer = "allowed"]
  ELSE [x EXCEPT !.pc = "done", !.answer = "denied", !.retry = RetryAfter(x.at)]

(* The handler reads the clock; a limit of zero or less switches it off.    *)
Arrive(r) ==
  /\ req[r].pc = "new"
  /\ req' = [req EXCEPT ![r].at = now,
                        ![r].pc = IF limit <= 0 THEN "done" ELSE "incr",
                        ![r].answer = IF limit <= 0 THEN "allowed" ELSE "none"]
  /\ UNCHANGED <<now, limit, counter, wiped>>

Incr(r) ==
  /\ req[r].pc = "incr"
  /\ LET w == WindowOf(req[r].at)
         count == counter[w].count + 1
         x == [req[r] EXCEPT !.counted = now]
     IN  /\ counter' = [counter EXCEPT ![w].count = count]
         /\ req' = [req EXCEPT ![r] = IF count = 1 THEN [x EXCEPT !.pc = "expire"]
                                      ELSE Evaluated(x, count)]
  /\ UNCHANGED <<now, limit, wiped>>

(* EXPIRE, by the request that found 1; the key may be gone by now.         *)
Expire(r) ==
  /\ req[r].pc = "expire"
  /\ LET w == WindowOf(req[r].at)
     IN  counter' = IF counter[w].count = 0 THEN counter
                    ELSE [counter EXCEPT ![w].until = now + Window]
  /\ req' = [req EXCEPT ![r] = Evaluated(@, 1)]
  /\ UNCHANGED <<now, limit, wiped>>

(* Redis raises, or the API process dies, between two commands.            *)
Fail(r) ==
  /\ req[r].pc \in {"incr", "expire"}
  /\ req' = [req EXCEPT ![r].pc = "done", ![r].answer = "error"]
  /\ UNCHANGED <<now, limit, counter, wiped>>

Tick ==
  /\ now < MaxTime
  /\ now' = now + 1
  /\ counter' = [w \in Windows |->
                   IF counter[w].until \in 1..(now + 1) THEN NoKey ELSE counter[w]]
  /\ UNCHANGED <<limit, req, wiped>>

RedisRestart ==
  /\ \E ws \in SUBSET {w \in Windows : counter[w].count > 0} :
       /\ counter' = [w \in Windows |-> IF w \in ws THEN NoKey ELSE counter[w]]
       /\ wiped' = wiped \cup ws
  /\ UNCHANGED <<now, limit, req>>

Next == \/ \E r \in Request : Arrive(r) \/ Incr(r) \/ Expire(r) \/ Fail(r)
        \/ Tick
        \/ RedisRestart

Spec == Init /\ [][Next]_vars
-----------------------------------------------------------------------------
Of(w) == {r \in Request : WindowOf(req[r].at) = w}

(* Of the requests that arrive and are counted in a window, at most the     *)
(* limit are let through, however they interleave, unless Redis lost the    *)
(* window's key: the key never expires inside its own window.               *)
WindowLimit ==
  limit > 0 =>
    \A w \in Windows \ wiped :
      Cardinality({r \in Of(w) : req[r].answer = "allowed" /\ req[r].counted \div Window = w})
        <= limit

(* A tenant is refused only for what it did in the same window: a denied    *)
(* request has `limit' others of its window, even when a key was left       *)
(* without an expiry.                                                       *)
DenialJustified ==
  \A r \in Request : req[r].answer = "denied" =>
    Cardinality({x \in Request \ {r} : /\ req[x].at \div Window = req[r].at \div Window
                                       /\ req[x].pc # "new"}) >= limit

(* A client that waits Retry-After seconds is in a new window.              *)
RetryIsNextWindow ==
  \A r \in Request : req[r].answer = "denied" =>
    (req[r].at + req[r].retry) \div Window = req[r].at \div Window + 1
=============================================================================
