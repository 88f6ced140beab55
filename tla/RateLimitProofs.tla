-------------------------- MODULE RateLimitProofs --------------------------
(***************************************************************************)
(* Theorems of RateLimit, for any finite set of requests, any limits and    *)
(* any window.                                                              *)
(***************************************************************************)
EXTENDS RateLimit, FiniteSetTheorems, TLAPS

USE RequestAssumption, LimitsAssumption, WindowAssumption, MaxTimeAssumption

Req == [pc : {"new", "incr", "expire", "done"}, at : 0..MaxTime,
        counted : 0..MaxTime, answer : Answer, retry : 0..Window]

Key == [count : 0..Cardinality(Request), until : 0..(MaxTime + Window)]

(* The requests of a window whose INCR may have happened, and the ones that  *)
(* were counted while the window lasted and are let through.                *)
Past(w) == {r \in Request : WindowOf(req[r].at) = w /\ req[r].pc \notin {"new", "incr"}}

InTime(w) ==
  {r \in Request : /\ WindowOf(req[r].at) = w
                   /\ WindowOf(req[r].counted) = w
                   /\ req[r].pc = "expire" \/ req[r].answer = "allowed"}

Others(r) == {x \in Request \ {r} : /\ WindowOf(req[x].at) = WindowOf(req[r].at)
                                    /\ req[x].pc # "new"}

ReqOK(r) ==
  /\ req[r].at <= now
  /\ req[r].pc # "done" => req[r].answer = "none"
  /\ req[r].pc \in {"incr", "expire"} => limit > 0
  /\ req[r].answer = "denied" => /\ req[r].retry = RetryAfter(req[r].at)
                                 /\ Cardinality(Others(r)) >= limit

(* A key counts no request that was not made, and does not expire inside    *)
(* its own window; while the window lasts it counts all that were let in.   *)
KeyOK(w) ==
  /\ counter[w].count <= Cardinality(Past(w))
  /\ counter[w].until = 0 \/ counter[w].until >= (w + 1) * Window
  /\ limit > 0 /\ w \notin wiped =>
       /\ Cardinality(InTime(w)) <= limit
       /\ WindowOf(now) <= w => Cardinality(InTime(w)) <= counter[w].count

IInv == TypeOK /\ (\A r \in Request : ReqOK(r)) /\ (\A w \in Windows : KeyOK(w))

-----------------------------------------------------------------------------
(* Division by the length of a window.                                     *)
LEMMA Quotient ==
  ASSUME NEW t \in Nat
  PROVE  /\ t \div Window \in Nat
         /\ (t \div Window) * Window <= t
         /\ t < (t \div Window + 1) * Window
BY Z3

LEMMA QuotientUnique ==
  ASSUME NEW t \in Nat, NEW q \in Nat, q * Window <= t, t < (q + 1) * Window
  PROVE  t \div Window = q
BY Z3

LEMMA QuotientMonotone ==
  ASSUME NEW a \in Nat, NEW b \in Nat, a <= b
  PROVE  a \div Window <= b \div Window
BY Z3

(* A time of the clock lies in one of the windows.                         *)
LEMMA InWindows ==
  ASSUME NEW t \in 0..MaxTime
  PROVE  WindowOf(t) \in Windows /\ WindowOf(t) \in Nat
<1>1. t \in Nat /\ t <= MaxTime
  OBVIOUS
<1> QED
  BY <1>1, Quotient, QuotientMonotone DEF WindowOf, Windows

(* The seconds until the end of the window, and where they lead.           *)
LEMMA RetryLemma ==
  ASSUME NEW t \in 0..MaxTime
  PROVE  /\ RetryAfter(t) \in 0..Window
         /\ (t + RetryAfter(t)) \div Window = t \div Window + 1
<1> DEFINE q == t \div Window
<1>1. q \in Nat /\ q * Window <= t /\ t < (q + 1) * Window
  BY Quotient
<1>2. ResetAt(t) = (q + 1) * Window
  BY DEF ResetAt
<1> HIDE DEF q
<1>3. (q + 1) * Window = q * Window + Window /\ q * Window \in Nat /\ (q + 1) * Window \in Nat
  BY <1>1
<1>4. RetryAfter(t) = (q + 1) * Window - t
  BY <1>1, <1>2, <1>3 DEF RetryAfter
<1>5. t + RetryAfter(t) = (q + 1) * Window
  BY <1>3, <1>4
<1>6. ((q + 1) * Window) \div Window = q + 1
  BY <1>1, <1>3, QuotientUnique
<1>7. RetryAfter(t) \in 0..Window
  BY <1>1, <1>3, <1>4
<1> QED
  BY <1>5, <1>6, <1>7 DEF q

(* The sets of requests are finite, and one more request is one more.      *)
LEMMA Finite ==
  ASSUME NEW S \in SUBSET Request
  PROVE  IsFiniteSet(S) /\ Cardinality(S) \in Nat /\ Cardinality(S) <= Cardinality(Request)
BY FS_Subset, FS_CardinalityType

LEMMA Grows ==
  ASSUME NEW S \in SUBSET Request, NEW T \in SUBSET Request, S \subseteq T
  PROVE  Cardinality(S) <= Cardinality(T)
BY FS_Subset, Finite

LEMMA OneMore ==
  ASSUME NEW S \in SUBSET Request, NEW r \in Request \ S
  PROVE  Cardinality(S \cup {r}) = Cardinality(S) + 1 /\ S \cup {r} \in SUBSET Request
BY FS_AddElement, Finite

LEMMA SetsOfRequests ==
  /\ \A w : Past(w) \in SUBSET Request /\ InTime(w) \in SUBSET Request
  /\ \A r : Others(r) \in SUBSET Request
BY DEF Past, InTime, Others

LEMMA InitIInv == Init => IInv
<1> SUFFICES ASSUME Init PROVE IInv
  OBVIOUS
<1>1. 0 \in 0..MaxTime /\ Cardinality(Request) \in Nat
  BY Finite
<1>2. TypeOK
  BY <1>1 DEF Init, TypeOK, NoKey, Answer
<1>3. \A r \in Request : ReqOK(r)
  BY DEF Init, ReqOK
<1>4. ASSUME NEW w \in Windows
      PROVE  KeyOK(w)
  <2>1. InTime(w) = {}
    BY DEF Init, InTime
  <2>2. Cardinality(Past(w)) \in Nat
    BY SetsOfRequests, Finite
  <2> QED
    BY <2>1, <2>2, FS_EmptySet DEF Init, KeyOK, NoKey
<1> QED
  BY <1>2, <1>3, <1>4 DEF IInv

(* A step of request r replaces its record and never takes it back: the sets *)
(* that have been counted only grow.                                        *)
Becomes(r, x) ==
  /\ x \in Req
  /\ req' = [req EXCEPT ![r] = x]
  /\ x.pc # "new"
  /\ req[r].pc # "new" => x.at = req[r].at
  /\ req[r].pc \notin {"new", "incr"} => x.pc # "incr"

LEMMA Moved ==
  ASSUME TypeOK, NEW r \in Request, NEW x, Becomes(r, x)
  PROVE  /\ req' \in [Request -> Req] /\ req'[r] = x
         /\ \A y \in Request \ {r} : req'[y] = req[y]
         /\ \A w : Past(w) \subseteq Past(w)'
         /\ \A y \in Request \ {r} : req[y].pc # "new" => Others(y) \subseteq Others(y)'
<1>1. /\ req' \in [Request -> Req] /\ req'[r] = x
      /\ \A y \in Request \ {r} : req'[y] = req[y]
  BY DEF TypeOK, Becomes, Req
<1>2. ASSUME NEW w
      PROVE  Past(w) \subseteq Past(w)'
  BY <1>1 DEF Becomes, Past
<1>3. ASSUME NEW y \in Request \ {r}, req[y].pc # "new"
      PROVE  Others(y) \subseteq Others(y)'
  BY <1>1, <1>3 DEF Becomes, Others
<1> QED
  BY <1>1, <1>2, <1>3

LEMMA OtherRequests ==
  ASSUME IInv, NEW r \in Request, NEW x, Becomes(r, x), now' = now, limit' = limit,
         NEW y \in Request \ {r}
  PROVE  ReqOK(y)'
<1>1. ReqOK(y) /\ req'[y] = req[y] /\ limit \in Int
  BY Moved, LimitsAssumption DEF IInv, TypeOK
<1>2. CASE req[y].answer = "denied"
  <2>1. Others(y) \subseteq Others(y)' /\ Others(y) \in SUBSET Request /\ Others(y)' \in SUBSET Request
    <3>1. req[y].pc # "new"
      BY <1>1, <1>2 DEF ReqOK
    <3> QED
      BY <3>1, Moved DEF IInv, Others
  <2>2. Cardinality(Others(y)) <= Cardinality(Others(y)')
    BY <2>1, Grows
  <2>3. Cardinality(Others(y)) \in Nat /\ Cardinality(Others(y)') \in Nat
    BY <2>1, Finite
  <2> QED
    BY <1>1, <2>2, <2>3 DEF ReqOK
<1> QED
  BY <1>1, <1>2 DEF ReqOK

(* The steps that leave the counts alone and let nobody in who was not.    *)
LEMMA KeysKept ==
  ASSUME IInv, NEW r \in Request, NEW x, Becomes(r, x), UNCHANGED <<now, limit, wiped>>,
         NEW w \in Windows, counter'[w].count = counter[w].count,
         counter'[w].until = counter[w].until \/ counter'[w].until >= (w + 1) * Window,
         limit > 0 => (x.answer = "allowed" => r \in InTime(WindowOf(x.at)) \/ WindowOf(x.counted) # WindowOf(x.at)),
         x.pc # "expire"
  PROVE  KeyOK(w)'
<1>1. KeyOK(w) /\ limit \in Int /\ counter[w] \in Key
  BY LimitsAssumption DEF IInv, TypeOK, Key
<1>2. /\ req'[r] = x /\ Past(w) \subseteq Past(w)'
      /\ \A y \in Request \ {r} : req'[y] = req[y]
  BY Moved DEF IInv
<1>3. Past(w) \in SUBSET Request /\ Past(w)' \in SUBSET Request
      /\ InTime(w) \in SUBSET Request /\ InTime(w)' \in SUBSET Request
  BY DEF Past, InTime
<1>4. /\ Cardinality(Past(w)) \in Nat /\ Cardinality(Past(w)') \in Nat
      /\ Cardinality(InTime(w)) \in Nat /\ Cardinality(InTime(w)') \in Nat
      /\ Cardinality(Past(w)) <= Cardinality(Past(w)')
  BY <1>2, <1>3, Finite, Grows
<1>5. ASSUME limit > 0
      PROVE  Cardinality(InTime(w)') <= Cardinality(InTime(w))
  <2>1. InTime(w)' \subseteq InTime(w)
    BY <1>2, <1>5 DEF InTime
  <2> QED
    BY <1>3, <2>1, Grows
<1>6. counter[w].count \in Nat
  BY <1>1, Finite DEF Key
<1>7. WindowOf(now)' = WindowOf(now)
  BY DEF WindowOf
<1> QED
  BY <1>1, <1>4, <1>5, <1>6, <1>7 DEF KeyOK

LEMMA ArriveStep ==
  ASSUME IInv, NEW r \in Request, Arrive(r)
  PROVE  IInv'
<1> DEFINE x == [req[r] EXCEPT !.at = now, !.pc = IF limit <= 0 THEN "done" ELSE "incr",
                               !.answer = IF limit <= 0 THEN "allowed" ELSE "none"]
<1>1. /\ req[r] \in Req /\ now \in 0..MaxTime /\ limit \in Int /\ req[r].pc = "new"
      /\ UNCHANGED <<now, limit, counter, wiped>>
  BY LimitsAssumption DEF IInv, TypeOK, Req, Arrive
<1>2. /\ x \in Req /\ x.at = now /\ x.pc = (IF limit <= 0 THEN "done" ELSE "incr")
      /\ x.answer = (IF limit <= 0 THEN "allowed" ELSE "none")
  BY <1>1 DEF Req, Answer
<1>3. req' = [req EXCEPT ![r] = x]
  BY <1>1 DEF Arrive, IInv, TypeOK
<1> HIDE DEF x
<1>4. Becomes(r, x)
  BY <1>1, <1>2, <1>3 DEF Becomes
<1>5. req' \in [Request -> Req] /\ req'[r] = x
  BY <1>4, Moved DEF IInv
<1>6. TypeOK'
  BY <1>1, <1>5 DEF IInv, TypeOK, Req
<1>7. ReqOK(r)'
  BY <1>1, <1>2, <1>5 DEF ReqOK
<1>8. \A w \in Windows : KeyOK(w)'
  BY <1>1, <1>2, <1>4, KeysKept
<1>9. \A y \in Request \ {r} : ReqOK(y)'
  BY <1>1, <1>4, OtherRequests
<1> QED
  BY <1>6, <1>7, <1>8, <1>9 DEF IInv

LEMMA FailStep ==
  ASSUME IInv, NEW r \in Request, Fail(r)
  PROVE  IInv'
<1> DEFINE x == [req[r] EXCEPT !.pc = "done", !.answer = "error"]
<1>1. /\ req[r] \in Req /\ req[r].pc \in {"incr", "expire"} /\ ReqOK(r)
      /\ UNCHANGED <<now, limit, counter, wiped>>
  BY DEF IInv, TypeOK, Req, Fail
<1>2. x \in Req /\ x.at = req[r].at /\ x.pc = "done" /\ x.answer = "error"
  BY <1>1 DEF Req, Answer
<1>3. req' = [req EXCEPT ![r] = x]
  BY <1>1 DEF Fail, IInv, TypeOK
<1> HIDE DEF x
<1>4. Becomes(r, x)
  BY <1>1, <1>2, <1>3 DEF Becomes
<1>5. req' \in [Request -> Req] /\ req'[r] = x
  BY <1>4, Moved DEF IInv
<1>6. TypeOK'
  BY <1>1, <1>5 DEF IInv, TypeOK, Req
<1>7. ReqOK(r)'
  BY <1>1, <1>2, <1>5 DEF ReqOK
<1>8. \A w \in Windows : KeyOK(w)'
  BY <1>1, <1>2, <1>4, KeysKept
<1>9. \A y \in Request \ {r} : ReqOK(y)'
  BY <1>1, <1>4, OtherRequests
<1> QED
  BY <1>6, <1>7, <1>8, <1>9 DEF IInv

(* EXPIRE comes after the arrival, so the key outlives its own window.     *)
LEMMA ExpireStep ==
  ASSUME IInv, NEW r \in Request, Expire(r)
  PROVE  IInv'
<1> DEFINE x == [req[r] EXCEPT !.pc = "done", !.answer = "allowed"]
           v == WindowOf(req[r].at)
<1>1. /\ req[r] \in Req /\ req[r].pc = "expire" /\ ReqOK(r) /\ limit \in Int /\ limit > 0
      /\ now \in 0..MaxTime /\ UNCHANGED <<now, limit, wiped>>
  BY LimitsAssumption DEF IInv, TypeOK, Req, Expire, ReqOK
<1>2. /\ x \in Req /\ x.at = req[r].at /\ x.pc = "done" /\ x.answer = "allowed"
      /\ x.counted = req[r].counted
  BY <1>1 DEF Req, Answer
<1>3. req' = [req EXCEPT ![r] = x]
  <2>1. Allowed(1)
    BY <1>1 DEF Allowed
  <2>2. Evaluated(req[r], 1) = x
    BY <2>1 DEF Evaluated
  <2>3. req' = [req EXCEPT ![r] = Evaluated(req[r], 1)]
    BY DEF Expire
  <2> HIDE DEF x
  <2> QED
    BY <2>2, <2>3
<1> HIDE DEF x
<1>4. Becomes(r, x)
  BY <1>1, <1>2, <1>3 DEF Becomes
<1>5. req' \in [Request -> Req] /\ req'[r] = x
  BY <1>4, Moved DEF IInv
<1>6. v \in Windows /\ v \in Nat /\ now + Window >= (v + 1) * Window /\ now + Window \in 0..(MaxTime + Window)
  <2>1. req[r].at \in 0..MaxTime /\ req[r].at <= now
    BY <1>1 DEF Req, ReqOK
  <2>2. v * Window <= req[r].at /\ v \in Nat /\ v \in Windows
    BY <2>1, Quotient, InWindows DEF WindowOf
  <2> HIDE DEF v
  <2>3. (v + 1) * Window = v * Window + Window /\ v * Window \in Nat
    BY <2>2
  <2> QED
    BY <1>1, <2>1, <2>2, <2>3
<1>7. /\ counter' \in [Windows -> Key]
      /\ \A w \in Windows :
           /\ counter'[w].count = counter[w].count
           /\ counter'[w].until = counter[w].until \/ counter'[w].until >= (w + 1) * Window
  <2>1. counter \in [Windows -> Key]
    BY DEF IInv, TypeOK, Key
  <2>2. CASE counter[v].count = 0
    BY <2>1, <2>2 DEF Expire
  <2>3. CASE counter[v].count # 0
    <3> DEFINE k == [counter[v] EXCEPT !.until = now + Window]
    <3>1. k \in Key /\ k.count = counter[v].count /\ k.until = now + Window
      BY <1>6, <2>1 DEF Key
    <3>2. counter' = [counter EXCEPT ![v] = k]
      BY <2>3 DEF Expire
    <3> HIDE DEF k, v
    <3> QED
      BY <1>6, <2>1, <3>1, <3>2
  <2> QED
    BY <2>2, <2>3
<1>8. TypeOK'
  BY <1>1, <1>5, <1>7 DEF IInv, TypeOK, Req, Key
<1>9. ReqOK(r)'
  BY <1>1, <1>2, <1>5 DEF ReqOK
<1>10. \A w \in Windows : KeyOK(w)'
  <2>1. x.answer = "allowed" => r \in InTime(WindowOf(x.at)) \/ WindowOf(x.counted) # WindowOf(x.at)
    BY <1>1, <1>2 DEF InTime
  <2> QED
    BY <1>1, <1>2, <1>4, <1>7, <2>1, KeysKept
<1>11. \A y \in Request \ {r} : ReqOK(y)'
  BY <1>1, <1>4, OtherRequests
<1> QED
  BY <1>8, <1>9, <1>10, <1>11 DEF IInv

(* INCR.  The request joins those that are past it; it is let through only   *)
(* if the count it got is within the limit, and that count is at least the   *)
(* number let through in the window before it, and one more.                *)
LEMMA IncrKeys ==
  ASSUME IInv, NEW r \in Request, req[r].pc = "incr", NEW x, Becomes(r, x),
         UNCHANGED <<now, limit, wiped>>, x.counted = now, x.pc \notin {"new", "incr"},
         NEW v, v = WindowOf(req[r].at), NEW w \in Windows,
         x.pc = "expire" \/ x.answer = "allowed" => counter[v].count + 1 <= limit,
         counter'[w].count = IF w = v THEN counter[w].count + 1 ELSE counter[w].count,
         counter'[w].until = counter[w].until
  PROVE  KeyOK(w)'
<1>1. /\ KeyOK(w) /\ limit \in Int /\ counter[w].count \in Nat /\ x.at = req[r].at
      /\ WindowOf(now)' = WindowOf(now)
  <2>1. counter[w] \in Key /\ Cardinality(Request) \in Nat /\ limit \in Int /\ KeyOK(w)
    BY Finite DEF IInv, TypeOK, Key
  <2>2. counter[w].count \in Nat
    BY <2>1 DEF Key
  <2>3. x.at = req[r].at
    BY DEF Becomes
  <2>4. WindowOf(now)' = WindowOf(now)
    BY DEF WindowOf
  <2> QED
    BY <2>1, <2>2, <2>3, <2>4
<1>2. /\ req'[r] = x /\ Past(w) \subseteq Past(w)'
      /\ \A y \in Request \ {r} : req'[y] = req[y]
  BY Moved DEF IInv
<1>3. Past(w) \in SUBSET Request /\ Past(w)' \in SUBSET Request
      /\ InTime(w) \in SUBSET Request /\ InTime(w)' \in SUBSET Request
  BY DEF Past, InTime
<1>4. /\ Cardinality(Past(w)) \in Nat /\ Cardinality(Past(w)') \in Nat
      /\ Cardinality(InTime(w)) \in Nat /\ Cardinality(InTime(w)') \in Nat
      /\ Cardinality(Past(w)) <= Cardinality(Past(w)')
  BY <1>2, <1>3, Finite, Grows
<1>5. counter'[w].count <= Cardinality(Past(w)')
  <2>1. CASE w = v
    <3>1. r \in Request \ Past(w) /\ Past(w) \cup {r} \subseteq Past(w)'
      BY <1>1, <1>2, <2>1 DEF Past
    <3>2. Cardinality(Past(w) \cup {r}) = Cardinality(Past(w)) + 1
      BY <1>3, <3>1, OneMore
    <3>3. Cardinality(Past(w) \cup {r}) <= Cardinality(Past(w)')
      BY <1>3, <3>1, Grows
    <3> QED
      BY <1>1, <1>4, <2>1, <3>2, <3>3 DEF KeyOK
  <2>2. CASE w # v
    BY <1>1, <1>4, <2>2 DEF KeyOK
  <2> QED
    BY <2>1, <2>2
<1>6. ASSUME limit > 0, w \notin wiped
      PROVE  /\ Cardinality(InTime(w)') <= limit
             /\ WindowOf(now) <= w => Cardinality(InTime(w)') <= counter'[w].count
  <2>1. /\ Cardinality(InTime(w)) <= limit
        /\ WindowOf(now) <= w => Cardinality(InTime(w)) <= counter[w].count
    BY <1>1, <1>6 DEF KeyOK
  <2>2. CASE r \in InTime(w)'
    <3>1. w = v /\ WindowOf(now) = w /\ (x.pc = "expire" \/ x.answer = "allowed")
      BY <1>1, <1>2, <2>2 DEF InTime
    <3>2. r \in Request \ InTime(w) /\ InTime(w)' \subseteq InTime(w) \cup {r}
      <4>1. req[r].answer = "none"
        BY DEF IInv, ReqOK
      <4> QED
        BY <1>2, <4>1 DEF InTime
    <3>3. Cardinality(InTime(w) \cup {r}) = Cardinality(InTime(w)) + 1
          /\ InTime(w) \cup {r} \in SUBSET Request
      BY <1>3, <3>2, OneMore
    <3>4. Cardinality(InTime(w)') <= Cardinality(InTime(w)) + 1
      BY <1>3, <3>2, <3>3, Grows
    <3>5. w \in Nat
      BY <3>1 DEF Windows
    <3> QED
      BY <1>1, <1>4, <2>1, <3>1, <3>4, <3>5
  <2>3. CASE r \notin InTime(w)'
    <3>1. InTime(w)' \subseteq InTime(w)
      BY <1>2, <2>3 DEF InTime
    <3>2. Cardinality(InTime(w)') <= Cardinality(InTime(w))
      BY <1>3, <3>1, Grows
    <3> QED
      BY <1>1, <1>4, <2>1, <3>2
  <2> QED
    BY <2>2, <2>3
<1> QED
  BY <1>1, <1>5, <1>6 DEF KeyOK

LEMMA IncrStep ==
  ASSUME IInv, NEW r \in Request, Incr(r)
  PROVE  IInv'
<1> DEFINE v == WindowOf(req[r].at)
           count == counter[v].count + 1
           c == [req[r] EXCEPT !.counted = now]
           k == [counter[v] EXCEPT !.count = count]
<1>1. /\ req[r] \in Req /\ req[r].pc = "incr" /\ ReqOK(r) /\ limit \in Int /\ limit > 0
      /\ now \in 0..MaxTime /\ UNCHANGED <<now, limit, wiped>>
      /\ counter \in [Windows -> Key]
  BY LimitsAssumption DEF IInv, TypeOK, Req, Key, Incr, ReqOK
<1>2. v \in Windows /\ counter[v] \in Key /\ counter[v].count \in Nat
  BY <1>1, InWindows, Finite DEF Req, Key
<1>3. /\ c \in Req /\ c.at = req[r].at /\ c.pc = "incr" /\ c.answer = "none" /\ c.counted = now
  BY <1>1 DEF Req, ReqOK
<1>4. PICK x : req' = [req EXCEPT ![r] = x] /\ x = IF count = 1 THEN [c EXCEPT !.pc = "expire"]
                                                   ELSE Evaluated(c, count)
  BY DEF Incr
<1> HIDE DEF c
<1>5. /\ x \in Req /\ x.at = req[r].at /\ x.counted = now
      /\ \/ x.pc = "expire" /\ x.answer = "none" /\ count = 1
         \/ x.pc = "done" /\ x.answer = "allowed" /\ count <= limit
         \/ x.pc = "done" /\ x.answer = "denied" /\ count > limit /\ x.retry = RetryAfter(x.at)
  <2>1. CASE count = 1
    BY <1>3, <1>4, <2>1 DEF Req
  <2>2. CASE count # 1 /\ Allowed(count)
    <3>1. x = [c EXCEPT !.pc = "done", !.answer = "allowed"] /\ count <= limit
      BY <1>4, <2>2 DEF Evaluated, Allowed
    <3> QED
      BY <1>3, <3>1 DEF Req, Answer
  <2>3. CASE count # 1 /\ ~Allowed(count)
    <3>1. x = [c EXCEPT !.pc = "done", !.answer = "denied", !.retry = RetryAfter(c.at)]
      BY <1>4, <2>3 DEF Evaluated
    <3>2. count > limit
      BY <1>1, <1>2, <2>3 DEF Allowed
    <3>3. RetryAfter(c.at) \in 0..Window
      BY <1>3, RetryLemma DEF Req
    <3> QED
      BY <1>3, <3>1, <3>2, <3>3 DEF Req, Answer
  <2> QED
    BY <2>1, <2>2, <2>3
<1>6. Becomes(r, x)
  BY <1>1, <1>4, <1>5 DEF Becomes
<1>7. req' \in [Request -> Req] /\ req'[r] = x /\ \A y \in Request \ {r} : req'[y] = req[y]
  BY <1>6, Moved DEF IInv
<1>8. \A w \in Windows : /\ counter'[w].count = IF w = v THEN counter[w].count + 1 ELSE counter[w].count
                         /\ counter'[w].until = counter[w].until
                         /\ counter'[w].until \in 0..(MaxTime + Window)
                         /\ counter'[w] = [count |-> counter'[w].count, until |-> counter'[w].until]
  <2>1. /\ k.count = count /\ k.until = counter[v].until
        /\ k = [count |-> k.count, until |-> k.until]
    BY <1>2 DEF Key
  <2>2. counter' = [counter EXCEPT ![v] = k]
    BY DEF Incr
  <2> HIDE DEF k, v
  <2> QED
    BY <1>1, <1>2, <2>1, <2>2 DEF Key
<1> HIDE DEF v, k
<1>9. ASSUME NEW w \in Windows
      PROVE  KeyOK(w)'
  <2>1. x.pc = "expire" \/ x.answer = "allowed" => counter[v].count + 1 <= limit
    BY <1>1, <1>5
  <2> QED
    BY <1>1, <1>5, <1>6, <1>8, <2>1, IncrKeys DEF v
<1>10. TypeOK'
  <2>1. \A w \in Windows : counter'[w].count \in 0..Cardinality(Request)
    <3> SUFFICES ASSUME NEW w \in Windows
                 PROVE  counter'[w].count \in 0..Cardinality(Request)
      OBVIOUS
    <3>1. Past(w)' \in SUBSET Request /\ counter'[w].count <= Cardinality(Past(w)')
      BY <1>9 DEF KeyOK, Past
    <3>2. /\ Cardinality(Past(w)') \in Nat /\ Cardinality(Past(w)') <= Cardinality(Request)
          /\ Cardinality(Request) \in Nat
      BY <3>1, Finite
    <3>3. counter[w].count \in Nat
      BY <1>1, <3>2 DEF Key
    <3>4. counter'[w].count \in Nat
      <4>1. counter'[w].count = counter[w].count \/ counter'[w].count = counter[w].count + 1
        BY <1>8
      <4> QED
        BY <3>3, <4>1
    <3> QED
      BY <3>1, <3>2, <3>4
  <2>2. counter' \in [Windows -> Key]
    <3>1. counter' = [w \in Windows |-> counter'[w]]
      BY <1>1 DEF Incr, v
    <3> QED
      BY <1>8, <2>1, <3>1 DEF Key
  <2> QED
    BY <1>1, <1>7, <2>2 DEF IInv, TypeOK, Req, Key
<1>11. ReqOK(r)'
  <2>1. CASE x.answer = "denied"
    <3>1. Past(v) \subseteq Others(r)' /\ Past(v) \in SUBSET Request /\ Others(r)' \in SUBSET Request
      BY <1>1, <1>5, <1>7 DEF Past, Others, v
    <3>2. Cardinality(Past(v)) <= Cardinality(Others(r)') /\ Cardinality(Past(v)) \in Nat
          /\ Cardinality(Others(r)') \in Nat
      BY <3>1, Grows, Finite
    <3>3. counter[v].count <= Cardinality(Past(v))
      BY <1>2 DEF IInv, KeyOK
    <3>4. counter[v].count >= limit
      BY <1>1, <1>2, <1>5, <2>1
    <3> QED
      BY <1>1, <1>2, <1>5, <1>7, <2>1, <3>2, <3>3, <3>4 DEF ReqOK
  <2>2. CASE x.answer # "denied"
    BY <1>1, <1>5, <1>7, <2>2 DEF ReqOK
  <2> QED
    BY <2>1, <2>2
<1>12. \A y \in Request \ {r} : ReqOK(y)'
  BY <1>1, <1>6, OtherRequests
<1> QED
  BY <1>9, <1>10, <1>11, <1>12 DEF IInv

(* The clock moves on: a key that is deleted belongs to a window gone by.  *)
LEMMA TickStep ==
  ASSUME IInv, Tick
  PROVE  IInv'
<1>1. /\ now \in Nat /\ now' = now + 1 /\ now' \in 0..MaxTime /\ UNCHANGED <<limit, req, wiped>>
      /\ counter \in [Windows -> Key] /\ limit \in Int
  BY LimitsAssumption DEF IInv, TypeOK, Tick, Key
<1>2. ASSUME NEW w \in Windows
      PROVE  \/ counter'[w] = counter[w]
             \/ counter'[w] = NoKey /\ now' >= counter[w].until /\ counter[w].until > 0
  BY <1>1 DEF Tick, Key
<1>3. NoKey \in Key
  BY Finite DEF NoKey, Key
<1>4. TypeOK'
  <2>1. counter' \in [Windows -> Key]
    BY <1>1, <1>3 DEF Tick
  <2> QED
    BY <1>1, <2>1 DEF IInv, TypeOK, Key
<1>5. ASSUME NEW r \in Request
      PROVE  ReqOK(r)'
  <2>1. ReqOK(r) /\ req[r] \in Req /\ Others(r)' = Others(r)
    BY <1>1 DEF IInv, TypeOK, Req, Others
  <2> QED
    BY <1>1, <2>1 DEF ReqOK, Req
<1>6. ASSUME NEW w \in Windows
      PROVE  KeyOK(w)'
  <2>1. KeyOK(w) /\ counter[w] \in Key /\ Past(w)' = Past(w) /\ InTime(w)' = InTime(w)
    BY <1>1 DEF IInv, Past, InTime
  <2>2. Cardinality(Past(w)) \in Nat /\ w \in Nat /\ counter[w].until \in Nat
    BY <2>1, SetsOfRequests, Finite DEF Windows, Key
  <2>3. WindowOf(now) <= WindowOf(now') /\ WindowOf(now) \in Nat /\ WindowOf(now') \in Nat
        /\ WindowOf(now)' = WindowOf(now')
    BY <1>1, Quotient, QuotientMonotone DEF WindowOf
  <2>4. CASE counter'[w] = counter[w]
    BY <1>1, <2>1, <2>2, <2>3, <2>4 DEF KeyOK
  <2>5. CASE counter'[w] = NoKey /\ now' >= counter[w].until /\ counter[w].until > 0
    <3>1. now' >= (w + 1) * Window /\ (w + 1) * Window \in Nat
      BY <1>1, <2>1, <2>2, <2>5 DEF KeyOK
    <3>2. ((w + 1) * Window) \div Window = w + 1
      <4>1. (w + 1) * Window < (w + 1 + 1) * Window
        BY <2>2
      <4> QED
        BY <2>2, <3>1, <4>1, QuotientUnique
    <3>3. WindowOf(now') >= w + 1
      BY <1>1, <2>2, <3>1, <3>2, QuotientMonotone DEF WindowOf
    <3> QED
      BY <1>1, <2>1, <2>2, <2>3, <2>5, <3>3 DEF KeyOK, NoKey
  <2> QED
    BY <1>2, <2>4, <2>5
<1> QED
  BY <1>4, <1>5, <1>6 DEF IInv

LEMMA RestartStep ==
  ASSUME IInv, RedisRestart
  PROVE  IInv'
<1>1. PICK ws \in SUBSET {w \in Windows : counter[w].count > 0} :
        /\ counter' = [w \in Windows |-> IF w \in ws THEN NoKey ELSE counter[w]]
        /\ wiped' = wiped \cup ws
  BY DEF RedisRestart
<1>2. UNCHANGED <<now, limit, req>> /\ counter \in [Windows -> Key] /\ NoKey \in Key
  BY Finite DEF RedisRestart, IInv, TypeOK, NoKey, Key
<1>3. TypeOK'
  <2>1. counter' \in [Windows -> Key]
    BY <1>1, <1>2
  <2> QED
    BY <1>1, <1>2, <2>1 DEF IInv, TypeOK, Key
<1>4. ASSUME NEW r \in Request
      PROVE  ReqOK(r)'
  BY <1>2 DEF IInv, ReqOK, Others
<1>5. ASSUME NEW w \in Windows
      PROVE  KeyOK(w)'
  <2>1. KeyOK(w) /\ Past(w)' = Past(w) /\ InTime(w)' = InTime(w) /\ WindowOf(now)' = WindowOf(now)
    BY <1>2 DEF IInv, Past, InTime, WindowOf
  <2>2. Cardinality(Past(w)) \in Nat
    BY SetsOfRequests, Finite
  <2> QED
    BY <1>1, <1>2, <2>1, <2>2 DEF KeyOK, NoKey
<1> QED
  BY <1>3, <1>4, <1>5 DEF IInv

LEMMA StepIInv ==
  ASSUME IInv, [Next]_vars
  PROVE  IInv'
<1>1. CASE UNCHANGED vars
  <2>1. \A w : Past(w)' = Past(w) /\ InTime(w)' = InTime(w) /\ WindowOf(now)' = WindowOf(now)
    BY <1>1 DEF vars, Past, InTime, WindowOf
  <2>2. \A r : Others(r)' = Others(r)
    BY <1>1 DEF vars, Others
  <2>3. \A w \in Windows : KeyOK(w)'
    BY <1>1, <2>1 DEF vars, IInv, KeyOK
  <2>4. \A r \in Request : ReqOK(r)'
    BY <1>1, <2>2 DEF vars, IInv, ReqOK
  <2>5. TypeOK'
    BY <1>1 DEF vars, IInv, TypeOK
  <2> QED
    BY <2>3, <2>4, <2>5 DEF IInv
<1> QED
  BY <1>1, ArriveStep, IncrStep, ExpireStep, FailStep, TickStep, RestartStep DEF Next

(* Counts, keys and answers stay related as IInv says.                     *)
THEOREM Inductive == Spec => []IInv
BY InitIInv, StepIInv, PTL DEF Spec

(* The variables keep their types; no counter exceeds the requests made.   *)
THEOREM TypeCorrect == Spec => []TypeOK
<1>1. IInv => TypeOK
  BY DEF IInv
<1> QED
  BY <1>1, Inductive, PTL

(* In a window whose key Redis did not lose, at most the limit of the       *)
(* requests that arrive and are counted in it are let through.              *)
THEOREM LimitHolds == Spec => []WindowLimit
<1>1. IInv => WindowLimit
  <2> SUFFICES ASSUME IInv, limit > 0, NEW w \in Windows \ wiped
               PROVE  Cardinality({r \in Of(w) : req[r].answer = "allowed" /\ req[r].counted \div Window = w})
                        <= limit
    BY DEF WindowLimit
  <2> DEFINE A == {r \in Of(w) : req[r].answer = "allowed" /\ req[r].counted \div Window = w}
  <2>1. A \subseteq InTime(w) /\ A \in SUBSET Request /\ InTime(w) \in SUBSET Request
    BY DEF Of, InTime, WindowOf
  <2> HIDE DEF A
  <2>2. /\ Cardinality(A) <= Cardinality(InTime(w))
        /\ Cardinality(A) \in Nat /\ Cardinality(InTime(w)) \in Nat
    BY <2>1, Finite, Grows
  <2>3. Cardinality(InTime(w)) <= limit /\ limit \in Int
    BY LimitsAssumption DEF IInv, TypeOK, KeyOK
  <2>4. Cardinality(A) <= limit
    BY <2>2, <2>3
  <2> QED
    BY <2>4 DEF A
<1> QED
  BY <1>1, Inductive, PTL

(* A request is denied only after `limit' others of its own window.        *)
THEOREM DenialIsJustified == Spec => []DenialJustified
<1>1. IInv => DenialJustified
  <2>1. ASSUME NEW r
        PROVE  Others(r) = {x \in Request \ {r} : /\ req[x].at \div Window = req[r].at \div Window
                                                  /\ req[x].pc # "new"}
    BY DEF Others, WindowOf
  <2> QED
    BY <2>1 DEF IInv, ReqOK, DenialJustified
<1> QED
  BY <1>1, Inductive, PTL

(* Retry-After leads into the next window, for every window length.        *)
THEOREM RetryLeadsOn == Spec => []RetryIsNextWindow
<1>1. IInv => RetryIsNextWindow
  BY RetryLemma DEF IInv, TypeOK, ReqOK, RetryIsNextWindow
<1> QED
  BY <1>1, Inductive, PTL
=============================================================================
