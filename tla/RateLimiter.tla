---------------------------- MODULE RateLimiter -----------------------------
(***************************************************************************)
(* The token bucket of `rate_limit': RateLimiter of                        *)
(* synsema-stdlib/src/server.rs and the rate limit step of dispatch.       *)
(*                                                                         *)
(* check reads the clock before it takes the lock of the buckets, so the   *)
(* decisions of two threads may come in another order than their readings. *)
(* A difference of two readings is never negative: Instant::duration_since *)
(* saturates at zero.                                                      *)
(*                                                                         *)
(* A level counts tokens in units of 1/Window, so a tick of the clock adds *)
(* Capacity to it and a request takes Window from it.                      *)
(***************************************************************************)
EXTENDS Integers, Sequences, FiniteSets

CONSTANTS
    Threads,      \* the threads that run dispatch
    Keys,         \* zone and client IP
    Capacity, Window,
    CleanupEvery, \* cleanup_interval
    MaxNow,       \* bound: ticks of the clock
    MaxDecisions  \* bound: requests that are decided

NONE == 0 - 1
Full == Capacity * Window
Bucket == [level: 0..Full, last: 0..MaxNow]
NoBucket == [level |-> Full, last |-> NONE]

VARIABLES
    now,          \* the monotonic clock
    at,           \* the request a thread is deciding: its key, or "idle"
    seen,         \* and the reading of the clock it goes by
    bucket,       \* buckets: NoBucket when the map has no entry
    lastCleanup,
    decisions,    \* every decision so far, in order
    promised      \* the earliest time a 429 since the last admission named

vars == <<now, at, seen, bucket, lastCleanup, decisions, promised>>

Least(a, b) == IF a <= b THEN a ELSE b
Since(t, u) == IF t >= u THEN t - u ELSE 0

Init == /\ now = 0
        /\ at = [t \in Threads |-> "idle"] /\ seen = [t \in Threads |-> 0]
        /\ bucket = [k \in Keys |-> NoBucket]
        /\ lastCleanup = NONE
        /\ decisions = <<>>
        /\ promised = [k \in Keys |-> NONE]
-----------------------------------------------------------------------------
Tick == /\ now < MaxNow /\ now' = now + 1
        /\ UNCHANGED <<at, seen, bucket, lastCleanup, decisions, promised>>

(* A request reaches check, which reads the clock.                         *)
Arrive(t, k) ==
    /\ at[t] = "idle" /\ Len(decisions) < MaxDecisions
    /\ at' = [at EXCEPT ![t] = k]
    /\ seen' = [seen EXCEPT ![t] = now]
    /\ UNCHANGED <<now, bucket, lastCleanup, decisions, promised>>

Due(s) == lastCleanup = NONE \/ Since(s, lastCleanup) >= CleanupEvery

(* Fault: buckets are dropped before they are full again.                  *)
KeptTooShort(s) ==
    [k \in Keys |-> IF Due(s) /\ Since(s, bucket[k].last) * 2 >= Window
                    THEN NoBucket ELSE bucket[k]]

(* The buckets that the lazy cleanup leaves.                               *)
Kept(s) == [k \in Keys |-> IF Due(s) /\ Since(s, bucket[k].last) > 2 * Window
                           THEN NoBucket ELSE bucket[k]]

Refill(b, s) ==
    IF b = NoBucket THEN Full
    ELSE Least(Full, b.level + Since(s, b.last) * Capacity)

(* The Retry-After header: whole ticks, rounded up past the exact time.    *)
RetryAfter(level) == (Window - level) \div Capacity + 1

(* The reading of the decision before, and how far the readings have moved *)
(* forward from one decision to the next until this one.                   *)
Reading == IF decisions = <<>> THEN 0 ELSE decisions[Len(decisions)].at
Moved(s) == IF decisions = <<>> THEN 0
            ELSE decisions[Len(decisions)].moved + Since(s, Reading)

Decided(t, admitted) ==
    decisions' = Append(decisions, [key |-> at[t], at |-> seen[t], admitted |-> admitted,
                                    moved |-> Moved(seen[t])])

Admit(t, level) ==
    /\ level >= Window
    /\ bucket' = [Kept(seen[t]) EXCEPT
                    ![at[t]] = [level |-> level - Window, last |-> seen[t]]]
    /\ promised' = [promised EXCEPT ![at[t]] = NONE]
    /\ Decided(t, TRUE)

(* Fault: a request that is turned away empties the bucket.                *)
DenyAndDrain(t, level) ==
    /\ level < Window
    /\ bucket' = [Kept(seen[t]) EXCEPT ![at[t]] = [level |-> 0, last |-> seen[t]]]
    /\ LET until == seen[t] + RetryAfter(level)
       IN promised' = [promised EXCEPT
             ![at[t]] = IF @ = NONE THEN until ELSE Least(@, until)]
    /\ Decided(t, FALSE)

Deny(t, level) ==
    /\ level < Window
    /\ bucket' = [Kept(seen[t]) EXCEPT
                    ![at[t]] = [level |-> level, last |-> seen[t]]]
    /\ LET until == seen[t] + RetryAfter(level)
       IN promised' = [promised EXCEPT
             ![at[t]] = IF @ = NONE THEN until ELSE Least(@, until)]
    /\ Decided(t, FALSE)

(* The rest of check, under the lock.                                      *)
Decide(t) ==
    /\ at[t] # "idle"
    /\ LET level == Refill(Kept(seen[t])[at[t]], seen[t])
       IN Admit(t, level) \/ Deny(t, level)
    /\ lastCleanup' = IF Due(seen[t]) THEN seen[t] ELSE lastCleanup
    /\ at' = [at EXCEPT ![t] = "idle"]
    /\ UNCHANGED <<now, seen>>
-----------------------------------------------------------------------------
Next == \/ Tick
        \/ \E t \in Threads : Decide(t) \/ \E k \in Keys : Arrive(t, k)

Spec == Init /\ [][Next]_vars
-----------------------------------------------------------------------------
TypeOK ==
    /\ now \in 0..MaxNow
    /\ at \in [Threads -> Keys \cup {"idle"}] /\ seen \in [Threads -> 0..now]
    /\ bucket \in [Keys -> Bucket \cup {NoBucket}]
    /\ lastCleanup \in {NONE} \cup 0..now
    /\ promised \in [Keys -> Int]
    /\ decisions \in Seq([key: Keys, at: 0..now, admitted: BOOLEAN, moved: Nat])

Admitted(k, i, j) ==
    Cardinality({n \in i..j : decisions[n].key = k /\ decisions[n].admitted})

(* How far the readings moved forward between decisions i and j.           *)
Forward(i, j) == decisions[j].moved - decisions[i].moved

(* Between any two decisions a client is admitted no more often than a     *)
(* full bucket and the refill for each move of the readings allow: neither *)
(* the lazy cleanup nor the order of the threads gives tokens away twice   *)
(* for the same move.                                                      *)
AdmissionsArePaidFor ==
    \A k \in Keys : \A i, j \in DOMAIN decisions :
        i <= j => Window * Admitted(k, i, j) <= Full + Capacity * Forward(i, j)

(* Waiting for as long as Retry-After said is enough: as long as nothing   *)
(* of that client was admitted since, a request that comes no earlier is   *)
(* not turned away, whatever other requests were turned away meanwhile.    *)
RetryStep ==
    \A t \in Threads :
        Decide(t) /\ promised[at[t]] # NONE /\ seen[t] >= promised[at[t]] =>
            decisions'[Len(decisions')].admitted
RetryIsServed == [][RetryStep]_vars
-----------------------------------------------------------------------------
(* Why: what a client would find in its bucket at the reading of the last  *)
(* decision is paid for as well; and what it was promised holds of the     *)
(* bucket that it has.                                                     *)
Worth(k) == Refill(bucket[k], Reading)
Paid == \A k \in Keys : \A i \in DOMAIN decisions :
            LET j == Len(decisions)
            IN  Window * Admitted(k, i, j) + Worth(k) <= Full + Capacity * Forward(i, j)
Promise == \A k \in Keys : \A s \in 0..MaxNow :
               promised[k] # NONE /\ promised[k] <= s => Refill(bucket[k], s) >= Window
Inv == TypeOK /\ AdmissionsArePaidFor /\ Paid /\ Promise
=============================================================================
