---------------------------- MODULE ServerProofs ---------------------------
(***************************************************************************)
(* Proofs about the server and its limiter.  The limiter: what it admits   *)
(* is paid for by the clock, and whoever waits for as long as it was told  *)
(* to is admitted, for every limit, window, cleanup interval, number of    *)
(* threads and of clients.  A request: what runs for it, and which file it *)
(* gets, is of the host that covers its name, whatever the hosts declare   *)
(* and whatever is asked.                                                  *)
(***************************************************************************)
EXTENDS ServerMC, FiniteSetTheorems, SequenceTheorems, WellFoundedInduction, TLAPS

-----------------------------------------------------------------------------
(* Multiples of numbers that compare.                                      *)
LEMMA RateTimes ==
    ASSUME NEW c \in Nat, NEW x \in Nat, NEW y \in Nat, NEW z \in Nat
    PROVE  /\ c * x \in Nat /\ x * c = c * x
           /\ x <= y => c * x <= c * y
           /\ x <= y + z => c * x <= c * y + c * z
<1>1. c * x \in Nat /\ x * c = c * x
  OBVIOUS
<1>2. x <= y => c * x <= c * y
  OBVIOUS
<1>3. x <= y + z => c * x <= c * y + c * z
  <2>1. c * (y + z) = c * y + c * z
    OBVIOUS
  <2>2. ASSUME NEW t \in Nat, x <= t PROVE c * x <= c * t
    BY <2>2
  <2>3. y + z \in Nat
    OBVIOUS
  <2>4. x <= y + z => c * x <= c * (y + z)
    BY <2>2, <2>3
  <2> QED
    BY <2>1, <2>4
<1> QED
  BY <1>1, <1>2, <1>3

(* A time that was waited is no shorter in steps.                          *)
LEMMA RateSince ==
    ASSUME NEW t \in Nat, NEW u \in Nat, NEW v \in Nat
    PROVE  /\ Rate!Since(t, u) \in Nat /\ Rate!Since(t, t) = 0
           /\ Rate!Since(t, u) <= Rate!Since(v, u) + Rate!Since(t, v)
  BY DEF Rate!Since

LEMMA RateNumbers ==
    /\ Capacity \in Nat \ {0} /\ Window \in Nat \ {0} /\ MaxNow \in Nat
    /\ Rate!Full \in Nat /\ Rate!Full = Capacity * Window /\ Window <= Rate!Full
<1>1. Capacity \in Nat \ {0} /\ Window \in Nat \ {0} /\ MaxNow \in Nat
  BY LimiterAssumption
<1>2. 1 <= Capacity /\ 1 \in Nat
  BY <1>1
<1>3. Window * 1 <= Window * Capacity /\ Window * Capacity \in Nat /\ Window * Capacity = Capacity * Window
  BY <1>1, <1>2, RateTimes
<1>4. Window * 1 = Window
  BY <1>1
<1> QED
  BY <1>1, <1>3, <1>4 DEF Rate!Full

(* What a bucket holds at a reading.                                       *)
LEMMA RateRefill ==
    /\ \A s : Rate!Refill(Rate!NoBucket, s) = Rate!Full
    /\ \A held \in Rate!Bucket :
          /\ held # Rate!NoBucket /\ held.level \in Nat /\ held.level <= Rate!Full /\ held.last \in Nat
          /\ \A s : Rate!Refill(held, s) =
                 Rate!Least(Rate!Full, held.level + Rate!Since(s, held.last) * Capacity)
<1>1. \A s : Rate!Refill(Rate!NoBucket, s) = Rate!Full
  BY DEF Rate!Refill
<1>2. ASSUME NEW held \in Rate!Bucket
      PROVE  held # Rate!NoBucket /\ held.level \in Nat /\ held.level <= Rate!Full /\ held.last \in Nat
  <2>1. held.level \in 0..Rate!Full /\ held.last \in 0..MaxNow
    BY DEF Rate!Bucket
  <2>2. Rate!NoBucket.last = 0 - 1
    BY DEF Rate!NoBucket, Rate!NONE
  <2>3. Rate!Full \in Nat /\ MaxNow \in Nat
    BY RateNumbers
  <2>4. held.level \in Nat /\ held.level <= Rate!Full /\ held.last \in Nat
    BY <2>1, <2>3
  <2>5. held.last # 0 - 1
    BY <2>4
  <2> QED
    BY <2>2, <2>4, <2>5
<1> QED
  BY <1>1, <1>2 DEF Rate!Refill

(* A level after a number of ticks.                                        *)
LEMMA RateLevel ==
    ASSUME NEW held \in Rate!Bucket, NEW s \in Nat
    PROVE  LET x == Rate!Since(s, held.last)
           IN  /\ x \in Nat /\ Capacity * x \in Nat
               /\ Rate!Refill(held, s) = Rate!Least(Rate!Full, held.level + Capacity * x)
<1>1. held.last \in Nat /\ Capacity \in Nat
  BY RateRefill, RateNumbers
<1>2. Rate!Since(s, held.last) \in Nat
  BY <1>1, RateSince
<1>3. PICK x \in Nat : x = Rate!Since(s, held.last)
  BY <1>2
<1>4. Capacity * x \in Nat /\ x * Capacity = Capacity * x
  BY <1>1, RateTimes
<1>5. Rate!Refill(held, s) = Rate!Least(Rate!Full, held.level + x * Capacity)
  BY <1>3, RateRefill
<1> QED
  BY <1>2, <1>3, <1>4, <1>5

LEMMA RateRefilled ==
    ASSUME NEW held \in Rate!Bucket \cup {Rate!NoBucket}, NEW s \in Nat, NEW r \in Nat
    PROVE  /\ Rate!Refill(held, s) \in Nat /\ Rate!Refill(held, s) <= Rate!Full
           /\ Capacity * Rate!Since(s, r) \in Nat
           /\ Rate!Refill(held, s) <= Rate!Refill(held, r) + Capacity * Rate!Since(s, r)
           /\ Rate!Since(s, held.last) > 2 * Window => Rate!Refill(held, s) = Rate!Full
<1>0. PICK z \in Nat : z = Rate!Since(s, r)
  BY RateSince
<1>1. Capacity \in Nat /\ Rate!Full \in Nat /\ Capacity * z \in Nat
  BY RateNumbers, RateTimes
<1>2. CASE held = Rate!NoBucket
  <2>1. Rate!Refill(held, s) = Rate!Full /\ Rate!Refill(held, r) = Rate!Full
    BY <1>2, RateRefill
  <2> QED
    BY <2>1, <1>0, <1>1
<1>3. CASE held \in Rate!Bucket
  <2>1. held.level \in Nat /\ held.level <= Rate!Full /\ held.last \in Nat
    BY <1>3, RateRefill
  <2>2. PICK x \in Nat : x = Rate!Since(s, held.last) /\ Capacity * x \in Nat
             /\ Rate!Refill(held, s) = Rate!Least(Rate!Full, held.level + Capacity * x)
    BY <1>3, RateLevel
  <2>3. PICK y \in Nat : y = Rate!Since(r, held.last) /\ Capacity * y \in Nat
             /\ Rate!Refill(held, r) = Rate!Least(Rate!Full, held.level + Capacity * y)
    BY <1>3, RateLevel
  <2>4. x <= y + z
    BY <1>0, <2>1, <2>2, <2>3, RateSince
  <2>5. Capacity * x <= Capacity * y + Capacity * z
    BY <1>1, <2>4, RateTimes
  <2>6. x > 2 * Window => Rate!Full <= Capacity * x
    <3>1. Window \in Nat /\ Rate!Full = Capacity * Window
      BY RateNumbers
    <3>2. x > 2 * Window => Window <= x
      BY <3>1
    <3> QED
      BY <1>1, <3>1, <3>2, RateTimes
  <2>7. Rate!Refill(held, s) \in Nat /\ Rate!Refill(held, s) <= Rate!Full
    BY <1>1, <2>1, <2>2 DEF Rate!Least
  <2>8. Rate!Refill(held, s) <= Rate!Refill(held, r) + Capacity * z
    <3> DEFINE p == Capacity * x
               q == Capacity * y
               o == Capacity * z
    <3>1. p \in Nat /\ q \in Nat /\ o \in Nat /\ p <= q + o
      BY <1>1, <2>2, <2>3, <2>5
    <3>2. /\ Rate!Refill(held, s) = Rate!Least(Rate!Full, held.level + p)
          /\ Rate!Refill(held, r) = Rate!Least(Rate!Full, held.level + q)
      BY <2>2, <2>3
    <3> HIDE DEF p, q, o
    <3>3. Rate!Refill(held, s) <= Rate!Refill(held, r) + o
      BY <1>1, <2>1, <3>1, <3>2 DEF Rate!Least
    <3> QED
      BY <3>3 DEF o
  <2>9. x > 2 * Window => Rate!Refill(held, s) = Rate!Full
    BY <1>1, <2>1, <2>2, <2>6 DEF Rate!Least
  <2> QED
    BY <1>0, <1>1, <2>2, <2>7, <2>8, <2>9
<1> QED
  BY <1>2, <1>3

(* The cleanup drops no bucket that is not full.                           *)
LEMMA RateKept ==
    ASSUME Rate!TypeOK, NEW s \in Nat, NEW k \in Clients
    PROVE  /\ Rate!Kept(s)[k] \in Rate!Bucket \cup {Rate!NoBucket}
           /\ Rate!Kept(s)[k] \in {bucket[k], Rate!NoBucket}
           /\ Rate!Refill(Rate!Kept(s)[k], s) = Rate!Refill(bucket[k], s)
<1>1. bucket[k] \in Rate!Bucket \cup {Rate!NoBucket}
  BY DEF Rate!TypeOK
<1>2. \/ Rate!Kept(s)[k] = bucket[k]
      \/ Rate!Kept(s)[k] = Rate!NoBucket /\ Rate!Since(s, bucket[k].last) > 2 * Window
  BY DEF Rate!Kept
<1> QED
  BY <1>1, <1>2, RateRefilled, RateRefill
-----------------------------------------------------------------------------
LEMMA RateStart == Rate!Init => Rate!Inv
<1> SUFFICES ASSUME Rate!Init PROVE Rate!Inv
  OBVIOUS
<1>1. /\ now = 0 /\ at = [t \in Threads |-> "idle"] /\ seen = [t \in Threads |-> 0]
      /\ bucket = [k \in Clients |-> Rate!NoBucket] /\ lastCleanup = 0 - 1 /\ decisions = <<>>
      /\ promised = [k \in Clients |-> 0 - 1]
  BY DEF Rate!Init, Rate!NONE
<1>2. MaxNow \in Nat
  BY RateNumbers
<1>3. Rate!TypeOK
  <2>1. promised \in [Clients -> Int] /\ now \in 0..MaxNow /\ seen \in [Threads -> 0..now]
    BY <1>1, <1>2
  <2> QED
    BY <1>1, <2>1 DEF Rate!TypeOK, Rate!NONE
<1>4. DOMAIN decisions = {}
  BY <1>1
<1>5. Rate!AdmissionsArePaidFor /\ Rate!Paid
  BY <1>4 DEF Rate!AdmissionsArePaidFor, Rate!Paid
<1>6. Rate!Promise
  BY <1>1 DEF Rate!Promise, Rate!NONE
<1> QED
  BY <1>3, <1>5, <1>6 DEF Rate!Inv

(* Decisions that are appended to.                                         *)
LEMMA RateAppend ==
    ASSUME NEW S, NEW q \in Seq(S), NEW e \in S
    PROVE  /\ Append(q, e) \in Seq(S) /\ Len(q) \in Nat /\ DOMAIN q = 1..Len(q)
           /\ Len(Append(q, e)) = Len(q) + 1 /\ DOMAIN Append(q, e) = 1..(Len(q) + 1)
           /\ Append(q, e)[Len(q) + 1] = e /\ Append(q, e) # <<>>
           /\ \A i \in 1..Len(q) : Append(q, e)[i] = q[i] /\ q[i] \in S
  OBVIOUS

(* What is admitted with one decision more.                                *)
LEMMA RateCardinality == \A T : Rate!Cardinality(T) = Cardinality(T)
  BY DEF Rate!Cardinality, Cardinality

LEMMA RateCount ==
    ASSUME NEW S, decisions \in Seq(S), NEW k, NEW i \in Nat, 1 <= i, NEW j \in Nat
    PROVE  Rate!Admitted(k, i, j) \in Nat
<1> DEFINE A == {m \in i..j : decisions[m].key = k /\ decisions[m].admitted}
<1>1. IsFiniteSet(i..j)
  BY FS_Interval
<1>2. IsFiniteSet(A)
  BY <1>1, FS_Subset
<1>3. Rate!Admitted(k, i, j) = Cardinality(A)
  BY RateCardinality DEF Rate!Admitted
<1> QED
  BY <1>2, <1>3, FS_CardinalityType

LEMMA RateBefore ==
    ASSUME NEW S, decisions \in Seq(S), NEW e \in S, decisions' = Append(decisions, e),
           NEW k, NEW i \in Nat, 1 <= i, NEW j \in Nat, j <= Len(decisions)
    PROVE  Rate!Admitted(k, i, j)' = Rate!Admitted(k, i, j)
<1> DEFINE A == {m \in i..j : decisions[m].key = k /\ decisions[m].admitted}
           B == {m \in i..j : decisions'[m].key = k /\ decisions'[m].admitted}
<1>1. \A m \in i..j : decisions'[m] = decisions[m]
  BY RateAppend
<1>2. A = B
  BY <1>1
<1>3. Rate!Admitted(k, i, j) = Cardinality(A) /\ Rate!Admitted(k, i, j)' = Cardinality(B)
  BY RateCardinality DEF Rate!Admitted
<1> QED
  BY <1>2, <1>3

LEMMA RateNext ==
    ASSUME NEW S, decisions \in Seq(S), NEW e \in S, decisions' = Append(decisions, e),
           NEW k, NEW i \in Nat, 1 <= i, NEW n \in Nat, n = Len(decisions), i <= n + 1
    PROVE  Rate!Admitted(k, i, n + 1)' = Rate!Admitted(k, i, n) + (IF e.key = k /\ e.admitted THEN 1 ELSE 0)
<1> DEFINE A == {m \in i..n : decisions[m].key = k /\ decisions[m].admitted}
           B == {m \in i..(n + 1) : decisions'[m].key = k /\ decisions'[m].admitted}
<1>1. decisions'[n + 1] = e /\ \A m \in i..n : decisions'[m] = decisions[m]
  BY RateAppend
<1>2. i..(n + 1) = (i..n) \cup {n + 1} /\ n + 1 \notin i..n
  OBVIOUS
<1>3. B = IF e.key = k /\ e.admitted THEN A \cup {n + 1} ELSE A
  BY <1>1, <1>2
<1>4. n + 1 \notin A
  BY <1>2
<1>5. Rate!Admitted(k, i, n) = Cardinality(A) /\ Rate!Admitted(k, i, n + 1)' = Cardinality(B)
  BY RateCardinality DEF Rate!Admitted
<1>6. IsFiniteSet(A) /\ Cardinality(A) \in Nat
  <2>1. IsFiniteSet(i..n)
    BY FS_Interval
  <2>2. IsFiniteSet(A)
    BY <2>1, FS_Subset
  <2> QED
    BY <2>2, FS_CardinalityType
<1> HIDE DEF A, B
<1>7. Cardinality(A \cup {n + 1}) = Cardinality(A) + 1
  BY <1>4, <1>6, FS_AddElement
<1> QED
  BY <1>3, <1>5, <1>6, <1>7

LEMMA RateNone ==
    ASSUME NEW S, decisions \in Seq(S), NEW k, NEW n \in Nat
    PROVE  Rate!Admitted(k, n + 1, n) = 0
<1>1. {m \in (n + 1)..n : decisions[m].key = k /\ decisions[m].admitted} = {}
  OBVIOUS
<1>2. Rate!Admitted(k, n + 1, n) = Cardinality({m \in (n + 1)..n : decisions[m].key = k /\ decisions[m].admitted})
  BY RateCardinality DEF Rate!Admitted
<1> QED
  BY <1>1, <1>2, FS_EmptySet

(* What a decision leaves in the bucket of its client.                     *)
LEMMA RateLeft ==
    ASSUME NEW left \in Nat, left <= Rate!Full, NEW s \in 0..MaxNow
    PROVE  LET new == [level |-> left, last |-> s]
           IN  /\ new \in Rate!Bucket
               /\ Rate!Refill(new, s) = left
               /\ \A r \in Nat : Rate!Refill(new, r) = Rate!Least(Rate!Full, left + Capacity * Rate!Since(r, s))
<1> DEFINE new == [level |-> left, last |-> s]
<1>1. s \in Nat /\ Rate!Full \in Nat /\ Capacity \in Nat
  BY RateNumbers
<1>2. new \in Rate!Bucket /\ new.level = left /\ new.last = s
  BY <1>1 DEF Rate!Bucket
<1> HIDE DEF new
<1>3. \A r \in Nat : Rate!Refill(new, r) = Rate!Least(Rate!Full, left + Capacity * Rate!Since(r, s))
  BY <1>2, RateLevel
<1>4. Rate!Since(s, s) = 0 /\ Capacity * 0 = 0
  BY <1>1, RateSince
<1>5. Rate!Refill(new, s) = left
  BY <1>1, <1>3, <1>4 DEF Rate!Least
<1> QED
  BY <1>2, <1>3, <1>5 DEF new

(* Whoever waits for Retry-After finds a token.                            *)
LEMMA RateRetry ==
    ASSUME NEW level \in Nat, level < Window, NEW s \in Nat, NEW r \in Nat,
           s + Rate!RetryAfter(level) <= r
    PROVE  Window <= level + Capacity * Rate!Since(r, s)
<1>1. Capacity \in Nat \ {0} /\ Window \in Nat
  BY RateNumbers
<1>2. PICK x \in Nat : x = Window - level
  BY <1>1
<1>3. PICK y \in Nat : y = x \div Capacity + 1 /\ Capacity * y > x
  <2>1. x \div Capacity + 1 \in Nat /\ Capacity * (x \div Capacity + 1) > x
    BY <1>1
  <2> QED
    BY <2>1
<1>4. PICK z \in Nat : z = Rate!Since(r, s)
  BY RateSince
<1>5. y <= z
  BY <1>2, <1>3, <1>4 DEF Rate!RetryAfter, Rate!Since
<1>6. Capacity * y <= Capacity * z /\ Capacity * z \in Nat /\ Capacity * y \in Nat
  BY <1>1, <1>5, RateTimes
<1> QED
  BY <1>1, <1>2, <1>3, <1>4, <1>6

(* A decision: the request at reading s finds level, and leaves left.      *)
Taken(k, s, level, ok, left) ==
    /\ ok <=> level >= Window
    /\ left = IF ok THEN level - Window ELSE level
    /\ bucket' = [Rate!Kept(s) EXCEPT ![k] = [level |-> left, last |-> s]]
    /\ decisions' = Append(decisions, [key |-> k, at |-> s, admitted |-> ok, moved |-> Rate!Moved(s)])
    /\ promised' = [promised EXCEPT ![k] =
           IF ok THEN Rate!NONE
           ELSE IF promised[k] = Rate!NONE THEN s + Rate!RetryAfter(level)
           ELSE Rate!Least(promised[k], s + Rate!RetryAfter(level))]

(* What a decision does, admitted or not.                                  *)
LEMMA RateDecided ==
    ASSUME Rate!TypeOK, NEW t \in Threads, Rate!Decide(t), NEW k, k = at[t], NEW s, s = seen[t],
           NEW level, level = Rate!Refill(bucket[k], s)
    PROVE  /\ k \in Clients /\ s \in 0..now /\ s \in 0..MaxNow /\ s \in Nat
           /\ level \in Nat /\ level <= Rate!Full
           /\ now' = now /\ seen' = seen /\ at' = [at EXCEPT ![t] = "idle"]
           /\ lastCleanup' \in {lastCleanup, s}
           /\ \E ok \in BOOLEAN, left \in Nat : Taken(k, s, level, ok, left)
<1>1. k \in Clients /\ s \in 0..now /\ s \in 0..MaxNow /\ s \in Nat
  BY RateNumbers DEF Rate!TypeOK, Rate!Decide
<1>2. Rate!Refill(Rate!Kept(s)[k], s) = level
  BY <1>1, RateKept
<1>3. level \in Nat /\ level <= Rate!Full
  BY <1>1, RateRefilled DEF Rate!TypeOK
<1>4. /\ now' = now /\ seen' = seen /\ at' = [at EXCEPT ![t] = "idle"]
      /\ lastCleanup' \in {lastCleanup, s}
  BY DEF Rate!Decide
<1>5. Rate!Admit(t, level) \/ Rate!Deny(t, level)
  BY <1>2 DEF Rate!Decide
<1>6. Window \in Nat
  BY RateNumbers
<1>7. CASE Rate!Admit(t, level)
  <2>1. TRUE \in BOOLEAN /\ level - Window \in Nat /\ level >= Window
    BY <1>3, <1>6, <1>7 DEF Rate!Admit
  <2>2. /\ bucket' = [Rate!Kept(s) EXCEPT ![k] = [level |-> level - Window, last |-> s]]
        /\ decisions' = Append(decisions, [key |-> k, at |-> s, admitted |-> TRUE, moved |-> Rate!Moved(s)])
        /\ promised' = [promised EXCEPT ![k] = Rate!NONE]
    BY <1>7 DEF Rate!Admit, Rate!Decided
  <2>3. Taken(k, s, level, TRUE, level - Window)
    BY <2>1, <2>2 DEF Taken
  <2> QED
    BY <1>1, <1>3, <1>4, <2>1, <2>3
<1>8. CASE Rate!Deny(t, level)
  <2>1. FALSE \in BOOLEAN /\ level < Window
    BY <1>8 DEF Rate!Deny
  <2>2. /\ bucket' = [Rate!Kept(s) EXCEPT ![k] = [level |-> level, last |-> s]]
        /\ decisions' = Append(decisions, [key |-> k, at |-> s, admitted |-> FALSE, moved |-> Rate!Moved(s)])
        /\ promised' = [promised EXCEPT ![k] = IF promised[k] = Rate!NONE THEN s + Rate!RetryAfter(level)
                                              ELSE Rate!Least(promised[k], s + Rate!RetryAfter(level))]
    BY <1>8 DEF Rate!Deny, Rate!Decided
  <2>3. ~(level >= Window)
    BY <2>1, <1>3, <1>6
  <2>4. Taken(k, s, level, FALSE, level)
    BY <2>1, <2>2, <2>3 DEF Taken
  <2> QED
    BY <1>1, <1>3, <1>4, <2>1, <2>4
<1> QED
  BY <1>5, <1>7, <1>8

(* One decision: what it takes and leaves is what was there at its         *)
(* reading.                                                                *)
LEMMA RateDecides ==
    ASSUME Rate!Inv, NEW t \in Threads, Rate!Decide(t)
    PROVE  Rate!Inv'
<1>0. Rate!TypeOK /\ Rate!AdmissionsArePaidFor /\ Rate!Paid /\ Rate!Promise
  BY DEF Rate!Inv
<1>1. PICK k \in Clients : k = at[t]
  BY <1>0, RateDecided
<1>2. PICK s \in Nat : s = seen[t] /\ s \in 0..now /\ s \in 0..MaxNow
  BY <1>0, RateDecided
<1>3. PICK level \in Nat : level = Rate!Refill(bucket[k], s) /\ level <= Rate!Full
  BY <1>0, <1>1, <1>2, RateDecided
<1>4. /\ now' = now /\ seen' = seen /\ at' = [at EXCEPT ![t] = "idle"]
      /\ lastCleanup' \in {lastCleanup, s}
  BY <1>0, <1>2, RateDecided
<1>some. \E ok \in BOOLEAN, left \in Nat : Taken(k, s, level, ok, left)
  BY <1>0, <1>1, <1>2, <1>3, RateDecided
<1>5. PICK ok \in BOOLEAN, left \in Nat :
        /\ ok <=> level >= Window
        /\ left = IF ok THEN level - Window ELSE level
        /\ bucket' = [Rate!Kept(s) EXCEPT ![k] = [level |-> left, last |-> s]]
        /\ decisions' = Append(decisions, [key |-> k, at |-> s, admitted |-> ok, moved |-> Rate!Moved(s)])
        /\ promised' = [promised EXCEPT ![k] =
              IF ok THEN Rate!NONE
              ELSE IF promised[k] = Rate!NONE THEN s + Rate!RetryAfter(level)
              ELSE Rate!Least(promised[k], s + Rate!RetryAfter(level))]
  BY <1>some DEF Taken
<1>6. /\ Capacity \in Nat \ {0} /\ Window \in Nat \ {0} /\ MaxNow \in Nat
      /\ Rate!Full \in Nat /\ Window <= Rate!Full
  BY RateNumbers
<1>7. left <= Rate!Full
  BY <1>3, <1>5, <1>6
<1> DEFINE new == [level |-> left, last |-> s]
<1>8. /\ new \in Rate!Bucket /\ Rate!Refill(new, s) = left
      /\ \A r \in Nat : Rate!Refill(new, r) = Rate!Least(Rate!Full, left + Capacity * Rate!Since(r, s))
  BY <1>2, <1>7, RateLeft
<1>9. /\ bucket'[k] = new /\ DOMAIN bucket' = Clients
      /\ \A c \in Clients : c # k => bucket'[c] = Rate!Kept(s)[c]
  BY <1>5 DEF Rate!Kept
<1>10. bucket' \in [Clients -> Rate!Bucket \cup {Rate!NoBucket}]
  <2>1. \A c \in Clients : Rate!Kept(s)[c] \in Rate!Bucket \cup {Rate!NoBucket}
    BY <1>0, RateKept
  <2>2. bucket' = [c \in Clients |-> bucket'[c]]
    BY <1>5 DEF Rate!Kept
  <2> HIDE DEF new
  <2> QED
    BY <1>8, <1>9, <2>1, <2>2
<1> HIDE DEF new
<1> DEFINE D == [key: Clients, at: 0..now, admitted: BOOLEAN, moved: Nat]
           e == [key |-> k, at |-> s, admitted |-> ok, moved |-> Rate!Moved(s)]
<1>11. decisions \in Seq(D)
  BY <1>0 DEF Rate!TypeOK
<1>12. PICK n \in Nat : n = Len(decisions) /\ DOMAIN decisions = 1..n
  BY <1>11
<1>13. \A i \in 1..n : decisions[i].moved \in Nat /\ decisions[i].at \in Nat
  <2>1. \A i \in 1..n : decisions[i] \in D
    <3> HIDE DEF D, e
    <3> QED
      BY <1>11, <1>12
  <2>2. now \in Nat
    BY <1>0, <1>6 DEF Rate!TypeOK
  <2> QED
    BY <2>1, <2>2
<1>14. n # 0 => /\ n \in 1..n /\ Rate!Reading = decisions[n].at
               /\ Rate!Moved(s) = decisions[n].moved + Rate!Since(s, Rate!Reading)
  BY <1>11, <1>12 DEF Rate!Reading, Rate!Moved
<1>15. Rate!Reading \in Nat /\ Rate!Moved(s) \in Nat
  <2>1. CASE n = 0
    BY <2>1, <1>11, <1>12 DEF Rate!Reading, Rate!Moved
  <2>2. CASE n # 0
    <3>1. Rate!Reading \in Nat /\ decisions[n].moved \in Nat
      BY <2>2, <1>13, <1>14
    <3>2. Rate!Since(s, Rate!Reading) \in Nat
      BY <3>1, <1>2, RateSince
    <3> QED
      BY <2>2, <3>1, <3>2, <1>14
  <2> QED
    BY <2>1, <2>2
<1>16. e \in D
  BY <1>2, <1>15
<1>17. /\ decisions' \in Seq(D) /\ decisions' # <<>> /\ Len(decisions') = n + 1
       /\ DOMAIN decisions' = 1..(n + 1) /\ decisions'[n + 1] = e
       /\ \A i \in 1..n : decisions'[i] = decisions[i]
  <2>1. decisions' = Append(decisions, e)
    BY <1>5
  <2> HIDE DEF D, e
  <2> QED
    BY <1>11, <1>12, <1>16, <2>1, RateAppend
<1>18. /\ e.key = k /\ e.admitted = ok /\ e.moved = Rate!Moved(s) /\ e.at = s
  OBVIOUS
<1>19. Rate!TypeOK'
  <2>1. promised' \in [Clients -> Int]
    <3>1. promised \in [Clients -> Int] /\ Rate!NONE \in Int
      BY <1>0 DEF Rate!TypeOK, Rate!NONE
    <3>2. Rate!RetryAfter(level) \in Int
      BY <1>3, <1>6 DEF Rate!RetryAfter
    <3>3. \A x \in Int : Rate!Least(x, s + Rate!RetryAfter(level)) \in Int
      BY <1>2, <3>2 DEF Rate!Least
    <3>4. PICK v \in Int : v = IF ok THEN Rate!NONE
                              ELSE IF promised[k] = Rate!NONE THEN s + Rate!RetryAfter(level)
                              ELSE Rate!Least(promised[k], s + Rate!RetryAfter(level))
      BY <1>2, <3>1, <3>2, <3>3
    <3>5. promised' = [promised EXCEPT ![k] = v]
      BY <1>5, <3>4
    <3> QED
      BY <3>1, <3>5
  <2>2. at' \in [Threads -> Clients \cup {"idle"}] /\ seen' \in [Threads -> 0..now']
        /\ now' \in 0..MaxNow /\ lastCleanup' \in {Rate!NONE} \cup 0..now'
    BY <1>0, <1>2, <1>4 DEF Rate!TypeOK
  <2> QED
    BY <1>4, <1>10, <1>17, <2>1, <2>2 DEF Rate!TypeOK
<1>20. Rate!Reading' = s
  BY <1>17, <1>18 DEF Rate!Reading
<1>21. ASSUME NEW c \in Clients
       PROVE  /\ Rate!Worth(c)' \in Nat
              /\ (IF c = k /\ ok THEN Window ELSE 0) + Rate!Worth(c)' = Rate!Refill(bucket[c], s)
  <2>1. Rate!Worth(c)' = Rate!Refill(bucket'[c], s)
    BY <1>20 DEF Rate!Worth, Rate!Refill
  <2>2. CASE c = k
    BY <2>1, <2>2, <1>3, <1>5, <1>6, <1>8, <1>9
  <2>3. CASE c # k
    <3>1. Rate!Worth(c)' = Rate!Refill(bucket[c], s)
      BY <2>1, <2>3, <1>0, <1>2, <1>9, RateKept
    <3>2. Rate!Refill(bucket[c], s) \in Nat
      BY <1>0, <1>2, RateRefilled DEF Rate!TypeOK
    <3> QED
      BY <2>3, <3>1, <3>2
  <2> QED
    BY <2>2, <2>3
<1> HIDE DEF D, e
<1>22. ASSUME NEW c \in Clients, NEW i \in 1..(n + 1)
       PROVE  /\ Rate!Admitted(c, i, n + 1)' \in Nat
              /\ Window * Rate!Admitted(c, i, n + 1)' + Rate!Worth(c)'
                     <= Rate!Full + Capacity * Rate!Forward(i, n + 1)'
  <2>1. PICK d \in {0, 1} : d = IF c = k /\ ok THEN 1 ELSE 0
    OBVIOUS
  <2>2. PICK worth \in Nat : worth = Rate!Worth(c)'
    BY <1>21
  <2>3. PICK found \in Nat : found = Rate!Refill(bucket[c], s)
    BY <1>0, <1>2, RateRefilled DEF Rate!TypeOK
  <2>4. Window * d + worth = found
    BY <2>1, <2>2, <2>3, <1>6, <1>21
  <2>0. i \in Nat /\ 1 <= i /\ i <= n + 1 /\ decisions' = Append(decisions, e) /\ n <= n
    BY <1>5 DEF e
  <2>5. Rate!Admitted(c, i, n) \in Nat
    BY <2>0, <1>11, <1>12, RateCount
  <2>6. PICK A \in Nat : A = Rate!Admitted(c, i, n)
    BY <2>5
  <2>7. Rate!Admitted(c, i, n + 1)' = A + d
    <3>2. Rate!Admitted(c, i, n + 1)' = Rate!Admitted(c, i, n) + (IF e.key = c /\ e.admitted THEN 1 ELSE 0)
      BY <2>0, <1>11, <1>12, <1>16, RateNext
    <3> QED
      BY <1>18, <2>1, <2>6, <3>2
  <2>8. CASE i = n + 1
    <3>1. A = 0
      BY <2>6, <2>8, <1>11, <1>12, RateNone
    <3>2. Rate!Forward(i, n + 1)' = 0
      <4>1. Rate!Forward(i, n + 1)' = Rate!Moved(s) - Rate!Moved(s)
        BY <2>8, <1>17, <1>18 DEF Rate!Forward
      <4> QED
        BY <4>1, <1>15
    <3>3. found <= Rate!Full
      BY <2>3, <1>0, <1>2, RateRefilled DEF Rate!TypeOK
    <3> QED
      BY <2>2, <2>4, <2>7, <3>1, <3>2, <3>3, <1>6
  <2>9. CASE i # n + 1
    <3>1. i \in 1..n /\ n # 0
      BY <2>9
    <3>2. PICK f \in Int : f = Rate!Forward(i, n)
      <4>1. decisions[n].moved \in Nat /\ decisions[i].moved \in Nat
        BY <3>1, <1>13, <1>14
      <4> QED
        BY <4>1 DEF Rate!Forward
    <3>3. PICK z \in Nat : z = Rate!Since(s, Rate!Reading)
      BY <1>2, <1>15, RateSince
    <3>4. Rate!Forward(i, n + 1)' = f + z
      <4>1. decisions[n].moved \in Nat /\ decisions[i].moved \in Nat
        BY <3>1, <1>13, <1>14
      <4>2. Rate!Forward(i, n + 1)' = Rate!Moved(s) - decisions[i].moved
        BY <3>1, <1>17, <1>18 DEF Rate!Forward
      <4>3. Rate!Moved(s) = decisions[n].moved + z
        BY <3>1, <3>3, <1>14
      <4> QED
        BY <3>2, <4>1, <4>2, <4>3 DEF Rate!Forward
    <3>5. PICK before \in Nat : before = Rate!Worth(c)
      BY <1>0, <1>15, RateRefilled DEF Rate!TypeOK, Rate!Worth
    <3>6. found <= before + Capacity * z
      BY <2>3, <3>3, <3>5, <1>0, <1>2, <1>15, RateRefilled DEF Rate!TypeOK, Rate!Worth
    <3>7. Window * A + before <= Rate!Full + Capacity * f
      BY <3>1, <3>2, <3>5, <2>6, <1>0, <1>12 DEF Rate!Paid
    <3>8. Capacity * (f + z) = Capacity * f + Capacity * z /\ Capacity * f \in Int /\ Capacity * z \in Nat
      BY <1>6
    <3>9. Window * (A + d) = Window * A + Window * d /\ Window * A \in Nat /\ Window * d \in Nat
      BY <1>6
    <3>10. Window * (A + d) + worth <= Rate!Full + Capacity * (f + z)
      BY <2>4, <3>6, <3>7, <3>8, <3>9, <1>6
    <3> QED
      BY <2>2, <2>7, <3>4, <3>10
  <2> QED
    BY <2>8, <2>9
<1>before. ASSUME NEW c \in Clients, NEW i \in Nat, 1 <= i, NEW j \in Nat, j <= n, decisions' = Append(decisions, e)
        PROVE  Rate!Admitted(c, i, j)' = Rate!Admitted(c, i, j)
  BY <1>11, <1>12, <1>16, <1>before, RateBefore
<1>23. Rate!Paid'
  BY <1>17, <1>22 DEF Rate!Paid
<1>24. Rate!AdmissionsArePaidFor'
  <2> SUFFICES ASSUME NEW c \in Clients, NEW i \in 1..(n + 1), NEW j \in 1..(n + 1), i <= j
               PROVE  Window * Rate!Admitted(c, i, j)' <= Rate!Full + Capacity * Rate!Forward(i, j)'
    BY <1>17 DEF Rate!AdmissionsArePaidFor
  <2>1. CASE j = n + 1
    <3>1. PICK A \in Nat : A = Rate!Admitted(c, i, n + 1)'
      BY <1>22
    <3>2. PICK w \in Nat : w = Rate!Worth(c)'
      BY <1>21
    <3>3. PICK f \in Int : f = Rate!Forward(i, n + 1)'
      <4>1. \A m \in 1..(n + 1) : decisions'[m].moved \in Nat
        BY <1>13, <1>15, <1>17, <1>18
      <4> QED
        BY <4>1 DEF Rate!Forward
    <3>4. Window * A + w <= Rate!Full + Capacity * f
      BY <3>1, <3>2, <3>3, <1>22
    <3>5. Window * A \in Nat /\ Capacity * f \in Int
      BY <1>6
    <3>6. Window * A <= Rate!Full + Capacity * f
      BY <3>4, <3>5, <1>6
    <3> QED
      BY <2>1, <3>1, <3>3, <3>6
  <2>2. CASE j # n + 1
    <3>1. i \in 1..n /\ j \in 1..n /\ j \in Nat /\ j <= n
      BY <2>2
    <3>2. Rate!Admitted(c, i, j)' = Rate!Admitted(c, i, j)
      <4>1. decisions' = Append(decisions, e) /\ i \in Nat /\ 1 <= i
        BY <1>5 DEF e
      <4> QED
        BY <3>1, <4>1, <1>before
    <3>3. Rate!Forward(i, j)' = Rate!Forward(i, j)
      BY <1>17, <3>1 DEF Rate!Forward
    <3>4. Window * Rate!Admitted(c, i, j) <= Rate!Full + Capacity * Rate!Forward(i, j)
      BY <1>0, <1>12, <3>1 DEF Rate!AdmissionsArePaidFor
    <3> QED
      BY <3>2, <3>3, <3>4
  <2> QED
    BY <2>1, <2>2
<1>25. Rate!Promise'
  <2> SUFFICES ASSUME NEW c \in Clients, NEW r \in 0..MaxNow, promised'[c] # Rate!NONE, promised'[c] <= r
               PROVE  Rate!Refill(bucket'[c], r) >= Window
    BY DEF Rate!Promise, Rate!Refill
  <2>0. r \in Nat
    BY <1>6
  <2>1. promised[c] # Rate!NONE /\ promised[c] <= r => Rate!Refill(bucket[c], r) >= Window
    BY <1>0 DEF Rate!Promise
  <2>2. CASE c # k
    <3>1. promised'[c] = promised[c]
      BY <2>2, <1>5
    <3>2. bucket'[c] \in {bucket[c], Rate!NoBucket}
      BY <2>2, <1>0, <1>2, <1>9, RateKept
    <3> QED
      BY <2>1, <3>1, <3>2, <1>6, RateRefill
  <2>3. CASE c = k
    <3>0. promised \in [Clients -> Int]
      BY <1>0 DEF Rate!TypeOK
    <3>1. ~ok /\ left = level /\ level < Window
      BY <2>3, <3>0, <1>3, <1>5, <1>6
    <3>2. PICK until \in Int : until = s + Rate!RetryAfter(level)
      BY <1>2, <1>3, <1>6 DEF Rate!RetryAfter
    <3>3. \/ until <= r
          \/ promised[k] # Rate!NONE /\ promised[k] <= r
      BY <2>0, <2>3, <3>0, <3>1, <3>2, <1>5 DEF Rate!Least
    <3>4. PICK x \in Nat : x = Capacity * Rate!Since(r, s)
      BY <2>0, <1>2, <1>3, RateRefilled, <1>0 DEF Rate!TypeOK
    <3>5. Rate!Refill(bucket'[c], r) = Rate!Least(Rate!Full, level + x)
      BY <2>0, <2>3, <3>1, <3>4, <1>8, <1>9
    <3>6. CASE until <= r
      <4>1. Window <= level + x
        BY <2>0, <3>1, <3>2, <3>4, <3>6, <1>2, RateRetry
      <4> QED
        BY <3>5, <4>1, <1>6 DEF Rate!Least
    <3>7. CASE promised[k] # Rate!NONE /\ promised[k] <= r
      <4>1. PICK found \in Nat : found = Rate!Refill(bucket[k], r) /\ found >= Window /\ found <= level + x
        BY <2>0, <2>1, <2>3, <3>4, <3>7, <1>0, <1>2, <1>3, RateRefilled DEF Rate!TypeOK
      <4> QED
        BY <3>5, <4>1, <1>6 DEF Rate!Least
    <3> QED
      BY <3>3, <3>6, <3>7
  <2> QED
    BY <2>2, <2>3
<1> QED
  BY <1>19, <1>23, <1>24, <1>25 DEF Rate!Inv

LEMMA RateTicks == Rate!Inv /\ Rate!Tick => Rate!Inv'
<1> SUFFICES ASSUME Rate!Inv, Rate!Tick PROVE Rate!Inv'
  OBVIOUS
<1>1. /\ now < MaxNow /\ now' = now + 1 /\ at' = at /\ seen' = seen /\ bucket' = bucket
      /\ lastCleanup' = lastCleanup /\ decisions' = decisions /\ promised' = promised
  BY DEF Rate!Tick
<1>2. /\ now \in 0..MaxNow /\ MaxNow \in Nat
      /\ at \in [Threads -> Clients \cup {"idle"}] /\ seen \in [Threads -> 0..now]
      /\ bucket \in [Clients -> Rate!Bucket \cup {Rate!NoBucket}]
      /\ lastCleanup \in {Rate!NONE} \cup 0..now
      /\ promised \in [Clients -> Int]
      /\ decisions \in Seq([key: Clients, at: 0..now, admitted: BOOLEAN, moved: Nat])
  BY RateNumbers DEF Rate!Inv, Rate!TypeOK
<1>3. now' \in 0..MaxNow /\ 0..now \subseteq 0..now'
  BY <1>1, <1>2
<1>4. seen' \in [Threads -> 0..now'] /\ lastCleanup' \in {Rate!NONE} \cup 0..now'
  BY <1>1, <1>2, <1>3
<1>5. decisions' \in Seq([key: Clients, at: 0..now', admitted: BOOLEAN, moved: Nat])
  <2> DEFINE D == [key: Clients, at: 0..now, admitted: BOOLEAN, moved: Nat]
             E == [key: Clients, at: 0..now', admitted: BOOLEAN, moved: Nat]
  <2>1. \A d : d \in D => d \in E
    BY <1>3
  <2>2. decisions \in Seq(D)
    BY <1>2
  <2> HIDE DEF D, E
  <2>3. decisions \in Seq(E)
    BY <2>1, <2>2
  <2> QED
    BY <1>1, <2>3 DEF E
<1>6. Rate!TypeOK'
  BY <1>1, <1>2, <1>3, <1>4, <1>5 DEF Rate!TypeOK
<1>7. Rate!AdmissionsArePaidFor' /\ Rate!Paid' /\ Rate!Promise'
  BY <1>1 DEF Rate!Inv, Rate!AdmissionsArePaidFor, Rate!Paid, Rate!Promise, Rate!Admitted, Rate!Forward,
              Rate!Worth, Rate!Reading, Rate!Refill
<1> QED
  BY <1>6, <1>7 DEF Rate!Inv

LEMMA RateArrives == \A t \in Threads, k \in Clients : Rate!Inv /\ Rate!Arrive(t, k) => Rate!Inv'
<1> SUFFICES ASSUME NEW t \in Threads, NEW k \in Clients, Rate!Inv, Rate!Arrive(t, k) PROVE Rate!Inv'
  OBVIOUS
<1>1. /\ now' = now /\ at' = [at EXCEPT ![t] = k] /\ seen' = [seen EXCEPT ![t] = now] /\ bucket' = bucket
      /\ lastCleanup' = lastCleanup /\ decisions' = decisions /\ promised' = promised
  BY DEF Rate!Arrive
<1>2. Rate!TypeOK'
  <2>1. now \in 0..now
    BY RateNumbers DEF Rate!Inv, Rate!TypeOK
  <2> QED
    BY <1>1, <2>1 DEF Rate!Inv, Rate!TypeOK
<1>3. Rate!AdmissionsArePaidFor' /\ Rate!Paid' /\ Rate!Promise'
  BY <1>1 DEF Rate!Inv, Rate!AdmissionsArePaidFor, Rate!Paid, Rate!Promise, Rate!Admitted, Rate!Forward,
              Rate!Worth, Rate!Reading, Rate!Refill
<1> QED
  BY <1>2, <1>3 DEF Rate!Inv

LEMMA RateSteps == Rate!Inv /\ [Rate!Next]_limiter => Rate!Inv'
<1>1. Rate!Inv /\ UNCHANGED limiter => Rate!Inv'
  BY DEF limiter, Rate!Inv, Rate!TypeOK, Rate!AdmissionsArePaidFor, Rate!Paid, Rate!Promise, Rate!Admitted,
         Rate!Forward, Rate!Worth, Rate!Reading, Rate!Refill
<1>2. Rate!Inv /\ Rate!Next => Rate!Inv'
  BY RateTicks, RateArrives, RateDecides DEF Rate!Next
<1> QED
  BY <1>1, <1>2

LEMMA RateServes == Rate!Inv => Rate!RetryStep
<1> SUFFICES ASSUME Rate!Inv, NEW t \in Threads, Rate!Decide(t), promised[at[t]] # Rate!NONE,
                    seen[t] >= promised[at[t]]
             PROVE  decisions'[Len(decisions')].admitted
  BY DEF Rate!RetryStep
<1>0. Rate!TypeOK /\ Rate!Promise
  BY DEF Rate!Inv
<1>1. PICK k \in Clients : k = at[t]
  BY <1>0, RateDecided
<1>2. PICK s \in Nat : s = seen[t] /\ s \in 0..MaxNow
  BY <1>0, RateDecided
<1>3. PICK level \in Nat : level = Rate!Refill(bucket[k], s)
  BY <1>0, <1>1, <1>2, RateDecided
<1>4. \E ok \in BOOLEAN, left \in Nat : Taken(k, s, level, ok, left)
  BY <1>0, <1>1, <1>2, <1>3, RateDecided
<1>5. PICK ok \in BOOLEAN, left \in Nat :
        /\ ok <=> level >= Window
        /\ decisions' = Append(decisions, [key |-> k, at |-> s, admitted |-> ok, moved |-> Rate!Moved(s)])
  BY <1>4 DEF Taken
<1>6. level >= Window
  <2>1. promised[k] \in Int
    BY <1>0 DEF Rate!TypeOK
  <2>2. promised[k] # Rate!NONE /\ promised[k] <= s
    BY <2>1, <1>1, <1>2
  <2> QED
    BY <2>2, <1>0, <1>2, <1>3 DEF Rate!Promise
<1>7. Len(decisions) \in Nat /\ Len(decisions') = Len(decisions) + 1
  BY <1>0, <1>5 DEF Rate!TypeOK
<1>8. decisions'[Len(decisions) + 1] = [key |-> k, at |-> s, admitted |-> ok, moved |-> Rate!Moved(s)]
  BY <1>0, <1>5 DEF Rate!TypeOK
<1> QED
  BY <1>5, <1>6, <1>7, <1>8

(* Between any two decisions a client is admitted no more often than a     *)
(* full bucket and the refill for each move of the readings allow, in      *)
(* whatever order threads read the clock and take the lock and whenever    *)
(* buckets are dropped (RateLimiter::check); and whoever comes back no     *)
(* earlier than a 429 said is not turned away (Retry-After of dispatch).   *)
THEOREM LimiterKeepsItsWord == MCSpec => LimiterIsFair
<1>1. MCInit => Rate!Inv
  BY RateStart DEF MCInit
<1>2. [MCNext]_mcVars => [Rate!Next]_limiter
  BY DEF MCNext, mcVars
<1>3. Rate!Inv /\ [MCNext]_mcVars => Rate!Inv'
  BY <1>2, RateSteps
<1>4. Rate!Inv => (which = "limiter" => Rate!AdmissionsArePaidFor)
  BY DEF Rate!Inv
<1>5. Rate!Inv /\ [MCNext]_mcVars => [which = "limiter" => Rate!RetryStep]_mcVars
  BY RateServes
<1> QED
  BY <1>1, <1>3, <1>4, <1>5, PTL DEF MCSpec, LimiterIsFair

-----------------------------------------------------------------------------
(***************************************************************************)
(* Sorting.                                                                *)
(***************************************************************************)

LEMMA LeastOne ==
    ASSUME NEW T, T \subseteq Nat, T # {}
    PROVE  \E n \in T : \A m \in T : n <= m
<1> DEFINE R == {p \in Nat \X Nat : p[1] < p[2]}
<1>1. IsWellFoundedOn(R, Nat)
  BY NatLessThanWellFounded DEF OpToRel
<1>2. \E n \in T : \A m \in T : ~(<<m, n>> \in R)
  <2> HIDE DEF R
  <2> QED
    BY <1>1, WFMin
<1>3. PICK n \in T : \A m \in T : ~(<<m, n>> \in R)
  BY <1>2
<1>4. ASSUME NEW m \in T PROVE n <= m
  <2>1. ~(<<m, n>> \in R) /\ m \in Nat /\ n \in Nat
    BY <1>3
  <2> QED
    BY <2>1
<1> QED
  BY <1>4

(* A relation that orders 1..n.                                            *)
Orders(R, n) ==
    /\ \A i \in 1..n : <<i, i>> \notin R
    /\ \A i, j \in 1..n : i # j => <<i, j>> \in R \/ <<j, i>> \in R
    /\ \A i, j, k \in 1..n : <<i, j>> \in R /\ <<j, k>> \in R => <<i, k>> \in R

(* The number of indices before one.                                       *)
Count(R, n, i) == Cardinality({j \in 1..n : <<j, i>> \in R})

LEMMA CountGrows ==
    ASSUME NEW n \in Nat, NEW R, Orders(R, n), NEW i \in 1..n
    PROVE  /\ Count(R, n, i) \in 0..(n - 1)
           /\ \A j \in 1..n : <<i, j>> \in R => Count(R, n, i) < Count(R, n, j)
<1> DEFINE Before(k) == {j \in 1..n : <<j, k>> \in R}
<1>b. \A k \in 1..n : \A j : j \in Before(k) <=> j \in 1..n /\ <<j, k>> \in R
  OBVIOUS
<1>c. \A k \in 1..n : Count(R, n, k) = Cardinality(Before(k))
  BY DEF Count
<1> HIDE DEF Before
<1>1. IsFiniteSet(1..n) /\ Cardinality(1..n) = n
  BY FS_Interval
<1>2. ASSUME NEW k \in 1..n
      PROVE  IsFiniteSet(Before(k)) /\ Cardinality(Before(k)) \in 0..(n - 1)
  <2>1. Before(k) \subseteq (1..n) \ {k}
    BY <1>b DEF Orders
  <2>2. IsFiniteSet((1..n) \ {k}) /\ Cardinality((1..n) \ {k}) = n - 1
    BY <1>1, FS_RemoveElement
  <2>3. IsFiniteSet(Before(k)) /\ Cardinality(Before(k)) <= n - 1
    BY <2>1, <2>2, FS_Subset
  <2>4. Cardinality(Before(k)) \in Nat
    BY <2>3, FS_CardinalityType
  <2> QED
    BY <2>3, <2>4
<1>3. ASSUME NEW j \in 1..n, <<i, j>> \in R
      PROVE  Cardinality(Before(i)) < Cardinality(Before(j))
  <2>1. Before(i) \subseteq Before(j) /\ i \in Before(j) /\ i \notin Before(i)
    BY <1>3, <1>b DEF Orders
  <2>2. IsFiniteSet(Before(j))
    BY <1>2
  <2>3. Before(i) \subseteq Before(j) /\ Before(i) # Before(j)
    BY <2>1
  <2>4. /\ Cardinality(Before(i)) <= Cardinality(Before(j))
        /\ Cardinality(Before(i)) = Cardinality(Before(j)) => Before(i) = Before(j)
    BY <2>2, <2>3, FS_Subset
  <2>5. Cardinality(Before(i)) \in Nat /\ Cardinality(Before(j)) \in Nat
    BY <1>2
  <2> QED
    BY <2>3, <2>4, <2>5
<1> QED
  BY <1>2, <1>3, <1>c

(* The count tells the indices apart.                                      *)
LEMMA CountTells ==
    ASSUME NEW n \in Nat, NEW R, Orders(R, n), NEW i \in 1..n, NEW j \in 1..n,
           Count(R, n, i) = Count(R, n, j)
    PROVE  i = j
<1>1. Count(R, n, i) \in Nat /\ Count(R, n, j) \in Nat
  BY CountGrows
<1>2. <<i, j>> \in R => Count(R, n, i) < Count(R, n, j)
  BY CountGrows
<1>3. <<j, i>> \in R => Count(R, n, j) < Count(R, n, i)
  BY CountGrows
<1> QED
  BY <1>1, <1>2, <1>3 DEF Orders

(* Every place in the order is that of one index: the number of those      *)
(* before it differs from index to index, so none is left over.            *)
LEMMA EveryPlace ==
    ASSUME NEW n \in Nat, NEW R, Orders(R, n), NEW k \in 1..n
    PROVE  \E i \in 1..n : Count(R, n, i) = k - 1
<1> DEFINE f == [i \in 1..n |-> Count(R, n, i)]
           T == (0..(n - 1)) \ {k - 1}
<1>1. SUFFICES ASSUME \A i \in 1..n : Count(R, n, i) # k - 1 PROVE FALSE
  OBVIOUS
<1>2. IsFiniteSet(1..n) /\ Cardinality(1..n) = n
  BY FS_Interval
<1>3. IsFiniteSet(0..(n - 1)) /\ Cardinality(0..(n - 1)) = n
  BY FS_Interval
<1>4. k - 1 \in 0..(n - 1)
  OBVIOUS
<1>5. IsFiniteSet(T) /\ Cardinality(T) = n - 1
  BY <1>3, <1>4, FS_RemoveElement
<1>6. f \in [1..n -> T]
  BY <1>1, CountGrows
<1>7. \A i \in 1..n : f[i] = Count(R, n, i)
  OBVIOUS
<1> HIDE DEF T, f
<1>8. Cardinality(T) < Cardinality(1..n)
  BY <1>2, <1>5
<1>9. PICK i \in 1..n, j \in 1..n : i # j /\ f[i] = f[j]
  BY <1>2, <1>5, <1>6, <1>8, FS_PigeonHole
<1> QED
  BY <1>7, <1>9, CountTells

LEMMA FunctionIsSeq == \A n \in Nat : \A S : \A f \in [1..n -> S] : f \in Seq(S)
  BY SeqDef

LEMMA PrecedesOrders ==
    ASSUME NEW x \in Seq(Nat), NEW y \in Seq(Nat)
    PROVE  /\ ~Precedes(x, x)
           /\ x # y => Precedes(x, y) \/ Precedes(y, x)
<1>1. ~Precedes(x, x)
  <2> SUFFICES ASSUME NEW n \in 0..Len(x), n < Len(x), x[n + 1] < x[n + 1] PROVE FALSE
    BY DEF Precedes
  <2>1. x[n + 1] \in Nat
    BY ElementOfSeq
  <2> QED
    BY <2>1
<1>2. ASSUME x # y PROVE Precedes(x, y) \/ Precedes(y, x)
  <2>l. Len(x) \in Nat /\ Len(y) \in Nat
    OBVIOUS
  <2> DEFINE T == {m \in 1..Len(x) : m <= Len(y) /\ x[m] # y[m]}
  <2>1. CASE T = {}
    <3>1. \A m \in 1..Len(x) : m <= Len(y) => x[m] = y[m]
      BY <2>1
    <3>2. CASE Len(x) < Len(y)
      <4>1. /\ Len(x) \in 0..Len(x) /\ Len(x) < Len(y)
            /\ \A i \in 1..Len(x) : x[i] = y[i] 
        BY <2>l, <3>1, <3>2
      <4> QED
        BY <4>1 DEF Precedes
    <3>3. CASE Len(y) < Len(x)
      <4>1. /\ Len(y) \in 0..Len(y) /\ Len(y) < Len(x)
            /\ \A i \in 1..Len(y) : y[i] = x[i] 
        BY <2>l, <3>1, <3>3
      <4> QED
        BY <4>1 DEF Precedes
    <3>4. CASE Len(x) = Len(y)
      <4>1. \A i \in 1..Len(x) : x[i] = y[i]
        BY <2>l, <3>1, <3>4
      <4> QED
        BY <1>2, <3>4, <4>1, SeqEqual
    <3> QED
      BY <2>l, <3>2, <3>3, <3>4
  <2>2. CASE T # {}
    <3>0. T \subseteq Nat
      BY <2>l
    <3>m. PICK m \in T : \A k \in T : m <= k
      <4> HIDE DEF T
      <4> QED
        BY <2>2, <3>0, LeastOne
    <3>1. /\ m \in Nat \ {0} /\ m <= Len(x) /\ m <= Len(y) /\ x[m] # y[m]
          /\ \A i \in 1..(m - 1) : x[i] = y[i]
      <4>1. ASSUME NEW i \in 1..(m - 1) PROVE x[i] = y[i]
        <5>1. i \notin T /\ i \in 1..Len(x) /\ i <= Len(y)
          BY <2>l, <3>m
        <5> QED
          BY <5>1
      <4> QED
        BY <2>l, <3>m, <4>1
    <3>n. PICK n \in Nat : n = m - 1
      BY <3>1
    <3>2. /\ n \in 0..Len(x) /\ n \in 0..Len(y) /\ n < Len(x) /\ n < Len(y) /\ n + 1 = m
          /\ \A i \in 1..n : x[i] = y[i] /\ y[i] = x[i]
      BY <2>l, <3>1, <3>n
    <3>3. x[m] \in Nat /\ y[m] \in Nat
      BY <2>l, <3>1, ElementOfSeq
    <3>4. x[m] < y[m] \/ y[m] < x[m]
      BY <3>1, <3>3
    <3> QED
      BY <3>2, <3>4 DEF Precedes
  <2> QED
    BY <2>1, <2>2
<1> QED
  BY <1>1, <1>2

LEMMA PrecedesChains ==
    ASSUME NEW x \in Seq(Nat), NEW y \in Seq(Nat), NEW z \in Seq(Nat),
           Precedes(x, y), Precedes(y, z)
    PROVE  Precedes(x, z)
<1>l. Len(x) \in Nat /\ Len(y) \in Nat /\ Len(z) \in Nat
  OBVIOUS
<1>m. PICK m \in 0..Len(x) : /\ m < Len(y) /\ \A i \in 1..m : x[i] = y[i]
                             /\ m < Len(x) => x[m + 1] < y[m + 1]
  BY DEF Precedes
<1>n. PICK n \in 0..Len(y) : /\ n < Len(z) /\ \A i \in 1..n : y[i] = z[i]
                             /\ n < Len(y) => y[n + 1] < z[n + 1]
  BY DEF Precedes
<1>1. CASE m < n
  <2>1. /\ m \in 0..Len(x) /\ m < Len(z) /\ \A i \in 1..m : x[i] = z[i]
    BY <1>l, <1>m, <1>n, <1>1
  <2>2. m + 1 \in 1..n
    BY <1>1, <1>m, <1>n
  <2>3. y[m + 1] = z[m + 1]
    BY <1>n, <2>2
  <2> QED
    BY <1>m, <2>1, <2>3 DEF Precedes
<1>2. CASE m = n
  <2>1. /\ m \in 0..Len(x) /\ m < Len(z) /\ \A i \in 1..m : x[i] = z[i]
    BY <1>l, <1>m, <1>n, <1>2
  <2>2. y[m + 1] < z[m + 1]
    BY <1>m, <1>n, <1>2
  <2>3. ASSUME m < Len(x) PROVE x[m + 1] < z[m + 1]
    <3>0. m + 1 \in 1..Len(x) /\ m + 1 \in 1..Len(y) /\ m + 1 \in 1..Len(z)
      BY <1>l, <1>m, <2>1, <2>3
    <3>1. x[m + 1] \in Nat /\ y[m + 1] \in Nat /\ z[m + 1] \in Nat
      BY <3>0, ElementOfSeq
    <3>2. x[m + 1] < y[m + 1]
      BY <1>m, <2>3
    <3> QED
      BY <2>2, <3>1, <3>2
  <2> QED
    BY <2>1, <2>3 DEF Precedes
<1>3. CASE n < m
  <2>1. /\ n \in 0..Len(x) /\ n < Len(z) /\ n < Len(y) /\ \A i \in 1..n : x[i] = z[i]
    BY <1>l, <1>m, <1>n, <1>3
  <2>2. n + 1 \in 1..m
    BY <1>3, <1>m, <1>n
  <2>3. x[n + 1] = y[n + 1]
    BY <1>m, <2>2
  <2>4. x[n + 1] < z[n + 1]
    BY <1>n, <2>1, <2>3
  <2> QED
    BY <2>1, <2>4 DEF Precedes
<1> QED
  BY <1>l, <1>m, <1>n, <1>1, <1>2, <1>3

(* What takes the places in an order are the indices that are ordered,     *)
(* each of them, and none that comes before another stands after it.       *)
LEMMA InOrderIs ==
    ASSUME NEW n \in Nat, NEW R, Orders(R, n)
    PROVE  /\ InOrder(n, R) \in [1..n -> 1..n]
           /\ \A i \in 1..n : \E k \in 1..n : InOrder(n, R)[k] = i
           /\ \A k, m \in 1..n : k < m => <<InOrder(n, R)[m], InOrder(n, R)[k]>> \notin R
<1> DEFINE Place(k) == CHOOSE i \in 1..n : Cardinality({j \in 1..n : <<j, i>> \in R}) = k - 1
<1>1. ASSUME NEW k \in 1..n PROVE Place(k) \in 1..n /\ Count(R, n, Place(k)) = k - 1
  <2>1. \E i \in 1..n : Cardinality({j \in 1..n : <<j, i>> \in R}) = k - 1
    BY EveryPlace DEF Count
  <2> QED
    BY <2>1 DEF Count
<1>2. InOrder(n, R) = [k \in 1..n |-> Place(k)]
  BY DEF InOrder
<1> HIDE DEF Place
<1>3. InOrder(n, R) \in [1..n -> 1..n] /\ \A k \in 1..n : InOrder(n, R)[k] = Place(k)
  BY <1>1, <1>2
<1>4. ASSUME NEW i \in 1..n PROVE \E k \in 1..n : Place(k) = i
  <2>c. PICK c \in 0..(n - 1) : c = Count(R, n, i)
    BY CountGrows
  <2>1. c + 1 \in 1..n /\ (c + 1) - 1 = c
    OBVIOUS
  <2>2. Place(c + 1) \in 1..n /\ Count(R, n, Place(c + 1)) = Count(R, n, i)
    BY <1>1, <2>1, <2>c
  <2>3. Place(c + 1) = i
    BY <2>2, CountTells
  <2> QED
    BY <2>1, <2>3
<1>5. ASSUME NEW k \in 1..n, NEW m \in 1..n, k < m PROVE <<Place(m), Place(k)>> \notin R
  <2>1. SUFFICES ASSUME <<Place(m), Place(k)>> \in R PROVE FALSE
    OBVIOUS
  <2>2. Place(m) \in 1..n /\ Place(k) \in 1..n
    BY <1>1
  <2>3. Count(R, n, Place(m)) < Count(R, n, Place(k))
    BY <2>1, <2>2, CountGrows
  <2>4. m - 1 < k - 1
    BY <1>1, <2>3
  <2> QED
    BY <1>5, <2>4
<1> QED
  BY <1>3, <1>4, <1>5

(* Keys that a relation orders, and indices among equal keys.              *)
Under(L, x, y) == <<x, y>> \in L
OrdersKeys(L, key, n) ==
    /\ \A i \in 1..n : ~Under(L, key[i], key[i])
    /\ \A i, j \in 1..n : key[i] # key[j] => Under(L, key[i], key[j]) \/ Under(L, key[j], key[i])
    /\ \A i, j, k \in 1..n : Under(L, key[i], key[j]) /\ Under(L, key[j], key[k])
                                => Under(L, key[i], key[k])
ByKey(R, L, key, n) ==
    \A i, j \in 1..n : <<i, j>> \in R <=> Under(L, key[i], key[j]) \/ (key[i] = key[j] /\ i < j)

LEMMA KeysOrder ==
    ASSUME NEW n \in Nat, NEW R, NEW L, NEW key, OrdersKeys(L, key, n), ByKey(R, L, key, n)
    PROVE  Orders(R, n)
<1>r. ASSUME NEW i \in 1..n, NEW j \in 1..n
      PROVE  /\ <<i, j>> \in R <=> Under(L, key[i], key[j]) \/ (key[i] = key[j] /\ i < j)
             /\ ~Under(L, key[i], key[i])
             /\ key[i] # key[j] => Under(L, key[i], key[j]) \/ Under(L, key[j], key[i])
  BY DEF OrdersKeys, ByKey
<1>1. ASSUME NEW i \in 1..n PROVE <<i, i>> \notin R
  BY <1>r
<1>2. ASSUME NEW i \in 1..n, NEW j \in 1..n, i # j
      PROVE  <<i, j>> \in R \/ <<j, i>> \in R
  <2>1. i < j \/ j < i
    BY <1>2
  <2> QED
    BY <1>r, <2>1
<1>3. ASSUME NEW i \in 1..n, NEW j \in 1..n, NEW k \in 1..n,
             <<i, j>> \in R, <<j, k>> \in R
      PROVE  <<i, k>> \in R
  <2>1. CASE key[i] = key[j] /\ key[j] = key[k]
    <3>1. i < j /\ j < k
      BY <1>3, <2>1, <1>r
    <3> QED
      BY <2>1, <3>1, <1>r
  <2>2. CASE Under(L, key[i], key[j]) /\ Under(L, key[j], key[k])
    <3>1. Under(L, key[i], key[k])
      BY <2>2 DEF OrdersKeys
    <3> QED
      BY <3>1, <1>r
  <2>3. CASE key[i] = key[j] /\ Under(L, key[j], key[k])
    <3>1. Under(L, key[i], key[k])
      BY <2>3
    <3> QED
      BY <3>1, <1>r
  <2>4. CASE Under(L, key[i], key[j]) /\ key[j] = key[k]
    <3>1. Under(L, key[i], key[k])
      BY <2>4
    <3> QED
      BY <3>1, <1>r
  <2> QED
    BY <1>3, <1>r, <2>1, <2>2, <2>3, <2>4
<1> QED
  BY <1>1, <1>2, <1>3 DEF Orders

LEMMA SpecificityIs ==
    ASSUME NEW S, NEW path \in Seq(S), \A seg \in S : seg.mark \in {"", ":", "*"}
    PROVE  specificity(path) \in Seq(Nat)
<1>1. PICK len \in Nat : len = Len(path) /\ DOMAIN path = 1..len
  BY LenProperties
<1>2. \A k \in 1..len : path[k].mark \in {"", ":", "*"}
  BY <1>1, ElementOfSeq
<1>3. specificity(path) = [k \in 1..len |-> Rank[path[k].mark]]
  BY <1>1 DEF specificity
<1>4. \A m \in {"", ":", "*"} : Rank[m] \in Nat
  BY DEF Rank
<1>5. \A k \in 1..len : Rank[path[k].mark] \in Nat
  BY <1>2, <1>4
<1>6. specificity(path) \in [1..len -> Nat]
  BY <1>3, <1>5
<1> QED
  BY <1>6, FunctionIsSeq

LEMMA OrderedKeeps ==
    ASSUME NEW S, NEW routes \in Seq(S),
           \A r \in S : /\ r.path \in Seq(ToSet(r.path))
                       /\ \A seg \in ToSet(r.path) : seg.mark \in {"", ":", "*"}
    PROVE  /\ DOMAIN Ordered(routes) = 1..Len(routes)
           /\ \A i \in 1..Len(routes) : Ordered(routes)[i] \in ToSet(routes)
           /\ \A k \in 1..Len(routes) : \E i \in 1..Len(routes) : Ordered(routes)[i] = routes[k]
           /\ \A i, j \in 1..Len(routes) : i < j =>
                 ~Precedes(specificity(Ordered(routes)[j].path), specificity(Ordered(routes)[i].path))
<1>n. PICK n \in Nat : n = Len(routes) /\ DOMAIN routes = 1..n
  BY LenProperties
<1> DEFINE key == [i \in 1..n |-> specificity(routes[i].path)]
           L == {p \in Seq(Nat) \X Seq(Nat) : Precedes(p[1], p[2])}
<1>1. ASSUME NEW i \in 1..n PROVE key[i] \in Seq(Nat)
  <2>1. routes[i] \in S
    BY <1>n, ElementOfSeq
  <2>2. specificity(routes[i].path) \in Seq(Nat)
    BY <2>1, SpecificityIs
  <2> QED
    BY <2>2
<1>2. \A i, j \in 1..n : <<i, j>> \in Sooner(routes) <=>
         Precedes(key[i], key[j]) \/ (key[i] = key[j] /\ i < j)
  BY <1>n DEF Sooner
<1> HIDE DEF key
<1>3. \A i, j \in 1..n : Under(L, key[i], key[j]) <=> Precedes(key[i], key[j])
  BY <1>1 DEF Under
<1> HIDE DEF L
<1>4. \A i \in 1..n : ~Under(L, key[i], key[i])
  BY <1>1, <1>3, PrecedesOrders
<1>5. \A i, j \in 1..n : key[i] # key[j] => Under(L, key[i], key[j]) \/ Under(L, key[j], key[i])
  BY <1>1, <1>3, PrecedesOrders
<1>6. \A i, j, k \in 1..n : Under(L, key[i], key[j]) /\ Under(L, key[j], key[k])
                               => Under(L, key[i], key[k])
  BY <1>1, <1>3, PrecedesChains
<1>7. OrdersKeys(L, key, n) /\ ByKey(Sooner(routes), L, key, n)
  BY <1>2, <1>3, <1>4, <1>5, <1>6 DEF OrdersKeys, ByKey
<1>8. Orders(Sooner(routes), n)
  BY <1>7, KeysOrder
<1>o. PICK order \in [1..n -> 1..n] :
         /\ order = InOrder(n, Sooner(routes))
         /\ \A i \in 1..n : \E k \in 1..n : order[k] = i
         /\ \A k, m \in 1..n : k < m => <<order[m], order[k]>> \notin Sooner(routes)
  BY <1>8, InOrderIs
<1>9. Ordered(routes) = [i \in 1..n |-> routes[order[i]]]
  BY <1>n, <1>o DEF Ordered
<1>10. \A i \in 1..n : order[i] \in 1..n
  OBVIOUS
<1>11. \A i \in 1..n : key[i] = specificity(routes[i].path)
  BY DEF key
<1>12. ASSUME NEW i \in 1..n, NEW j \in 1..n, i < j
       PROVE  ~Precedes(specificity(Ordered(routes)[j].path), specificity(Ordered(routes)[i].path))
  <2>1. <<order[j], order[i]>> \notin Sooner(routes)
    BY <1>o, <1>12
  <2>2. ~Precedes(key[order[j]], key[order[i]])
    BY <1>2, <1>10, <2>1
  <2> QED
    BY <1>9, <1>10, <1>11, <2>2
<1>13. \A i \in 1..n : Ordered(routes)[i] \in ToSet(routes)
  BY <1>n, <1>9, <1>10 DEF ToSet
<1>14. ASSUME NEW k \in 1..n PROVE \E i \in 1..n : Ordered(routes)[i] = routes[k]
  <2>1. PICK i \in 1..n : order[i] = k
    BY <1>o
  <2>2. Ordered(routes)[i] = routes[k]
    BY <1>9, <2>1
  <2> QED
    BY <2>2
<1>15. DOMAIN Ordered(routes) = 1..n
  BY <1>9
<1> QED
  BY <1>n, <1>12, <1>13, <1>14, <1>15

LEMMA ByLengthKeeps ==
    ASSUME NEW S, NEW mounts \in Seq(S), \A m \in S : m.prefix \in Seq(ToSet(m.prefix))
    PROVE  /\ DOMAIN ByLength(mounts) = 1..Len(mounts)
           /\ \A i \in 1..Len(mounts) : \E k \in 1..Len(mounts) : ByLength(mounts)[i] = mounts[k]
<1>n. PICK n \in Nat : n = Len(mounts) /\ DOMAIN mounts = 1..n
  BY LenProperties
<1> DEFINE key == [i \in 1..n |-> Len(mounts[i].prefix)]
           L == {p \in Nat \X Nat : p[1] > p[2]}
<1>1. ASSUME NEW i \in 1..n PROVE key[i] \in Nat
  <2>1. mounts[i] \in S
    BY <1>n, ElementOfSeq
  <2>2. Len(mounts[i].prefix) \in Nat
    BY <2>1, LenProperties
  <2> QED
    BY <2>2
<1>2. \A i, j \in 1..n : <<i, j>> \in Longer(mounts) <=>
         key[i] > key[j] \/ (key[i] = key[j] /\ i < j)
  BY <1>n DEF Longer
<1> HIDE DEF key
<1>3. \A i, j \in 1..n : Under(L, key[i], key[j]) <=> key[i] > key[j]
  BY <1>1 DEF Under
<1> HIDE DEF L
<1>4. OrdersKeys(L, key, n)
  BY <1>1, <1>3 DEF OrdersKeys
<1>5. ByKey(Longer(mounts), L, key, n)
  BY <1>2, <1>3 DEF ByKey
<1>6. Orders(Longer(mounts), n)
  BY <1>4, <1>5, KeysOrder
<1>o. PICK order \in [1..n -> 1..n] : order = InOrder(n, Longer(mounts))
  BY <1>6, InOrderIs
<1>7. ByLength(mounts) = [i \in 1..n |-> mounts[order[i]]]
  BY <1>n, <1>o DEF ByLength
<1>8. \A i \in 1..n : order[i] \in 1..n
  OBVIOUS
<1> QED
  BY <1>n, <1>7, <1>8

-----------------------------------------------------------------------------
(***************************************************************************)
(* The host of a request, its routes and its files.                        *)
(***************************************************************************)

(* What the first of the indices of a sequence with a property is.         *)
Least(T) == IF T = {} THEN None ELSE CHOOSE i \in T : \A j \in T : i <= j

LEMMA LeastIs ==
    ASSUME NEW S, NEW s \in Seq(S), NEW T, T \subseteq DOMAIN s
    PROVE  /\ T = {} => Least(T) = None
           /\ T # {} => /\ Least(T) \in T /\ Least(T) # None
                        /\ Least(T) = CHOOSE i \in T : \A j \in T : i <= j
<1>1. T \subseteq Nat /\ None \notin T
  BY LenProperties DEF None
<1>2. ASSUME T # {}
      PROVE  /\ Least(T) \in T
             /\ Least(T) = CHOOSE i \in T : \A j \in T : i <= j
  <2>1. \E i \in T : \A j \in T : i <= j
    BY <1>1, <1>2, LeastOne
  <2>2. Least(T) = CHOOSE i \in T : \A j \in T : i <= j
    BY <1>2 DEF Least
  <2> QED
    BY <2>1, <2>2
<1> QED
  BY <1>1, <1>2 DEF Least

(* The host that serves a request, at every step, is declared: its routes  *)
(* are those of the program in the order of matching.                      *)
LEMMA SelectedIs ==
    ASSUME server \in Services
    PROVE  Selected = Owner /\ IsHost(Selected)
<1>s. /\ IsHost(server.default) /\ server.vhosts \in Seq(ToSet(server.vhosts))
      /\ \A h \in ToSet(server.vhosts) : IsHost(h)
  BY ServerAssumption
<1>v. PICK vs \in Seq(ToSet(server.vhosts)) : vs = server.vhosts
  BY <1>s
<1>h. PICK host : host = req.host
  OBVIOUS
<1> DEFINE named == {i \in DOMAIN vs : vs[i].pattern = Exact(host)}
           above == {i \in DOMAIN vs : vs[i].pattern.wild /\ IsSuffix(vs[i].pattern.labels, host)}
           first(indices) == vs[CHOOSE i \in indices : \A j \in indices : i <= j]
           exact == {i \in DOMAIN vs : ~vs[i].pattern.wild /\ matches_host(vs[i].pattern, host)}
           wild == {i \in DOMAIN vs : vs[i].pattern.wild /\ matches_host(vs[i].pattern, host)}
<1>1. ASSUME NEW i \in DOMAIN vs PROVE vs[i] \in ToSet(server.vhosts) /\ IsHost(vs[i])
  <2>1. vs[i] \in ToSet(server.vhosts)
    BY <1>v DEF ToSet
  <2> QED
    BY <1>s, <2>1
<1>2. Owner = IF named # {} THEN first(named) ELSE IF above # {} THEN first(above) ELSE server.default
  BY <1>v, <1>h DEF Owner
<1>3. select_host(vs, host) = IF Least(exact) # None THEN Least(exact) ELSE Least(wild)
  BY DEF select_host, FirstOf, Least
<1>4. exact = named
  <2>1. ASSUME NEW i \in DOMAIN vs
        PROVE  (~vs[i].pattern.wild /\ matches_host(vs[i].pattern, host))
                 <=> vs[i].pattern = Exact(host)
    <3>p. PICK pattern : pattern = vs[i].pattern
      OBVIOUS
    <3>1. pattern \in [wild : BOOLEAN, labels : {pattern.labels}]
      BY <1>1, <3>p DEF IsHost
    <3>2. (~pattern.wild /\ host = pattern.labels) <=> pattern = [wild |-> FALSE, labels |-> host]
      BY <3>1
    <3> QED
      BY <3>p, <3>2 DEF matches_host, Exact
  <2> QED
    BY <2>1
<1>5. wild = above
  BY DEF matches_host
<1>6. named \subseteq DOMAIN vs /\ above \subseteq DOMAIN vs
  OBVIOUS
<1>7. Selected = IF select_host(vs, host) = None THEN server.default ELSE vs[select_host(vs, host)]
  BY <1>v, <1>h DEF Selected
<1> DEFINE firstNamed == CHOOSE i \in named : \A j \in named : i <= j
           firstAbove == CHOOSE i \in above : \A j \in above : i <= j
<1>8. Owner = IF named # {} THEN vs[firstNamed] ELSE IF above # {} THEN vs[firstAbove] ELSE server.default
  BY <1>2
<1>9. /\ named = {} => Least(named) = None
      /\ named # {} => Least(named) \in DOMAIN vs /\ Least(named) # None /\ Least(named) = firstNamed
      /\ above = {} => Least(above) = None
      /\ above # {} => Least(above) \in DOMAIN vs /\ Least(above) # None /\ Least(above) = firstAbove
  <2> HIDE DEF named, above
  <2>1. /\ named = {} => Least(named) = None
        /\ named # {} => /\ Least(named) \in named /\ Least(named) # None
                         /\ Least(named) = CHOOSE i \in named : \A j \in named : i <= j
    BY <1>6, LeastIs
  <2>2. /\ above = {} => Least(above) = None
        /\ above # {} => /\ Least(above) \in above /\ Least(above) # None
                         /\ Least(above) = CHOOSE i \in above : \A j \in above : i <= j
    BY <1>6, LeastIs
  <2> QED
    BY <1>6, <2>1, <2>2
<1> HIDE DEF named, above, exact, wild, firstNamed, firstAbove
<1> QED
  BY <1>1, <1>s, <1>3, <1>4, <1>5, <1>7, <1>8, <1>9

LEMMA RouterIs ==
    ASSUME NEW h, IsHost(h)
    PROVE  /\ Router(h).routes = Ordered(h.routes)
           /\ Ordered(h.routes) \in Seq(ToSet(h.routes))
<1>r. PICK routes \in Seq(ToSet(h.routes)) : routes = h.routes
  BY DEF IsHost
<1>1. /\ DOMAIN Ordered(routes) = 1..Len(routes)
      /\ \A i \in 1..Len(routes) : Ordered(routes)[i] \in ToSet(routes)
  BY <1>r, OrderedKeeps DEF IsHost
<1>2. Ordered(routes) \in [1..Len(routes) -> ToSet(routes)]
  <2>1. Ordered(routes) = [i \in DOMAIN Ordered(routes) |-> Ordered(routes)[i]]
    BY DEF Ordered
  <2> QED
    BY <1>1, <2>1
<1>3. Ordered(routes) \in Seq(ToSet(routes))
  <2>1. Len(routes) \in Nat
    BY LenProperties
  <2> QED
    BY <1>2, <2>1, SeqDef
<1>4. Router(h).routes = Ordered(h.routes)
  <2>1. h \in [pattern : {h.pattern}, routes : {h.routes}, mounts : {h.mounts}, auth : {h.auth}]
    BY DEF IsHost
  <2> QED
    BY <2>1 DEF Router
<1> QED
  BY <1>r, <1>3, <1>4

(* A route that is found is one of the host's; that none is found says     *)
(* that the host has none with the method for the path.                    *)
LEMMA MatchIs ==
    ASSUME NEW h, IsHost(h), NEW method, NEW path
    PROVE  /\ match_route(Router(h), method, path) # None
                <=> method \in methods_for_path(Router(h), path)
           /\ match_route(Router(h), method, path) # None
                => Router(h).routes[match_route(Router(h), method, path)] \in ToSet(h.routes)
<1>r. PICK routes \in Seq(ToSet(h.routes)) : routes = Router(h).routes
  BY RouterIs
<1> DEFINE found == {i \in DOMAIN routes : routes[i].method = method /\ path_match(routes[i].path, path)}
<1>1. match_route(Router(h), method, path) = Least(found)
  BY <1>r DEF match_route, Least
<1>2. /\ found = {} => Least(found) = None
      /\ found # {} => Least(found) \in found /\ Least(found) # None
  <2>1. found \subseteq DOMAIN routes
    OBVIOUS
  <2> HIDE DEF found
  <2> QED
    BY <2>1, LeastIs
<1>3. method \in methods_for_path(Router(h), path) <=> found # {}
  BY <1>r DEF methods_for_path
<1>4. \A i \in found : routes[i] \in ToSet(h.routes)
  BY LenProperties, ElementOfSeq
<1> HIDE DEF found
<1> QED
  BY <1>r, <1>1, <1>2, <1>3, <1>4

(* A file that is found lies under one of the mounts.                      *)
LEMMA FileIs ==
    ASSUME NEW h, IsHost(h), NEW path, static_file(h.mounts, path).found
    PROVE  \E i \in DOMAIN h.mounts : IsPrefix(h.mounts[i].base, static_file(h.mounts, path).path)
<1>m. PICK mounts \in Seq(ToSet(h.mounts)) : mounts = h.mounts
  BY DEF IsHost
<1>l. PICK list : list = ByLength(mounts)
  OBVIOUS
<1>n. PICK n \in Nat : n = Len(mounts) /\ DOMAIN mounts = 1..n
  BY LenProperties
<1>1. /\ DOMAIN list = 1..n
      /\ \A i \in 1..n : \E k \in 1..n : list[i] = mounts[k]
  <2>1. \A m \in ToSet(h.mounts) : m.prefix \in Seq(ToSet(m.prefix))
    BY DEF IsHost
  <2>2. /\ DOMAIN ByLength(mounts) = 1..Len(mounts)
        /\ \A i \in 1..Len(mounts) : \E k \in 1..Len(mounts) : ByLength(mounts)[i] = mounts[k]
    BY <2>1, ByLengthKeeps
  <2> QED
    BY <1>l, <1>n, <2>2
<1>2. NotThere.found = FALSE
  BY DEF NotThere
<1>3. ASSUME NEW base, NEW rel, resolve_in(base, rel).found
      PROVE  IsPrefix(base, resolve_in(base, rel).path)
  BY <1>2, <1>3 DEF resolve_in, within
<1> DEFINE found == {i \in DOMAIN list : in_mount(list[i], path).found}
<1>4. static_file(mounts, path) = IF Least(found) = None THEN NotThere ELSE in_mount(list[Least(found)], path)
  BY <1>l DEF static_file, FirstOf, Least
<1>5. \A m : in_mount(m, path).found => IsPrefix(m.base, in_mount(m, path).path)
  BY <1>2, <1>3 DEF in_mount
<1>6. \A i \in found : i \in 1..n /\ in_mount(list[i], path).found
  BY <1>1
<1> HIDE DEF found
<1>7. Least(found) # None /\ static_file(mounts, path) = in_mount(list[Least(found)], path)
  BY <1>m, <1>2, <1>4
<1>8. Least(found) \in found
  <2>1. found # {}
    BY <1>7 DEF Least
  <2>2. found \subseteq DOMAIN mounts
    BY <1>6, <1>n
  <2> QED
    BY <2>1, <2>2, LeastIs
<1>9. IsPrefix(list[Least(found)].base, static_file(mounts, path).path)
  BY <1>5, <1>6, <1>7, <1>8
<1> QED
  BY <1>m, <1>n, <1>1, <1>6, <1>8, <1>9

-----------------------------------------------------------------------------
(***************************************************************************)
(* What runs for a request is of the host that covers its name.            *)
(***************************************************************************)

UserOf(h, u) == u \in {h.auth[t] : t \in DOMAIN h.auth}
RanOf(h, runs) ==
    \A i \in DOMAIN runs :
        /\ runs[i].route \in ToSet(h.routes)
        /\ runs[i].route.auth => UserOf(h, runs[i].user)
FileOf(h, f) == f # <<>> => \E i \in DOMAIN h.mounts : IsPrefix(h.mounts[i].base, f)
AllowOf(h, path, given) ==
    (given.from = "none" /\ given.status = 405) =>
        \A m \in {"GET", "PUT", "POST", "DELETE"} :
            m \in given.allow <=> match_route(Router(h), m, path) # None
ShapedAnswer(given) ==
    given \in [status : {given.status}, from : {given.from}, body : {given.body},
               allow : {given.allow}, file : {given.file}]
Fits(h, path, given) == ShapedAnswer(given) /\ FileOf(h, given.file) /\ AllowOf(h, path, given)

(* Until something ran there is no answer; from the match on the request   *)
(* has a route of its host, and before it runs a user of that host.        *)
Undecided == {"received", "match", "limit", "json", "auth", "run"}
Routed == {"limit", "json", "auth", "run"}
Hosted ==
    /\ server \in Services
    /\ pc \in Undecided => ran = <<>> /\ answer = NoAnswer
    /\ pc \in Routed => route \in ToSet(Owner.routes)
    /\ pc = "run" => (route.auth => UserOf(Owner, user))
    /\ req.method # "OPTIONS" =>
          /\ RanOf(Owner, ran) /\ Fits(Owner, req.path, answer)
          /\ (answer.from = "none" /\ pc # "panicked") => ran = <<>>

LEMMA HostedSays == Hosted => HostsIsolated
<1> SUFFICES ASSUME Hosted, req.method # "OPTIONS" PROVE HostsIsolated
  BY DEF HostsIsolated
<1>h. PICK h : h = Owner
  OBVIOUS
<1>1. /\ RanOf(h, ran) /\ Fits(h, req.path, answer)
      /\ (answer.from = "none" /\ pc # "panicked") => ran = <<>>
  BY <1>h DEF Hosted
<1>2. HostsIsolated <=>
        /\ RanOf(h, ran) /\ FileOf(h, answer.file) /\ AllowOf(h, req.path, answer)
        /\ (answer.from = "none" /\ pc # "panicked") => ran = <<>>
  BY <1>h DEF HostsIsolated, RanOf, FileOf, AllowOf, UserOf
<1> QED
  BY <1>1, <1>2 DEF Fits

(* Answers without a file, and without methods that are allowed.           *)
LEMMA PlainFits ==
    ASSUME NEW h, NEW path, NEW status, NEW from, NEW body, from # "none" \/ status # 405
    PROVE  Fits(h, path, Answer(status, from, body)) /\ Answer(status, from, body).from = from
  BY DEF Fits, ShapedAnswer, FileOf, AllowOf, Answer

LEMMA GivenFits ==
    ASSUME NEW h, NEW path, NEW g, g.kind \in Gives
    PROVE  Fits(h, path, Given(g)) /\ Given(g).from = "handler"
<1>1. g.kind = "value" \/ g.kind = "content" \/ g.kind = "invalid" \/ g.kind = "error"
  BY DEF Gives
<1>2. \E status, body : Given(g) = Answer(status, "handler", body)
  <2>1. CASE g.kind = "value"
    BY <2>1 DEF Given
  <2>2. CASE g.kind = "content"
    BY <2>2 DEF Given
  <2>3. CASE g.kind = "invalid"
    BY <2>3 DEF Given
  <2>4. CASE g.kind = "error"
    BY <2>4 DEF Given
  <2> QED
    BY <1>1, <2>1, <2>2, <2>3, <2>4
<1> QED
  BY <1>2, PlainFits

LEMMA EmptyRuns == \A h : RanOf(h, <<>>) /\ \A path : Fits(h, path, NoAnswer)
<1>1. DOMAIN <<>> = {}
  OBVIOUS
<1>2. \A h : RanOf(h, <<>>)
  BY <1>1 DEF RanOf
<1>3. \A h, path : Fits(h, path, NoAnswer)
  BY DEF Fits, ShapedAnswer, FileOf, AllowOf, Answer, NoAnswer
<1> QED
  BY <1>2, <1>3

LEMMA HostedInit == Init => Hosted
<1> SUFFICES ASSUME Init PROVE Hosted
  OBVIOUS
<1>1. RanOf(Owner, <<>>) /\ Fits(Owner, req.path, NoAnswer)
  BY EmptyRuns
<1> QED
  BY <1>1 DEF Init, Hosted, Undecided, Routed

(* The host of a request, before and after a step.                         *)
LEMMA OwnerStays ==
    ASSUME Hosted, server' = server, req' = req
    PROVE  /\ Owner' = Owner /\ Selected = Owner /\ IsHost(Owner)
           /\ (server \in Services)'
<1>1. Owner' = Owner
  BY DEF Owner
<1> QED
  BY <1>1, SelectedIs DEF Hosted

(* A step that answers without running anything.                           *)
LEMMA RepliesKeep ==
    ASSUME Hosted, pc \in Undecided, server' = server, req' = req, ran' = ran,
           pc' \notin Undecided, Fits(Owner, req.path, answer') \/ req.method = "OPTIONS"
    PROVE  Hosted'
<1>1. Owner' = Owner /\ (server \in Services)'
  BY OwnerStays
<1>2. ran' = <<>> /\ \A h : RanOf(h, <<>>)
  BY EmptyRuns DEF Hosted
<1>h. PICK h : h = Owner
  OBVIOUS
<1>3. RanOf(Owner, ran)'
  BY <1>1, <1>2 DEF RanOf
<1>4. req.method # "OPTIONS" => Fits(Owner, req.path, answer)'
  BY <1>1 DEF Fits, ShapedAnswer, FileOf, AllowOf
<1>5. (pc \notin Routed)' /\ (pc # "run")' /\ (pc \notin Undecided)'
  BY DEF Undecided, Routed
<1> QED
  BY <1>1, <1>2, <1>3, <1>4, <1>5 DEF Hosted

(* A step on the way, which runs nothing and answers nothing.              *)
LEMMA WaysKeep ==
    ASSUME Hosted, pc \in Undecided, server' = server, req' = req, ran' = ran, answer' = answer,
           pc' \in Routed => route' \in ToSet(Owner.routes),
           pc' = "run" => (route'.auth => UserOf(Owner, user'))
    PROVE  Hosted'
<1>1. Owner' = Owner /\ (server \in Services)'
  BY OwnerStays
<1>2. ran' = <<>> /\ answer' = NoAnswer
  BY DEF Hosted
<1>3. \A h : RanOf(h, <<>>) /\ \A path : Fits(h, path, NoAnswer)
  BY EmptyRuns
<1>h. PICK h, given : h = Owner /\ given = NoAnswer
  OBVIOUS
<1>4. RanOf(Owner, ran)'
  BY <1>1, <1>2, <1>3 DEF RanOf
<1>5. Fits(Owner, req.path, answer)'
  <2>1. Fits(h, req.path, given) /\ answer' = given
    BY <1>2, <1>3, <1>h
  <2> QED
    BY <1>1, <1>h, <2>1 DEF Fits, ShapedAnswer, FileOf, AllowOf
<1>6. (pc \in Routed => route \in ToSet(Owner.routes))'
  BY <1>1
<1>7. (pc = "run" => (route.auth => UserOf(Owner, user)))'
  BY <1>1 DEF UserOf
<1> QED
  BY <1>1, <1>2, <1>4, <1>5, <1>6, <1>7 DEF Hosted

(* A step that runs the route.                                             *)
LEMMA RunsKeep ==
    ASSUME Hosted, pc = "run", server' = server, req' = req,
           NEW what, ran' = Append(ran, Run(what)),
           Fits(Owner, req.path, answer'), answer'.from # "none" \/ pc' = "panicked",
           pc' \notin Undecided
    PROVE  Hosted'
<1>1. Owner' = Owner /\ (server \in Services)'
  BY OwnerStays
<1>h. PICK h : h = Owner
  OBVIOUS
<1>r. PICK run : run = Run(what)
  OBVIOUS
<1>2. ran' = <<run>>
  <2>1. ran = <<>>
    BY DEF Hosted, Undecided
  <2> QED
    BY <1>r, <2>1
<1>3. run.route = route /\ run.user = user
  BY <1>r DEF Run
<1>4. route \in ToSet(h.routes) /\ (route.auth => UserOf(h, user))
  BY <1>h DEF Hosted, Routed
<1>5. RanOf(h, <<run>>)
  <2>1. \A i \in DOMAIN <<run>> : <<run>>[i] = run
    OBVIOUS
  <2> QED
    BY <1>3, <1>4, <2>1 DEF RanOf
<1>6. RanOf(Owner, ran)'
  BY <1>1, <1>h, <1>2, <1>5 DEF RanOf
<1>7. Fits(Owner, req.path, answer)'
  BY <1>1 DEF Fits, ShapedAnswer, FileOf, AllowOf
<1>8. (pc \notin Routed)' /\ (pc # "run")' /\ (pc \notin Undecided)'
  BY DEF Undecided, Routed
<1> QED
  BY <1>1, <1>6, <1>7, <1>8 DEF Hosted

(* A file of the host that is served.                                      *)
LEMMA ServedFits ==
    ASSUME Selected = Owner, IsHost(Owner), NEW path, HasFile(path), NEW q
    PROVE  Fits(Owner, q, ServeFile(path))
<1>h. PICK h : h = Owner
  OBVIOUS
<1>f. PICK f : f = static_file(h.mounts, path)
  OBVIOUS
<1>1. f.found /\ \E i \in DOMAIN h.mounts : IsPrefix(h.mounts[i].base, f.path)
  BY <1>h, <1>f, FileIs DEF HasFile
<1>2. PICK status : ServeFile(path) = [Answer(status, "static", "file") EXCEPT !.file = f.path]
  BY <1>h, <1>f DEF ServeFile
<1>3. ServeFile(path) = [status |-> status, from |-> "static", body |-> "file",
                         allow |-> {}, file |-> f.path]
  BY <1>2 DEF Answer
<1>4. Fits(h, q, ServeFile(path))
  BY <1>1, <1>3 DEF Fits, ShapedAnswer, FileOf, AllowOf
<1> QED
  BY <1>h, <1>4

LEMMA HostedNext == Hosted /\ [Next]_vars => Hosted'
<1> SUFFICES ASSUME Hosted, [Next]_vars PROVE Hosted'
  OBVIOUS
<1>h. PICK h : h = Owner
  OBVIOUS
<1>s. CASE UNCHANGED vars
  <2>1. /\ server' = server /\ req' = req /\ ran' = ran /\ answer' = answer
        /\ pc' = pc /\ route' = route /\ user' = user
    BY <1>s DEF vars
  <2>2. Owner' = Owner /\ (server \in Services)'
    BY <2>1, OwnerStays
  <2>3. RanOf(Owner, ran)' <=> RanOf(Owner, ran)
    BY <2>1, <2>2 DEF RanOf, UserOf
  <2>4. Fits(Owner, req.path, answer)' <=> Fits(Owner, req.path, answer)
    BY <2>1, <2>2 DEF Fits, ShapedAnswer, FileOf, AllowOf
  <2>5. UserOf(Owner, user)' <=> UserOf(Owner, user)
    BY <2>1, <2>2 DEF UserOf
  <2> QED
    BY <2>1, <2>2, <2>3, <2>4, <2>5 DEF Hosted
<1>p. \A status, from, body : from # "none" \/ status # 405
         => Fits(Owner, req.path, Answer(status, from, body)) /\ Answer(status, from, body).from = from
  BY PlainFits
<1>e. \A status : status # 405 => Fits(Owner, req.path, Error(status))
  BY <1>p DEF Error
<1>o. server' = server /\ req' = req => Selected = Owner /\ IsHost(Owner)
  BY OwnerStays
<1>1. CASE Options
  <2>1. /\ pc \in Undecided /\ server' = server /\ req' = req /\ ran' = ran
        /\ pc' \notin Undecided /\ req.method = "OPTIONS"
    BY <1>1 DEF Options, Undecided
  <2> QED
    BY <2>1, RepliesKeep
<1>2. CASE TooLarge
  <2>1. /\ pc \in Undecided /\ server' = server /\ req' = req /\ ran' = ran
        /\ pc' \notin Undecided /\ answer' = Error(413)
    BY <1>2 DEF TooLarge, Undecided
  <2> QED
    BY <2>1, <1>e, RepliesKeep
<1>3. CASE ReadBody
  <2>1. /\ pc \in Undecided /\ server' = server /\ req' = req /\ ran' = ran /\ answer' = answer
        /\ pc' \notin Routed /\ pc' # "run"
    BY <1>3 DEF ReadBody, Undecided, Routed
  <2> QED
    BY <2>1, WaysKeep
<1>4. CASE MatchRoute
  <2>1. /\ pc \in Undecided /\ server' = server /\ req' = req /\ ran' = ran /\ answer' = answer
        /\ pc' # "run"
    BY <1>4 DEF MatchRoute, Undecided
  <2>2. Selected = Owner /\ IsHost(Owner)
    BY <2>1, <1>o
  <2>3. \E path : /\ match_route(Host, Method, path) # None
                  /\ route' = Host.routes[match_route(Host, Method, path)]
    BY <1>4 DEF MatchRoute, Found, FoundLogical
  <2>4. route' \in ToSet(Owner.routes)
    BY <2>2, <2>3, MatchIs DEF Host
  <2> QED
    BY <2>1, <2>4, WaysKeep
<1>r. ASSUME NEW given, Reply(given), pc \in Undecided, Fits(Owner, req.path, given) PROVE Hosted'
  <2>1. /\ server' = server /\ req' = req /\ ran' = ran
        /\ pc' \notin Undecided /\ answer' = given
    BY <1>r DEF Reply, Undecided
  <2> QED
    BY <2>1, <1>r, RepliesKeep
<1>5. CASE MatchFile
  <2>1. pc \in Undecided /\ HasFile(req.path) /\ Reply(ServeFile(req.path))
    BY <1>5 DEF MatchFile, Undecided
  <2>2. Selected = Owner /\ IsHost(Owner)
    BY <2>1, <1>o DEF Reply
  <2> QED
    BY <2>1, <2>2, <1>r, ServedFits
<1>6. CASE NoRoute
  <2> DEFINE given == IF Allowed # {} THEN [Error(405) EXCEPT !.allow = Allowed]
                      ELSE IF HasFile(req.path) THEN ServeFile(req.path)
                      ELSE IF Method = "GET" /\ Discovered THEN Answer(200, "discovery", "text")
                      ELSE Error(404)
  <2>1. pc \in Undecided /\ Reply(given)
    BY <1>6 DEF NoRoute, Undecided
  <2>2. Selected = Owner /\ IsHost(Owner)
    BY <2>1, <1>o DEF Reply
  <2>3. CASE Allowed # {}
    <3>1. given = [status |-> 405, from |-> "none", body |-> "error", allow |-> Allowed, file |-> <<>>]
      BY <2>3 DEF Error, Answer
    <3>2. \A m : m \in Allowed <=> match_route(Router(Owner), m, req.path) # None
      BY <2>2, MatchIs DEF Allowed, Host
    <3>3. Fits(Owner, req.path, given)
      <4> HIDE DEF given
      <4> QED
        BY <3>1, <3>2 DEF Fits, ShapedAnswer, FileOf, AllowOf
    <3> HIDE DEF given
    <3> QED
      BY <2>1, <3>3, <1>r
  <2>4. CASE Allowed = {} /\ HasFile(req.path)
    <3>1. given = ServeFile(req.path)
      BY <2>4
    <3> HIDE DEF given
    <3> QED
      BY <2>1, <2>2, <2>4, <3>1, <1>r, ServedFits
  <2>5. CASE Allowed = {} /\ ~HasFile(req.path)
    <3>1. given = Answer(200, "discovery", "text") \/ given = Error(404)
      BY <2>5
    <3>2. Fits(Owner, req.path, Answer(200, "discovery", "text")) /\ Fits(Owner, req.path, Error(404))
      BY <1>p, <1>e
    <3> HIDE DEF given
    <3> QED
      BY <2>1, <3>1, <3>2, <1>r
  <2> QED
    BY <2>3, <2>4, <2>5
<1>w. ASSUME pc \in Routed, pc' # "run", server' = server, req' = req, route' = route,
             ran' = ran, answer' = answer
      PROVE  Hosted'
  <2>1. pc \in Undecided /\ route' \in ToSet(Owner.routes)
    BY <1>w DEF Hosted, Undecided, Routed
  <2> QED
    BY <1>w, <2>1, WaysKeep
<1>7. CASE Limit
  <2>1. CASE pc' = "json" /\ UNCHANGED <<server, req, route, params, fmt, user, file, ran, answer, holds>>
    BY <1>7, <2>1, <1>w DEF Limit, Routed
  <2>2. CASE Reply(Error(429))
    BY <1>7, <2>2, <1>r, <1>e DEF Limit, Undecided
  <2> QED
    BY <1>7, <2>1, <2>2 DEF Limit
<1>8. CASE ParseBody
  <2>1. CASE pc' = "auth" /\ UNCHANGED <<server, req, route, params, fmt, user, file, ran, answer, holds>>
    BY <1>8, <2>1, <1>w DEF ParseBody, Routed
  <2>2. CASE Reply(Error(400))
    BY <1>8, <2>2, <1>r, <1>e DEF ParseBody, Undecided
  <2> QED
    BY <1>8, <2>1, <2>2 DEF ParseBody
<1>9. CASE Authenticate
  <2>0. pc \in Undecided /\ pc \in Routed
    BY <1>9 DEF Authenticate, Undecided, Routed
  <2>1. CASE Reply(Error(401))
    BY <2>0, <2>1, <1>r, <1>e
  <2>2. CASE ~Reply(Error(401))
    <3>1. /\ server' = server /\ req' = req /\ route' = route /\ ran' = ran /\ answer' = answer
          /\ route.auth => user' = Verdict /\ Verdict # MissingUser
      BY <1>9, <2>2 DEF Authenticate
    <3>2. Selected = Owner
      BY <3>1, <1>o
    <3>3. Verdict # MissingUser => UserOf(Owner, Verdict)
      BY <3>2 DEF Verdict, UserOf
    <3>4. route' \in ToSet(Owner.routes)
      BY <2>0, <3>1 DEF Hosted
    <3> QED
      BY <2>0, <3>1, <3>3, <3>4, WaysKeep
  <2> QED
    BY <2>1, <2>2
<1>10. CASE Forward
  <2>1. /\ pc = "run" /\ server' = server /\ req' = req /\ ran' = Append(ran, Run("proxy"))
        /\ pc' \notin Undecided
    BY <1>10 DEF Forward, Undecided
  <2>2. \E status, from, body : answer' = Answer(status, from, body) /\ from # "none"
    BY <1>10 DEF Forward
  <2>3. Fits(Owner, req.path, answer') /\ answer'.from # "none"
    BY <2>2, <1>p
  <2> QED
    BY <2>1, <2>3, RunsKeep
<1>11. CASE OpenStream
  <2>1. CASE Reply(Error(503))
    BY <1>11, <2>1, <1>r, <1>e DEF OpenStream, Undecided
  <2>2. CASE ~Reply(Error(503))
    <3>1. /\ pc = "run" /\ server' = server /\ req' = req /\ ran' = Append(ran, Run("stream"))
          /\ pc' \notin Undecided /\ answer' = Answer(200, "stream", "events")
      BY <1>11, <2>2 DEF OpenStream, Undecided
    <3>2. Fits(Owner, req.path, answer') /\ answer'.from # "none"
      BY <3>1, <1>p
    <3> QED
      BY <3>1, <3>2, RunsKeep
  <2> QED
    BY <2>1, <2>2
<1>12. CASE EndStream
  <2>1. /\ server' = server /\ req' = req /\ ran' = ran /\ answer' = answer
        /\ pc = "stream" /\ pc' = "sent"
    BY <1>12 DEF EndStream
  <2>2. Owner' = Owner /\ (server \in Services)'
    BY <2>1, OwnerStays
  <2>3. RanOf(Owner, ran)' <=> RanOf(Owner, ran)
    BY <2>1, <2>2 DEF RanOf, UserOf
  <2>4. Fits(Owner, req.path, answer)' <=> Fits(Owner, req.path, answer)
    BY <2>1, <2>2 DEF Fits, ShapedAnswer, FileOf, AllowOf
  <2> QED
    BY <2>1, <2>2, <2>3, <2>4 DEF Hosted, Undecided, Routed
<1>13. CASE Handle
  <2>1. /\ pc = "run" /\ server' = server /\ req' = req /\ ran' = Append(ran, Run("handler"))
        /\ pc' \notin Undecided
    BY <1>13 DEF Handle, Undecided
  <2>2. PICK g \in route.gives : answer' = Given(g)
    BY <1>13 DEF Handle
  <2>3. route \in ToSet(Owner.routes) /\ IsHost(Owner)
    BY <2>1, <1>o DEF Hosted, Routed
  <2>4. g.kind \in Gives
    BY <2>2, <2>3 DEF IsHost
  <2>5. Fits(Owner, req.path, answer') /\ answer'.from # "none"
    BY <2>2, <2>4, GivenFits
  <2> QED
    BY <2>1, <2>5, RunsKeep
<1>14. CASE Panic
  <2>1. /\ pc = "run" /\ server' = server /\ req' = req /\ ran' = Append(ran, Run("handler"))
        /\ pc' \notin Undecided /\ pc' = "panicked" /\ answer' = Error(500)
    BY <1>14 DEF Panic, Undecided
  <2> QED
    BY <2>1, <1>e, RunsKeep
<1>15. CASE Send
  <2>1. /\ server' = server /\ req' = req /\ ran' = ran /\ pc = "reply"
        /\ pc' \notin Undecided /\ pc' \notin Routed /\ pc' # "run"
        /\ \/ answer' = answer
           \/ answer' = [answer EXCEPT !.body = ""]
    BY <1>15 DEF Send, Undecided, Routed
  <2>2. Owner' = Owner /\ (server \in Services)'
    BY <2>1, OwnerStays
  <2>3. RanOf(Owner, ran)' <=> RanOf(Owner, ran)
    BY <2>1, <2>2 DEF RanOf, UserOf
  <2>4. ASSUME req.method # "OPTIONS"
        PROVE  Fits(Owner, req.path, answer)' /\ (answer.from)' = answer.from
    <3>1. PICK given : given = answer /\ Fits(h, req.path, given)
      BY <1>h, <2>4 DEF Hosted
    <3>2. PICK sent : sent = answer' /\ (sent = given \/ sent = [given EXCEPT !.body = ""])
      BY <2>1, <3>1
    <3>5. ASSUME sent = [given EXCEPT !.body = ""]
          PROVE  /\ sent.status = given.status /\ sent.from = given.from /\ sent.allow = given.allow
                 /\ sent.file = given.file /\ ShapedAnswer(sent)
      BY <3>1, <3>5 DEF Fits, ShapedAnswer
    <3>3. Fits(h, req.path, sent) /\ sent.from = given.from
      <4>1. CASE sent = given
        BY <3>1, <4>1
      <4>2. CASE sent = [given EXCEPT !.body = ""]
        BY <3>1, <3>5, <4>2 DEF Fits, FileOf, AllowOf
      <4> QED
        BY <3>2, <4>1, <4>2
    <3>4. Fits(Owner, req.path, answer)'
      BY <1>h, <2>1, <2>2, <3>2, <3>3 DEF Fits, ShapedAnswer, FileOf, AllowOf
    <3> QED
      BY <3>1, <3>2, <3>3, <3>4
  <2> QED
    BY <2>1, <2>2, <2>3, <2>4 DEF Hosted
<1> QED
  BY <1>s, <1>1, <1>2, <1>3, <1>4, <1>5, <1>6, <1>7, <1>8, <1>9, <1>10, <1>11, <1>12, <1>13, <1>14, <1>15
  DEF Next

(* Whatever servers and requests there are, and whatever the disk holds, a *)
(* request reaches the routes, users and files of one host only, the one   *)
(* that covers its name.                                                   *)
THEOREM HostsAreIsolated == Spec => []HostsIsolated
<1>1. Spec => []Hosted
  BY HostedInit, HostedNext, PTL DEF Spec
<1> QED
  BY <1>1, HostedSays, PTL

-----------------------------------------------------------------------------
(***************************************************************************)
(* What runs is the most specific of the routes that match.                *)
(***************************************************************************)

Best(h, r, path) ==
    /\ path_match(r.path, path)
    /\ \A j \in DOMAIN h.routes :
          h.routes[j].method = r.method /\ path_match(h.routes[j].path, path)
            => ~Precedes(specificity(h.routes[j].path), specificity(r.path))

LEMMA MatchIsBest ==
    ASSUME NEW h, IsHost(h), NEW method, NEW path,
           match_route(Router(h), method, path) # None
    PROVE  LET r == Router(h).routes[match_route(Router(h), method, path)]
           IN  r.method = method /\ Best(h, r, path)
<1>h. PICK routes \in Seq(ToSet(h.routes)) : routes = h.routes
  BY DEF IsHost
<1>n. PICK n \in Nat : n = Len(routes) /\ DOMAIN routes = 1..n
  BY LenProperties
<1>l. PICK list \in Seq(ToSet(h.routes)) : list = Router(h).routes /\ list = Ordered(routes)
  BY <1>h, RouterIs
<1>m. \A r \in ToSet(routes) :
         r.path \in Seq(ToSet(r.path)) /\ \A seg \in ToSet(r.path) : seg.mark \in {"", ":", "*"}
  BY <1>h DEF IsHost
<1>1. /\ DOMAIN list = 1..n
      /\ \A k \in 1..n : list[k] \in ToSet(routes)
      /\ \A k \in 1..n : \E i \in 1..n : list[i] = routes[k]
      /\ \A i, j \in 1..n : i < j => ~Precedes(specificity(list[j].path), specificity(list[i].path))
  <2>1. /\ DOMAIN Ordered(routes) = 1..Len(routes)
        /\ \A i \in 1..Len(routes) : Ordered(routes)[i] \in ToSet(routes)
        /\ \A k \in 1..Len(routes) : \E i \in 1..Len(routes) : Ordered(routes)[i] = routes[k]
        /\ \A i, j \in 1..Len(routes) : i < j =>
              ~Precedes(specificity(Ordered(routes)[j].path), specificity(Ordered(routes)[i].path))
    BY <1>h, <1>m, OrderedKeeps
  <2> QED
    BY <1>l, <1>n, <2>1
<1> DEFINE found == {i \in DOMAIN list : list[i].method = method /\ path_match(list[i].path, path)}
           place == CHOOSE i \in found : \A j \in found : i <= j
<1>2. match_route(Router(h), method, path) = IF found = {} THEN None ELSE place
  BY <1>l DEF match_route
<1>3. found # {} /\ match_route(Router(h), method, path) = place
  BY <1>2
<1>4. \E i \in found : \A j \in found : i <= j
  <2>1. found \subseteq Nat
    BY <1>1
  <2> HIDE DEF found
  <2> QED
    BY <1>3, <2>1, LeastOne
<1>5. place \in found /\ \A j \in found : place <= j
  BY <1>4
<1>p. PICK p \in 1..n : p = place /\ list[p].method = method /\ path_match(list[p].path, path)
  BY <1>1, <1>5
<1>6. \A j \in 1..n : list[j].method = method /\ path_match(list[j].path, path) => p <= j
  BY <1>1, <1>5, <1>p
<1> HIDE DEF found, place
<1>7. ASSUME NEW j \in 1..n, routes[j].method = method, path_match(routes[j].path, path)
      PROVE  ~Precedes(specificity(routes[j].path), specificity(list[p].path))
  <2>1. PICK k \in 1..n : list[k] = routes[j]
    BY <1>1
  <2>2. p <= k
    BY <1>6, <1>7, <2>1
  <2>3. CASE p < k
    BY <1>1, <2>1, <2>3
  <2>4. CASE p = k
    <3>1. list[p] \in ToSet(routes)
      BY <1>1
    <3>2. specificity(list[p].path) \in Seq(Nat)
      BY <1>m, <3>1, SpecificityIs
    <3>3. ~Precedes(specificity(list[p].path), specificity(list[p].path))
      BY <3>2, PrecedesOrders
    <3> QED
      BY <2>1, <2>4, <3>3
  <2> QED
    BY <2>2, <2>3, <2>4
<1>8. Best(h, list[p], path)
  BY <1>h, <1>n, <1>p, <1>7 DEF Best
<1> QED
  BY <1>3, <1>l, <1>p, <1>8

(* The route that was matched, and what ran, is the best for the path that *)
(* is answered, which the format decides.                                  *)
BestOf(r) == r.method = Method /\ Best(Owner, r, AnsweredPath)
Chosen ==
    /\ pc \in Routed => BestOf(route)
    /\ \A i \in DOMAIN ran : BestOf(ran[i].route)

LEMMA ChosenInit == Init => Chosen
<1> SUFFICES ASSUME Init PROVE Chosen
  OBVIOUS
<1>1. pc = "received" /\ ran = <<>>
  BY DEF Init
<1>2. DOMAIN ran = {}
  BY <1>1
<1> QED
  BY <1>1, <1>2 DEF Chosen, Routed

(* A step after the match.                                                 *)
LEMMA ChosenStays ==
    ASSUME Hosted, Chosen, server' = server, req' = req, fmt' = fmt, ran' = ran,
           pc' \in Routed => pc \in Routed /\ route' = route
    PROVE  Chosen'
<1>1. Owner' = Owner
  BY OwnerStays
<1>2. AnsweredPath' = AnsweredPath /\ Method' = Method
  BY DEF AnsweredPath, Logical, Method
<1>3. \A r : BestOf(r)' <=> BestOf(r)
  BY <1>1, <1>2 DEF BestOf, Best
<1> QED
  BY <1>3 DEF Chosen

LEMMA ChosenRuns ==
    ASSUME Hosted, Chosen, pc = "run", server' = server, req' = req, fmt' = fmt,
           NEW what, ran' = Append(ran, Run(what)), pc' \notin Routed
    PROVE  Chosen'
<1>1. Owner' = Owner
  BY OwnerStays
<1>2. AnsweredPath' = AnsweredPath /\ Method' = Method
  BY DEF AnsweredPath, Logical, Method
<1>3. \A r : BestOf(r)' <=> BestOf(r)
  BY <1>1, <1>2 DEF BestOf, Best
<1>r. PICK run : run = Run(what) /\ run.route = route
  BY DEF Run
<1>4. ran' = <<run>>
  <2>1. ran = <<>>
    BY DEF Hosted, Undecided
  <2> QED
    BY <1>r, <2>1
<1>5. \A i \in DOMAIN <<run>> : <<run>>[i] = run
  OBVIOUS
<1>6. BestOf(route)
  BY DEF Chosen, Routed
<1>7. \A i \in DOMAIN ran' : BestOf(ran'[i].route)
  BY <1>4, <1>5, <1>6, <1>r
<1> QED
  BY <1>3, <1>7 DEF Chosen

LEMMA ChosenMatches ==
    ASSUME Hosted, Chosen, MatchRoute
    PROVE  Chosen'
<1>1. server' = server /\ req' = req /\ ran' = ran /\ pc = "match"
  BY DEF MatchRoute
<1>2. Owner' = Owner /\ Selected = Owner /\ IsHost(Owner)
  BY <1>1, OwnerStays
<1>3. ran' = <<>>
  BY <1>1 DEF Hosted, Undecided
<1>4. Method' = Method /\ Logical' = Logical
  BY <1>1 DEF Method, Logical
<1> DEFINE negotiated == Suffixed /\ FoundLogical # None
<1>p. PICK path : path = IF negotiated THEN Logical.path ELSE req.path
  OBVIOUS
<1>5. /\ match_route(Host, Method, path) # None
      /\ route' = Host.routes[match_route(Host, Method, path)]
      /\ fmt' = IF negotiated THEN Logical.fmt ELSE ""
  BY <1>p DEF MatchRoute, Found, FoundLogical
<1>6. negotiated => Logical.fmt # ""
  BY DEF Suffixed, HasSuffix, Logical, split_format_suffix, Formats
<1>7. AnsweredPath' = path
  BY <1>1, <1>4, <1>5, <1>6, <1>p DEF AnsweredPath
<1>h. PICK h : h = Owner
  OBVIOUS
<1>8. route'.method = Method /\ Best(h, route', path)
  BY <1>2, <1>5, <1>h, MatchIsBest DEF Host
<1>9. BestOf(route)'
  BY <1>2, <1>4, <1>7, <1>8, <1>h DEF BestOf, Best
<1>10. DOMAIN <<>> = {}
  OBVIOUS
<1> QED
  BY <1>3, <1>9, <1>10 DEF Chosen

LEMMA ChosenNext == Hosted /\ Chosen /\ [Next]_vars => Chosen'
<1> SUFFICES ASSUME Hosted, Chosen, [Next]_vars PROVE Chosen'
  OBVIOUS
<1>1. CASE MatchRoute
  BY <1>1, ChosenMatches
<1>2. CASE Forward \/ Handle \/ Panic
  <2>1. \E what : ran' = Append(ran, Run(what))
    BY <1>2 DEF Forward, Handle, Panic
  <2>2. pc = "run" /\ server' = server /\ req' = req /\ fmt' = fmt /\ pc' \notin Routed
    BY <1>2 DEF Forward, Handle, Panic, Routed
  <2> QED
    BY <2>1, <2>2, ChosenRuns
<1>3. CASE OpenStream
  <2>1. CASE Reply(Error(503))
    <3>1. /\ server' = server /\ req' = req /\ fmt' = fmt /\ ran' = ran
          /\ pc' \notin Routed
      BY <2>1 DEF Reply, Routed
    <3> QED
      BY <3>1, ChosenStays
  <2>2. CASE ~Reply(Error(503))
    <3>1. /\ pc = "run" /\ server' = server /\ req' = req /\ fmt' = fmt /\ pc' \notin Routed
          /\ ran' = Append(ran, Run("stream"))
      BY <1>3, <2>2 DEF OpenStream, Routed
    <3> QED
      BY <3>1, ChosenRuns
  <2> QED
    BY <2>1, <2>2
<1>4. CASE Options \/ TooLarge \/ ReadBody \/ MatchFile \/ NoRoute \/ EndStream \/ Send
  <2>1. /\ server' = server /\ req' = req /\ fmt' = fmt /\ ran' = ran
        /\ pc' \notin Routed
    BY <1>4 DEF Options, TooLarge, ReadBody, MatchFile, NoRoute, EndStream, Send, Reply, Routed
  <2> QED
    BY <2>1, ChosenStays
<1>5. CASE Limit \/ ParseBody \/ Authenticate \/ UNCHANGED vars
  <2>1. /\ server' = server /\ req' = req /\ fmt' = fmt /\ ran' = ran
        /\ pc' \in Routed => pc \in Routed /\ route' = route
    BY <1>5 DEF Limit, ParseBody, Authenticate, Reply, Routed, vars
  <2> QED
    BY <2>1, ChosenStays
<1> QED
  BY <1>1, <1>2, <1>3, <1>4, <1>5 DEF Next

LEMMA ChosenSays == Hosted /\ Chosen => MostSpecific
<1> SUFFICES ASSUME Hosted, Chosen PROVE MostSpecific
  OBVIOUS
<1>1. Selected = Owner
  BY SelectedIs DEF Hosted
<1> QED
  BY <1>1 DEF Chosen, BestOf, Best, MostSpecific

(* The order of the routes in a program does not decide: whatever a        *)
(* request runs matches it, and nothing more specific of that host does.   *)
THEOREM MostSpecificRuns == Spec => []MostSpecific
<1>1. Spec => []Hosted
  BY HostedInit, HostedNext, PTL DEF Spec
<1>2. Spec => []Chosen
  BY <1>1, ChosenInit, ChosenNext, PTL DEF Spec
<1> QED
  BY <1>1, <1>2, ChosenSays, PTL
=============================================================================
