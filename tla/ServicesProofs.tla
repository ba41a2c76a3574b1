--------------------------- MODULE ServicesProofs ---------------------------
(***************************************************************************)
(* Proofs about the services that a program calls: its resource locks, the *)
(* recovery from its errors, its databases, its secrets and its            *)
(* speculative execution, each for any constants that ServicesAssumption   *)
(* allows.                                                                 *)
(***************************************************************************)
EXTENDS ServicesMC, SequenceTheorems, FiniteSetTheorems, TLAPS

-----------------------------------------------------------------------------
(***************************************************************************)
(* Resource locks: for any agents and resources.                           *)
(***************************************************************************)
LEMMA ModeFacts == "Exclusive" \in Modes /\ "Shared" \in Modes /\ "Advisory" \in Modes
  BY DEF Modes

(* What every action does to one resource's vector.                        *)
LEMMA AcquireType ==
    ASSUME TypeOK, NEW a \in Agents, NEW r \in Resources, NEW m \in Modes, Acquire(a, r, m)
    PROVE  TypeOK'
<1> DEFINE new == [agent |-> a, mode |-> m, active |-> TRUE]
<1>1. new \in Lock
  BY DEF Lock
<1>2. locks[r] \in Seq(Lock)
  BY DEF TypeOK
<1> HIDE DEF new
<1>3. Append(locks[r], new) \in Seq(Lock)
  BY <1>1, <1>2
<1> QED
  BY <1>3 DEF Acquire, TypeOK, new

LEMMA ReleaseShape ==
    ASSUME TypeOK, NEW a \in Agents, NEW r \in Resources, NEW i \in Held(r, a),
           locks' = [locks EXCEPT ![r][i].active = FALSE]
    PROVE  /\ locks' \in [Resources -> Seq(Lock)]
           /\ \A s \in Resources : DOMAIN locks'[s] = DOMAIN locks[s]
           /\ \A s \in Resources : \A j \in DOMAIN locks[s] :
                 /\ locks'[s][j].agent = locks[s][j].agent
                 /\ locks'[s][j].mode = locks[s][j].mode
                 /\ locks'[s][j].active => locks[s][j].active
<1>1. locks \in [Resources -> Seq(Lock)] /\ locks[r] \in Seq(Lock) /\ i \in 1..Len(locks[r])
  BY DEF TypeOK, Held, Active
<1> DEFINE off == [locks[r][i] EXCEPT !.active = FALSE]
<1>2. locks[r][i] \in Lock
  BY <1>1, ElementOfSeq
<1>3. /\ off \in Lock /\ off.active = FALSE
      /\ off.agent = locks[r][i].agent /\ off.mode = locks[r][i].mode
  BY <1>2 DEF Lock
<1> DEFINE q == [locks[r] EXCEPT ![i] = off]
<1>4. locks' = [locks EXCEPT ![r] = q]
  OBVIOUS
<1> HIDE DEF off
<1>5. q \in Seq(Lock) /\ Len(q) = Len(locks[r])
      /\ \A j \in 1..Len(locks[r]) : q[j] = IF j = i THEN off ELSE locks[r][j]
  BY <1>1, <1>3, ExceptSeq
<1>6. DOMAIN q = DOMAIN locks[r]
  OBVIOUS
<1> HIDE DEF q
<1>7. locks'[r] = q /\ \A s \in Resources : s # r => locks'[s] = locks[s]
  BY <1>1, <1>4
<1>8. locks' \in [Resources -> Seq(Lock)]
  BY <1>1, <1>4, <1>5
<1>9. DOMAIN locks[r] = 1..Len(locks[r])
  BY <1>1, LenProperties
<1> QED
  BY <1>3, <1>5, <1>6, <1>7, <1>8, <1>9

LEMMA ReleaseAllShape ==
    ASSUME TypeOK, NEW a \in Agents, ReleaseAll(a)
    PROVE  /\ locks' \in [Resources -> Seq(Lock)]
           /\ \A s \in Resources : DOMAIN locks'[s] = DOMAIN locks[s]
           /\ \A s \in Resources : \A j \in DOMAIN locks[s] :
                 /\ locks'[s][j].agent = locks[s][j].agent
                 /\ locks'[s][j].mode = locks[s][j].mode
                 /\ locks'[s][j].active => locks[s][j].active
<1> DEFINE new(r, i) == [locks[r][i] EXCEPT !.active = @ /\ locks[r][i].agent # a]
<1>1. ASSUME NEW r \in Resources, NEW i \in DOMAIN locks[r]
      PROVE  /\ new(r, i) \in Lock
             /\ new(r, i).agent = locks[r][i].agent
             /\ new(r, i).mode = locks[r][i].mode
             /\ new(r, i).active => locks[r][i].active
  <2>1. locks[r] \in Seq(Lock) /\ i \in 1..Len(locks[r])
    BY <1>1 DEF TypeOK
  <2>2. locks[r][i] \in Lock
    BY <2>1, ElementOfSeq
  <2> QED
    BY <2>2 DEF Lock
<1>2. locks' = [r \in Resources |-> [i \in DOMAIN locks[r] |-> new(r, i)]]
  BY DEF ReleaseAll
<1> HIDE DEF new
<1>3. ASSUME NEW r \in Resources PROVE [i \in DOMAIN locks[r] |-> new(r, i)] \in Seq(Lock)
  <2>1. locks[r] \in Seq(Lock)
    BY DEF TypeOK
  <2>2. Len(locks[r]) \in Nat /\ DOMAIN locks[r] = 1..Len(locks[r])
    BY <2>1, LenProperties
  <2>3. [i \in DOMAIN locks[r] |-> new(r, i)] \in [1..Len(locks[r]) -> Lock]
    BY <1>1, <2>2
  <2> QED
    BY <2>2, <2>3, SeqDef
<1> QED
  BY <1>1, <1>2, <1>3

(* Turning locks off keeps the exclusion.                                  *)
LEMMA FewerLocks ==
    ASSUME Exclusion, \A s \in Resources : DOMAIN locks'[s] = DOMAIN locks[s],
           \A s \in Resources : \A j \in DOMAIN locks[s] :
                 /\ locks'[s][j].agent = locks[s][j].agent
                 /\ locks'[s][j].mode = locks[s][j].mode
                 /\ locks'[s][j].active => locks[s][j].active
    PROVE  Exclusion'
  BY DEF Exclusion, Active

LEMMA AcquireExcludes ==
    ASSUME TypeOK, Exclusion, NEW a \in Agents, NEW r \in Resources, NEW m \in Modes,
           Acquire(a, r, m)
    PROVE  Exclusion'
<1>1. CASE UNCHANGED locks
  BY <1>1 DEF Exclusion, Active
<1>2. CASE ~UNCHANGED locks
  <2> DEFINE new == [agent |-> a, mode |-> m, active |-> TRUE]
             n == Len(locks[r]) + 1
             q == Append(locks[r], new)
  <2>1. Compatible(r, a, m) /\ locks' = [locks EXCEPT ![r] = q]
    BY <1>2 DEF Acquire
  <2>2. locks \in [Resources -> Seq(Lock)] /\ locks[r] \in Seq(Lock) /\ Len(locks[r]) \in Nat
    BY LenProperties DEF TypeOK
  <2>3. /\ new.agent = a /\ new.mode = m /\ new.active = TRUE
    OBVIOUS
  <2> HIDE DEF new
  <2>4. /\ DOMAIN q = 1..n /\ q[n] = new /\ DOMAIN locks[r] = 1..(n - 1)
        /\ \A i \in 1..(n - 1) : q[i] = locks[r][i] /\ i # n /\ i \in 1..n
        /\ \A i \in 1..n : i = n \/ i \in 1..(n - 1)
    <3>1. Len(locks[r]) + 1 - 1 = Len(locks[r]) /\ DOMAIN locks[r] = 1..Len(locks[r])
      BY <2>2, LenProperties
    <3>2. /\ DOMAIN q = 1..n /\ q[n] = new
          /\ \A i \in 1..Len(locks[r]) : q[i] = locks[r][i] /\ i # n /\ i \in 1..n
          /\ \A i \in 1..n : i = n \/ i \in 1..Len(locks[r])
      BY <2>2
    <3> QED
      BY <3>1, <3>2
  <2> HIDE DEF n, q
  <2>5. ASSUME NEW i \in Active(r) PROVE locks[r][i].agent = a \/
                  (m = "Advisory" \/ (m = "Shared" /\ locks[r][i].mode = "Shared"))
    BY <2>1, <2>5 DEF Compatible
  <2>6. Active(r)' = Active(r) \cup {n}
    <3>1. locks'[r] = q
      BY <2>1, <2>2
    <3>2. q[n].active = TRUE
      BY <2>3, <2>4
    <3>3. Active(r)' = {i \in 1..n : q[i].active}
      BY <2>4, <3>1 DEF Active
    <3>4. n \in 1..n /\ Active(r) = {i \in 1..(n - 1) : locks[r][i].active}
      BY <2>2, <2>4 DEF Active, n
    <3> QED
      BY <2>4, <3>2, <3>3, <3>4
  <2>7. \A s \in Resources : s # r => Active(s)' = Active(s) /\ locks'[s] = locks[s]
    BY <2>1, <2>2 DEF Active
  <2>8. /\ locks'[r][n] = new
        /\ \A i \in Active(r) : locks'[r][i] = locks[r][i] /\ i # n
    <3>1. locks'[r] = q
      BY <2>1, <2>2
    <3> QED
      BY <2>4, <3>1 DEF Active
  <2>9. ASSUME NEW i \in Active(r)', NEW j \in Active(r)',
               locks'[r][i].mode = "Exclusive", locks'[r][j].agent # locks'[r][i].agent
        PROVE  locks'[r][j].mode = "Advisory"
    <3>1. CASE i \in Active(r) /\ j \in Active(r)
      BY <2>8, <2>9, <3>1 DEF Exclusion
    <3>2. CASE i = n /\ j \in Active(r)
      BY <2>3, <2>5, <2>8, <2>9, <3>2
    <3>3. CASE i \in Active(r) /\ j = n
      BY <2>3, <2>5, <2>8, <2>9, <3>3
    <3> QED
      BY <2>6, <2>9, <3>1, <3>2, <3>3
  <2> QED
    BY <2>7, <2>9 DEF Exclusion
<1> QED
  BY <1>1, <1>2

LEMMA StepIInv == TypeOK /\ Exclusion /\ [Next]_vars => TypeOK' /\ Exclusion'
<1> SUFFICES ASSUME TypeOK, Exclusion, [Next]_vars PROVE TypeOK' /\ Exclusion'
  OBVIOUS
<1>1. ASSUME NEW a \in Agents, NEW r \in Resources, NEW m \in Modes, Acquire(a, r, m)
      PROVE TypeOK' /\ Exclusion'
  BY <1>1, AcquireType, AcquireExcludes
<1>2. ASSUME NEW a \in Agents, NEW r \in Resources, Release(a, r) PROVE TypeOK' /\ Exclusion'
  <2>1. CASE UNCHANGED locks
    BY <1>2, <2>1 DEF Release, TypeOK, Exclusion, Active
  <2>2. ASSUME NEW i \in Held(r, a), locks' = [locks EXCEPT ![r][i].active = FALSE]
        PROVE TypeOK' /\ Exclusion'
    <3>1. Exclusion'
      BY <2>2, ReleaseShape, FewerLocks
    <3>2. locks' \in [Resources -> Seq(Lock)]
      BY <2>2, ReleaseShape
    <3> QED
      BY <1>2, <3>1, <3>2 DEF Release, TypeOK
  <2> QED
    BY <1>2, <2>1, <2>2 DEF Release
<1>3. ASSUME NEW a \in Agents, ReleaseAll(a) PROVE TypeOK' /\ Exclusion'
  <2>1. Exclusion' /\ locks' \in [Resources -> Seq(Lock)]
    BY <1>3, ReleaseAllShape, FewerLocks
  <2> QED
    BY <1>3, <2>1 DEF ReleaseAll, TypeOK
<1>4. CASE UNCHANGED vars
  BY <1>4 DEF vars, TypeOK, Exclusion, Active
<1> QED
  BY <1>1, <1>2, <1>3, <1>4 DEF Next

(* An exclusive lock excludes every other agent's exclusive and shared     *)
(* locks, after any sequence of acquires and releases by any agents.       *)
THEOREM ExclusionHolds == Spec => [](TypeOK /\ Exclusion)
<1>1. Init => TypeOK /\ Exclusion
  BY EmptySeq DEF Init, TypeOK, Exclusion, Active
<1> QED
  BY <1>1, StepIInv, PTL DEF Spec

-----------------------------------------------------------------------------
(***************************************************************************)
(* The recovery from errors: the strategies and the log of decisions.      *)
(***************************************************************************)
LEMMA RecoverSets == /\ \A S : Recover!Cardinality(S) = Cardinality(S)
                     /\ \A S : Recover!IsFiniteSet(S) <=> IsFiniteSet(S)
  BY DEF Recover!Cardinality, Cardinality, Recover!IsFiniteSet, IsFiniteSet

LEMMA RecoverPlaces == \A s \in Recover!Strategies : Recover!Place(s) \in Nat
<1>1. /\ DOMAIN Recover!Order = 1..5 /\ Recover!Order[1] = "retry" /\ Recover!Order[2] = "fallback"
      /\ Recover!Order[3] = "partial" /\ Recover!Order[4] = "alternative1" /\ Recover!Order[5] = "alternative2"
  BY DEF Recover!Order
<1>2. ASSUME NEW s \in Recover!Strategies PROVE \E i \in DOMAIN Recover!Order : Recover!Order[i] = s
  BY <1>1 DEF Recover!Strategies
<1>3. ASSUME NEW s \in Recover!Strategies PROVE Recover!Place(s) \in DOMAIN Recover!Order
  BY <1>2 DEF Recover!Place
<1> QED
  BY <1>1, <1>3

LEMMA RecoverNothing ==
    ASSUME attempts = <<>>
    PROVE  /\ Recover!Done = {} /\ Recover!Failed = {} /\ Recover!Succeeded = {} /\ Len(attempts) = 0
           /\ Recover!IsFiniteSet({}) /\ Recover!Cardinality({}) = 0
  BY RecoverSets, FS_EmptySet DEF Recover!Done, Recover!Failed, Recover!Succeeded

LEMMA SeqParts ==
    ASSUME NEW S, NEW s \in Seq(S)
    PROVE  Len(s) \in Nat /\ DOMAIN s = 1..Len(s) /\ \A i \in 1..Len(s) : s[i] \in S
  OBVIOUS

(* One attempt more, by what it was of and whether it succeeded.           *)
LEMMA OneMore ==
    ASSUME NEW D, NEW n, NEW f, NEW g, NEW b \in BOOLEAN, \A i \in D : i # n /\ g[i] = f[i],
           \A i \in D \cup {n} : g[i].success \in BOOLEAN
    PROVE  {g[i].strategy : i \in {j \in D \cup {n} : g[j].success = b}} =
              {f[i].strategy : i \in {j \in D : f[j].success = b}} \cup
              (IF g[n].success = b THEN {g[n].strategy} ELSE {})
<1>1. CASE g[n].success = b
  BY <1>1
<1>2. CASE g[n].success # b
  BY <1>2
<1> QED
  BY <1>1, <1>2

LEMMA Parts ==
    ASSUME NEW D, NEW f, \A i \in D : f[i].success \in BOOLEAN
    PROVE  /\ {f[i].strategy : i \in {j \in D : ~f[j].success}} = {f[i].strategy : i \in {j \in D : f[j].success = FALSE}}
           /\ {f[i].strategy : i \in {j \in D : f[j].success}} = {f[i].strategy : i \in {j \in D : f[j].success = TRUE}}
           /\ {f[i].strategy : i \in D} = {f[i].strategy : i \in {j \in D : f[j].success = FALSE}} \cup {f[i].strategy : i \in {j \in D : f[j].success = TRUE}}
<1>1. {j \in D : ~f[j].success} = {j \in D : f[j].success = FALSE}
  BY Zenon
<1>2. {j \in D : f[j].success} = {j \in D : f[j].success = TRUE}
  BY Zenon
<1>3. \A i \in D : f[i].success = FALSE \/ f[i].success = TRUE
  BY Zenon
<1> QED
  BY <1>1, <1>2, <1>3

LEMMA RecoverTyped ==
    ASSUME Recover!TypeOK
    PROVE  /\ Len(attempts) \in Nat /\ DOMAIN attempts = 1..Len(attempts)
           /\ \A i \in DOMAIN attempts :
                 attempts[i].strategy \in Recover!Strategies /\ attempts[i].success \in BOOLEAN
           /\ offer \subseteq Recover!Strategies
<1> DEFINE A == [strategy : Recover!Strategies, success : BOOLEAN]
<1>1. attempts \in Seq(A)
  BY DEF Recover!TypeOK
<1>2. \A a \in A : a.strategy \in Recover!Strategies /\ a.success \in BOOLEAN
  OBVIOUS
<1>3. offer \subseteq Recover!Strategies
  BY DEF Recover!TypeOK, Recover!Offers, Recover!Strategies
<1> HIDE DEF A
<1> QED
  BY <1>1, <1>2, <1>3, SeqParts

LEMMA RecoverParts ==
    ASSUME Recover!TypeOK
    PROVE  /\ Recover!Done = Recover!Failed \cup Recover!Succeeded /\ Len(attempts) \in Nat
           /\ Recover!Done \subseteq Recover!Strategies /\ offer \subseteq Recover!Strategies
           /\ Recover!Failed = {attempts[i].strategy : i \in {j \in DOMAIN attempts : attempts[j].success = FALSE}}
           /\ Recover!Succeeded = {attempts[i].strategy : i \in {j \in DOMAIN attempts : attempts[j].success = TRUE}}
<1>1. Recover!Done \subseteq Recover!Strategies
  BY RecoverTyped DEF Recover!Done
<1> QED
  BY <1>1, RecoverTyped, Parts DEF Recover!Done, Recover!Failed, Recover!Succeeded

(* Nothing was tried: at first, for a new error and in a new process.      *)
LEMMA RecoverAnew ==
    ASSUME offer' \in Recover!Offers, attempts' = <<>>, calls' = 0, outcome' = "none",
           errorStage' \in {"idle", "trying"}
    PROVE  Recover!Inv'
<1>1. /\ Recover!Done' = {} /\ Recover!Failed' = {} /\ Recover!Succeeded' = {} /\ Len(attempts') = 0
      /\ Recover!IsFiniteSet({}) /\ Recover!Cardinality({}) = 0
  BY RecoverSets, FS_EmptySet DEF Recover!Done, Recover!Failed, Recover!Succeeded
<1>2. Recover!TypeOK'
  BY DEF Recover!TypeOK
<1>3. Retries \in Nat
  BY ServicesAssumption
<1>4. Recover!InTheirTurn'
  BY <1>1, <1>3 DEF Recover!InTheirTurn
<1>5. Recover!OneSucceeds'
  BY <1>1 DEF Recover!OneSucceeds
<1> QED
  BY <1>2, <1>4, <1>5 DEF Recover!Inv

LEMMA RecoverStarts == Recover!Init => Recover!Inv
<1> SUFFICES ASSUME Recover!Init PROVE Recover!Inv
  OBVIOUS
<1>1. /\ offer \in Recover!Offers /\ attempts = <<>> /\ calls = 0 /\ outcome = "none"
      /\ errorStage = "idle" /\ Retries \in Nat
  BY ServicesAssumption DEF Recover!Init, Recover!Offers
<1> QED
  <2>1. Recover!TypeOK
    BY <1>1 DEF Recover!TypeOK
  <2>a. 0 + 0 = 0 /\ 0 <= 1
    OBVIOUS
  <2>b. \A x : x \notin Recover!Succeeded /\ x \notin Recover!Failed
    BY <1>1, RecoverNothing
  <2>2. Recover!InTheirTurn
    BY <1>1, RecoverNothing DEF Recover!InTheirTurn
  <2>3. Recover!OneSucceeds
    BY <1>1, <2>a, <2>b, RecoverNothing DEF Recover!OneSucceeds
  <2> QED
    BY <2>1, <2>2, <2>3 DEF Recover!Inv

(* A strategy is tried: it is the first of those on offer that were not.   *)
LEMMA RecoverTries ==
    ASSUME Recover!Inv, NEW s \in Recover!Strategies, NEW success \in BOOLEAN, Recover!Now(s),
           Recover!Tried(s, success), calls' \in Nat, calls' <= Retries, calls' > 0 => "retry" \in offer
    PROVE  Recover!Inv'
<1>0. Recover!TypeOK /\ Recover!InTheirTurn /\ Recover!OneSucceeds
  BY DEF Recover!Inv
<1> DEFINE a == [strategy |-> s, success |-> success]
<1>1. /\ attempts' = Append(attempts, a) /\ UNCHANGED offer
      /\ errorStage' = IF success THEN "done" ELSE "trying"
      /\ outcome' = IF success THEN "recovered" ELSE "none"
      /\ attempts \in Seq([strategy : Recover!Strategies, success : BOOLEAN])
      /\ a \in [strategy : Recover!Strategies, success : BOOLEAN]
      /\ a.strategy = s /\ a.success = success
  BY <1>0 DEF Recover!Tried, Recover!TypeOK
<1> HIDE DEF a
<1>2. /\ attempts' \in Seq([strategy : Recover!Strategies, success : BOOLEAN])
      /\ Len(attempts') = Len(attempts) + 1 /\ attempts'[Len(attempts) + 1] = a
      /\ \A i \in 1..Len(attempts) : attempts'[i] = attempts[i]
      /\ DOMAIN attempts = 1..Len(attempts) /\ DOMAIN attempts' = 1..(Len(attempts) + 1)
      /\ Len(attempts) \in Nat
  BY <1>1
<1>7. Recover!TypeOK'
  BY <1>0, <1>1, <1>2 DEF Recover!TypeOK
<1>3. /\ Recover!Done' = Recover!Done \cup {s}
      /\ Recover!Failed' = Recover!Failed \cup (IF success THEN {} ELSE {s})
      /\ Recover!Succeeded' = Recover!Succeeded \cup (IF success THEN {s} ELSE {})
  <2> DEFINE n == Len(attempts) + 1
             Of(f, D, b) == {f[i].strategy : i \in {j \in D : f[j].success = b}}
  <2>1. n \notin 1..Len(attempts) /\ n \in 1..n /\ 1..n = 1..Len(attempts) \cup {n}
    BY <1>2
  <2>2. DOMAIN attempts' = DOMAIN attempts \cup {n} /\ attempts'[n] = a
        /\ \A i \in DOMAIN attempts : i # n /\ attempts'[i] = attempts[i]
    BY <1>2, <2>1
  <2> HIDE DEF n
  <2>3. \A i \in DOMAIN attempts \cup {n} : attempts'[i].success \in BOOLEAN
    BY <1>0, <1>1, <2>2, RecoverTyped
  <2>4. \A b \in BOOLEAN : Of(attempts', DOMAIN attempts \cup {n}, b) =
           Of(attempts, DOMAIN attempts, b) \cup (IF attempts'[n].success = b THEN {attempts'[n].strategy} ELSE {})
    BY <2>2, <2>3, OneMore
  <2>5. Recover!Failed = Of(attempts, DOMAIN attempts, FALSE) /\ Recover!Succeeded = Of(attempts, DOMAIN attempts, TRUE)
        /\ Recover!Done = Recover!Failed \cup Recover!Succeeded
    BY <1>0, RecoverParts
  <2>6. /\ Recover!Failed' = Of(attempts', DOMAIN attempts', FALSE)
        /\ Recover!Succeeded' = Of(attempts', DOMAIN attempts', TRUE)
        /\ Recover!Done' = Recover!Failed' \cup Recover!Succeeded'
    BY <2>2, <2>3, Parts DEF Recover!Failed, Recover!Succeeded, Recover!Done
  <2> HIDE DEF Of
  <2>7. CASE success
    <3>1. attempts'[n].success = TRUE /\ attempts'[n].strategy = s /\ TRUE # FALSE
      BY <1>1, <2>2, <2>7
    <3>2. Recover!Failed' = Recover!Failed /\ Recover!Succeeded' = Recover!Succeeded \cup {s}
      BY <2>2, <2>4, <2>5, <2>6, <3>1
    <3> QED
      BY <2>5, <2>6, <2>7, <3>2
  <2>8. CASE ~success
    <3>1. attempts'[n].success = FALSE /\ attempts'[n].strategy = s /\ TRUE # FALSE
      BY <1>1, <2>2, <2>8
    <3>2. Recover!Failed' = Recover!Failed \cup {s} /\ Recover!Succeeded' = Recover!Succeeded
      BY <2>2, <2>4, <2>5, <2>6, <3>1
    <3> QED
      BY <2>5, <2>6, <2>8, <3>2
  <2> QED
    BY <2>7, <2>8
<1>4. /\ errorStage = "trying" /\ outcome = "none" /\ Recover!Succeeded = {}
      /\ s \in offer /\ s \notin Recover!Done /\ Recover!Done = Recover!Failed
  <2>1. errorStage = "trying" /\ s \in Recover!Untried
    BY DEF Recover!Now
  <2>2. s \in offer /\ s \notin Recover!Done
    BY <2>1 DEF Recover!Untried, Recover!Done
  <2>3. outcome = "none" /\ Recover!Succeeded = {}
    BY <1>0, <2>1 DEF Recover!OneSucceeds
  <2> QED
    BY <1>0, <2>1, <2>2, <2>3, RecoverParts
<1>5. Recover!Before(s) \subseteq Recover!Failed
  <2>1. ASSUME NEW t \in Recover!Before(s) PROVE t \in Recover!Done
    <3>1. t \in offer /\ Recover!Place(t) < Recover!Place(s) /\ t \in Recover!Strategies
      BY <1>0, RecoverParts DEF Recover!Before
    <3>2. t \notin Recover!Untried
      BY <3>1, RecoverPlaces DEF Recover!Now
    <3> QED
      BY <3>1, <3>2 DEF Recover!Untried, Recover!Done
  <2> QED
    BY <1>4, <2>1
<1>6. \A t : Recover!Before(t)' = Recover!Before(t)
  BY <1>1 DEF Recover!Before
<1>8. /\ IsFiniteSet(Recover!Failed) /\ Cardinality(Recover!Failed) = Len(attempts)
      /\ IsFiniteSet({}) /\ Cardinality({}) = 0 /\ IsFiniteSet({s}) /\ Cardinality({s}) = 1
      /\ Recover!Done \subseteq offer
  <2>1. IsFiniteSet(Recover!Failed) /\ Cardinality(Recover!Failed) + Cardinality({}) = Len(attempts)
        /\ Recover!Done \subseteq offer
    BY <1>0, <1>4, RecoverSets DEF Recover!InTheirTurn
  <2>2. Cardinality(Recover!Failed) \in Nat
    BY <2>1, FS_CardinalityType
  <2>3. IsFiniteSet({}) /\ Cardinality({}) = 0
    BY FS_EmptySet
  <2>4. IsFiniteSet({s}) /\ Cardinality({s}) = 1
    BY FS_Singleton
  <2> QED
    BY <2>1, <2>2, <2>3, <2>4
<1>9. s \notin Recover!Failed
  BY <1>4
<1>10. /\ IsFiniteSet(Recover!Failed') /\ IsFiniteSet(Recover!Succeeded')
       /\ Cardinality(Recover!Failed') + Cardinality(Recover!Succeeded') = Len(attempts')
       /\ Cardinality(Recover!Succeeded') <= 1
  <2>1. CASE success
    <3>1. Recover!Failed' = Recover!Failed /\ Recover!Succeeded' = {s}
      BY <1>3, <1>4, <2>1
    <3> QED
      BY <1>2, <1>8, <3>1
  <2>2. CASE ~success
    <3>1. Recover!Failed' = Recover!Failed \cup {s} /\ Recover!Succeeded' = {}
      BY <1>3, <1>4, <2>2
    <3>2. IsFiniteSet(Recover!Failed \cup {s})
          /\ Cardinality(Recover!Failed \cup {s}) = Cardinality(Recover!Failed) + 1
      BY <1>8, <1>9, FS_AddElement
    <3> QED
      BY <1>2, <1>8, <3>1, <3>2
  <2> QED
    BY <2>1, <2>2
<1>11. Recover!InTheirTurn'
  BY <1>1, <1>3, <1>4, <1>8, <1>10, RecoverSets DEF Recover!InTheirTurn
<1>12. Recover!OneSucceeds'
  <2>1. Recover!Cardinality(Recover!Succeeded') <= 1
    BY <1>10, RecoverSets
  <2>2. \A t \in Recover!Failed : Recover!Before(t) \subseteq Recover!Failed
    BY <1>0 DEF Recover!OneSucceeds
  <2>3. CASE success
    <3>1. /\ errorStage' = "done" /\ outcome' = "recovered"
          /\ Recover!Failed' = Recover!Failed /\ Recover!Succeeded' = {s}
      BY <1>1, <1>3, <1>4, <2>3
    <3> QED
      BY <1>5, <1>6, <2>1, <2>2, <3>1 DEF Recover!OneSucceeds
  <2>4. CASE ~success
    <3>1. /\ errorStage' = "trying" /\ outcome' = "none"
          /\ Recover!Failed' = Recover!Failed \cup {s} /\ Recover!Succeeded' = {}
      BY <1>1, <1>3, <1>4, <2>4
    <3> QED
      BY <1>5, <1>6, <2>1, <2>2, <3>1 DEF Recover!OneSucceeds
  <2> QED
    BY <2>3, <2>4
<1> QED
  BY <1>7, <1>11, <1>12 DEF Recover!Inv

(* What leaves the attempts alone.                                         *)
LEMMA RecoverStays ==
    ASSUME Recover!Inv, UNCHANGED <<offer, attempts>>,
           errorStage' \in {"idle", "trying", "asking", "done"},
           outcome' \in {"none", "recovered", "decided", "unrecoverable"},
           calls' \in Nat, calls' <= Retries, calls' > 0 => "retry" \in offer,
           outcome' = "recovered" <=> outcome = "recovered",
           errorStage' \in {"idle", "trying", "asking"} => outcome' = "none",
           (errorStage' = "asking" \/ outcome' \in {"decided", "unrecoverable"}) => Recover!Failed = offer
    PROVE  Recover!Inv'
<1>1. Recover!Failed' = Recover!Failed /\ Recover!Succeeded' = Recover!Succeeded /\ Recover!Done' = Recover!Done
      /\ \A s : Recover!Before(s)' = Recover!Before(s)
  BY DEF Recover!Failed, Recover!Succeeded, Recover!Done, Recover!Before
<1>2. Recover!TypeOK'
  BY DEF Recover!Inv, Recover!TypeOK
<1>3. Recover!InTheirTurn'
  BY <1>1 DEF Recover!Inv, Recover!InTheirTurn
<1>4. Recover!OneSucceeds'
  BY <1>1 DEF Recover!Inv, Recover!OneSucceeds
<1> QED
  BY <1>2, <1>3, <1>4 DEF Recover!Inv

LEMMA RecoverKeeps == Recover!Inv /\ [Recover!Next]_recovery => Recover!Inv'
<1> SUFFICES ASSUME Recover!Inv, [Recover!Next]_recovery PROVE Recover!Inv'
  OBVIOUS
<1>0. /\ calls \in Nat /\ calls <= Retries /\ Retries \in Nat /\ (calls > 0 => "retry" \in offer)
      /\ errorStage \in {"idle", "trying", "asking", "done"}
      /\ outcome \in {"none", "recovered", "decided", "unrecoverable"}
      /\ errorStage \in {"idle", "trying", "asking"} => outcome = "none"
      /\ (errorStage = "asking" \/ outcome \in {"decided", "unrecoverable"}) => Recover!Failed = offer
      /\ offer \in Recover!Offers
  BY ServicesAssumption DEF Recover!Inv, Recover!TypeOK, Recover!InTheirTurn, Recover!OneSucceeds
<1>1. CASE UNCHANGED recovery
  <2>1. UNCHANGED <<offer, attempts, calls, errorStage, outcome>>
    BY <1>1 DEF recovery
  <2> QED
    BY <1>0, <2>1, RecoverStays
<1>2. CASE \E e \in Recover!Errors, o \in Recover!Offers, c \in Contexts : Recover!Raise(e, o, c)
  BY <1>2, RecoverAnew DEF Recover!Raise
<1>3. ASSUME NEW ok \in BOOLEAN, Recover!TryRetry(ok) PROVE Recover!Inv'
  <2>1. /\ Recover!Now("retry") /\ calls' = calls + 1 /\ calls' \in Nat /\ calls' <= Retries
        /\ "retry" \in offer /\ "retry" \in Recover!Strategies
    BY <1>0, <1>3 DEF Recover!TryRetry, Recover!Now, Recover!Untried, Recover!Strategies
  <2>2. CASE Recover!Tried("retry", ok)
    BY <2>1, <2>2, RecoverTries
  <2>3. CASE UNCHANGED <<offer, attempts, errorStage, outcome>>
    BY <1>0, <2>1, <2>3, RecoverStays
  <2> QED
    BY <1>3, <2>2, <2>3 DEF Recover!TryRetry
<1>4. CASE Recover!UseFallback
  <2>1. Recover!Now("fallback") /\ Recover!Tried("fallback", TRUE) /\ calls' = calls /\ "fallback" \in Recover!Strategies
    BY <1>4 DEF Recover!UseFallback, Recover!Strategies
  <2> QED
    BY <1>0, <2>1, RecoverTries
<1>5. ASSUME NEW s \in {"partial", "alternative1", "alternative2"}, NEW ok \in BOOLEAN, Recover!TryOther(s, ok)
      PROVE  Recover!Inv'
  <2>1. Recover!Now(s) /\ Recover!Tried(s, ok) /\ calls' = calls /\ s \in Recover!Strategies
    BY <1>5 DEF Recover!TryOther, Recover!Strategies
  <2> QED
    BY <1>0, <2>1, RecoverTries
<1>6. CASE Recover!Escalate
  <2>1. /\ errorStage = "trying" /\ Recover!Untried = {} /\ UNCHANGED <<offer, attempts, calls>>
        /\ \/ errorStage' = "asking" /\ outcome' = outcome
           \/ errorStage' = "done" /\ outcome' = "unrecoverable"
    BY <1>6 DEF Recover!Escalate
  <2>2. Recover!Failed = offer
    <3>1. offer \subseteq Recover!Done
      BY <2>1 DEF Recover!Untried, Recover!Done
    <3>2. Recover!Done \subseteq offer /\ Recover!Succeeded = {}
      BY <1>0, <2>1 DEF Recover!Inv, Recover!InTheirTurn, Recover!OneSucceeds
    <3> QED
      BY <3>1, <3>2, RecoverParts DEF Recover!Inv
  <2> QED
    BY <1>0, <2>1, <2>2, RecoverStays
<1>7. CASE \E a \in Recover!Answers : Recover!Decide(a)
  <2>1. /\ errorStage = "asking" /\ errorStage' = "done" /\ outcome' = "decided"
        /\ UNCHANGED <<offer, attempts, calls>>
    BY <1>7 DEF Recover!Decide
  <2> QED
    BY <1>0, <2>1, RecoverStays
<1>8. CASE Recover!Save
  <2>1. UNCHANGED <<offer, attempts, calls, errorStage, outcome>>
    BY <1>8 DEF Recover!Save
  <2> QED
    BY <1>0, <2>1, RecoverStays
<1>9. CASE Recover!Restart
  BY <1>0, <1>9, RecoverAnew DEF Recover!Restart
<1> QED
  BY <1>1, <1>2, <1>3, <1>4, <1>5, <1>6, <1>7, <1>8, <1>9 DEF Recover!Next

(* The strategies of an error are tried in their order, each once, and     *)
(* a human is asked when all have failed.                                  *)
THEOREM StrategiesInOrder == ServicesSpec => []RecoveryInOrder
<1>1. ServicesInit => Recover!Inv
  BY RecoverStarts DEF ServicesInit
<1>2. Recover!Inv /\ [ServicesNext]_servicesVars => Recover!Inv'
  <2>1. [ServicesNext]_servicesVars => [Recover!Next]_recovery
    BY DEF ServicesNext, servicesVars
  <2> QED
    BY <2>1, RecoverKeeps
<1>3. Recover!Inv => RecoveryInOrder
  BY DEF Recover!Inv, Recover!InTheirTurn, Recover!OneSucceeds, Recover!RecoveryInOrder, RecoveryInOrder
<1> QED
  BY <1>1, <1>2, <1>3, PTL DEF ServicesSpec

-----------------------------------------------------------------------------
(***************************************************************************)
(* Databases: the connections of a process and the locks of its sites.     *)
(***************************************************************************)
(* A sequence of different elements without one of them.                   *)
LEMMA SeqWithout ==
    ASSUME NEW S, NEW s \in Seq(S), NEW i \in 1..Len(s), Bases!IsInjective(s)
    PROVE  /\ Bases!RemoveAt(s, i) \in Seq(S) /\ Bases!IsInjective(Bases!RemoveAt(s, i))
           /\ Bases!Range(Bases!RemoveAt(s, i)) = Bases!Range(s) \ {s[i]}
<1> DEFINE t == Bases!RemoveAt(s, i)
<1>1. /\ SubSeq(s, 1, i-1) \in Seq(S) /\ Len(SubSeq(s, 1, i-1)) = i-1
      /\ \A j \in 1..(i-1) : SubSeq(s, 1, i-1)[j] = s[j]
  OBVIOUS
<1>2. /\ SubSeq(s, i+1, Len(s)) \in Seq(S) /\ Len(SubSeq(s, i+1, Len(s))) = Len(s) - i
      /\ \A j \in 1..(Len(s)-i) : SubSeq(s, i+1, Len(s))[j] = s[i+j]
  OBVIOUS
<1>a. Len(s) \in Nat /\ i \in Nat /\ 1 <= i /\ i <= Len(s)
  OBVIOUS
<1> DEFINE l == SubSeq(s, 1, i-1)
           r == SubSeq(s, i+1, Len(s))
<1>b. /\ l \o r \in Seq(S) /\ Len(l \o r) = Len(l) + Len(r)
      /\ \A j \in 1..(Len(l) + Len(r)) : (l \o r)[j] = IF j <= Len(l) THEN l[j] ELSE r[j - Len(l)]
  <2> HIDE DEF l, r
  <2> QED
    BY <1>1, <1>2, ConcatProperties DEF l, r
<1>c. t = l \o r
  BY DEF Bases!RemoveAt
<1>f. Len(l) = i-1 /\ Len(r) = Len(s)-i /\ Len(l) + Len(r) = Len(s)-1
  <2>1. Len(l) = i-1 /\ Len(r) = Len(s)-i
    BY <1>1, <1>2, Zenon
  <2> HIDE DEF l, r
  <2> QED
    BY <2>1, <1>a
<1> HIDE DEF t, l, r
<1>d. t \in Seq(S) /\ Len(t) = Len(s) - 1
  BY <1>b, <1>c, <1>f
<1>e. ASSUME NEW j \in 1..(Len(s)-1)
      PROVE  (j < i => t[j] = s[j]) /\ (~(j < i) => t[j] = s[j+1])
  <2>1. t[j] = IF j <= i-1 THEN l[j] ELSE r[j - (i-1)]
    BY <1>a, <1>b, <1>c, <1>f
  <2>2. j < i => j \in 1..(i-1)
    BY <1>a
  <2>3. ~(j < i) => j - (i-1) \in 1..(Len(s)-i) /\ i + (j - (i-1)) = j+1 /\ ~(j <= i-1)
    BY <1>a
  <2>4. j < i => j <= i-1
    BY <1>a
  <2> QED
    BY <1>1, <1>2, <2>1, <2>2, <2>3, <2>4 DEF l, r
<1>4. DOMAIN s = 1..Len(s) /\ DOMAIN t = 1..(Len(s)-1) /\ Len(s) \in Nat
  BY <1>d
<1>6. ASSUME NEW j \in 1..(Len(s)-1)
      PROVE  \E k \in 1..Len(s) : k # i /\ t[j] = s[k] /\ k = IF j < i THEN j ELSE j+1
  <2>1. CASE j < i
    BY <1>a, <1>e, <2>1
  <2>2. CASE ~(j < i)
    <3>1. j+1 \in 1..Len(s) /\ j+1 # i /\ t[j] = s[j+1]
      BY <1>a, <1>e, <2>2
    <3> QED
      BY <2>2, <3>1
  <2> QED
    BY <2>1, <2>2
<1>5. Bases!IsInjective(t)
  <2>1. ASSUME NEW j \in 1..(Len(s)-1), NEW k \in 1..(Len(s)-1), t[j] = t[k] PROVE j = k
    <3>1. PICK p \in 1..Len(s) : t[j] = s[p] /\ p = IF j < i THEN j ELSE j+1
      BY <1>6
    <3>2. PICK q \in 1..Len(s) : t[k] = s[q] /\ q = IF k < i THEN k ELSE k+1
      BY <1>6
    <3>3. p = q
      BY <1>4, <2>1, <3>1, <3>2 DEF Bases!IsInjective
    <3> QED
      BY <1>a, <3>1, <3>2, <3>3
  <2> QED
    BY <1>4, <2>1 DEF Bases!IsInjective
<1>7. \A k \in 1..Len(s) : k # i => \E j \in 1..(Len(s)-1) : t[j] = s[k]
  <2>1. ASSUME NEW k \in 1..Len(s), k # i PROVE \E j \in 1..(Len(s)-1) : t[j] = s[k]
    <3>1. CASE k < i
      <4>1. k \in 1..(Len(s)-1)
        BY <1>a, <3>1
      <4> QED
        BY <1>e, <3>1, <4>1
    <3>2. CASE k > i
      <4>1. k-1 \in 1..(Len(s)-1) /\ ~(k-1 < i) /\ (k-1)+1 = k
        BY <1>a, <3>2
      <4>2. t[k-1] = s[k]
        BY <1>e, <4>1
      <4> QED
        BY <4>1, <4>2
    <3> QED
      BY <1>a, <2>1, <3>1, <3>2
  <2> QED
    BY <2>1
<1>8. Bases!Range(t) = Bases!Range(s) \ {s[i]}
  <2>1. \A k \in 1..Len(s) : s[k] = s[i] => k = i
    BY <1>4 DEF Bases!IsInjective
  <2>2. \A j \in 1..(Len(s)-1) : t[j] \in Bases!Range(s) \ {s[i]}
    BY <1>4, <1>6, <2>1 DEF Bases!Range
  <2>3. \A x \in Bases!Range(s) \ {s[i]} : x \in Bases!Range(t)
    BY <1>4, <1>7 DEF Bases!Range
  <2> QED
    BY <1>4, <2>2, <2>3 DEF Bases!Range
<1> QED
  BY <1>d, <1>5, <1>8 DEF t

LEMMA SeqWith ==
    ASSUME NEW S, NEW s \in Seq(S), NEW e \in S, Bases!IsInjective(s), e \notin Bases!Range(s)
    PROVE  /\ Append(s, e) \in Seq(S) /\ Bases!IsInjective(Append(s, e))
           /\ Bases!Range(Append(s, e)) = Bases!Range(s) \cup {e}
<1>1. /\ Append(s, e) \in Seq(S) /\ Len(Append(s, e)) = Len(s) + 1 /\ Append(s, e)[Len(s)+1] = e
      /\ \A i \in 1..Len(s) : Append(s, e)[i] = s[i]
      /\ DOMAIN s = 1..Len(s) /\ DOMAIN Append(s, e) = 1..(Len(s)+1) /\ Len(s) \in Nat
  OBVIOUS
<1>2. \A i \in 1..Len(s) : s[i] # e
  BY <1>1 DEF Bases!Range
<1>3. Bases!IsInjective(Append(s, e))
  BY <1>1, <1>2 DEF Bases!IsInjective
<1>4. Bases!Range(Append(s, e)) = Bases!Range(s) \cup {e}
  BY <1>1 DEF Bases!Range
<1> QED
  BY <1>1, <1>3, <1>4

LEMMA SeqRange ==
    ASSUME NEW S, NEW s \in Seq(S)
    PROVE  /\ s = <<>> <=> Bases!Range(s) = {} 
           /\ \A i \in 1..Len(s) : s[i] \in Bases!Range(s)
           /\ s # <<>> => 1 \in 1..Len(s)
<1>1. Len(s) \in Nat /\ DOMAIN s = 1..Len(s) /\ (s = <<>> <=> Len(s) = 0)
  BY EmptySeq
<1>2. Len(s) # 0 => 1 \in 1..Len(s)
  BY <1>1
<1>3. \A i \in 1..Len(s) : s[i] \in Bases!Range(s)
  BY <1>1 DEF Bases!Range
<1>4. Len(s) = 0 => Bases!Range(s) = {}
  BY <1>1 DEF Bases!Range
<1> QED
  BY <1>1, <1>2, <1>3, <1>4

LEMMA BasesStarts == Bases!Init => Bases!Inv
<1> SUFFICES ASSUME Bases!Init PROVE Bases!Inv
  OBVIOUS
<1>1. Bases!TypeOK
  BY DEF Bases!Init, Bases!TypeOK, Bases!Operations, Bases!Free, Bases!NoHold, Bases!NoToken, Bases!None
<1>2. connections = <<>> /\ default = Bases!None /\ connections \in Seq(Bases!Keys)
  BY DEF Bases!Init
<1>3. Bases!OneDefault
  BY <1>2 DEF Bases!OneDefault, Bases!IsInjective, Bases!Range
<1>4. Bases!OwnTokens
  BY DEF Bases!Init, Bases!OwnTokens, Bases!NoHold, Bases!NoToken, Bases!Holds
<1> QED
  BY <1>1, <1>3, <1>4 DEF Bases!Inv

LEMMA BasesOpens ==
    ASSUME Bases!Inv, NEW r \in Requests, NEW t \in Targets, NEW m, NEW c, Bases!Open(r, t, m, c)
    PROVE  Bases!TypeOK' /\ Bases!OneDefault'
<1> DEFINE key == Bases!db_scope_for(t, m)
<1>1. key \in Bases!Keys /\ Bases!require_db(key) /\ key # Bases!None
  BY ServicesAssumption DEF Bases!Open, Bases!db_scope_for, Bases!Keys, Bases!Memory, Bases!None
<1>2. UNCHANGED <<dbOp, clock, dbLocks, tokens, granted>>
  BY DEF Bases!Open, Bases!Data
<1>3. /\ connections \in Seq(Bases!Keys) /\ Bases!IsInjective(connections)
      /\ default \in Bases!Keys \cup {Bases!None} /\ Bases!OneDefault /\ Bases!TypeOK
  BY DEF Bases!Inv, Bases!TypeOK, Bases!OneDefault
<1> HIDE DEF key
<1>4. CASE UNCHANGED <<connections, default>>
  BY <1>2, <1>3, <1>4 DEF Bases!OneDefault, Bases!TypeOK
<1>5. CASE key \notin Bases!Range(connections) /\ connections' = Append(connections, key)
             /\ default' = IF default = Bases!None THEN key ELSE default
  <2>1. /\ connections' \in Seq(Bases!Keys) /\ Bases!IsInjective(connections')
        /\ Bases!Range(connections') = Bases!Range(connections) \cup {key}
    BY <1>1, <1>3, <1>5, SeqWith
  <2>2. connections' # <<>> 
    BY <2>1, SeqRange
  <2>3. default' # Bases!None /\ default' \in Bases!Keys /\ default' \in Bases!Range(connections')
    BY <1>1, <1>3, <1>5, <2>1 DEF Bases!OneDefault
  <2>4. Bases!OneDefault'
    BY <1>1, <1>3, <2>1, <2>2, <2>3 DEF Bases!OneDefault, Bases!require_db
  <2> QED
    BY <1>2, <1>3, <2>1, <2>3, <2>4 DEF Bases!TypeOK
<1> QED
  BY <1>4, <1>5 DEF Bases!Open, key

LEMMA BasesCloses ==
    ASSUME Bases!Inv, NEW r \in Requests, NEW p, Bases!Close(r, p)
    PROVE  Bases!TypeOK' /\ Bases!OneDefault'
<1> DEFINE key == IF p = Bases!None THEN default ELSE p
           i == CHOOSE j \in DOMAIN connections : connections[j] = key
<1>1. /\ connections \in Seq(Bases!Keys) /\ Bases!IsInjective(connections) /\ Bases!OneDefault
      /\ default \in Bases!Keys \cup {Bases!None} /\ Bases!TypeOK
  BY DEF Bases!Inv, Bases!TypeOK, Bases!OneDefault
<1>2. /\ key \in Bases!Range(connections) /\ connections' = Bases!RemoveAt(connections, i)
      /\ default' = Bases!NextDefault(key) /\ UNCHANGED <<dbPc, dbOp, clock, dbLocks, tokens, granted>>
  BY DEF Bases!Close, Bases!shift_remove, Bases!Data
<1> HIDE DEF key
<1>3. i \in 1..Len(connections) /\ connections[i] = key
  BY <1>1, <1>2 DEF Bases!Range
<1> HIDE DEF i
<1>4. /\ connections' \in Seq(Bases!Keys) /\ Bases!IsInjective(connections')
      /\ Bases!Range(connections') = Bases!Range(connections) \ {key}
  BY <1>1, <1>2, <1>3, SeqWithout
<1>5. default' = IF key # default THEN default ELSE IF connections' = <<>> THEN Bases!None ELSE connections'[1]
  BY <1>2 DEF Bases!NextDefault, Bases!Close, Bases!shift_remove, i
<1>6. \A k \in Bases!Range(connections') : k \in Bases!Keys /\ k # Bases!None /\ Bases!require_db(k)
  <2>1. \A k \in Bases!Range(connections) : k \in Bases!Keys
    BY <1>1 DEF Bases!Range
  <2>2. Bases!None \notin Bases!Keys
    BY ServicesAssumption DEF Bases!Keys, Bases!None, Bases!Memory
  <2> QED
    BY <1>1, <1>4, <2>1, <2>2 DEF Bases!OneDefault
<1>7. /\ default' = Bases!None <=> connections' = <<>>
      /\ default' # Bases!None => default' \in Bases!Range(connections')
  <2>1. CASE key # default
    <3>1. default \in Bases!Range(connections') /\ connections' # <<>>
      BY <1>1, <1>2, <1>4, <2>1, SeqRange DEF Bases!OneDefault
    <3> QED
      BY <1>5, <1>6, <2>1, <3>1
  <2>2. CASE key = default
    <3>1. connections' # <<>> => connections'[1] \in Bases!Range(connections')
      BY <1>4, SeqRange
    <3> QED
      BY <1>5, <1>6, <2>2, <3>1
  <2> QED
    BY <2>1, <2>2
<1>8. Bases!OneDefault'
  BY <1>4, <1>6, <1>7 DEF Bases!OneDefault, Bases!require_db
<1>9. default' \in Bases!Keys \cup {Bases!None}
  BY <1>6, <1>7
<1> QED
  BY <1>1, <1>2, <1>4, <1>8, <1>9 DEF Bases!TypeOK

(* What neither the locks nor the clock are part of.                       *)
LEMMA BasesSame ==
    ASSUME Bases!Inv, UNCHANGED <<clock, dbLocks, tokens, granted>>, Bases!TypeOK', Bases!OneDefault'
    PROVE  Bases!Inv'
  BY DEF Bases!Inv, Bases!OwnTokens, Bases!Holds

LEMMA BasesUses ==
    ASSUME Bases!Inv, UNCHANGED <<connections, default>>
    PROVE  Bases!OneDefault'
  BY DEF Bases!Inv, Bases!OneDefault, Bases!require_db

LEMMA BasesLocks ==
    ASSUME Bases!Inv, NEW r \in Requests, Bases!Lock(r) PROVE Bases!Inv'
<1>1. /\ clock' = clock /\ UNCHANGED <<connections, default>>
      /\ dbOp' = [dbOp EXCEPT ![r] = "sql"] /\ dbOp[r] = "redis_lock"
      /\ default \in Targets
  BY DEF Bases!Lock, Bases!Ends, Bases!Using, Bases!Finds, Bases!Needs, Bases!Backend, Bases!Inv,
     Bases!TypeOK, Bases!Keys
<1>2. dbOp' \in [Requests -> Bases!Operations]
  BY <1>1 DEF Bases!Inv, Bases!TypeOK, Bases!Operations
<1>3. Bases!OneDefault'
  BY <1>1, BasesUses
<1>4. CASE dbLocks[default].until > clock
  <2>1. UNCHANGED <<dbLocks, tokens, granted>>
    BY <1>4 DEF Bases!Lock
  <2> QED
    BY <1>1, <1>2, <1>3, <2>1, BasesSame DEF Bases!Inv, Bases!TypeOK
<1>5. CASE ~(dbLocks[default].until > clock)
  <2> DEFINE until == clock + TTL
             lock == [token |-> granted + 1, until |-> until]
             hold == [token |-> granted + 1, at |-> default, until |-> until]
  <2>1. /\ granted' = granted + 1 /\ dbLocks' = [dbLocks EXCEPT ![default] = lock]
        /\ tokens' = [tokens EXCEPT ![r] = hold]
    BY <1>5 DEF Bases!Lock
  <2>2. /\ granted \in Nat /\ clock \in Nat /\ until \in Nat
        /\ dbLocks \in [Targets -> [token : Nat, until : Nat]]
        /\ tokens \in [Requests -> [token : Nat, at : Targets \cup {Bases!None}, until : Nat]]
    BY ServicesAssumption DEF Bases!Inv, Bases!TypeOK
  <2> HIDE DEF until
  <2>3. Bases!TypeOK'
    BY <1>1, <1>2, <2>1, <2>2 DEF Bases!Inv, Bases!TypeOK
  <2>4. Bases!OwnTokens /\ \A s \in Requests : tokens[s].token \in Nat /\ tokens[s].token <= granted
    BY <2>2 DEF Bases!Inv, Bases!OwnTokens
  <2>5. \A s \in Requests \ {r} : tokens'[s] = tokens[s] /\ tokens[s].token # granted + 1
    BY <2>1, <2>2, <2>4
  <2>6. tokens'[r] = hold /\ dbLocks'[default] = lock /\ \A k \in Targets \ {default} : dbLocks'[k] = dbLocks[k]
    BY <1>1, <2>1, <2>2
  <2>7. \A s \in Requests : tokens'[s].token <= granted'
    BY <2>1, <2>2, <2>4, <2>5, <2>6
  <2>8. \A s, q \in Requests : tokens'[s].token = tokens'[q].token /\ tokens'[s].token # Bases!NoToken => s = q
    BY <2>4, <2>5, <2>6 DEF Bases!OwnTokens
  <2>9. ASSUME NEW s \in Requests, Bases!Holds(s)'
        PROVE  /\ tokens'[s].at \in Targets
               /\ dbLocks'[tokens'[s].at] = [token |-> tokens'[s].token, until |-> tokens'[s].until]
    <3>1. CASE s = r
      BY <1>1, <2>6, <3>1
    <3>2. CASE s # r
      <4>1. tokens'[s] = tokens[s] /\ Bases!Holds(s)
        BY <1>1, <2>5, <2>9, <3>2 DEF Bases!Holds
      <4>2. /\ tokens[s].at \in Targets
            /\ dbLocks[tokens[s].at] = [token |-> tokens[s].token, until |-> tokens[s].until]
        BY <2>4, <4>1 DEF Bases!OwnTokens
      <4>3. tokens[s].at # default
        BY <1>5, <4>1, <4>2 DEF Bases!Holds
      <4> QED
        BY <2>6, <4>1, <4>2, <4>3
    <3> QED
      BY <3>1, <3>2
  <2> QED
    BY <1>3, <2>3, <2>7, <2>8, <2>9 DEF Bases!Inv, Bases!OwnTokens
<1> QED
  BY <1>4, <1>5

LEMMA BasesUnlocks ==
    ASSUME Bases!Inv, NEW r \in Requests, Bases!Unlock(r) PROVE Bases!Inv'
<1>1. /\ clock' = clock /\ granted' = granted /\ UNCHANGED <<connections, default>>
      /\ dbOp' = [dbOp EXCEPT ![r] = "sql"] /\ tokens[r].token # Bases!NoToken
      /\ tokens' = [tokens EXCEPT ![r] = Bases!NoHold] /\ dbLocks' = Bases!Released(r)
      /\ default \in Targets
  BY DEF Bases!Unlock, Bases!Ends, Bases!Using, Bases!Finds, Bases!Needs, Bases!Backend, Bases!Inv,
     Bases!TypeOK, Bases!Keys
<1>2. /\ dbLocks \in [Targets -> [token : Nat, until : Nat]]
      /\ tokens \in [Requests -> [token : Nat, at : Targets \cup {Bases!None}, until : Nat]]
      /\ Bases!NoHold \in [token : Nat, at : Targets \cup {Bases!None}, until : Nat]
      /\ Bases!Free \in [token : Nat, until : Nat] /\ Bases!NoHold.token = Bases!NoToken
  BY DEF Bases!Inv, Bases!TypeOK, Bases!NoHold, Bases!Free, Bases!NoToken
<1>3. Bases!TypeOK'
  BY <1>1, <1>2 DEF Bases!Inv, Bases!TypeOK, Bases!Operations, Bases!Released
<1>4. Bases!OneDefault'
  BY <1>1, BasesUses
<1>5. tokens'[r] = Bases!NoHold /\ \A s \in Requests \ {r} : tokens'[s] = tokens[s]
  BY <1>1, <1>2
<1>6. Bases!OwnTokens /\ granted \in Nat
  BY DEF Bases!Inv, Bases!TypeOK
<1>7. \A s \in Requests : tokens'[s].token <= granted'
  BY <1>1, <1>2, <1>5, <1>6 DEF Bases!OwnTokens, Bases!NoToken
<1>8. \A s, q \in Requests : tokens'[s].token = tokens'[q].token /\ tokens'[s].token # Bases!NoToken => s = q
  BY <1>2, <1>5, <1>6 DEF Bases!OwnTokens
<1>9. ASSUME NEW s \in Requests, Bases!Holds(s)'
      PROVE  /\ tokens'[s].at \in Targets
             /\ dbLocks'[tokens'[s].at] = [token |-> tokens'[s].token, until |-> tokens'[s].until]
  <2>1. s # r
    BY <1>2, <1>5, <1>9 DEF Bases!Holds
  <2>2. tokens'[s] = tokens[s] /\ Bases!Holds(s)
    BY <1>1, <1>5, <1>9, <2>1 DEF Bases!Holds
  <2>3. /\ tokens[s].at \in Targets /\ tokens[s].token # tokens[r].token
        /\ dbLocks[tokens[s].at] = [token |-> tokens[s].token, until |-> tokens[s].until]
    BY <1>6, <2>1, <2>2 DEF Bases!OwnTokens, Bases!Holds
  <2>4. dbLocks'[tokens[s].at] = dbLocks[tokens[s].at]
    <3>1. CASE tokens[s].at = default
      BY <1>1, <2>3, <3>1 DEF Bases!Released
    <3>2. CASE tokens[s].at # default
      BY <1>1, <1>2, <2>3, <3>2 DEF Bases!Released
    <3> QED
      BY <3>1, <3>2
  <2> QED
    BY <2>2, <2>3, <2>4
<1> QED
  BY <1>3, <1>4, <1>7, <1>8, <1>9 DEF Bases!Inv, Bases!OwnTokens

LEMMA BasesKeeps == Bases!Inv /\ [Bases!Next]_database => Bases!Inv'
<1> SUFFICES ASSUME Bases!Inv, [Bases!Next]_database PROVE Bases!Inv'
  OBVIOUS
<1>1. CASE UNCHANGED database
  BY <1>1, BasesUses, BasesSame DEF database, Bases!Inv, Bases!TypeOK
<1>2. ASSUME NEW r \in Requests,
             \/ \E t \in Targets, m \in {"readwrite", "memory"}, c \in BOOLEAN : Bases!Open(r, t, m, c)
             \/ \E p \in Bases!Keys \cup {Bases!None} : Bases!Close(r, p)
      PROVE  Bases!Inv'
  <2>1. UNCHANGED <<clock, dbLocks, tokens, granted>>
    BY <1>2 DEF Bases!Open, Bases!Close, Bases!Data
  <2> QED
    BY <1>2, <2>1, BasesOpens, BasesCloses, BasesSame
<1>3. ASSUME NEW r \in Requests,
             \/ \E o \in Bases!Operations : Bases!Check(r, o)
             \/ Bases!Fails(r) \/ Bases!Query(r) \/ Bases!Paged(r) \/ Bases!EndPaged(r)
      PROVE  Bases!Inv'
  <2>1. /\ UNCHANGED <<connections, default, clock, dbLocks, tokens, granted>>
        /\ \/ \E o \in Bases!Operations : dbOp' = [dbOp EXCEPT ![r] = o]
           \/ dbOp' = dbOp
    BY <1>3 DEF Bases!Check, Bases!Fails, Bases!Query, Bases!Paged, Bases!EndPaged, Bases!Ends, Bases!Data,
       Bases!Operations
  <2>2. Bases!TypeOK'
    BY <2>1 DEF Bases!Inv, Bases!TypeOK
  <2> QED
    BY <2>1, <2>2, BasesUses, BasesSame
<1>4. CASE Bases!CloseAll
  <2>1. /\ connections' = <<>> /\ default' = Bases!None
        /\ UNCHANGED <<dbOp, clock, dbLocks, tokens, granted>>
    BY <1>4 DEF Bases!CloseAll, Bases!Data
  <2>2. connections' \in Seq(Bases!Keys)
    BY <2>1
  <2>3. Bases!OneDefault'
    BY <2>1 DEF Bases!OneDefault, Bases!IsInjective, Bases!Range
  <2>4. Bases!TypeOK'
    BY <2>1, <2>2 DEF Bases!Inv, Bases!TypeOK
  <2> QED
    BY <2>1, <2>3, <2>4, BasesSame
<1>5. CASE Bases!Tick
  <2>1. clock' = clock + 1 /\ UNCHANGED <<connections, default, dbOp, dbLocks, tokens, granted>>
    BY <1>5 DEF Bases!Tick
  <2>2. Bases!TypeOK'
    BY <2>1 DEF Bases!Inv, Bases!TypeOK
  <2>3. clock \in Nat /\ \A r \in Requests : tokens[r].until \in Nat
    BY DEF Bases!Inv, Bases!TypeOK
  <2>4. \A r \in Requests : Bases!Holds(r)' => Bases!Holds(r)
    BY <2>1, <2>3 DEF Bases!Holds
  <2>5. Bases!OwnTokens'
    BY <2>1, <2>4 DEF Bases!Inv, Bases!OwnTokens
  <2> QED
    BY <2>1, <2>2, <2>5, BasesUses DEF Bases!Inv
<1> QED
  BY <1>1, <1>2, <1>3, <1>4, <1>5, BasesLocks, BasesUnlocks DEF Bases!Next

(* The default is an open connection that the program may use, and of the  *)
(* requests that hold a redis lock of one server there is one.             *)
THEOREM BasesHold == ServicesSpec => []ConnectionsAndLocks
<1>1. ServicesInit => Bases!Inv
  BY BasesStarts DEF ServicesInit
<1>2. Bases!Inv /\ [ServicesNext]_servicesVars => Bases!Inv'
  <2>1. [ServicesNext]_servicesVars => [Bases!Next]_database
    BY DEF ServicesNext, servicesVars
  <2> QED
    BY <2>1, BasesKeeps
<1>3. Bases!Inv => ConnectionsAndLocks
  <2> SUFFICES ASSUME Bases!Inv PROVE Bases!ConnectionsAndLocks
    BY DEF ConnectionsAndLocks
  <2>1. ASSUME NEW r \in Requests, NEW s \in Requests, Bases!Holds(r), Bases!Holds(s),
               tokens[r].at = tokens[s].at
        PROVE  r = s
    <3>1. [token |-> tokens[r].token, until |-> tokens[r].until]
              = [token |-> tokens[s].token, until |-> tokens[s].until]
      BY <2>1 DEF Bases!Inv, Bases!OwnTokens
    <3>2. tokens[r].token = tokens[s].token
      BY <3>1
    <3> QED
      BY <2>1, <3>2 DEF Bases!Inv, Bases!OwnTokens, Bases!Holds
  <2> QED
    BY <2>1 DEF Bases!Inv, Bases!OneDefault, Bases!ConnectionsAndLocks
<1> QED
  BY <1>1, <1>2, <1>3, PTL DEF ServicesSpec

-----------------------------------------------------------------------------
(***************************************************************************)
(* Secrets: what is revealed and the log of it.                            *)
(***************************************************************************)
LEMMA VaultSets == /\ \A S : Vault!Cardinality(S) = Cardinality(S)
                   /\ \A S : Vault!IsFiniteSet(S) <=> IsFiniteSet(S)
  BY DEF Vault!Cardinality, Cardinality, Vault!IsFiniteSet, IsFiniteSet

LEMMA VaultValues ==
    /\ \A of \in SUBSET SecretNames :
          /\ Vault!Plain(of) \in Vault!Value /\ ~Vault!Plain(of).secret /\ Vault!Plain(of).of = of
          /\ \A l \in Vault!Label :
                /\ Vault!Sealed(l, of) \in Vault!Value
                /\ Vault!Sealed(l, of).secret /\ Vault!Sealed(l, of).label = l
    /\ \A v \in Vault!Value : v.of \in SUBSET SecretNames /\ v.secret \in BOOLEAN
    /\ {"sealed", "bearer"} \cup RevealGrants \cup SecretNames \subseteq Vault!Label
  BY ServicesAssumption DEF Vault!Plain, Vault!Sealed, Vault!Value, Vault!Label

LEMMA VaultStarts == Vault!Init => Vault!Inv
<1> SUFFICES ASSUME Vault!Init PROVE Vault!Inv
  OBVIOUS
<1>1. Vault!TypeOK
  BY VaultValues DEF Vault!Init, Vault!TypeOK
<1>2. \A c \in SecretCallers : step[c].op = "idle"
  BY DEF Vault!Init, Vault!Idle
<1>3. \A l \in Vault!Label : Vault!Writing(l) = {}
  BY <1>2 DEF Vault!Writing
<1>4. \A l \in Vault!Label : [label |-> l, granted |-> TRUE] \in Vault!Entry
  BY DEF Vault!Entry
<1>5. Vault!Written
  <2>1. \A l \in Vault!Label : revealed[l] = 0 /\ log[[label |-> l, granted |-> TRUE]] = 0
    BY <1>4 DEF Vault!Init
  <2>2. Vault!IsFiniteSet({}) /\ Vault!Cardinality({}) = 0
    BY FS_EmptySet, VaultSets
  <2>3. \A l \in Vault!Label :
           /\ Vault!IsFiniteSet(Vault!Writing(l)) /\ Vault!Cardinality(Vault!Writing(l)) = 0
           /\ revealed[l] = 0 /\ log[[label |-> l, granted |-> TRUE]] = 0
    BY <1>3, <2>1, <2>2
  <2>4. 0 + 0 <= 0 /\ ~(0 > 0)
    OBVIOUS
  <2>5. ASSUME NEW l \in Vault!Label
        PROVE  /\ revealed[l] + Vault!Cardinality(Vault!Writing(l)) <= log[[label |-> l, granted |-> TRUE]]
               /\ ~(revealed[l] > 0)
    BY <2>3, <2>4, Zenon
  <2> QED
    BY <2>3, <2>5, Zenon DEF Vault!Written
<1>6. Vault!Granted
  BY <1>2 DEF Vault!Granted
<1>7. Vault!OnlyRevealOpens
  BY VaultValues DEF Vault!Init, Vault!OnlyRevealOpens
<1> QED
  BY <1>1, <1>5, <1>6, <1>7 DEF Vault!Inv

(* A caller has one more value.                                            *)
LEMMA VaultHolds ==
    ASSUME Vault!Inv, NEW c \in SecretCallers, NEW v \in Vault!Value, Vault!Holds(c, v),
           v.secret => v.label \in Vault!Label,
           ~v.secret => v.of \subseteq EnvGrants \cup opened
    PROVE  Vault!Inv'
<1>1. /\ held' = [held EXCEPT ![c] = held[c] \cup {v}]
      /\ UNCHANGED <<defined, step, log, revealed, opened>>
  BY DEF Vault!Holds
<1>2. Vault!TypeOK'
  BY <1>1 DEF Vault!Inv, Vault!TypeOK
<1>3. Vault!OnlyRevealOpens'
  BY <1>1 DEF Vault!Inv, Vault!TypeOK, Vault!OnlyRevealOpens
<1>4. Vault!Granted' /\ Vault!Written'
  BY <1>1 DEF Vault!Inv, Vault!Granted, Vault!Written, Vault!Writing
<1> QED
  BY <1>2, <1>3, <1>4 DEF Vault!Inv

LEMMA VaultNames ==
    ASSUME Vault!Inv, NEW c \in SecretCallers, NEW n \in SecretNames, NEW d \in BOOLEAN,
           Vault!env(c, n, d) \/ Vault!secret(c, n, d)
    PROVE  Vault!Inv'
<1>1. Vault!resolve(n) \in SUBSET SecretNames /\ Vault!resolve(n) \subseteq {n}
  BY DEF Vault!resolve
<1>2. CASE Vault!env(c, n, d)
  <2>1. n \in EnvGrants /\ Vault!Holds(c, Vault!Plain(Vault!resolve(n)))
    BY <1>2 DEF Vault!env
  <2> QED
    BY <1>1, <2>1, VaultValues, VaultHolds
<1>3. CASE Vault!secret(c, n, d)
  <2>1. Vault!Holds(c, Vault!Sealed(n, Vault!resolve(n)))
    BY <1>3 DEF Vault!secret
  <2>2. n \in Vault!Label
    BY DEF Vault!Label
  <2>3. /\ Vault!Sealed(n, Vault!resolve(n)) \in Vault!Value
        /\ Vault!Sealed(n, Vault!resolve(n)).secret /\ Vault!Sealed(n, Vault!resolve(n)).label = n
    BY <1>1, <2>2, VaultValues
  <2> QED
    BY <2>1, <2>2, <2>3, VaultHolds
<1> QED
  BY <1>2, <1>3

(* Whatever is made of a secret is one, and what is made of texts alone is *)
(* made of what they were.                                                 *)
LEMMA VaultMakes == ASSUME Vault!Inv, NEW c \in SecretCallers, Vault!Make(c) PROVE Vault!Inv'
<1>1. PICK a \in held[c], b \in held[c] :
         \E v \in {Vault!as_secret(a, "sealed"), Vault!bearer(a), Vault!Shown(a), Vault!secret_concat(a, b)}
                     \cup {Vault!as_secret(a, l) : l \in RevealGrants} : Vault!Holds(c, v)
  BY DEF Vault!Make
<1>2. \A x \in held[c] : /\ x \in Vault!Value /\ (x.secret => x.label \in Vault!Label)
                         /\ ~x.secret => x.of \subseteq EnvGrants \cup opened
                         /\ x.of \in SUBSET SecretNames
  BY VaultValues DEF Vault!Inv, Vault!TypeOK, Vault!OnlyRevealOpens
<1> DEFINE Fits(v) == /\ v \in Vault!Value /\ (v.secret => v.label \in Vault!Label)
                      /\ ~v.secret => v.of \subseteq EnvGrants \cup opened
<1>a. \A l \in Vault!Label, of \in SUBSET SecretNames : Fits(Vault!Sealed(l, of))
  BY VaultValues
<1>b. \A of \in SUBSET SecretNames : of \subseteq EnvGrants \cup opened => Fits(Vault!Plain(of))
  BY VaultValues
<1>c. Fits(a) /\ Fits(b) /\ a.of \in SUBSET SecretNames /\ b.of \in SUBSET SecretNames
      /\ a.secret \in BOOLEAN /\ b.secret \in BOOLEAN
      /\ (a.secret => a.label \in Vault!Label) /\ (b.secret => b.label \in Vault!Label)
  BY <1>2, VaultValues
<1>d. "sealed" \in Vault!Label /\ "bearer" \in Vault!Label /\ RevealGrants \subseteq Vault!Label
  BY VaultValues
<1>e. (~a.secret => a.of \subseteq EnvGrants \cup opened) /\ (~b.secret => b.of \subseteq EnvGrants \cup opened)
  BY <1>2
<1> HIDE DEF Fits
<1>3. \A l \in Vault!Label : Fits(Vault!as_secret(a, l))
  BY <1>a, <1>c DEF Vault!as_secret
<1>4. Fits(Vault!bearer(a))
  BY <1>a, <1>c, <1>d DEF Vault!bearer
<1>5. Fits(Vault!Shown(a))
  BY <1>b, <1>c DEF Vault!Shown
<1>6. Fits(Vault!secret_concat(a, b))
  <2>1. a.of \cup b.of \in SUBSET SecretNames
    BY <1>2
  <2>2. CASE a.secret \/ b.secret
    BY <1>a, <1>c, <2>1, <2>2 DEF Vault!secret_concat
  <2>3. CASE ~a.secret /\ ~b.secret
    BY <1>b, <1>e, <2>1, <2>3 DEF Vault!secret_concat
  <2> QED
    BY <2>2, <2>3
<1>7. PICK v : Fits(v) /\ Vault!Holds(c, v)
  BY <1>1, <1>3, <1>4, <1>5, <1>6, <1>d
<1> QED
  BY <1>7, VaultHolds DEF Fits

(* What a step of a reveal leaves alone.                                   *)
LEMMA VaultWriting ==
    ASSUME Vault!Inv, NEW c \in SecretCallers,
           NEW s \in {Vault!Idle} \cup [op : {"granted", "denied", "recorded"}, value : Vault!SecretValue],
           step' = [step EXCEPT ![c] = s]
    PROVE  /\ step'[c] = s /\ \A d \in SecretCallers \ {c} : step'[d] = step[d]
           /\ \A l \in Vault!Label : Vault!Writing(l)' =
                 IF s.op = "recorded" /\ s.value.label = l
                 THEN Vault!Writing(l) \cup {c} ELSE Vault!Writing(l) \ {c}
<1>1. step'[c] = s /\ \A d \in SecretCallers \ {c} : step'[d] = step[d]
  BY DEF Vault!Inv, Vault!TypeOK
<1> QED
  BY <1>1 DEF Vault!Writing

LEMMA VaultSteps ==
    ASSUME Vault!Inv, NEW c \in SecretCallers,
           Vault!Record(c) \/ Vault!CannotRecord(c) \/ Vault!Give(c) \/ \E v \in held[c] : Vault!reveal(c, v)
    PROVE  Vault!Inv'
<1>1. /\ Vault!TypeOK /\ Vault!Granted /\ Vault!Written /\ Vault!OnlyRevealOpens
      /\ step[c] \in {Vault!Idle} \cup [op : {"granted", "denied", "recorded"}, value : Vault!SecretValue]
      /\ Vault!Idle.op = "idle"
  BY DEF Vault!Inv, Vault!TypeOK, Vault!Idle
<1>2. step[c].op \in {"granted", "denied", "recorded"} =>
         /\ step[c] \in [op : {"granted", "denied", "recorded"}, value : Vault!SecretValue]
         /\ step[c].value \in Vault!Value /\ step[c].value.label \in Vault!Label
         /\ step[c].value.of \subseteq SecretNames
  BY <1>1, VaultValues DEF Vault!SecretValue
<1>3. \A l \in Vault!Label :
         /\ IsFiniteSet(Vault!Writing(l)) /\ Cardinality(Vault!Writing(l)) \in Nat
         /\ IsFiniteSet(Vault!Writing(l) \ {c}) /\ IsFiniteSet(Vault!Writing(l) \cup {c})
         /\ Cardinality(Vault!Writing(l) \ {c}) =
               Cardinality(Vault!Writing(l)) - (IF c \in Vault!Writing(l) THEN 1 ELSE 0)
         /\ Cardinality(Vault!Writing(l) \cup {c}) =
               Cardinality(Vault!Writing(l)) + (IF c \in Vault!Writing(l) THEN 0 ELSE 1)
         /\ revealed[l] \in Nat /\ log[[label |-> l, granted |-> TRUE]] \in Nat
         /\ revealed[l] + Cardinality(Vault!Writing(l)) <= log[[label |-> l, granted |-> TRUE]]
         /\ revealed[l] > 0 => l \in RevealGrants
  <2>1. \A l \in Vault!Label : IsFiniteSet(Vault!Writing(l))
    BY <1>1, VaultSets DEF Vault!Written
  <2>2. \A l \in Vault!Label : [label |-> l, granted |-> TRUE] \in Vault!Entry
    BY DEF Vault!Entry
  <2>3. \A l \in Vault!Label :
         /\ revealed[l] \in Nat /\ log[[label |-> l, granted |-> TRUE]] \in Nat
         /\ revealed[l] + Cardinality(Vault!Writing(l)) <= log[[label |-> l, granted |-> TRUE]]
         /\ revealed[l] > 0 => l \in RevealGrants
    BY <1>1, <2>2, VaultSets DEF Vault!Written, Vault!TypeOK
  <2>4. \A l \in Vault!Label : Cardinality(Vault!Writing(l)) \in Nat
    BY <2>1, FS_CardinalityType
  <2>5. \A l \in Vault!Label :
           /\ IsFiniteSet(Vault!Writing(l) \ {c})
           /\ Cardinality(Vault!Writing(l) \ {c}) =
                 Cardinality(Vault!Writing(l)) - (IF c \in Vault!Writing(l) THEN 1 ELSE 0)
    <3>1. ASSUME NEW l \in Vault!Label
          PROVE  /\ IsFiniteSet(Vault!Writing(l) \ {c})
                 /\ Cardinality(Vault!Writing(l) \ {c}) =
                      IF c \in Vault!Writing(l) THEN Cardinality(Vault!Writing(l)) - 1
                      ELSE Cardinality(Vault!Writing(l))
      BY <2>1, FS_RemoveElement
    <3> QED
      BY <2>4, <3>1
  <2>6. \A l \in Vault!Label :
           /\ IsFiniteSet(Vault!Writing(l) \cup {c})
           /\ Cardinality(Vault!Writing(l) \cup {c}) =
                 Cardinality(Vault!Writing(l)) + (IF c \in Vault!Writing(l) THEN 0 ELSE 1)
    <3>1. ASSUME NEW l \in Vault!Label
          PROVE  /\ IsFiniteSet(Vault!Writing(l) \cup {c})
                 /\ Cardinality(Vault!Writing(l) \cup {c}) =
                      IF c \in Vault!Writing(l) THEN Cardinality(Vault!Writing(l))
                      ELSE Cardinality(Vault!Writing(l)) + 1
      BY <2>1, FS_AddElement
    <3> QED
      BY <2>4, <3>1
  <2> QED
    BY <2>1, <2>3, <2>4, <2>5, <2>6
<1>4. CASE \E v \in held[c] : Vault!reveal(c, v)
  <2>1. PICK v \in held[c] : Vault!reveal(c, v)
    BY <1>4
  <2> DEFINE s == [op |-> IF v.label \in RevealGrants THEN "granted" ELSE "denied", value |-> v]
  <2>2. /\ step' = [step EXCEPT ![c] = s] /\ step[c] = Vault!Idle
        /\ UNCHANGED <<defined, held, log, revealed, opened>> /\ v \in Vault!SecretValue
    BY <1>1, <2>1 DEF Vault!reveal, Vault!TypeOK, Vault!SecretValue
  <2>3. /\ s \in [op : {"granted", "denied", "recorded"}, value : Vault!SecretValue]
        /\ s.op # "recorded" /\ s.value = v /\ (s.op = "granted" => v.label \in RevealGrants)
    BY <2>2
  <2> HIDE DEF s
  <2>4. \A l \in Vault!Label : c \notin Vault!Writing(l) /\ Vault!Writing(l)' = Vault!Writing(l)
    BY <1>1, <2>2, <2>3, VaultWriting DEF Vault!Writing
  <2>5. Vault!TypeOK'
    BY <1>1, <2>2, <2>3 DEF Vault!TypeOK
  <2>6. Vault!Granted'
    BY <1>1, <2>2, <2>3, VaultWriting DEF Vault!Granted
  <2>7. Vault!Written'
    BY <1>1, <2>2, <2>4 DEF Vault!Written
  <2>8. Vault!OnlyRevealOpens'
    BY <1>1, <2>2 DEF Vault!OnlyRevealOpens
  <2> QED
    BY <2>5, <2>6, <2>7, <2>8 DEF Vault!Inv
<1>5. CASE Vault!CannotRecord(c)
  <2>1. /\ step' = [step EXCEPT ![c] = Vault!Idle] /\ step[c].op # "recorded"
        /\ UNCHANGED <<defined, held, log, revealed, opened>>
    BY <1>5 DEF Vault!CannotRecord
  <2>2. \A l \in Vault!Label : c \notin Vault!Writing(l) /\ Vault!Writing(l)' = Vault!Writing(l)
    BY <1>1, <2>1, VaultWriting DEF Vault!Writing
  <2>3. Vault!TypeOK'
    BY <1>1, <2>1 DEF Vault!TypeOK
  <2>4. Vault!Granted'
    BY <1>1, <2>1, VaultWriting DEF Vault!Granted
  <2>5. Vault!Written'
    BY <1>1, <2>1, <2>2 DEF Vault!Written
  <2>6. Vault!OnlyRevealOpens'
    BY <1>1, <2>1 DEF Vault!OnlyRevealOpens
  <2> QED
    BY <2>3, <2>4, <2>5, <2>6 DEF Vault!Inv
<1>6. CASE Vault!Record(c)
  <2> DEFINE label == step[c].value.label
             e == [label |-> label, granted |-> step[c].op = "granted"]
  <2>1. /\ step[c].op \in {"granted", "denied"}
        /\ log' = [log EXCEPT ![e] = log[e] + 1]
        /\ UNCHANGED <<defined, held, revealed, opened>>
    BY <1>6 DEF Vault!Record, Vault!write_audit_entry
  <2>2. PICK s \in {Vault!Idle} \cup [op : {"granted", "denied", "recorded"}, value : Vault!SecretValue] :
           /\ step' = [step EXCEPT ![c] = s]
           /\ IF step[c].op = "granted" THEN s.op = "recorded" /\ s.value = step[c].value
              ELSE s = Vault!Idle
    <3>1. CASE step[c].op = "granted"
      <4> DEFINE s == [step[c] EXCEPT !.op = "recorded"]
      <4>1. step' = [step EXCEPT ![c] = s]
        BY <1>1, <1>6, <3>1 DEF Vault!Record, Vault!TypeOK
      <4>2. /\ s \in [op : {"granted", "denied", "recorded"}, value : Vault!SecretValue]
            /\ s.op = "recorded" /\ s.value = step[c].value
        BY <1>2, <3>1
      <4> HIDE DEF s
      <4> QED
        BY <3>1, <4>1, <4>2
    <3>2. CASE step[c].op # "granted"
      BY <1>6, <3>2 DEF Vault!Record
    <3> QED
      BY <3>1, <3>2
  <2>3. label \in Vault!Label /\ e \in Vault!Entry /\ (step[c].op = "granted" => e = [label |-> label, granted |-> TRUE])
    BY <1>2, <2>1 DEF Vault!Entry
  <2>4. (step[c].op = "granted" => label \in RevealGrants) /\ \A l \in Vault!Label : c \notin Vault!Writing(l)
    BY <1>1, <2>1 DEF Vault!Granted, Vault!Writing
  <2> HIDE DEF e
  <2>5. \A l \in Vault!Label : Vault!Writing(l)' =
           IF step[c].op = "granted" /\ label = l THEN Vault!Writing(l) \cup {c} ELSE Vault!Writing(l)
    <3>1. s.op = "recorded" <=> step[c].op = "granted"
      BY <1>1, <2>2
    <3>2. \A l \in Vault!Label : Vault!Writing(l) \ {c} = Vault!Writing(l)
      BY <2>4
    <3>3. step[c].op = "granted" => s.value.label = label
      BY <2>2
    <3>4. \A l \in Vault!Label : Vault!Writing(l)' =
                 IF s.op = "recorded" /\ s.value.label = l
                 THEN Vault!Writing(l) \cup {c} ELSE Vault!Writing(l) \ {c}
      BY <2>2, VaultWriting
    <3> HIDE DEF label
    <3> QED
      BY <3>1, <3>2, <3>3, <3>4
  <2> HIDE DEF label
  <2>6. \A x \in Vault!Entry : log'[x] = IF x = e THEN log[x] + 1 ELSE log[x]
    BY <1>1, <2>1 DEF Vault!TypeOK
  <2>7. Vault!TypeOK'
    BY <1>1, <2>1, <2>2, <2>3 DEF Vault!TypeOK
  <2>8. Vault!Granted'
    BY <1>1, <2>2, <2>4, VaultWriting DEF Vault!Granted, label
  <2>9. Vault!Written'
    <3>1. ASSUME NEW l \in Vault!Label
          PROVE  /\ IsFiniteSet(Vault!Writing(l)')
                 /\ revealed[l] + Cardinality(Vault!Writing(l)') <= log'[[label |-> l, granted |-> TRUE]]
      <4>1. [label |-> l, granted |-> TRUE] \in Vault!Entry
        BY DEF Vault!Entry
      <4>2. log'[[label |-> l, granted |-> TRUE]] \in
               {log[[label |-> l, granted |-> TRUE]], log[[label |-> l, granted |-> TRUE]] + 1}
        BY <2>6, <4>1
      <4>3. step[c].op = "granted" /\ label = l =>
               log'[[label |-> l, granted |-> TRUE]] = log[[label |-> l, granted |-> TRUE]] + 1
        BY <2>3, <2>6, <4>1
      <4>4. /\ revealed[l] \in Nat /\ log[[label |-> l, granted |-> TRUE]] \in Nat
            /\ Cardinality(Vault!Writing(l)) \in Nat /\ IsFiniteSet(Vault!Writing(l))
            /\ revealed[l] + Cardinality(Vault!Writing(l)) <= log[[label |-> l, granted |-> TRUE]]
        BY <1>3
      <4>5. CASE step[c].op = "granted" /\ label = l
        <5>1. /\ Vault!Writing(l)' = Vault!Writing(l) \cup {c} /\ IsFiniteSet(Vault!Writing(l)')
              /\ Cardinality(Vault!Writing(l)') = Cardinality(Vault!Writing(l)) + 1
          BY <1>3, <2>4, <2>5, <4>5
        <5> QED
          BY <4>3, <4>4, <4>5, <5>1
      <4>6. CASE ~(step[c].op = "granted" /\ label = l)
        BY <2>5, <4>2, <4>4, <4>6
      <4> QED
        BY <4>5, <4>6
    <3> QED
      BY <1>3, <2>1, <3>1, VaultSets DEF Vault!Written
  <2>10. Vault!OnlyRevealOpens'
    BY <1>1, <2>1 DEF Vault!OnlyRevealOpens
  <2> QED
    BY <2>7, <2>8, <2>9, <2>10 DEF Vault!Inv
<1>7. CASE Vault!Give(c)
  <2> DEFINE v == step[c].value
  <2>1. /\ step[c].op = "recorded" /\ step' = [step EXCEPT ![c] = Vault!Idle]
        /\ held' = [held EXCEPT ![c] = held[c] \cup {Vault!Plain(v.of)}]
        /\ revealed' = [revealed EXCEPT ![v.label] = revealed[v.label] + 1]
        /\ opened' = opened \cup v.of /\ UNCHANGED <<defined, log>>
    BY <1>7 DEF Vault!Give
  <2>2. /\ v.label \in Vault!Label /\ v.of \in SUBSET SecretNames /\ v.label \in RevealGrants
        /\ Vault!Plain(v.of) \in Vault!Value /\ ~Vault!Plain(v.of).secret /\ Vault!Plain(v.of).of = v.of
    BY <1>1, <1>2, <2>1, VaultValues DEF Vault!Granted
  <2>3. \A l \in Vault!Label : (c \in Vault!Writing(l) <=> v.label = l)
    BY <2>1 DEF Vault!Writing
  <2>4. \A l \in Vault!Label : Vault!Writing(l)' = Vault!Writing(l) \ {c}
    BY <1>1, <2>1, VaultWriting
  <2> HIDE DEF v
  <2>5. \A l \in Vault!Label : revealed'[l] = IF l = v.label THEN revealed[l] + 1 ELSE revealed[l]
    BY <1>1, <2>1 DEF Vault!TypeOK
  <2>6. Vault!TypeOK'
    BY <1>1, <2>1, <2>2 DEF Vault!TypeOK
  <2>7. Vault!Granted'
    BY <1>1, <2>1, VaultWriting DEF Vault!Granted
  <2>8. Vault!Written'
    <3>1. \A l \in Vault!Label :
             /\ IsFiniteSet(Vault!Writing(l)')
             /\ revealed'[l] + Cardinality(Vault!Writing(l)') <= log[[label |-> l, granted |-> TRUE]]
             /\ revealed'[l] > 0 => l \in RevealGrants
      <4> SUFFICES ASSUME NEW l \in Vault!Label
                   PROVE  /\ IsFiniteSet(Vault!Writing(l)')
                          /\ revealed'[l] + Cardinality(Vault!Writing(l)') <=
                                log[[label |-> l, granted |-> TRUE]]
                          /\ revealed'[l] > 0 => l \in RevealGrants
        OBVIOUS
      <4>1. /\ revealed[l] \in Nat /\ log[[label |-> l, granted |-> TRUE]] \in Nat
            /\ Cardinality(Vault!Writing(l)) \in Nat
            /\ revealed[l] + Cardinality(Vault!Writing(l)) <= log[[label |-> l, granted |-> TRUE]]
            /\ revealed[l] > 0 => l \in RevealGrants
            /\ IsFiniteSet(Vault!Writing(l) \ {c})
            /\ Cardinality(Vault!Writing(l) \ {c}) =
                 Cardinality(Vault!Writing(l)) - (IF c \in Vault!Writing(l) THEN 1 ELSE 0)
        BY <1>3
      <4>2. Vault!Writing(l)' = Vault!Writing(l) \ {c} /\ (c \in Vault!Writing(l) <=> v.label = l)
        BY <2>3, <2>4
      <4>3. revealed'[l] = IF l = v.label THEN revealed[l] + 1 ELSE revealed[l]
        BY <2>5
      <4>4. CASE v.label = l
        BY <2>2, <4>1, <4>2, <4>3, <4>4
      <4>5. CASE v.label # l
        BY <4>1, <4>2, <4>3, <4>5
      <4> QED
        BY <4>4, <4>5
    <3> QED
      BY <2>1, <3>1, VaultSets DEF Vault!Written
  <2>9. Vault!OnlyRevealOpens'
    BY <1>1, <2>1, <2>2 DEF Vault!OnlyRevealOpens, Vault!TypeOK
  <2> QED
    BY <2>6, <2>7, <2>8, <2>9 DEF Vault!Inv
<1> QED
  BY <1>4, <1>5, <1>6, <1>7

(* The log outlives the process; what it was about to give is not given.   *)
LEMMA VaultRestarts == ASSUME Vault!Inv, Vault!Restart PROVE Vault!Inv'
<1>1. /\ held' = [c \in SecretCallers |-> {Vault!Plain({})}]
      /\ step' = [c \in SecretCallers |-> Vault!Idle]
      /\ UNCHANGED <<defined, log, revealed, opened>> /\ Vault!Idle.op = "idle"
  BY DEF Vault!Restart, Vault!Idle
<1>2. Vault!TypeOK'
  BY <1>1, VaultValues DEF Vault!Inv, Vault!TypeOK
<1>3. \A l \in Vault!Label : Vault!Writing(l)' = {}
  BY <1>1 DEF Vault!Writing
<1>4. Vault!Written'
  <2>1. IsFiniteSet({}) /\ Cardinality({}) = 0
    BY FS_EmptySet
  <2>2. \A l \in Vault!Label :
           /\ Cardinality(Vault!Writing(l)) \in Nat
           /\ revealed[l] \in Nat /\ log[[label |-> l, granted |-> TRUE]] \in Nat
           /\ revealed[l] + Cardinality(Vault!Writing(l)) <= log[[label |-> l, granted |-> TRUE]]
           /\ revealed[l] > 0 => l \in RevealGrants
    <3>1. \A l \in Vault!Label : [label |-> l, granted |-> TRUE] \in Vault!Entry
      BY DEF Vault!Entry
    <3> QED
      BY <3>1, VaultSets, FS_CardinalityType DEF Vault!Inv, Vault!TypeOK, Vault!Written
  <2>0. \A i, j, k \in Nat : i + j <= k => i + 0 <= k
    OBVIOUS
  <2>3. \A l \in Vault!Label : revealed[l] + 0 <= log[[label |-> l, granted |-> TRUE]]
    BY <2>0, <2>2, Zenon
  <2>4. \A l \in Vault!Label :
           Vault!IsFiniteSet(Vault!Writing(l)') /\ Vault!Cardinality(Vault!Writing(l)') = 0
    BY <1>3, <2>1, VaultSets
  <2>5. revealed' = revealed /\ log' = log
    BY <1>1
  <2> QED
    BY <2>2, <2>3, <2>4, <2>5 DEF Vault!Written
<1>5. Vault!Granted'
  BY <1>1 DEF Vault!Granted
<1>6. Vault!OnlyRevealOpens'
  BY <1>1, VaultValues DEF Vault!OnlyRevealOpens
<1> QED
  BY <1>2, <1>4, <1>5, <1>6 DEF Vault!Inv

LEMMA VaultKeeps == Vault!Inv /\ [Vault!Next]_secrets => Vault!Inv'
<1> SUFFICES ASSUME Vault!Inv, [Vault!Next]_secrets PROVE Vault!Inv'
  OBVIOUS
<1>1. CASE UNCHANGED secrets
  BY <1>1 DEF secrets, Vault!Inv, Vault!TypeOK, Vault!Granted, Vault!Written, Vault!Writing,
     Vault!OnlyRevealOpens
<1>2. CASE Vault!Next
  BY <1>2, VaultRestarts, VaultNames, VaultMakes, VaultSteps DEF Vault!Next
<1> QED
  BY <1>1, <1>2

(* For every text that reveal gave there is an entry in the log, whatever  *)
(* fails or ends, and no secret is in a text but through one.              *)
THEOREM SecretsRecorded == ServicesSpec => []SecretsAreRecorded
<1>1. ServicesInit => Vault!Inv
  BY VaultStarts DEF ServicesInit
<1>2. Vault!Inv /\ [ServicesNext]_servicesVars => Vault!Inv'
  <2>1. [ServicesNext]_servicesVars => [Vault!Next]_secrets
    BY DEF ServicesNext, servicesVars
  <2> QED
    BY <2>1, VaultKeeps
<1>3. Vault!Inv => SecretsAreRecorded
  <2>1. ASSUME Vault!Inv, NEW l \in Vault!Label
        PROVE  /\ revealed[l] <= log[[label |-> l, granted |-> TRUE]]
               /\ revealed[l] > 0 => l \in RevealGrants
    <3>1. [label |-> l, granted |-> TRUE] \in Vault!Entry
      BY DEF Vault!Entry
    <3>2. Cardinality(Vault!Writing(l)) \in Nat
      BY <2>1, VaultSets, FS_CardinalityType DEF Vault!Inv, Vault!Written
    <3> QED
      BY <2>1, <3>1, <3>2, VaultSets DEF Vault!Inv, Vault!Written, Vault!TypeOK
  <2> QED
    BY <2>1 DEF Vault!Inv, SecretsAreRecorded, Vault!SecretsAreRecorded, Vault!EachIsRecorded
<1> QED
  BY <1>1, <1>2, <1>3, PTL DEF ServicesSpec

-----------------------------------------------------------------------------
(***************************************************************************)
(* Speculative execution: contexts, rollback, commit and branches.         *)
(***************************************************************************)
LEMMA SpecSequences ==
    ASSUME NEW S, NEW s \in Seq(S)
    PROVE  /\ DOMAIN s = 1..Len(s) /\ Len(s) \in Nat
           /\ \A e \in S : /\ Append(s, e) \in Seq(S) /\ Len(Append(s, e)) = Len(s) + 1
                           /\ Append(s, e)[Len(s) + 1] = e
                           /\ \A i \in 1..Len(s) : Append(s, e)[i] = s[i]
           /\ \A e \in S : \A i \in 1..Len(s) :
                 /\ [s EXCEPT ![i] = e] \in Seq(S) /\ Len([s EXCEPT ![i] = e]) = Len(s)
                 /\ \A j \in 1..Len(s) : [s EXCEPT ![i] = e][j] = IF j = i THEN e ELSE s[j]
<1>1. DOMAIN s = 1..Len(s) /\ Len(s) \in Nat
  BY LenProperties
<1>2. ASSUME NEW e \in S, NEW i \in 1..Len(s)
      PROVE  /\ [s EXCEPT ![i] = e] \in Seq(S) /\ Len([s EXCEPT ![i] = e]) = Len(s)
             /\ \A j \in 1..Len(s) : [s EXCEPT ![i] = e][j] = IF j = i THEN e ELSE s[j]
  BY ExceptSeq
<1>3. ASSUME NEW e \in S
      PROVE  /\ Append(s, e) \in Seq(S) /\ Len(Append(s, e)) = Len(s) + 1
             /\ Append(s, e)[Len(s) + 1] = e
             /\ \A i \in 1..Len(s) : Append(s, e)[i] = s[i]
  OBVIOUS
<1> QED
  BY <1>1, <1>2, <1>3

LEMMA SpecJoined ==
    ASSUME NEW S, NEW s \in Seq(S), NEW t \in [1..4 -> S]
    PROVE  /\ s \o t \in Seq(S) /\ Len(s \o t) = Len(s) + 4
           /\ \A i \in 1..Len(s) : (s \o t)[i] = s[i]
           /\ \A i \in (Len(s) + 1)..(Len(s) + 4) : (s \o t)[i] = t[i - Len(s)]
<1>1. t \in Seq(S)
  <2>1. [1..4 -> S] \in {[1..n -> S] : n \in Nat}
    OBVIOUS
  <2>2. t \in UNION {[1..n -> S] : n \in Nat}
    BY <2>1
  <2> QED
    BY <2>2, SeqDef
<1>2. Len(t) = 4
  <2>1. DOMAIN t = 1..Len(t) /\ Len(t) \in Nat /\ DOMAIN t = 1..4
    BY <1>1, LenProperties
  <2> QED
    BY <2>1
<1>3. Len(s) \in Nat
  BY LenProperties
<1>4. /\ s \o t \in Seq(S) /\ Len(s \o t) = Len(s) + Len(t)
      /\ \A i \in 1..Len(s) + Len(t) : (s \o t)[i] = IF i <= Len(s) THEN s[i] ELSE t[i - Len(s)]
  BY <1>1, ConcatProperties
<1> QED
  BY <1>2, <1>3, <1>4

LEMMA SpecOpen ==
    ASSUME Speculate!Inv
    PROVE  /\ Speculate!Open \subseteq DOMAIN contexts /\ Speculate!Open \subseteq Nat
           /\ DOMAIN contexts = 1..Len(contexts) /\ Len(contexts) \in Nat
           /\ DOMAIN writes = 1..Len(writes) /\ Len(writes) \in Nat
           /\ IsFiniteSet(Speculate!Open)
           /\ \A c \in DOMAIN contexts : contexts[c] \in Speculate!Context
           /\ \A w \in DOMAIN writes : writes[w] \in Speculate!Written
<1>1. /\ DOMAIN contexts = 1..Len(contexts) /\ Len(contexts) \in Nat
      /\ DOMAIN writes = 1..Len(writes) /\ Len(writes) \in Nat
      /\ \A c \in DOMAIN contexts : contexts[c] \in Speculate!Context
      /\ \A w \in DOMAIN writes : writes[w] \in Speculate!Written
  <2> DEFINE C == Speculate!Context
             W == Speculate!Written
  <2> HIDE DEF C, W
  <2>1. contexts \in Seq(C) /\ writes \in Seq(W)
    BY DEF Speculate!Inv, Speculate!TypeOK, C, W
  <2>2. /\ DOMAIN contexts = 1..Len(contexts) /\ Len(contexts) \in Nat
        /\ DOMAIN writes = 1..Len(writes) /\ Len(writes) \in Nat
        /\ \A c \in DOMAIN contexts : contexts[c] \in C
        /\ \A w \in DOMAIN writes : writes[w] \in W
    BY <2>1
  <2> QED
    BY <2>2 DEF C, W
<1>2. Speculate!Open \subseteq DOMAIN contexts
  BY DEF Speculate!Open
<1>3. IsFiniteSet(1..Len(contexts))
  BY <1>1, FS_Interval
<1>4. IsFiniteSet(Speculate!Open)
  BY <1>1, <1>2, <1>3, FS_Subset
<1> QED
  BY <1>1, <1>2, <1>4

LEMMA SpecStarts == Speculate!Init => Speculate!Inv
<1> SUFFICES ASSUME Speculate!Init PROVE Speculate!Inv
  OBVIOUS
<1>1. /\ env = [p \in Speculate!Places |-> 0] /\ contexts = <<>> /\ active = 0 /\ branches = <<>>
      /\ writes = <<>> /\ stacked = TRUE /\ applied = FALSE
  BY DEF Speculate!Init
<1>2. Speculate!Open = {}
  BY <1>1 DEF Speculate!Open
<1>3. Speculate!Cardinality({}) = 0
  BY FS_EmptySet DEF Speculate!Cardinality, Cardinality
<1>4. Speculate!TypeOK
  <2>1. \A S : <<>> \in Seq(S)
    BY EmptySeq
  <2>2. DOMAIN <<>> = {}
    OBVIOUS
  <2>3. \A w \in DOMAIN writes : writes[w].within \subseteq DOMAIN contexts
    BY <1>1, <2>2
  <2>4. contexts \in Seq(Speculate!Context) /\ writes \in Seq(Speculate!Written)
    BY <1>1, <2>1
  <2> QED
    BY <1>1, <2>3, <2>4 DEF Speculate!TypeOK
<1>5. Speculate!OwnIsOwn
  BY <1>1 DEF Speculate!OwnIsOwn, Speculate!Owned, Speculate!Places
<1>6. Speculate!Counted
  BY <1>1, <1>2, <1>3 DEF Speculate!Counted
<1>7. Speculate!Latest
  BY <1>1 DEF Speculate!Latest, Speculate!Surviving
<1>8. Speculate!Nested /\ Speculate!Restores
  BY <1>1, <1>2 DEF Speculate!Nested, Speculate!Restores
<1> QED
  BY <1>4, <1>5, <1>6, <1>7, <1>8 DEF Speculate!Inv

(* Writes of a place that was not chosen aside, what is written is written *)
(* in the speculations that are open, and a place has the latest of it.    *)
Adds ==
    /\ UNCHANGED <<contexts, active, stacked, applied>>
    /\ writes' \in Seq(Speculate!Written) /\ Len(writes') >= Len(writes)
    /\ \A w \in 1..Len(writes) : writes'[w] = writes[w]
    /\ \A w \in 1..Len(writes') : w > Len(writes) => writes'[w].within = Speculate!Open
    /\ env' \in [Speculate!Places -> Nat]
    /\ \A p \in Speculate!Places :
          \/ /\ env'[p] = env[p]
             /\ \A w \in 1..Len(writes') : w > Len(writes) => writes'[w].place # p
          \/ /\ env'[p] \in 1..Len(writes') /\ env'[p] > Len(writes) /\ writes'[env'[p]].place = p
             /\ \A w \in 1..Len(writes') : w > Len(writes) /\ writes'[w].place = p => w <= env'[p]

LEMMA SpecAdds ==
    ASSUME Speculate!Inv, Adds,
           branches' = <<>> \/ branches' \in [1..2 -> [own: DOMAIN writes', parent: Nat]]
    PROVE  Speculate!Inv'
<1>1. /\ Speculate!Open \subseteq DOMAIN contexts /\ Speculate!Open \subseteq Nat
      /\ DOMAIN contexts = 1..Len(contexts) /\ Len(contexts) \in Nat
      /\ DOMAIN writes = 1..Len(writes) /\ Len(writes) \in Nat
      /\ \A c \in DOMAIN contexts : contexts[c] \in Speculate!Context
  BY SpecOpen
<1>2. /\ DOMAIN writes' = 1..Len(writes') /\ Len(writes') \in Nat /\ Len(writes') >= Len(writes)
      /\ \A w \in DOMAIN writes : w \in DOMAIN writes' /\ writes'[w] = writes[w]
      /\ \A w \in DOMAIN writes' : w \in DOMAIN writes \/ (w > Len(writes) /\ writes'[w].within = Speculate!Open)
  BY <1>1, LenProperties DEF Adds
<1>3. UNCHANGED <<contexts, active, stacked, applied>> /\ Speculate!Open' = Speculate!Open
  BY DEF Adds, Speculate!Open
<1>4. Speculate!TypeOK'
  <2>1. \A w \in DOMAIN writes' : writes'[w].within \subseteq DOMAIN contexts
    BY <1>1, <1>2 DEF Speculate!Inv, Speculate!TypeOK
  <2> QED
    BY <1>3, <2>1 DEF Adds, Speculate!Inv, Speculate!TypeOK
<1>5. \A e : Speculate!Owned(e) => Speculate!Owned(e)'
  BY <1>2 DEF Speculate!Owned
<1>6. Speculate!OwnIsOwn'
  <2>1. Speculate!Owned(env)'
    <3>1. env'["own"] = env["own"] \/ (env'["own"] \in DOMAIN writes' /\ writes'[env'["own"]].place = "own")
      BY <1>2 DEF Adds, Speculate!Places
    <3>2. Speculate!Owned(env)
      BY DEF Speculate!Inv, Speculate!OwnIsOwn
    <3> QED
      BY <1>2, <3>1, <3>2 DEF Speculate!Owned
  <2>2. ASSUME NEW c \in DOMAIN contexts PROVE Speculate!Owned(contexts[c].snapshot)'
    <3>1. PICK e : e = contexts[c].snapshot
      OBVIOUS
    <3>2. contexts'[c].snapshot = e /\ Speculate!Owned(e)
      BY <1>3, <3>1 DEF Speculate!Inv, Speculate!OwnIsOwn
    <3> QED
      BY <1>2, <3>2 DEF Speculate!Owned
  <2> QED
    BY <1>3, <2>1, <2>2 DEF Speculate!OwnIsOwn
<1>7. Speculate!Counted'
  BY <1>3 DEF Speculate!Inv, Speculate!Counted, Speculate!Cardinality
<1>8. ASSUME NEW p \in Speculate!Places
      PROVE  /\ \A w \in Speculate!Surviving(p) : w \in Speculate!Surviving(p)'
             /\ \A w \in Speculate!Surviving(p)' :
                   w \in Speculate!Surviving(p)
                   \/ (w \in DOMAIN writes' /\ w > Len(writes) /\ writes'[w].place = p
                        /\ writes'[w].within = Speculate!Open)
  BY <1>2, <1>3 DEF Speculate!Surviving, Speculate!Undone
<1>9. ASSUME NEW w \in DOMAIN writes', w > Len(writes), NEW p \in Speculate!Places, writes'[w].place = p
      PROVE  w \in Speculate!Surviving(p)'
  <2>1. writes'[w].within = Speculate!Open
    BY <1>1, <1>2, <1>9
  <2> QED
    BY <1>3, <1>9, <2>1 DEF Speculate!Surviving, Speculate!Undone, Speculate!Open
<1>10. ASSUME stacked /\ ~applied PROVE Speculate!Latest' /\ Speculate!Nested' /\ Speculate!Restores'
  <2>0. Speculate!Latest /\ Speculate!Nested /\ Speculate!Restores
    BY <1>10 DEF Speculate!Inv
  <2>1. Speculate!Latest'
    <3> SUFFICES ASSUME NEW p \in Speculate!Places
                 PROVE  env'[p] \in Speculate!Surviving(p)' /\ \A w \in Speculate!Surviving(p)' : w <= env'[p]
      BY DEF Speculate!Latest
    <3>1. env[p] \in Speculate!Surviving(p) /\ (\A w \in Speculate!Surviving(p) : w <= env[p])
          /\ Speculate!Surviving(p) \subseteq 0..Len(writes)
      BY <1>1, <2>0 DEF Speculate!Latest, Speculate!Surviving
    <3>2. CASE env'[p] = env[p] /\ \A w \in DOMAIN writes' : w > Len(writes) => writes'[w].place # p
      BY <1>8, <3>1, <3>2
    <3>3. CASE /\ env'[p] \in DOMAIN writes' /\ env'[p] > Len(writes) /\ writes'[env'[p]].place = p
               /\ \A w \in DOMAIN writes' : w > Len(writes) /\ writes'[w].place = p => w <= env'[p]
      <4>1. env'[p] \in Speculate!Surviving(p)'
        BY <1>9, <3>3
      <4> QED
        BY <1>1, <1>2, <1>8, <3>1, <3>3, <4>1
    <3> QED
      BY <1>2, <3>2, <3>3 DEF Adds
  <2>2. Speculate!Nested'
    BY <1>1, <1>2, <1>3, <2>0 DEF Speculate!Nested
  <2>3. Speculate!Restores'
    <3> SUFFICES ASSUME NEW c \in Speculate!Open, NEW p \in Speculate!Places
                 PROVE  /\ contexts[c].snapshot[p] \in Speculate!Surviving(p)'
                        /\ Speculate!Before(c, contexts[c].snapshot[p])'
                        /\ \A w \in Speculate!Surviving(p)' :
                              Speculate!Before(c, w)' => w <= contexts[c].snapshot[p]
      BY <1>3 DEF Speculate!Restores, Speculate!Before
    <3>1. PICK s : s = contexts[c].snapshot[p]
      OBVIOUS
    <3>2. /\ s \in Speculate!Surviving(p) /\ Speculate!Before(c, s)
          /\ \A w \in Speculate!Surviving(p) : Speculate!Before(c, w) => w <= s
          /\ contexts'[c].snapshot[p] = s
      BY <1>3, <2>0, <3>1 DEF Speculate!Restores
    <3>3. \A w \in Speculate!Surviving(p) : w = 0 \/ w \in DOMAIN writes
      BY DEF Speculate!Surviving
    <3>4. Speculate!Before(c, s)'
      BY <1>2, <3>2, <3>3 DEF Speculate!Before
    <3>5. ASSUME NEW w \in Speculate!Surviving(p)', Speculate!Before(c, w)' PROVE w <= s
      <4>1. CASE w \in Speculate!Surviving(p)
        <5>1. Speculate!Before(c, w)
          BY <1>2, <3>3, <3>5, <4>1 DEF Speculate!Before
        <5> QED
          BY <3>2, <4>1, <5>1
      <4>2. CASE w \in DOMAIN writes' /\ w > Len(writes) /\ writes'[w].within = Speculate!Open
        BY <1>1, <3>5, <4>2 DEF Speculate!Before
      <4> QED
        BY <1>8, <4>1, <4>2
    <3>6. s \in Speculate!Surviving(p)'
      BY <1>8, <3>2
    <3> QED
      BY <1>3, <3>1, <3>4, <3>5, <3>6
  <2> QED
    BY <2>1, <2>2, <2>3
<1> QED
  BY <1>3, <1>4, <1>6, <1>7, <1>10 DEF Speculate!Inv

LEMMA SpecWrite ==
    ASSUME Speculate!Inv, NEW q \in Speculate!Places, Speculate!Write(q)
    PROVE  Speculate!Inv'
<1> DEFINE e == [place |-> q, within |-> Speculate!Open]
           n == Len(writes) + 1
<1>1. /\ writes' = Append(writes, e) /\ env' = [env EXCEPT ![q] = n]
      /\ UNCHANGED <<contexts, active, branches, stacked, applied>>
  BY DEF Speculate!Write, Speculate!NewWrite
<1>2. e \in Speculate!Written /\ e.place = q /\ e.within = Speculate!Open
  BY SpecOpen DEF Speculate!Written, Speculate!Places
<1> HIDE DEF e
<1>3. /\ Len(writes) \in Nat /\ writes' \in Seq(Speculate!Written) /\ Len(writes') = n
      /\ writes'[n] = e /\ \A w \in 1..Len(writes) : writes'[w] = writes[w]
      /\ DOMAIN writes = 1..Len(writes) /\ DOMAIN writes' = 1..n
  <2> DEFINE W == Speculate!Written
  <2>1. writes \in Seq(W)
    BY DEF Speculate!Inv, Speculate!TypeOK
  <2> HIDE DEF W
  <2>2. /\ Len(writes) \in Nat /\ writes' \in Seq(W) /\ Len(writes') = n
        /\ writes'[n] = e /\ \A w \in 1..Len(writes) : writes'[w] = writes[w]
        /\ DOMAIN writes = 1..Len(writes)
    BY <1>1, <1>2, <2>1, SpecSequences DEF W
  <2>3. DOMAIN writes' = 1..n
    BY <2>2, LenProperties
  <2> QED
    BY <2>2, <2>3 DEF W
<1>4. env \in [Speculate!Places -> Nat]
  BY DEF Speculate!Inv, Speculate!TypeOK
<1>5. env' \in [Speculate!Places -> Nat]
      /\ \A p \in Speculate!Places : env'[p] = IF p = q THEN n ELSE env[p]
  BY <1>1, <1>3, <1>4
<1>6. \A w \in 1..n : w > Len(writes) => w = n
  BY <1>3
<1>7. Adds
  BY <1>1, <1>2, <1>3, <1>5, <1>6 DEF Adds
<1>8. branches' = <<>> \/ branches' \in [1..2 -> [own: DOMAIN writes', parent: Nat]]
  <2>1. DOMAIN writes \subseteq DOMAIN writes'
    BY <1>3
  <2> QED
    BY <1>1, <2>1 DEF Speculate!Inv, Speculate!TypeOK
<1> QED
  BY <1>7, <1>8, SpecAdds

LEMMA SpecMax ==
    ASSUME NEW S \in SUBSET (1..2), S # {}
    PROVE  Speculate!Max(S) \in S /\ \A c \in S : c <= Speculate!Max(S)
<1>1. S \subseteq {1, 2}
  OBVIOUS
<1>2. \E c \in S : \A d \in S : c >= d
  <2>1. CASE 2 \in S
    BY <1>1, <2>1
  <2>2. CASE 2 \notin S
    <3>1. PICK c \in S : TRUE
      OBVIOUS
    <3>2. c = 1 /\ \A d \in S : d = 1
      BY <1>1, <2>2
    <3> QED
      BY <3>2
  <2> QED
    BY <2>1, <2>2
<1>3. Speculate!Max(S) \in S /\ \A d \in S : Speculate!Max(S) >= d
  BY <1>2 DEF Speculate!Max
<1> QED
  BY <1>1, <1>3

LEMMA SpecFork ==
    ASSUME Speculate!Inv, NEW reaching \in SUBSET (1..2), Speculate!Fork(reaching)
    PROVE  Speculate!Inv'
<1> DEFINE n == Len(writes)
           new == [i \in 1..4 |-> [place |-> IF i > 2 /\ i - 2 \in reaching THEN "parent" ELSE "branch",
                                  within |-> Speculate!Open]]
           done(b) == {c \in reaching : c <= b}
           after(b) == IF done(b) = {} THEN env["parent"] ELSE n + (2 + Speculate!Max(done(b)))
<1>1. /\ writes' = writes \o new
      /\ branches' = [b \in 1..2 |-> [own |-> n + b, parent |-> after(b)]]
      /\ env' = [env EXCEPT !["parent"] = after(2)]
      /\ UNCHANGED <<contexts, active, stacked, applied>>
  BY DEF Speculate!Fork, Speculate!NewWrite
<1>2. new \in [1..4 -> Speculate!Written]
  BY SpecOpen DEF Speculate!Written
<1>3. /\ n \in Nat /\ writes' \in Seq(Speculate!Written) /\ Len(writes') = n + 4
      /\ \A w \in 1..n : writes'[w] = writes[w]
      /\ \A w \in (n + 1)..(n + 4) : writes'[w] = new[w - n]
      /\ DOMAIN writes' = 1..(n + 4)
  <2> DEFINE W == Speculate!Written
  <2>1. writes \in Seq(W)
    BY DEF Speculate!Inv, Speculate!TypeOK
  <2> HIDE DEF W, new
  <2>2. /\ writes' \in Seq(W) /\ Len(writes') = n + 4
        /\ \A w \in 1..n : writes'[w] = writes[w]
        /\ \A w \in (n + 1)..(n + 4) : writes'[w] = new[w - n]
    BY <1>1, <1>2, <2>1, SpecJoined DEF W
  <2>3. n \in Nat /\ DOMAIN writes' = 1..Len(writes')
    BY <2>1, <2>2, LenProperties
  <2> QED
    BY <2>2, <2>3 DEF W
<1>4. \A S \in SUBSET (1..2) : S # {} => /\ Speculate!Max(S) \in S
                                        /\ \A c \in S : c <= Speculate!Max(S)
  BY SpecMax
<1>5. env \in [Speculate!Places -> Nat]
  BY DEF Speculate!Inv, Speculate!TypeOK
<1>6. \A b \in 1..2 : after(b) \in Nat
  <2> SUFFICES ASSUME NEW b \in 1..2 PROVE after(b) \in Nat
    OBVIOUS
  <2>1. done(b) # {} => Speculate!Max(done(b)) \in 1..2
    <3>1. done(b) \in SUBSET (1..2)
      OBVIOUS
    <3> HIDE DEF done
    <3> QED
      BY <1>4, <3>1
  <2>2. env["parent"] \in Nat
    BY <1>5 DEF Speculate!Places
  <2>3. n \in Nat
    BY <1>3
  <2> HIDE DEF n, new
  <2> QED
    BY <2>1, <2>2, <2>3
<1>7. done(2) = reaching
  <2>1. \A c \in reaching : c <= 2
    OBVIOUS
  <2> QED
    BY <2>1, Zenon
<1>8. /\ env' \in [Speculate!Places -> Nat] /\ env'["own"] = env["own"]
      /\ env'["parent"] = IF reaching = {} THEN env["parent"] ELSE n + (2 + Speculate!Max(reaching))
  <2>0. 2 \in 1..2
    OBVIOUS
  <2>1. PICK x \in Nat : x = after(2)
    <3> HIDE DEF after, new, done
    <3> QED
      BY <1>6, <2>0
  <2>2. env' = [env EXCEPT !["parent"] = x]
    BY <1>1, <2>1
  <2>3. env' \in [Speculate!Places -> Nat] /\ env'["own"] = env["own"] /\ env'["parent"] = x
    BY <1>5, <2>2 DEF Speculate!Places
  <2> QED
    BY <1>7, <2>1, <2>3
<1>9. \A w \in 1..Len(writes') : w > n =>
         /\ writes'[w].within = Speculate!Open
         /\ writes'[w].place = IF w - n > 2 /\ (w - n) - 2 \in reaching THEN "parent" ELSE "branch"
  <2> SUFFICES ASSUME NEW w \in 1..Len(writes'), w > n
               PROVE  /\ writes'[w].within = Speculate!Open
                      /\ writes'[w].place = IF w - n > 2 /\ (w - n) - 2 \in reaching THEN "parent" ELSE "branch"
    OBVIOUS
  <2>1. w - n \in 1..4 /\ w \in (n + 1)..(n + 4)
    BY <1>3
  <2>2. writes'[w] = new[w - n]
    BY <1>3, <2>1
  <2>3. PICK i \in 1..4 : i = w - n
    BY <2>1
  <2>4. new[i] = [place |-> IF i > 2 /\ i - 2 \in reaching THEN "parent" ELSE "branch", within |-> Speculate!Open]
    OBVIOUS
  <2> HIDE DEF new
  <2> QED
    BY <2>2, <2>3, <2>4
<1>10. Adds
  <2>1. \A w \in 1..Len(writes') : w > n => writes'[w].place # "own"
    BY <1>9
  <2>2. reaching = {} => \A w \in 1..Len(writes') : w > n => writes'[w].place # "parent"
    BY <1>9
  <2>3. ASSUME reaching # {}
        PROVE  /\ env'["parent"] \in 1..Len(writes') /\ env'["parent"] > n
               /\ writes'[env'["parent"]].place = "parent"
               /\ \A w \in 1..Len(writes') : w > n /\ writes'[w].place = "parent" => w <= env'["parent"]
    <3>1. PICK m : m = Speculate!Max(reaching)
      OBVIOUS
    <3>2. m \in reaching /\ m \in 1..2 /\ \A c \in reaching : c <= m
      BY <1>4, <2>3, <3>1
    <3>3. env'["parent"] = n + (2 + m)
      BY <1>8, <2>3, <3>1
    <3>4. /\ n + (2 + m) \in 1..Len(writes') /\ n + (2 + m) > n
          /\ n + (2 + m) - n > 2 /\ (n + (2 + m) - n) - 2 = m
      BY <1>3, <3>2
    <3>5. writes'[n + (2 + m)].place = "parent"
      BY <1>9, <3>2, <3>4
    <3>6. ASSUME NEW w \in 1..Len(writes'), w > n, writes'[w].place = "parent" PROVE w <= n + (2 + m)
      <4>1. (w - n) - 2 \in reaching
        BY <1>9, <3>6
      <4>2. (w - n) - 2 <= m
        BY <3>2, <4>1
      <4> QED
        BY <1>3, <3>2, <4>2
    <3> QED
      BY <3>3, <3>4, <3>5, <3>6
  <2>4. \A w \in 1..Len(writes') : w > n => writes'[w].within = Speculate!Open
    BY <1>9
  <2>5. \A p \in Speculate!Places :
          \/ /\ env'[p] = env[p]
             /\ \A w \in 1..Len(writes') : w > n => writes'[w].place # p
          \/ /\ env'[p] \in 1..Len(writes') /\ env'[p] > n /\ writes'[env'[p]].place = p
             /\ \A w \in 1..Len(writes') : w > n /\ writes'[w].place = p => w <= env'[p]
    BY <1>8, <2>1, <2>2, <2>3 DEF Speculate!Places
  <2>6. UNCHANGED <<contexts, active, stacked, applied>>
    BY <1>1
  <2>7. /\ writes' \in Seq(Speculate!Written) /\ Len(writes') >= n
        /\ \A w \in 1..n : writes'[w] = writes[w]
    BY <1>3
  <2>8. env' \in [Speculate!Places -> Nat]
    BY <1>8
  <2> HIDE DEF new, after
  <2> QED
    BY <2>4, <2>5, <2>6, <2>7, <2>8 DEF Adds
<1>11. branches' \in [1..2 -> [own: DOMAIN writes', parent: Nat]]
  <2>1. \A b \in 1..2 : n + b \in DOMAIN writes'
    BY <1>3
  <2> HIDE DEF after, n
  <2> QED
    BY <1>1, <1>6, <2>1
<1> QED
  BY <1>10, <1>11, SpecAdds

LEMMA SpecBegin ==
    ASSUME Speculate!Inv, Speculate!Begin
    PROVE  Speculate!Inv'
<1> DEFINE e == [snapshot |-> env, committed |-> FALSE, rolledBack |-> FALSE]
           n == Len(contexts) + 1
<1>1. /\ contexts' = Append(contexts, e) /\ active' = active + 1
      /\ UNCHANGED <<env, branches, writes, stacked, applied>>
  BY DEF Speculate!Begin
<1>2. /\ e \in Speculate!Context /\ e.snapshot = env /\ ~e.committed /\ ~e.rolledBack
      /\ env \in [Speculate!Places -> Nat]
  BY DEF Speculate!Inv, Speculate!TypeOK, Speculate!Context
<1> HIDE DEF e
<1>3. /\ Len(contexts) \in Nat /\ contexts' \in Seq(Speculate!Context)
      /\ contexts'[n] = e /\ \A c \in 1..Len(contexts) : contexts'[c] = contexts[c]
      /\ DOMAIN contexts = 1..Len(contexts) /\ DOMAIN contexts' = 1..n
  <2> DEFINE C == Speculate!Context
  <2>1. contexts \in Seq(C)
    BY DEF Speculate!Inv, Speculate!TypeOK
  <2> HIDE DEF C
  <2>2. /\ Len(contexts) \in Nat /\ contexts' \in Seq(C) /\ Len(contexts') = n
        /\ contexts'[n] = e /\ \A c \in 1..Len(contexts) : contexts'[c] = contexts[c]
        /\ DOMAIN contexts = 1..Len(contexts)
    BY <1>1, <1>2, <2>1, SpecSequences DEF C
  <2>3. DOMAIN contexts' = 1..n
    BY <2>2, LenProperties
  <2> QED
    BY <2>2, <2>3 DEF C
<1>4. /\ n \in Nat /\ n \notin DOMAIN contexts /\ DOMAIN contexts' = DOMAIN contexts \cup {n}
      /\ \A c \in DOMAIN contexts : contexts'[c] = contexts[c] /\ c < n
  BY <1>3
<1> HIDE DEF n
<1>5. /\ Speculate!Open' = Speculate!Open \cup {n} /\ n \notin Speculate!Open
      /\ Speculate!Open \subseteq DOMAIN contexts
  BY <1>2, <1>3, <1>4 DEF Speculate!Open
<1>6. \A w \in DOMAIN writes : writes[w].within \subseteq DOMAIN contexts
  BY DEF Speculate!Inv, Speculate!TypeOK
<1>7. \A w \in DOMAIN writes : Speculate!Undone(w)' <=> Speculate!Undone(w)
  BY <1>1, <1>4, <1>6 DEF Speculate!Undone
<1>8. \A p \in Speculate!Places : Speculate!Surviving(p)' = Speculate!Surviving(p)
  BY <1>1, <1>7 DEF Speculate!Surviving
<1>9. Speculate!TypeOK'
  BY <1>1, <1>3, <1>4 DEF Speculate!Inv, Speculate!TypeOK
<1>10. Speculate!OwnIsOwn'
  <2>1. \A e1 : Speculate!Owned(e1) => Speculate!Owned(e1)'
    BY <1>1 DEF Speculate!Owned
  <2>2. Speculate!Owned(env)'
    BY <1>1 DEF Speculate!Owned, Speculate!Inv, Speculate!OwnIsOwn
  <2>3. ASSUME NEW c \in DOMAIN contexts' PROVE Speculate!Owned(contexts[c].snapshot)'
    <3>1. CASE c \in DOMAIN contexts
      <4>1. contexts'[c].snapshot = contexts[c].snapshot /\ Speculate!Owned(contexts[c].snapshot)
        BY <1>4, <3>1 DEF Speculate!Inv, Speculate!OwnIsOwn
      <4> QED
        BY <1>1, <4>1 DEF Speculate!Owned
    <3>2. CASE c = n
      <4>1. contexts'[c].snapshot = env
        BY <1>2, <1>3, <3>2 DEF n
      <4> QED
        BY <1>1, <4>1 DEF Speculate!Owned, Speculate!Inv, Speculate!OwnIsOwn
    <3> QED
      BY <1>4, <3>1, <3>2
  <2> QED
    BY <2>2, <2>3 DEF Speculate!OwnIsOwn
<1>11. Speculate!Counted'
  <2>1. \A S : Speculate!Cardinality(S) = Cardinality(S)
    BY DEF Speculate!Cardinality, Cardinality, Speculate!IsFiniteSet, IsFiniteSet
  <2>2. IsFiniteSet(Speculate!Open)
    BY SpecOpen
  <2>3. Cardinality(Speculate!Open \cup {n}) = Cardinality(Speculate!Open) + 1
    BY <1>5, <2>2, FS_AddElement
  <2>4. stacked => active = Cardinality(Speculate!Open)
    BY <2>1 DEF Speculate!Inv, Speculate!Counted
  <2>5. stacked' => active' = Cardinality(Speculate!Open')
    BY <1>1, <1>5, <2>3, <2>4
  <2>6. Speculate!Cardinality(Speculate!Open)' = Cardinality(Speculate!Open')
    BY DEF Speculate!Cardinality, Cardinality, Speculate!IsFiniteSet, IsFiniteSet
  <2> QED
    BY <2>5, <2>6 DEF Speculate!Counted
<1>12. ASSUME stacked /\ ~applied PROVE Speculate!Latest' /\ Speculate!Nested' /\ Speculate!Restores'
  <2>0. Speculate!Latest /\ Speculate!Nested /\ Speculate!Restores
    BY <1>12 DEF Speculate!Inv
  <2>1. Speculate!Latest'
    BY <1>1, <1>8, <2>0 DEF Speculate!Latest
  <2>2. Speculate!Nested'
    BY <1>1, <1>4, <1>5, <1>6, <2>0 DEF Speculate!Nested
  <2>3. Speculate!Restores'
    <3> SUFFICES ASSUME NEW c \in Speculate!Open', NEW p \in Speculate!Places
                 PROVE  /\ contexts'[c].snapshot[p] \in Speculate!Surviving(p)
                        /\ Speculate!Before(c, contexts'[c].snapshot[p])
                        /\ \A w \in Speculate!Surviving(p) :
                              Speculate!Before(c, w) => w <= contexts'[c].snapshot[p]
      BY <1>1, <1>8 DEF Speculate!Restores, Speculate!Before
    <3>1. CASE c \in Speculate!Open
      <4>1. contexts'[c] = contexts[c]
        BY <1>4, <1>5, <3>1
      <4> QED
        BY <2>0, <3>1, <4>1 DEF Speculate!Restores
    <3>2. CASE c = n
      <4>1. contexts'[c].snapshot = env
        BY <1>2, <1>3, <3>2 DEF n
      <4>2. \A w \in Speculate!Surviving(p) : Speculate!Before(c, w)
        BY <1>4, <1>6, <3>2 DEF Speculate!Surviving, Speculate!Before
      <4> QED
        BY <2>0, <4>1, <4>2 DEF Speculate!Latest
    <3> QED
      BY <1>5, <3>1, <3>2
  <2> QED
    BY <2>1, <2>2, <2>3
<1> QED
  BY <1>1, <1>9, <1>10, <1>11, <1>12 DEF Speculate!Inv

(* The end of a context that may be ended: it was the innermost, or the    *)
(* contexts are no longer nested.                                          *)
Ends(c, e) ==
    /\ c \in DOMAIN contexts /\ e \in Speculate!Context /\ e.snapshot = contexts[c].snapshot
    /\ e.committed \/ e.rolledBack
    /\ contexts' = [contexts EXCEPT ![c] = e]
    /\ Speculate!Finished(c) /\ active' = Speculate!OneLess
    /\ UNCHANGED <<branches, writes, applied>>

LEMMA SpecEnds ==
    ASSUME Speculate!Inv, NEW c, NEW e, Ends(c, e), env' \in [Speculate!Places -> Nat]
    PROVE  /\ DOMAIN contexts' = DOMAIN contexts
           /\ contexts'[c] = e /\ \A d \in DOMAIN contexts : d # c => contexts'[d] = contexts[d]
           /\ \A d \in DOMAIN contexts : contexts'[d].snapshot = contexts[d].snapshot
           /\ Speculate!Open' = Speculate!Open \ {c}
           /\ Speculate!TypeOK' /\ Speculate!Counted'
<1>0. /\ Speculate!Open \subseteq DOMAIN contexts /\ IsFiniteSet(Speculate!Open)
      /\ contexts' = [contexts EXCEPT ![c] = e] /\ c \in DOMAIN contexts
      /\ e \in Speculate!Context /\ e.snapshot = contexts[c].snapshot /\ (e.committed \/ e.rolledBack)
  BY SpecOpen DEF Ends
<1>1. contexts' \in Seq(Speculate!Context) /\ DOMAIN contexts' = DOMAIN contexts
  <2> DEFINE C == Speculate!Context
  <2>1. contexts \in Seq(C)
    BY DEF Speculate!Inv, Speculate!TypeOK
  <2> HIDE DEF C
  <2>2. c \in 1..Len(contexts) /\ e \in C
    BY <1>0, <2>1, LenProperties DEF C
  <2>3. contexts' \in Seq(C)
    BY <1>0, <2>1, <2>2, ExceptSeq
  <2> QED
    BY <1>0, <2>3 DEF C
<1>2. contexts'[c] = e /\ \A d \in DOMAIN contexts : d # c => contexts'[d] = contexts[d]
  BY <1>0
<1>3. \A d \in DOMAIN contexts : contexts'[d].snapshot = contexts[d].snapshot
  BY <1>0, <1>2
<1>4. Speculate!Open' = Speculate!Open \ {c}
  BY <1>0, <1>1, <1>2 DEF Speculate!Open
<1>5. active' \in Nat /\ stacked' \in BOOLEAN
  BY DEF Ends, Speculate!Inv, Speculate!TypeOK, Speculate!OneLess, Speculate!Finished
<1>6. Speculate!TypeOK'
  <2>1. writes' = writes /\ branches' = branches /\ applied' = applied
    BY DEF Ends
  <2> QED
    BY <1>1, <1>5, <2>1 DEF Speculate!Inv, Speculate!TypeOK
<1>7. Speculate!Counted'
  <2> SUFFICES ASSUME stacked' PROVE active' = Speculate!Cardinality(Speculate!Open)'
    BY DEF Speculate!Counted
  <2>1. stacked /\ c \in Speculate!Open
    BY DEF Ends, Speculate!Finished
  <2>2. \A S : Speculate!Cardinality(S) = Cardinality(S)
    BY DEF Speculate!Cardinality, Cardinality, Speculate!IsFiniteSet, IsFiniteSet
  <2>3. active = Cardinality(Speculate!Open)
    BY <2>1, <2>2 DEF Speculate!Inv, Speculate!Counted
  <2>4. Cardinality(Speculate!Open \ {c}) = Cardinality(Speculate!Open) - 1
    BY <1>0, <2>1, FS_RemoveElement
  <2>5. active # 0
    BY <1>0, <2>1, <2>3, FS_EmptySet
  <2>6. active' = active - 1
    BY <2>5 DEF Ends, Speculate!OneLess, Speculate!Inv, Speculate!TypeOK
  <2>7. Speculate!Cardinality(Speculate!Open)' = Cardinality(Speculate!Open')
    BY DEF Speculate!Cardinality, Cardinality, Speculate!IsFiniteSet, IsFiniteSet
  <2> QED
    BY <1>4, <2>3, <2>4, <2>6, <2>7
<1> QED
  BY <1>1, <1>2, <1>3, <1>4, <1>6, <1>7

LEMMA SpecCommit ==
    ASSUME Speculate!Inv, NEW c \in DOMAIN contexts, Speculate!Commit(c)
    PROVE  Speculate!Inv'
<1> DEFINE e == [contexts[c] EXCEPT !.committed = TRUE]
<1>1. Ends(c, e) /\ env' = env /\ ~e.rolledBack /\ ~contexts[c].rolledBack
  <2>1. contexts[c] \in Speculate!Context
    BY SpecOpen
  <2>2. e \in Speculate!Context /\ e.snapshot = contexts[c].snapshot /\ e.committed
        /\ e.rolledBack = contexts[c].rolledBack
    BY <2>1 DEF Speculate!Context
  <2> HIDE DEF e
  <2> QED
    BY <2>2 DEF Ends, Speculate!Commit, e
<1> HIDE DEF e
<1>2. env' \in [Speculate!Places -> Nat]
  BY <1>1 DEF Speculate!Inv, Speculate!TypeOK
<1>3. /\ DOMAIN contexts' = DOMAIN contexts
      /\ contexts'[c] = e /\ \A d \in DOMAIN contexts : d # c => contexts'[d] = contexts[d]
      /\ \A d \in DOMAIN contexts : contexts'[d].snapshot = contexts[d].snapshot
      /\ Speculate!Open' = Speculate!Open \ {c}
      /\ Speculate!TypeOK' /\ Speculate!Counted'
  BY <1>1, <1>2, SpecEnds
<1>4. /\ writes' = writes /\ env' = env /\ applied' = applied /\ (stacked' => stacked)
      /\ Speculate!Open \subseteq DOMAIN contexts
      /\ \A w \in DOMAIN writes : writes[w].within \subseteq DOMAIN contexts
  BY <1>1, SpecOpen DEF Ends, Speculate!Finished, Speculate!Inv, Speculate!TypeOK
<1>5. \A d \in DOMAIN contexts : contexts'[d].rolledBack <=> contexts[d].rolledBack
  BY <1>1, <1>3
<1>6. \A p \in Speculate!Places : Speculate!Surviving(p)' = Speculate!Surviving(p)
  <2>1. \A w \in DOMAIN writes : Speculate!Undone(w)' <=> Speculate!Undone(w)
    BY <1>4, <1>5 DEF Speculate!Undone
  <2> QED
    BY <1>4, <2>1 DEF Speculate!Surviving
<1>7. Speculate!OwnIsOwn'
  BY <1>3, <1>4 DEF Speculate!Inv, Speculate!OwnIsOwn, Speculate!Owned
<1>8. ASSUME stacked' /\ ~applied' PROVE Speculate!Latest' /\ Speculate!Nested' /\ Speculate!Restores'
  <2>0. Speculate!Latest /\ Speculate!Nested /\ Speculate!Restores
    BY <1>4, <1>8 DEF Speculate!Inv
  <2>1. Speculate!Latest'
    BY <1>4, <1>6, <2>0 DEF Speculate!Latest
  <2>2. Speculate!Nested'
    BY <1>3, <1>4, <2>0 DEF Speculate!Nested
  <2>3. Speculate!Restores'
    <3>1. \A d \in Speculate!Open' : d \in Speculate!Open /\ contexts'[d].snapshot = contexts[d].snapshot
      BY <1>3, <1>4
    <3> QED
      BY <1>4, <1>6, <2>0, <3>1 DEF Speculate!Restores, Speculate!Before
  <2> QED
    BY <2>1, <2>2, <2>3
<1> QED
  BY <1>3, <1>7, <1>8 DEF Speculate!Inv

LEMMA SpecRollback ==
    ASSUME Speculate!Inv, NEW c \in DOMAIN contexts, Speculate!Rollback(c)
    PROVE  Speculate!Inv'
<1> DEFINE e == [contexts[c] EXCEPT !.rolledBack = TRUE]
<1>1. Ends(c, e) /\ env' = contexts[c].snapshot /\ e.rolledBack /\ env' \in [Speculate!Places -> Nat]
  <2>1. contexts[c] \in Speculate!Context
    BY SpecOpen
  <2>2. e \in Speculate!Context /\ e.snapshot = contexts[c].snapshot /\ e.rolledBack
        /\ contexts[c].snapshot \in [Speculate!Places -> Nat]
    BY <2>1 DEF Speculate!Context
  <2> HIDE DEF e
  <2> QED
    BY <2>2 DEF Ends, Speculate!Rollback, Speculate!restore, e
<1> HIDE DEF e
<1>3. /\ DOMAIN contexts' = DOMAIN contexts
      /\ contexts'[c] = e /\ \A d \in DOMAIN contexts : d # c => contexts'[d] = contexts[d]
      /\ \A d \in DOMAIN contexts : contexts'[d].snapshot = contexts[d].snapshot
      /\ Speculate!Open' = Speculate!Open \ {c}
      /\ Speculate!TypeOK' /\ Speculate!Counted'
  BY <1>1, SpecEnds
<1>4. /\ writes' = writes /\ applied' = applied
      /\ stacked' => stacked /\ c \in Speculate!Open /\ \A d \in Speculate!Open : d <= c
      /\ Speculate!Open \subseteq DOMAIN contexts
      /\ \A w \in DOMAIN writes : writes[w].within \subseteq DOMAIN contexts
  BY SpecOpen DEF Ends, Speculate!Rollback, Speculate!Finished, Speculate!Inv, Speculate!TypeOK
<1>5. \A w \in DOMAIN writes : Speculate!Undone(w)' <=> Speculate!Undone(w) \/ c \in writes[w].within
  BY <1>1, <1>3, <1>4 DEF Speculate!Undone
<1>6. \A p \in Speculate!Places : \A w :
         w \in Speculate!Surviving(p)' <=> w \in Speculate!Surviving(p) /\ Speculate!Before(c, w)
  <2>1. 0 \notin DOMAIN writes
    <3>1. DOMAIN writes = 1..Len(writes)
      BY SpecOpen
    <3> QED
      BY <3>1
  <2> QED
    BY <1>4, <1>5, <2>1 DEF Speculate!Surviving, Speculate!Before
<1>7. Speculate!OwnIsOwn'
  <2>1. Speculate!Owned(contexts[c].snapshot)
    BY DEF Speculate!Inv, Speculate!OwnIsOwn
  <2>2. Speculate!Owned(env)'
    BY <1>1, <1>4, <2>1 DEF Speculate!Owned
  <2> QED
    BY <1>3, <1>4, <2>2 DEF Speculate!Inv, Speculate!OwnIsOwn, Speculate!Owned
<1>8. ASSUME stacked' /\ ~applied' PROVE Speculate!Latest' /\ Speculate!Nested' /\ Speculate!Restores'
  <2>0. Speculate!Latest /\ Speculate!Nested /\ Speculate!Restores /\ c \in Speculate!Open
        /\ \A d \in Speculate!Open : d <= c
    BY <1>4, <1>8 DEF Speculate!Inv
  <2>1. Speculate!Latest'
    BY <1>1, <1>6, <2>0 DEF Speculate!Latest, Speculate!Restores
  <2>2. Speculate!Nested'
    BY <1>3, <1>4, <2>0 DEF Speculate!Nested
  <2>3. Speculate!Restores'
    <3> SUFFICES ASSUME NEW d \in Speculate!Open', NEW p \in Speculate!Places
                 PROVE  /\ contexts'[d].snapshot[p] \in Speculate!Surviving(p)'
                        /\ Speculate!Before(d, contexts'[d].snapshot[p])
                        /\ \A w \in Speculate!Surviving(p)' :
                              Speculate!Before(d, w) => w <= contexts'[d].snapshot[p]
      BY <1>4 DEF Speculate!Restores, Speculate!Before
    <3>1. d \in Speculate!Open /\ d # c /\ d <= c /\ contexts'[d].snapshot = contexts[d].snapshot
      BY <1>3, <1>4, <2>0
    <3>2. PICK s : s = contexts[d].snapshot[p]
      OBVIOUS
    <3>3. /\ s \in Speculate!Surviving(p) /\ Speculate!Before(d, s)
          /\ \A w \in Speculate!Surviving(p) : Speculate!Before(d, w) => w <= s
      BY <2>0, <3>1, <3>2 DEF Speculate!Restores
    <3>4. Speculate!Before(c, s)
      <4>1. s = 0 \/ s \in DOMAIN writes
        BY <3>3 DEF Speculate!Surviving
      <4> QED
        BY <2>0, <3>1, <3>3, <4>1 DEF Speculate!Nested, Speculate!Before
    <3> QED
      BY <1>6, <3>1, <3>2, <3>3, <3>4
  <2> QED
    BY <2>1, <2>2, <2>3
<1> QED
  BY <1>3, <1>7, <1>8 DEF Speculate!Inv

LEMMA SpecChooses ==
    ASSUME Speculate!Inv, NEW i, Speculate!ChooseAndApply(i)
    PROVE  Speculate!Inv'
<1>0. branches' = <<>> /\ UNCHANGED <<contexts, active, stacked>>
  BY DEF Speculate!ChooseAndApply
<1>1. CASE UNCHANGED <<env, applied, writes>>
  BY <1>0, <1>1 DEF Speculate!Inv, Speculate!TypeOK, Speculate!OwnIsOwn, Speculate!Owned, Speculate!Counted,
     Speculate!Open, Speculate!Cardinality, Speculate!Latest, Speculate!Nested, Speculate!Restores,
     Speculate!Surviving, Speculate!Undone, Speculate!Before
<1>2. CASE /\ i \in DOMAIN branches /\ env' = branches[i] /\ applied' = TRUE
           /\ writes' = [writes EXCEPT ![branches[i].own].place = "own"]
  <2>1. PICK b \in [own: DOMAIN writes, parent: Nat] : b = branches[i]
    <3>1. branches \in [1..2 -> [own: DOMAIN writes, parent: Nat]]
      BY DEF Speculate!Inv, Speculate!TypeOK, Speculate!ChooseAndApply
    <3> QED
      BY <1>2, <3>1
  <2>2. PICK k : k = b.own
    OBVIOUS
  <2>3. k \in DOMAIN writes /\ writes' = [writes EXCEPT ![k].place = "own"] /\ env' = b
    BY <1>2, <2>1, <2>2
  <2> DEFINE e == [writes[k] EXCEPT !.place = "own"]
  <2>4. e \in Speculate!Written /\ e.place = "own" /\ e.within = writes[k].within
    <3>1. writes[k] \in Speculate!Written
      BY <2>3, SpecOpen
    <3> QED
      BY <3>1 DEF Speculate!Written
  <2>5. writes' = [writes EXCEPT ![k] = e]
    BY <2>3
  <2> HIDE DEF e
  <2>6. /\ writes' \in Seq(Speculate!Written) /\ DOMAIN writes' = DOMAIN writes
        /\ writes'[k] = e /\ \A w \in DOMAIN writes : w # k => writes'[w] = writes[w]
    <3> DEFINE W == Speculate!Written
    <3>1. writes \in Seq(W)
      BY DEF Speculate!Inv, Speculate!TypeOK
    <3> HIDE DEF W
    <3>2. k \in 1..Len(writes) /\ e \in W
      BY <2>3, <2>4, <3>1, LenProperties DEF W
    <3>3. writes' \in Seq(W)
      BY <2>5, <3>1, <3>2, ExceptSeq
    <3>4. DOMAIN writes' = DOMAIN writes /\ writes'[k] = e
          /\ \A w \in DOMAIN writes : w # k => writes'[w] = writes[w]
      BY <2>3, <2>5
    <3> QED
      BY <3>3, <3>4 DEF W
  <2>7. env' \in [Speculate!Places -> Nat] /\ env'.own = k
    <3>1. env' = [own |-> k, parent |-> b.parent] /\ k \in Nat /\ b.parent \in Nat
      <4>1. DOMAIN writes \subseteq Nat
        <5>1. DOMAIN writes = 1..Len(writes)
          BY SpecOpen
        <5> QED
          BY <5>1
      <4> QED
        BY <2>1, <2>2, <2>3, <4>1
    <3>2. DOMAIN env' = {"own", "parent"} /\ env'["own"] \in Nat /\ env'["parent"] \in Nat
      BY <3>1
    <3>3. env' = [p \in {"own", "parent"} |-> env'[p]]
      BY <3>1
    <3> QED
      BY <2>2, <2>3, <3>2, <3>3 DEF Speculate!Places
  <2>8. Speculate!TypeOK'
    BY <1>0, <1>2, <2>4, <2>6, <2>7 DEF Speculate!Inv, Speculate!TypeOK
  <2>9. Speculate!OwnIsOwn'
    <3>1. Speculate!Owned(env)'
      BY <2>3, <2>4, <2>6, <2>7 DEF Speculate!Owned
    <3>2. ASSUME NEW c \in DOMAIN contexts PROVE Speculate!Owned(contexts[c].snapshot)'
      <4>1. PICK s : s = contexts[c].snapshot
        OBVIOUS
      <4>2. contexts'[c].snapshot = s /\ Speculate!Owned(s)
        BY <1>0, <4>1 DEF Speculate!Inv, Speculate!OwnIsOwn
      <4> QED
        BY <2>4, <2>6, <4>2 DEF Speculate!Owned
    <3> QED
      BY <1>0, <3>1, <3>2 DEF Speculate!OwnIsOwn
  <2>10. Speculate!Counted'
    BY <1>0 DEF Speculate!Inv, Speculate!Counted, Speculate!Open, Speculate!Cardinality
  <2> QED
    BY <1>2, <2>8, <2>9, <2>10 DEF Speculate!Inv
<1> QED
  BY <1>1, <1>2 DEF Speculate!ChooseAndApply, Speculate!restore

LEMMA SpecKeeps == Speculate!Inv /\ [Speculate!Next]_speculation => Speculate!Inv'
<1> SUFFICES ASSUME Speculate!Inv, [Speculate!Next]_speculation PROVE Speculate!Inv'
  OBVIOUS
<1>1. CASE UNCHANGED speculation
  BY <1>1 DEF speculation, Speculate!Inv, Speculate!TypeOK, Speculate!OwnIsOwn, Speculate!Owned,
     Speculate!Counted, Speculate!Open, Speculate!Cardinality, Speculate!Latest, Speculate!Nested,
     Speculate!Restores, Speculate!Surviving, Speculate!Undone, Speculate!Before
<1> QED
  BY <1>1, SpecWrite, SpecBegin, SpecRollback, SpecCommit, SpecFork, SpecChooses DEF Speculate!Next

LEMMA SpecUndoes == Speculate!Inv => Speculate!SpeculationUndone
<1> SUFFICES ASSUME Speculate!Inv PROVE Speculate!SpeculationUndone
  OBVIOUS
<1>1. ASSUME stacked, ~applied, NEW p \in Speculate!Places
      PROVE  env[p] = Speculate!Max(Speculate!Surviving(p))
  <2>1. env[p] \in Speculate!Surviving(p) /\ \A w \in Speculate!Surviving(p) : w <= env[p]
    BY <1>1 DEF Speculate!Inv, Speculate!Latest
  <2>2. Speculate!Surviving(p) \subseteq Nat
    <3>1. DOMAIN writes = 1..Len(writes)
      BY SpecOpen
    <3> QED
      BY <3>1 DEF Speculate!Surviving
  <2> HIDE DEF Speculate!Surviving
  <2>3. PICK S : S = Speculate!Surviving(p)
    OBVIOUS
  <2>4. PICK m : m = Speculate!Max(S)
    OBVIOUS
  <2>5. m \in S /\ \A w \in S : m >= w
    <3>1. \E x \in S : \A w \in S : x >= w
      BY <2>1, <2>2, <2>3
    <3> QED
      BY <2>4, <3>1 DEF Speculate!Max
  <2>6. m = env[p]
    BY <2>1, <2>2, <2>3, <2>5
  <2> QED
    BY <2>3, <2>4, <2>6
<1>2. stacked => (Speculate!is_speculating <=> Speculate!Open # {})
  <2>1. \A S : Speculate!Cardinality(S) = Cardinality(S)
    BY DEF Speculate!Cardinality, Cardinality, Speculate!IsFiniteSet, IsFiniteSet
  <2>2. IsFiniteSet(Speculate!Open)
    BY SpecOpen
  <2>3. stacked => active = Cardinality(Speculate!Open)
    BY <2>1 DEF Speculate!Inv, Speculate!Counted
  <2>4. active \in Nat /\ (Cardinality(Speculate!Open) = 0 <=> Speculate!Open = {})
    BY <2>2, FS_EmptySet DEF Speculate!Inv, Speculate!TypeOK
  <2> QED
    BY <2>3, <2>4 DEF Speculate!is_speculating
<1>3. env.own # 0 => writes[env.own].place = "own"
  BY DEF Speculate!Inv, Speculate!OwnIsOwn, Speculate!Owned
<1> QED
  BY <1>1, <1>2, <1>3 DEF Speculate!SpeculationUndone

(* Where speculations are ended as they nest, each place of an environment *)
(* has the latest write that no speculation which was rolled back encloses *)
(* (EnvironmentSnapshot, rollback, commit); what a branch did that was not *)
(* chosen is not seen (fork, choose_and_apply).                            *)
THEOREM SpeculationsUndone == ServicesSpec => []SpeculationUndone
<1>1. ServicesInit => Speculate!Inv
  BY SpecStarts DEF ServicesInit
<1>2. Speculate!Inv /\ [ServicesNext]_servicesVars => Speculate!Inv'
  <2>1. [ServicesNext]_servicesVars => [Speculate!Next]_speculation
    BY DEF ServicesNext, servicesVars
  <2> QED
    BY <2>1, SpecKeeps
<1>3. Speculate!Inv => SpeculationUndone
  BY SpecUndoes DEF SpeculationUndone
<1> QED
  BY <1>1, <1>2, <1>3, PTL DEF ServicesSpec
=============================================================================
