---------------------------- MODULE SharedProofs ----------------------------
(***************************************************************************)
(* Proofs about what the threads of one program share: a parallel_map, for *)
(* lists of any length and any limit; the blackboard, for any agents, keys *)
(* and values; and the pipes of a process that is run, of any sizes.       *)
(***************************************************************************)
EXTENDS SharedMC, FiniteSetTheorems, SequenceTheorems, TLAPS

USE ParallelMapAssumption

(* Items up to `next' have been given to a thread, the rest have not.      *)
Ordered == /\ \A i \in Items : job[i] = "unborn" <=> i >= next
           /\ pc = "check" => next <= N
           /\ pc \in {"await", "returned"} => next = N + 1 \/ aborted
           /\ pc = "returned" => Len(out) + 1 = next
           /\ Len(out) < next

(* How a job ended tells what the task did, and what was recorded.         *)
Recorded == /\ \A i \in Items : job[i] \in {"raised", "failed"} =>
                  outcome[i] = "error" /\ error # 0 /\ error <= i
            /\ \A i \in Items : (job[i] = "done" => outcome[i] = "value")
                             /\ (job[i] = "panicked" => outcome[i] = "panic")
                             /\ (job[i] = "skipped" => aborted)
            /\ aborted => error # 0
            /\ error # 0 => outcome[error] = "error"

Collected == \A k \in 1..Len(out) :
                /\ job[k] \in Over
                /\ out[k] = IF job[k] = "done" THEN k ELSE Nothing

IInv == TypeOK /\ Ordered /\ Recorded /\ Collected

LEMMA NextBound ==
    ASSUME IInv
    PROVE  next \in Nat /\ N \in Nat /\ Len(out) \in Nat /\ out \in Seq(0..N)
  BY LenProperties DEF IInv, TypeOK

-----------------------------------------------------------------------------
LEMMA DispatcherStep == IInv /\ Dispatcher => IInv'
<1> SUFFICES ASSUME IInv, Dispatcher PROVE IInv'
  OBVIOUS
<1> USE DEF IInv, Items
<1>1. CASE Acquire
  BY <1>1 DEF Acquire, TypeOK, Ordered, Recorded, Collected
<1>2. CASE Spawn
  <2>1. next \in Items /\ job' = [job EXCEPT ![next] = "spawned"] /\ job[next] = "unborn"
        /\ job \in [Items -> {"unborn"} \cup Held \cup Over]
    BY <1>2 DEF Spawn, TypeOK, Ordered
  <2>2. TypeOK'
    BY <1>2, <2>1 DEF Spawn, TypeOK, Held
  <2>3. Ordered'
    BY <1>2, <2>1, NextBound DEF Spawn, Ordered
  <2>4. Recorded'
    BY <1>2, <2>1 DEF Spawn, Recorded
  <2>5. Collected'
    BY <1>2, <2>1, NextBound DEF Spawn, Collected, Ordered, Over
  <2> QED
    BY <2>2, <2>3, <2>4, <2>5
<1>3. CASE StopEarly
  BY <1>3 DEF StopEarly, TypeOK, Ordered, Recorded, Collected
<1>4. CASE AllSpawned
  BY <1>4 DEF AllSpawned, TypeOK, Ordered, Recorded, Collected
<1>5. CASE Await
  <2> DEFINE k == Len(out) + 1
             x == IF job[k] = "done" THEN k ELSE Nothing
  <2>1. k \in Nat /\ k \in Items /\ k < next /\ job[k] \in Over /\ out' = Append(out, x)
        /\ UNCHANGED <<outcome, pc, next, permits, job, aborted, error>> /\ pc = "await"
    BY <1>5, NextBound DEF Await, TypeOK
  <2>2. x \in 0..N
    BY <2>1 DEF Nothing
  <2>3. Append(out, x) \in Seq(0..N) /\ Len(Append(out, x)) = k
        /\ \A j \in 1..k : Append(out, x)[j] = IF j = k THEN x ELSE out[j]
    BY <2>2, NextBound
  <2>4. TypeOK'
    BY <2>1, <2>3 DEF TypeOK
  <2>5. Ordered'
    BY <2>1, <2>3 DEF Ordered
  <2>6. Recorded'
    BY <2>1 DEF Recorded
  <2>7. ASSUME NEW j \in 1..k
        PROVE  job[j] \in Over /\ out'[j] = IF job[j] = "done" THEN j ELSE Nothing
    <3>1. CASE j = k
      BY <2>1, <2>3, <3>1
    <3>2. CASE j # k
      <4>1. j \in 1..Len(out)
        BY <3>2, NextBound
      <4> QED
        BY <2>1, <2>3, <3>2, <4>1 DEF Collected
    <3> QED
      BY <3>1, <3>2
  <2>8. Collected'
    BY <2>1, <2>3, <2>7 DEF Collected
  <2> QED
    BY <2>4, <2>5, <2>6, <2>8
<1>6. CASE Return
  BY <1>6 DEF Return, TypeOK, Ordered, Recorded, Collected
<1> QED
  BY <1>1, <1>2, <1>3, <1>4, <1>5, <1>6 DEF Dispatcher

LEMMA JobStep == ASSUME IInv, NEW i \in Items, Job(i) PROVE IInv'
<1> USE DEF IInv
<1>a. /\ job \in [Items -> {"unborn"} \cup Held \cup Over] /\ i \in Nat /\ i # 0
      /\ permits \in Nat /\ error \in 0..N /\ aborted \in BOOLEAN
      /\ \A k \in 1..Len(out) : k \in Items
  BY NextBound DEF TypeOK, Items, Ordered
<1>1. ASSUME NEW how, job' = [job EXCEPT ![i] = how], job[i] \in Held,
             how \in Held \cup Over, UNCHANGED <<outcome, pc, next, out>>,
             aborted \in BOOLEAN, aborted => aborted'
      PROVE  Ordered' /\ Collected'
  <2>1. job[i] # "unborn" /\ how # "unborn" /\ job[i] \notin Over
    BY <1>1 DEF Held, Over
  <2>2. Ordered'
    BY <1>1, <1>a, <2>1 DEF Ordered
  <2>3. Collected'
    BY <1>1, <1>a, <2>1 DEF Collected
  <2> QED
    BY <2>2, <2>3
<1>2. CASE Skip(i)
  <2>1. /\ job' = [job EXCEPT ![i] = "skipped"] /\ job[i] \in Held /\ permits' = permits + 1
        /\ UNCHANGED <<outcome, pc, next, out, aborted, error>>
    BY <1>2 DEF Skip, Ends, Held
  <2>2. "skipped" \in Held \cup Over
    BY DEF Over
  <2>3. Ordered' /\ Collected'
    BY <1>1, <1>a, <2>1, <2>2
  <2>4. TypeOK'
    BY <1>a, <2>1, <2>2 DEF TypeOK
  <2>5. Recorded'
    BY <1>2, <1>a, <2>1 DEF Skip, Recorded
  <2> QED
    BY <2>3, <2>4, <2>5
<1>3. CASE Start(i)
  BY <1>1, <1>3, <1>a DEF Start, Held, Over, TypeOK, Recorded
<1>4. CASE Value(i)
  <2>1. /\ job' = [job EXCEPT ![i] = "done"] /\ job[i] \in Held /\ permits' = permits + 1
        /\ UNCHANGED <<outcome, pc, next, out, aborted, error>>
    BY <1>4 DEF Value, Ends, Held
  <2>2. "done" \in Held \cup Over
    BY DEF Over
  <2>3. Ordered' /\ Collected'
    BY <1>1, <1>a, <2>1, <2>2
  <2>4. TypeOK'
    BY <1>a, <2>1, <2>2 DEF TypeOK
  <2>5. Recorded'
    BY <1>4, <1>a, <2>1 DEF Value, Recorded
  <2> QED
    BY <2>3, <2>4, <2>5
<1>5. CASE Panic(i)
  <2>1. /\ job' = [job EXCEPT ![i] = "panicked"] /\ job[i] \in Held /\ permits' = permits + 1
        /\ UNCHANGED <<outcome, pc, next, out, aborted, error>>
    BY <1>5 DEF Panic, Ends, Held
  <2>2. "panicked" \in Held \cup Over
    BY DEF Over
  <2>3. Ordered' /\ Collected'
    BY <1>1, <1>a, <2>1, <2>2
  <2>4. TypeOK'
    BY <1>a, <2>1, <2>2 DEF TypeOK
  <2>5. Recorded'
    BY <1>5, <1>a, <2>1 DEF Panic, Recorded
  <2> QED
    BY <2>3, <2>4, <2>5
<1>6. CASE RecordError(i)
  <2>1. Ordered' /\ Collected'
    BY <1>1, <1>6, <1>a DEF RecordError, Held
  <2>2. error' \in Items /\ (error' = i \/ error' = error) /\ error' <= i
        /\ (error # 0 => error' <= error)
    BY <1>6, <1>a DEF RecordError, Items
  <2>3. TypeOK'
    BY <1>6, <1>a, <2>2 DEF RecordError, TypeOK, Held, Items
  <2>4. Recorded'
    <3>1. job' = [job EXCEPT ![i] = "raised"] /\ outcome' = outcome /\ aborted' = aborted
          /\ outcome[i] = "error"
      BY <1>6 DEF RecordError
    <3>2. ASSUME NEW j \in Items, job'[j] \in {"raised", "failed"}
          PROVE  outcome[j] = "error" /\ error' # 0 /\ error' <= j
      <4>1. CASE j = i
        BY <1>a, <2>2, <3>1, <4>1 DEF Items
      <4>2. CASE j # i
        BY <1>a, <2>2, <3>1, <3>2, <4>2 DEF Recorded, Items
      <4> QED
        BY <4>1, <4>2
    <3> QED
      BY <1>a, <2>2, <3>1, <3>2 DEF Recorded, Items
  <2> QED
    BY <2>1, <2>3, <2>4
<1>7. CASE Abort(i)
  <2>1. /\ job' = [job EXCEPT ![i] = "failed"] /\ job[i] = "raised" /\ permits' = permits + 1
        /\ aborted' = TRUE /\ UNCHANGED <<outcome, pc, next, out, error>>
    BY <1>7 DEF Abort, Ends
  <2>2. "failed" \in Held \cup Over /\ job[i] \in Held
    BY <2>1 DEF Over, Held
  <2>3. Ordered' /\ Collected'
    BY <1>1, <1>a, <2>1, <2>2
  <2>4. TypeOK'
    BY <1>a, <2>1, <2>2 DEF TypeOK
  <2>5. Recorded'
    BY <1>a, <2>1 DEF Recorded
  <2> QED
    BY <2>3, <2>4, <2>5
<1> QED
  BY <1>2, <1>3, <1>4, <1>5, <1>6, <1>7 DEF Job

LEMMA Inductive == Spec => []IInv
<1>1. Init => IInv
  <2> SUFFICES ASSUME Init PROVE IInv
    OBVIOUS
  <2>1. out \in Seq(0..N) /\ Len(out) = 0
    BY EmptySeq DEF Init
  <2>a. job \in [Items -> {"unborn"} \cup Held \cup Over] /\ outcome \in [Items -> Outcomes]
    BY DEF Init
  <2>b. next \in 1..(N + 1) /\ permits \in Nat /\ error \in 0..N
    BY DEF Init
  <2>c. aborted \in BOOLEAN /\ pc \in {"acquire", "check", "await", "returned"}
    BY DEF Init
  <2>2. TypeOK
    BY <2>1, <2>a, <2>b, <2>c DEF TypeOK
  <2>3. Ordered /\ Recorded /\ Collected
    BY <2>1 DEF Init, Ordered, Recorded, Collected, Items
  <2> QED
    BY <2>2, <2>3 DEF IInv
<1>2. IInv /\ [Next]_vars => IInv'
  <2> SUFFICES ASSUME IInv, [Next]_vars PROVE IInv'
    OBVIOUS
  <2>1. CASE UNCHANGED vars
    BY <2>1 DEF vars, IInv, TypeOK, Ordered, Recorded, Collected
  <2> QED
    BY <2>1, DispatcherStep, JobStep DEF Next, Returned
<1> QED
  BY <1>1, <1>2, PTL DEF Spec

(* A call that fails reports the error of an item that failed, and none of *)
(* the items that failed comes before it.                                  *)
THEOREM ErrorsAreReal == Spec => []ErrorIsReal
<1>1. IInv => ErrorIsReal
  BY DEF IInv, Recorded, ErrorIsReal
<1> QED
  BY <1>1, Inductive, PTL

(* A call that succeeds ran the task on every item and returns its values  *)
(* in the order of the list.                                               *)
THEOREM ListsAreComplete == Spec => []ListIsComplete
<1>1. ASSUME IInv, pc = "returned", error = 0
      PROVE  /\ Len(out) = N
             /\ \A i \in Items : CASE outcome[i] = "value" -> out[i] = i
                                   [] outcome[i] = "panic" -> out[i] = Nothing
                                   [] outcome[i] = "error" -> FALSE
  <2>1. Len(out) = N
    BY <1>1, NextBound DEF IInv, Ordered, Recorded
  <2>2. ASSUME NEW i \in Items
        PROVE  CASE outcome[i] = "value" -> out[i] = i
                 [] outcome[i] = "panic" -> out[i] = Nothing
                 [] outcome[i] = "error" -> FALSE
    <3>1. i \in 1..Len(out)
      BY <2>1 DEF Items
    <3>2. job[i] \in Over /\ out[i] = IF job[i] = "done" THEN i ELSE Nothing
      BY <1>1, <3>1 DEF IInv, Collected
    <3>3. job[i] # "failed" /\ job[i] # "skipped"
      BY <1>1 DEF IInv, Recorded
    <3>4. job[i] \in {"done", "panicked"}
      BY <3>2, <3>3 DEF Over
    <3>5. CASE job[i] = "done"
      BY <1>1, <3>2, <3>5 DEF IInv, Recorded
    <3>6. CASE job[i] = "panicked"
      BY <1>1, <3>2, <3>6 DEF IInv, Recorded
    <3> QED
      BY <3>4, <3>5, <3>6
  <2> QED
    BY <2>1, <2>2
<1>2. IInv => ListIsComplete
  BY <1>1 DEF ListIsComplete
<1> QED
  BY <1>2, Inductive, PTL
-----------------------------------------------------------------------------
(* Permits.                                                                *)

LEMMA HoldersFinite == IsFiniteSet(Holders) /\ Cardinality(Holders) \in Nat
<1>1. IsFiniteSet(Items)
  BY FS_Interval DEF Items
<1>2. IsFiniteSet(Holders)
  BY <1>1, FS_Subset DEF Holders
<1> QED
  BY <1>2, FS_CardinalityType

LEMMA StepPermits == IInv /\ PermitsConserved /\ [Next]_vars => PermitsConserved'
<1> SUFFICES ASSUME IInv, PermitsConserved, [Next]_vars PROVE PermitsConserved'
  OBVIOUS
<1> DEFINE c == Cardinality(Holders)
<1>a. IsFiniteSet(Holders) /\ c \in Nat /\ permits \in Nat
      /\ job \in [Items -> {"unborn"} \cup Held \cup Over]
  BY HoldersFinite DEF IInv, TypeOK
<1>1. ASSUME UNCHANGED job PROVE Cardinality(Holders)' = c
  BY <1>1 DEF Holders
<1>2. ASSUME NEW i \in Items, NEW how, job[i] \in Held, how \notin Held,
             job' = [job EXCEPT ![i] = how]
      PROVE  Cardinality(Holders)' = c - 1
  <2>1. Holders' = Holders \ {i} /\ i \in Holders
    BY <1>2, <1>a DEF Holders
  <2> QED
    BY <1>a, <2>1, FS_RemoveElement
<1>3. ASSUME NEW i \in Items, NEW how, job[i] \in Held, how \in Held,
             job' = [job EXCEPT ![i] = how]
      PROVE  Cardinality(Holders)' = c
  <2>1. Holders' = Holders
    BY <1>3, <1>a DEF Holders
  <2> QED
    BY <2>1
<1> HIDE DEF c
<1>b. permits + c + (IF pc = "check" THEN 1 ELSE 0) = Limit
  BY DEF PermitsConserved, c
<1>4. CASE Acquire \/ StopEarly
  BY <1>1, <1>4, <1>a, <1>b DEF Acquire, StopEarly, PermitsConserved
<1>5. CASE AllSpawned \/ Await \/ Return
  BY <1>1, <1>5, <1>b DEF AllSpawned, Await, Return, PermitsConserved
<1>6. CASE Spawn
  <2>1. next \in Items /\ job[next] = "unborn" /\ job' = [job EXCEPT ![next] = "spawned"]
    BY <1>6 DEF Spawn, IInv, TypeOK, Ordered, Items
  <2>2. Holders' = Holders \cup {next} /\ next \notin Holders
    BY <1>a, <2>1 DEF Holders, Held
  <2>3. Cardinality(Holders)' = c + 1
    BY <1>a, <2>2, FS_AddElement DEF c
  <2> QED
    BY <1>6, <1>a, <1>b, <2>3 DEF Spawn, PermitsConserved
<1>7. ASSUME NEW i \in Items, Skip(i) \/ Value(i) \/ Panic(i) \/ Abort(i) PROVE PermitsConserved'
  <2>1. Cardinality(Holders)' = c - 1
    BY <1>2, <1>7 DEF Skip, Value, Panic, Abort, Ends, Held
  <2>2. permits' = permits + 1 /\ pc' = pc
    BY <1>7 DEF Skip, Value, Panic, Abort, Ends
  <2> QED
    BY <1>a, <1>b, <2>1, <2>2 DEF PermitsConserved
<1>8. ASSUME NEW i \in Items, Start(i) \/ RecordError(i) PROVE PermitsConserved'
  <2>1. Cardinality(Holders)' = c
    BY <1>3, <1>8 DEF Start, RecordError, Held
  <2> QED
    BY <1>8, <1>b, <2>1 DEF Start, RecordError, PermitsConserved
<1>9. CASE UNCHANGED vars
  BY <1>1, <1>9, <1>b DEF vars, PermitsConserved
<1> QED
  BY <1>4, <1>5, <1>6, <1>7, <1>8, <1>9 DEF Next, Dispatcher, Job, Returned

(* At no moment do more than `limit' interpreters run, and every permit    *)
(* comes back whatever the jobs do.                                        *)
THEOREM ConcurrencyIsBounded == Spec => []PermitsConserved
<1>1. Init => PermitsConserved
  <2> SUFFICES ASSUME Init PROVE PermitsConserved
    OBVIOUS
  <2>1. Holders = {}
    BY DEF Init, Holders, Held
  <2> QED
    BY <2>1, FS_EmptySet DEF Init, PermitsConserved
<1> QED
  BY <1>1, Inductive, StepPermits, PTL DEF Spec
-----------------------------------------------------------------------------
(***************************************************************************)
(* The blackboard.                                                         *)
(***************************************************************************)
LEMMA BoardStarts == B!Init => B!Inv
<1> SUFFICES ASSUME B!Init PROVE B!Inv
  OBVIOUS
<1>1. /\ data = [k \in Keys |-> Absent] /\ log = [k \in Keys |-> <<>>]
      /\ at = [b \in Agents |-> "run"] /\ awaits \in [Agents -> Keys]
      /\ answer = [b \in Agents |-> Absent]
  BY DEF B!Init
<1>2. <<>> \in Seq(B!Write0)
  BY EmptySeq
<1>3. B!TypeOK
  BY <1>1, <1>2 DEF B!TypeOK
<1> QED
  BY <1>1, <1>3 DEF B!Inv, B!AbsentIsBlank, B!HistoryIsComplete, B!NoLostWakeup, B!Here

LEMMA BoardWrite ==
    ASSUME B!Inv, NEW b \in Agents, NEW k \in Keys, NEW v \in Values, B!Write(b, k, v)
    PROVE  B!Inv'
<1>1. /\ data \in [Keys -> B!Entry \cup {Absent}] /\ log \in [Keys -> Seq(B!Write0)]
      /\ at \in [Agents -> {"run", "notify", "wait", "asleep", "timed_out"}]
      /\ awaits' = awaits /\ answer' = answer /\ at[b] = "run"
      /\ at' = [at EXCEPT ![b] = "notify"]
  BY DEF B!Write, B!Inv, B!TypeOK
<1>2. PICK w : w = [value |-> v, by |-> b]
  OBVIOUS
<1>3. w \in B!Write0 /\ w.value = v /\ w.by = b
  BY <1>2 DEF B!Write0
<1>4. PICK told : told = Append(log[k], w)
  OBVIOUS
<1>5. told \in Seq(B!Write0) /\ Len(told) = Len(log[k]) + 1 /\ Len(log[k]) \in Nat
  BY <1>1, <1>3, <1>4, AppendProperties, LenProperties
<1>6. log' = [log EXCEPT ![k] = told]
  BY <1>2, <1>4 DEF B!Write
<1>7. PICK e \in B!Entry :
         /\ data' = [data EXCEPT ![k] = e]
         /\ told = Append(e.history, [value |-> e.value, by |-> e.by])
         /\ e.version = Len(told)
  <2>1. CASE B!Here(k)
    <3>1. PICK d \in B!Entry : d = data[k]
      BY <1>1, <2>1 DEF B!Here
    <3>2. /\ log[k] = Append(d.history, [value |-> d.value, by |-> d.by])
          /\ d.version = Len(log[k])
      BY <2>1, <3>1 DEF B!Inv, B!HistoryIsComplete
    <3>3. /\ d.value \in Values /\ d.by \in Agents /\ d.version \in Nat
          /\ d.history \in Seq(B!Write0)
      BY <3>1 DEF B!Entry
    <3>4. PICK e : e = B!Overwrite(k, v, b)
      OBVIOUS
    <3>5. PICK h \in Seq(B!Write0) : h = Append(d.history, [value |-> d.value, by |-> d.by])
      BY <3>3, AppendProperties DEF B!Write0
    <3>6. e = [value |-> v, by |-> b, version |-> d.version + 1, history |-> h]
      BY <3>1, <3>4, <3>5 DEF B!Overwrite, B!Entry
    <3>7. /\ e \in B!Entry /\ e.value = v /\ e.by = b /\ e.version = d.version + 1
          /\ e.history = h
      BY <3>3, <3>5, <3>6 DEF B!Entry
    <3>8. data' = [data EXCEPT ![k] = e]
      BY <2>1, <3>4 DEF B!Write
    <3>9. h = log[k]
      BY <3>2, <3>5
    <3> QED
      BY <1>2, <1>4, <1>5, <3>2, <3>7, <3>8, <3>9
  <2>2. CASE ~B!Here(k)
    <3>1. PICK none \in Seq(B!Write0) : none = <<>> /\ Len(none) = 0
      BY EmptySeq
    <3>2. log[k] = none
      BY <2>2, <3>1 DEF B!Inv, B!AbsentIsBlank
    <3>3. PICK e : e = [value |-> v, by |-> b, version |-> 1, history |-> none]
      OBVIOUS
    <3>4. e \in B!Entry /\ e.value = v /\ e.by = b /\ e.version = 1 /\ e.history = none
      BY <3>1, <3>3 DEF B!Entry
    <3>5. data' = [data EXCEPT ![k] = e]
      BY <2>2, <3>1, <3>3 DEF B!Write
    <3>6. told = Append(e.history, [value |-> e.value, by |-> e.by])
      BY <1>2, <1>4, <3>2, <3>4
    <3>7. e.version = Len(told)
      BY <1>5, <3>1, <3>2, <3>4
    <3> QED
      BY <3>4, <3>5, <3>6, <3>7
  <2> QED
    BY <2>1, <2>2
<1>8. /\ \A l \in Keys : data'[l] = IF l = k THEN e ELSE data[l]
      /\ \A l \in Keys : log'[l] = IF l = k THEN told ELSE log[l]
      /\ data' \in [Keys -> B!Entry \cup {Absent}] /\ log' \in [Keys -> Seq(B!Write0)]
  BY <1>1, <1>5, <1>6, <1>7
<1>9. e # Absent
  BY <1>7, SharedAssumption
<1>10. B!TypeOK'
  BY <1>1, <1>8 DEF B!Inv, B!TypeOK
<1>11. B!AbsentIsBlank'
  BY <1>8, <1>9 DEF B!Inv, B!AbsentIsBlank, B!Here
<1>12. B!HistoryIsComplete'
  <2> SUFFICES ASSUME NEW l \in Keys, data'[l] # Absent
               PROVE  /\ log'[l] = Append(data'[l].history,
                                          [value |-> data'[l].value, by |-> data'[l].by])
                      /\ data'[l].version = Len(log'[l])
    BY DEF B!HistoryIsComplete, B!Here
  <2>1. CASE l = k
    BY <1>7, <1>8, <2>1
  <2>2. CASE l # k
    BY <1>8, <2>2 DEF B!Inv, B!HistoryIsComplete, B!Here
  <2> QED
    BY <2>1, <2>2
<1>13. B!NoLostWakeup'
  <2>1. at'[b] = "notify"
    BY <1>1
  <2> QED
    BY <2>1 DEF B!NoLostWakeup
<1> QED
  BY <1>10, <1>11, <1>12, <1>13 DEF B!Inv

LEMMA BoardDelete ==
    ASSUME B!Inv, NEW b \in Agents, NEW k \in Keys, B!Delete(b, k) PROVE B!Inv'
<1>1. /\ data \in [Keys -> B!Entry \cup {Absent}] /\ log \in [Keys -> Seq(B!Write0)]
      /\ data' = [data EXCEPT ![k] = Absent] /\ log' = [log EXCEPT ![k] = <<>>]
      /\ at' = at /\ awaits' = awaits /\ answer' = answer /\ awaits \in [Agents -> Keys]
  BY DEF B!Delete, B!Inv, B!TypeOK
<1>2. /\ \A l \in Keys : data'[l] = IF l = k THEN Absent ELSE data[l]
      /\ \A l \in Keys : log'[l] = IF l = k THEN <<>> ELSE log[l]
  BY <1>1
<1>3. B!TypeOK'
  <2>1. <<>> \in Seq(B!Write0)
    BY EmptySeq
  <2> QED
    BY <1>1, <2>1 DEF B!Inv, B!TypeOK
<1>4. B!AbsentIsBlank' /\ B!HistoryIsComplete'
  BY <1>2 DEF B!Inv, B!AbsentIsBlank, B!HistoryIsComplete, B!Here
<1>5. B!NoLostWakeup'
  BY <1>1, <1>2 DEF B!Inv, B!NoLostWakeup, B!Here
<1> QED
  BY <1>3, <1>4, <1>5 DEF B!Inv

(* The steps that leave the keys alone.                                    *)
LEMMA BoardWaits ==
    ASSUME B!Inv, data' = data, log' = log, B!TypeOK', B!NoLostWakeup' PROVE B!Inv'
  BY DEF B!Inv, B!AbsentIsBlank, B!HistoryIsComplete, B!Here

LEMMA BoardTurn ==
    ASSUME B!Inv, NEW b \in Agents,
           B!Turn(b) \/ B!Expire(b) \/ B!Spurious(b)
    PROVE  B!Inv'
<1>1. /\ at \in [Agents -> {"run", "notify", "wait", "asleep", "timed_out"}]
      /\ awaits \in [Agents -> Keys] /\ answer \in [Agents -> Values \cup {Absent}]
      /\ data \in [Keys -> B!Entry \cup {Absent}]
  BY DEF B!Inv, B!TypeOK
<1>2. data' = data /\ log' = log /\ awaits' = awaits /\ at[b] \in {"wait", "timed_out", "asleep"}
  BY DEF B!Turn, B!Find, B!Sleep, B!GiveUp, B!Returns, B!Expire, B!Spurious
<1>3. PICK s \in {"run", "wait", "asleep", "timed_out"} :
         at' = [at EXCEPT ![b] = s] /\ (s = "asleep" => ~B!Here(awaits[b]))
  BY DEF B!Turn, B!Find, B!Sleep, B!GiveUp, B!Returns, B!Expire, B!Spurious
<1>4. answer' = answer \/ \E v \in Values \cup {Absent} : answer' = [answer EXCEPT ![b] = v]
  <2>1. CASE B!Find(b)
    <3>1. data[awaits[b]] \in B!Entry
      BY <1>1, <2>1 DEF B!Find, B!Here
    <3>2. data[awaits[b]].value \in Values
      BY <3>1 DEF B!Entry
    <3> QED
      BY <2>1, <3>2 DEF B!Find, B!Returns
  <2>2. CASE ~B!Find(b)
    BY <2>2 DEF B!Turn, B!Sleep, B!GiveUp, B!Returns, B!Expire, B!Spurious
  <2> QED
    BY <2>1, <2>2
<1>5. B!TypeOK'
  BY <1>1, <1>2, <1>3, <1>4 DEF B!Inv, B!TypeOK
<1>6. B!NoLostWakeup'
  <2> SUFFICES ASSUME NEW c \in Agents, at'[c] = "asleep", data[awaits[c]] # Absent
               PROVE  \E d \in Agents : at'[d] = "notify"
    BY <1>2 DEF B!NoLostWakeup, B!Here
  <2>1. c # b
    BY <1>1, <1>3 DEF B!Here
  <2>2. at[c] = "asleep"
    BY <1>1, <1>3, <2>1
  <2>3. PICK d \in Agents : at[d] = "notify"
    BY <2>2 DEF B!Inv, B!NoLostWakeup, B!Here
  <2>4. at'[d] = "notify"
    BY <1>1, <1>2, <1>3, <2>3
  <2> QED
    BY <2>4
<1> QED
  BY <1>2, <1>5, <1>6, BoardWaits

LEMMA BoardNotify == ASSUME B!Inv, NEW b \in Agents, B!Notify(b) PROVE B!Inv'
<1>1. /\ data' = data /\ log' = log /\ awaits' = awaits /\ answer' = answer
      /\ at' = [c \in Agents |-> IF c = b THEN "run"
                                 ELSE IF at[c] = "asleep" THEN "wait" ELSE at[c]]
      /\ at \in [Agents -> {"run", "notify", "wait", "asleep", "timed_out"}]
  BY DEF B!Notify, B!Inv, B!TypeOK
<1>2. B!TypeOK'
  BY <1>1 DEF B!Inv, B!TypeOK
<1>3. \A c \in Agents : at'[c] # "asleep"
  BY <1>1
<1> QED
  BY <1>1, <1>2, <1>3, BoardWaits DEF B!NoLostWakeup

LEMMA BoardCalls ==
    ASSUME B!Inv, NEW b \in Agents, NEW k \in Keys, B!Read(b, k) \/ B!Wait(b, k) PROVE B!Inv'
<1>1. /\ at \in [Agents -> {"run", "notify", "wait", "asleep", "timed_out"}]
      /\ awaits \in [Agents -> Keys] /\ answer \in [Agents -> Values \cup {Absent}]
      /\ data \in [Keys -> B!Entry \cup {Absent}]
  BY DEF B!Inv, B!TypeOK
<1>2. data' = data /\ log' = log /\ at[b] = "run"
  BY DEF B!Read, B!Wait
<1>3. CASE B!Read(b, k)
  <2>1. PICK v \in Values \cup {Absent} : answer' = [answer EXCEPT ![b] = v]
    <3>1. CASE B!Here(k)
      <4>1. data[k] \in B!Entry
        BY <1>1, <3>1 DEF B!Here
      <4>2. data[k].value \in Values
        BY <4>1 DEF B!Entry
      <4> QED
        BY <1>3, <3>1, <4>2 DEF B!Read
    <3>2. CASE ~B!Here(k)
      BY <1>3, <3>2 DEF B!Read
    <3> QED
      BY <3>1, <3>2
  <2>2. at' = at /\ awaits' = awaits
    BY <1>3 DEF B!Read
  <2>3. B!TypeOK'
    BY <1>1, <1>2, <2>1, <2>2 DEF B!Inv, B!TypeOK
  <2>4. B!NoLostWakeup'
    BY <1>2, <2>2 DEF B!Inv, B!NoLostWakeup, B!Here
  <2> QED
    BY <1>2, <2>3, <2>4, BoardWaits
<1>4. CASE B!Wait(b, k)
  <2>1. at' = [at EXCEPT ![b] = "wait"] /\ awaits' = [awaits EXCEPT ![b] = k] /\ answer' = answer
    BY <1>4 DEF B!Wait
  <2>2. B!TypeOK'
    BY <1>1, <1>2, <2>1 DEF B!Inv, B!TypeOK
  <2>3. B!NoLostWakeup'
    <3> SUFFICES ASSUME NEW c \in Agents, at'[c] = "asleep", data[awaits'[c]] # Absent
                 PROVE  \E d \in Agents : at'[d] = "notify"
      BY <1>2 DEF B!NoLostWakeup, B!Here
    <3>1. c # b /\ at[c] = "asleep" /\ awaits'[c] = awaits[c]
      BY <1>1, <2>1
    <3>2. PICK d \in Agents : at[d] = "notify"
      BY <3>1 DEF B!Inv, B!NoLostWakeup, B!Here
    <3>3. at'[d] = "notify"
      BY <1>1, <1>2, <2>1, <3>2
    <3> QED
      BY <3>3
  <2> QED
    BY <1>2, <2>2, <2>3, BoardWaits
<1> QED
  BY <1>3, <1>4

LEMMA BoardSteps == B!Inv /\ [B!Next]_board => B!Inv'
<1> SUFFICES ASSUME B!Inv, [B!Next]_board PROVE B!Inv'
  OBVIOUS
<1>1. CASE UNCHANGED board
  BY <1>1 DEF board, B!Inv, B!TypeOK, B!AbsentIsBlank, B!HistoryIsComplete, B!NoLostWakeup, B!Here
<1>2. CASE B!Next
  BY <1>2, BoardWrite, BoardDelete, BoardTurn, BoardNotify, BoardCalls DEF B!Next, B!Calls
<1> QED
  BY <1>1, <1>2

(* Who ends a wait is the waiting thread, with the key under its eyes.     *)
LEMMA BoardAnswers == B!Inv /\ [B!Next]_board => B!AbsentStep
<1> SUFFICES ASSUME B!Inv, [B!Next]_board, NEW b \in Agents, B!Waiting(b), at'[b] = "run"
             PROVE  answer'[b] = IF B!Here(awaits[b]) THEN data[awaits[b]].value ELSE Absent
  BY DEF B!AbsentStep
<1>1. /\ at \in [Agents -> {"run", "notify", "wait", "asleep", "timed_out"}]
      /\ answer \in [Agents -> Values \cup {Absent}] /\ at[b] \in {"wait", "asleep", "timed_out"}
  BY DEF B!Inv, B!TypeOK, B!Waiting
<1>2. ~UNCHANGED board
  BY <1>1 DEF board
<1>3. PICK c \in Agents : B!Calls(c) \/ B!Notify(c) \/ B!Turn(c) \/ B!Expire(c) \/ B!Spurious(c)
  BY <1>2 DEF B!Next
<1>4. ~B!Calls(c)
  <2>1. B!Calls(c) => \/ at[c] = "run" /\ at' \in {at, [at EXCEPT ![c] = "notify"],
                                                    [at EXCEPT ![c] = "wait"]}
    BY DEF B!Calls, B!Write, B!Read, B!Delete, B!Wait
  <2> QED
    BY <1>1, <2>1
<1>5. ~B!Notify(c)
  BY <1>1 DEF B!Notify
<1>6. ~B!Sleep(c) /\ ~B!Expire(c) /\ ~B!Spurious(c)
  BY <1>1 DEF B!Sleep, B!Expire, B!Spurious
<1>7. B!Find(c) \/ B!GiveUp(c)
  BY <1>3, <1>4, <1>5, <1>6 DEF B!Turn
<1>8. c = b
  BY <1>1, <1>7 DEF B!Find, B!GiveUp, B!Returns
<1> QED
  BY <1>1, <1>7, <1>8 DEF B!Find, B!GiveUp, B!Returns

(* The record of a key tells every write since the key came to be; no      *)
(* thread sleeps on a key that is there unless notify_all is to come; and  *)
(* a wait answers with what the key is at that moment (write, delete,      *)
(* wait_for_key).                                                          *)
THEOREM BoardTells == SharedSpec => BoardIsTold
<1>1. SharedInit => B!Inv
  BY BoardStarts DEF SharedInit
<1>2. [SharedNext]_sharedVars => [B!Next]_board
  BY DEF SharedNext, sharedVars, Mapping, Sharing, Running, board
<1>3. B!Inv /\ [SharedNext]_sharedVars => B!Inv'
  BY <1>2, BoardSteps
<1>4. B!Inv => (which = "blackboard" => B!HistoryIsComplete /\ B!NoLostWakeup)
  BY DEF B!Inv
<1>5. B!Inv /\ [SharedNext]_sharedVars => [which = "blackboard" => B!AbsentStep]_sharedVars
  BY <1>2, BoardAnswers
<1> QED
  BY <1>1, <1>3, <1>4, <1>5, PTL DEF SharedSpec, BoardIsTold

-----------------------------------------------------------------------------
(***************************************************************************)
(* A process that is run: what its streams told.                           *)
(***************************************************************************)
LEMMA RunStarts == P!Init => P!Inv
  BY SharedAssumption DEF P!Init, P!Inv, P!TypeOK, P!Accounted, P!Streams

LEMMA RunTypes ==
    ASSUME P!Inv, NEW s \in P!Streams
    PROVE  /\ pipe[s] \in Nat /\ wrote[s] \in Nat /\ reader[s].kept \in Nat
           /\ reader[s].truncated \in BOOLEAN /\ reader[s].ended \in BOOLEAN
           /\ reader[s] \in [kept : Nat, truncated : BOOLEAN, ended : BOOLEAN]
           /\ Cap \in Nat /\ Room \in Nat
  BY SharedAssumption DEF P!Inv, P!TypeOK

LEMMA RunWrite == ASSUME P!Inv, NEW s \in P!Streams, P!Write(s) PROVE P!Inv'
<1>1. /\ P!HasPipes /\ ~reader[s].ended
      /\ pipe' = [pipe EXCEPT ![s] = @ + 1] /\ wrote' = [wrote EXCEPT ![s] = @ + 1]
      /\ child' = child /\ heir' = heir /\ reader' = reader /\ caller' = caller
      /\ pipe \in [P!Streams -> Nat] /\ wrote \in [P!Streams -> Nat]
  BY DEF P!Write, P!Inv, P!TypeOK
<1>2. P!TypeOK'
  <2>1. pipe[s] + 1 \in Nat /\ wrote[s] + 1 \in Nat
    BY <1>1
  <2> QED
    BY <1>1, <2>1 DEF P!Inv, P!TypeOK
<1>3. ASSUME NEW u \in P!Streams
      PROVE  wrote'[u] - pipe'[u] = wrote[u] - pipe[u] /\ (pipe[u] <= wrote[u] => pipe'[u] <= wrote'[u])
  BY <1>1
<1>4. \A u \in P!Streams : reader[u].ended => pipe'[u] = pipe[u]
  BY <1>1
<1>5. P!Accounted'
  BY <1>1, <1>3, <1>4 DEF P!Inv, P!Accounted, P!HasPipes
<1> QED
  BY <1>2, <1>5 DEF P!Inv

LEMMA RunDrain == ASSUME P!Inv, NEW s \in P!Streams, NEW n \in 1..Room, P!Drain(s, n) PROVE P!Inv'
<1>1. /\ ~reader[s].ended /\ n \in 1..pipe[s]
      /\ reader' = [reader EXCEPT ![s] = P!Kept(@, n)] /\ pipe' = [pipe EXCEPT ![s] = @ - n]
      /\ child' = child /\ heir' = heir /\ wrote' = wrote /\ caller' = caller
      /\ pipe \in [P!Streams -> Nat] /\ wrote \in [P!Streams -> Nat]
      /\ reader \in [P!Streams -> [kept : Nat, truncated : BOOLEAN, ended : BOOLEAN]]
  BY DEF P!Drain, P!Inv, P!TypeOK
<1>2. PICK r \in [kept : Nat, truncated : BOOLEAN, ended : BOOLEAN] : r = reader[s]
  BY <1>1
<1>3. PICK p \in Nat, w \in Nat : p = pipe[s] /\ w = wrote[s]
  BY <1>1
<1>4. /\ p <= w /\ r.kept = (IF w - p < Cap THEN w - p ELSE Cap) /\ (r.truncated <=> w - p > Cap)
      /\ ~r.ended /\ n \in 1..p /\ p - n \in Nat /\ w \in Nat /\ Cap \in Nat
      /\ r.kept \in Nat /\ r.truncated \in BOOLEAN
  <2>1. n \in 1..p /\ p - n \in Nat
    BY <1>1, <1>3
  <2> QED
    BY <1>1, <1>2, <1>3, <2>1, SharedAssumption DEF P!Inv, P!Accounted
<1>5. PICK take \in Nat : take = (IF Cap - r.kept < n THEN Cap - r.kept ELSE n)
  <2>1. Cap - r.kept \in Nat /\ n \in Nat
    BY <1>4
  <2>2. CASE Cap - r.kept < n
    BY <2>1, <2>2
  <2>3. CASE ~(Cap - r.kept < n)
    BY <2>1, <2>3
  <2> QED
    BY <2>2, <2>3
<1>6. PICK b \in BOOLEAN : b = (r.truncated \/ take < n)
  BY <1>4
<1>7. PICK q : q = P!Kept(r, n)
  OBVIOUS
<1>8. /\ q \in [kept : Nat, truncated : BOOLEAN, ended : BOOLEAN]
      /\ q.kept = r.kept + take /\ (q.truncated <=> (r.truncated \/ take < n)) /\ ~q.ended
  <2>1. q = [r EXCEPT !.kept = r.kept + take, !.truncated = b]
    BY <1>5, <1>6, <1>7 DEF P!Kept
  <2>2. r.kept + take \in Nat
    BY <1>4, <1>5
  <2>3. /\ q \in [kept : Nat, truncated : BOOLEAN, ended : BOOLEAN]
        /\ q.kept = r.kept + take /\ q.truncated = b /\ q.ended = r.ended
    BY <2>1, <2>2
  <2> QED
    BY <1>4, <1>6, <2>3
<1>9. /\ \A u \in P!Streams : reader'[u] = IF u = s THEN q ELSE reader[u]
      /\ \A u \in P!Streams : pipe'[u] = IF u = s THEN p - n ELSE pipe[u]
      /\ pipe' \in [P!Streams -> Nat]
      /\ reader' \in [P!Streams -> [kept : Nat, truncated : BOOLEAN, ended : BOOLEAN]]
  BY <1>1, <1>2, <1>3, <1>4, <1>7, <1>8
<1>10. P!TypeOK'
  BY <1>1, <1>9 DEF P!Inv, P!TypeOK
<1>11. /\ p - n <= w /\ q.kept = (IF w - (p - n) < Cap THEN w - (p - n) ELSE Cap)
       /\ (q.truncated <=> w - (p - n) > Cap)
  BY <1>4, <1>5, <1>8
<1>12. caller \notin {"returned", "failed"}
  BY <1>1 DEF P!Inv, P!Accounted
<1>13. P!Accounted'
  <2> SUFFICES ASSUME NEW u \in P!Streams
               PROVE  /\ pipe'[u] <= wrote[u]
                      /\ reader'[u].kept = (IF wrote[u] - pipe'[u] < Cap THEN wrote[u] - pipe'[u] ELSE Cap)
                      /\ reader'[u].truncated <=> wrote[u] - pipe'[u] > Cap
                      /\ reader'[u].ended => pipe'[u] = 0 /\ ~P!HasPipes
    BY <1>1, <1>12 DEF P!Accounted, P!HasPipes
  <2>1. CASE u = s
    BY <1>3, <1>8, <1>9, <1>11, <2>1
  <2>2. CASE u # s
    BY <1>9, <2>2 DEF P!Inv, P!Accounted
  <2> QED
    BY <2>1, <2>2
<1> QED
  BY <1>10, <1>13 DEF P!Inv

LEMMA RunEnd == ASSUME P!Inv, NEW s \in P!Streams, P!EndOfStream(s) PROVE P!Inv'
<1>1. /\ pipe[s] = 0 /\ ~P!HasPipes /\ reader' = [reader EXCEPT ![s].ended = TRUE]
      /\ child' = child /\ heir' = heir /\ wrote' = wrote /\ caller' = caller /\ pipe' = pipe
      /\ reader \in [P!Streams -> [kept : Nat, truncated : BOOLEAN, ended : BOOLEAN]]
  BY DEF P!EndOfStream, P!Inv, P!TypeOK
<1>2. PICK r \in [kept : Nat, truncated : BOOLEAN, ended : BOOLEAN] : r = reader[s]
  BY <1>1
<1>3. PICK q : q = [r EXCEPT !.ended = TRUE]
  OBVIOUS
<1>4. /\ q \in [kept : Nat, truncated : BOOLEAN, ended : BOOLEAN]
      /\ q.kept = r.kept /\ q.truncated = r.truncated /\ q.ended = TRUE
  BY <1>2, <1>3
<1>5. reader' = [reader EXCEPT ![s] = q]
  BY <1>1, <1>2, <1>3
<1>6. /\ \A u \in P!Streams : reader'[u] = IF u = s THEN q ELSE reader[u]
      /\ reader' \in [P!Streams -> [kept : Nat, truncated : BOOLEAN, ended : BOOLEAN]]
  BY <1>1, <1>4, <1>5
<1>7. P!TypeOK'
  BY <1>1, <1>6 DEF P!Inv, P!TypeOK
<1>8. \A u \in P!Streams : /\ reader'[u].kept = reader[u].kept
                            /\ reader'[u].truncated = reader[u].truncated
                            /\ u # s => reader'[u].ended = reader[u].ended
  BY <1>2, <1>4, <1>6
<1>9. q.ended = TRUE
  BY <1>4
<1>10. P!Accounted'
  <2> SUFFICES ASSUME NEW u \in P!Streams
               PROVE  /\ reader'[u].ended => pipe[u] = 0 /\ ~P!HasPipes
                      /\ caller \in {"returned", "failed"} => reader'[u].ended
    BY <1>1, <1>8 DEF P!Inv, P!Accounted, P!HasPipes
  <2>1. CASE u = s
    BY <1>1, <1>6, <1>9, <2>1
  <2>2. CASE u # s
    <3>1. reader'[u] = reader[u]
      BY <1>6, <2>2
    <3> QED
      BY <3>1 DEF P!Inv, P!Accounted
  <2> QED
    BY <2>1, <2>2
<1> QED
  BY <1>7, <1>10 DEF P!Inv

(* The steps that leave the streams alone.                                 *)
LEMMA RunOthers ==
    ASSUME P!Inv, pipe' = pipe, wrote' = wrote, reader' = reader,
           P!HasPipes' => P!HasPipes, child' \in {"running", "exited", "killed"},
           heir' \in {"none", "open", "gone"},
           caller' \in {"waiting", "joining", "late", "returned", "failed"},
           caller' \in {"returned", "failed"} => \A s \in P!Streams : reader[s].ended
    PROVE  P!Inv'
<1>1. P!TypeOK'
  BY DEF P!Inv, P!TypeOK
<1>2. P!Accounted'
  BY DEF P!Inv, P!Accounted
<1> QED
  BY <1>1, <1>2 DEF P!Inv

LEMMA RunSteps == P!Inv /\ [P!Next]_process => P!Inv'
<1> SUFFICES ASSUME P!Inv, [P!Next]_process PROVE P!Inv'
  OBVIOUS
<1>1. /\ child \in {"running", "exited", "killed"} /\ heir \in {"none", "open", "gone"}
      /\ caller \in {"waiting", "joining", "late", "returned", "failed"}
      /\ caller \in {"returned", "failed"} => \A s \in P!Streams : reader[s].ended
  BY DEF P!Inv, P!TypeOK, P!Accounted
<1>2. CASE UNCHANGED process
  BY <1>1, <1>2, RunOthers DEF process, P!HasPipes
<1>3. ASSUME NEW s \in P!Streams, P!Write(s) \/ P!Reader(s) PROVE P!Inv'
  BY <1>3, RunWrite, RunDrain, RunEnd DEF P!Reader
<1>4. CASE P!TakeInput \/ P!Feed
  BY <1>1, <1>4, RunOthers DEF P!TakeInput, P!Feed, P!HasPipes
<1>5. CASE P!Fork \/ P!Exit \/ P!HeirExits
  BY <1>1, <1>5, RunOthers DEF P!Fork, P!Exit, P!HeirExits, P!HasPipes
<1>6. CASE P!Expire \/ P!Poll \/ P!Join
  BY <1>1, <1>6, RunOthers DEF P!Expire, P!Poll, P!Join, P!HasPipes
<1> QED
  BY <1>2, <1>3, <1>4, <1>5, <1>6 DEF P!Next

(* A call of run that returns tells all that was written to each stream,   *)
(* by the child or by a process it left behind, up to the cap, and whether *)
(* there was more (read_capped and the joins of its threads): the safety   *)
(* half of RunReturns.                                                     *)
THEOREM OutputTold == SharedSpec => []P!OutputIsTold
<1>1. SharedInit => P!Inv
  BY RunStarts DEF SharedInit
<1>2. [SharedNext]_sharedVars => [P!Next]_process
  BY DEF SharedNext, sharedVars, Mapping, Sharing, Running, process
<1>3. P!Inv /\ [SharedNext]_sharedVars => P!Inv'
  BY <1>2, RunSteps
<1>4. P!Inv => P!OutputIsTold
  <2> SUFFICES ASSUME P!Inv, caller = "returned", NEW s \in P!Streams
               PROVE  /\ reader[s].kept = (IF wrote[s] < Cap THEN wrote[s] ELSE Cap)
                      /\ reader[s].truncated <=> wrote[s] > Cap
    BY DEF P!OutputIsTold
  <2>1. pipe[s] = 0
    BY DEF P!Inv, P!Accounted
  <2>2. wrote[s] - pipe[s] = wrote[s]
    BY <2>1, RunTypes
  <2> QED
    BY <2>2 DEF P!Inv, P!Accounted
<1> QED
  BY <1>1, <1>3, <1>4, PTL DEF SharedSpec
=============================================================================
