---------------------------- MODULE SwarmProofs -----------------------------
(***************************************************************************)
(* Proofs about Swarm, for any number of agents, statements and names.     *)
(***************************************************************************)
EXTENDS Swarm, SequenceTheorems, TLAPS

USE SwarmAssumption

-----------------------------------------------------------------------------
(* Type correctness.                                                       *)

LEMMA MainAndIds == Main \in Procs /\ Ids \subseteq Procs
  BY DEF Main, Ids, Procs

LEMMA IdleIsSignal == Idle \in SignalNames
  BY SwarmAssumption DEF Idle, SignalNames

LEMMA ResumeFacts ==
    \A l \in {"run", "wait", "emit_error", "ending"} : l \in Resumes
  BY DEF Resumes

LEMMA LabelFacts ==
    \A l \in {"unborn", "boot", "run", "notify", "wait", "woken", "add_thread", "emit_error",
              "ending", "dead", "drain", "join", "collect", "exited"} : l \in Labels
  BY DEF Labels

LEMMA StateFacts == \A s \in {"STARTING", "WORKING", "WAITING", "DONE", "ERROR"} : s \in AgentStates
  BY DEF AgentStates

LEMMA GotoType ==
    ASSUME TypeOK, NEW p \in Procs, NEW l \in Labels, Goto(p, l)
    PROVE  pc' \in [Procs -> Labels] /\ ret' \in [Procs -> Resumes]
  BY DEF TypeOK, Goto

LEMMA NotifyType ==
    ASSUME TypeOK, NEW p \in Procs, NEW l \in Resumes, NotifyThen(p, l)
    PROVE  pc' \in [Procs -> Labels] /\ ret' \in [Procs -> Resumes]
  BY LabelFacts DEF TypeOK, NotifyThen

LEMMA SetStateType ==
    ASSUME TypeOK, NEW p \in Procs, NEW s \in AgentStates, SetState(p, s)
    PROVE  state' \in Seq(AgentStates) /\ Len(state') = Len(state)
<1>1. CASE p \in Agents
  <2>1. p \in 1..Len(state) /\ state' = [state EXCEPT ![p] = s]
    BY <1>1 DEF SetState, Agents, TypeOK
  <2> QED
    BY <2>1, ExceptSeq DEF TypeOK
<1>2. CASE p \notin Agents
  BY <1>2 DEF SetState, TypeOK
<1> QED
  BY <1>1, <1>2

LEMMA EnqueueType ==
    ASSUME TypeOK, NEW p \in Procs, NEW n \in SignalNames, Enqueue(p, n)
    PROVE  /\ pending' \in [SignalNames -> Seq(Signal)]
           /\ history' \in [SignalNames -> Seq(Signal)]
           /\ inbox' \in [Procs -> Seq(Signal)]
<1> DEFINE sig == [name |-> n, sender |-> p, num |-> Len(history[n]) + Len(pending[n]) + 1]
<1>1. pending[n] \in Seq(Signal) /\ history[n] \in Seq(Signal)
  BY DEF TypeOK
<1>2. sig \in Signal
  <2>1. Len(history[n]) \in Nat /\ Len(pending[n]) \in Nat
    BY <1>1, LenProperties
  <2>2. \A a, b \in Nat : a + b + 1 \in Nat
    OBVIOUS
  <2>3. Len(history[n]) + Len(pending[n]) + 1 \in Nat
    BY <2>1, <2>2, Zenon
  <2> QED
    BY <2>3 DEF Signal
<1>3. Append(pending[n], sig) \in Seq(Signal)
  BY <1>1, <1>2
<1>4. pending' = [pending EXCEPT ![n] = Append(pending[n], sig)]
  BY DEF Enqueue
<1> HIDE DEF sig
<1> QED
  BY <1>3, <1>4 DEF Enqueue, TypeOK

LEMMA InitType == Init => TypeOK
<1> SUFFICES ASSUME Init PROVE TypeOK
  OBVIOUS
<1>2. pc \in [Procs -> Labels] /\ ret \in [Procs -> Resumes]
  BY LabelFacts, ResumeFacts DEF Init
<1>3. awaits \in [Procs -> SignalNames]
  BY IdleIsSignal DEF Init
<1>4. /\ pending \in [SignalNames -> Seq(Signal)]
      /\ history \in [SignalNames -> Seq(Signal)]
      /\ inbox \in [Procs -> Seq(Signal)]
  BY EmptySeq DEF Init
<1>5. state \in Seq(AgentStates) /\ parent \in Seq(Procs) /\ Len(state) = 0 /\ Len(parent) = 0
  BY EmptySeq DEF Init
<1>6. /\ answer \in [Procs -> {"none", "signal", "bail", "timeout"}]
      /\ ops \in Nat
      /\ threads = {} /\ joining = {} /\ reported = {} /\ asleep = {} /\ expired = {}
  BY DEF Init
<1> QED
  BY <1>2, <1>3, <1>4, <1>5, <1>6 DEF TypeOK

LEMMA StepType == TypeOK /\ [Next]_vars => TypeOK'
<1> SUFFICES ASSUME TypeOK, [Next]_vars PROVE TypeOK'
  OBVIOUS
<1> USE DEF signals, waiting, joins
<1>1. ASSUME NEW p \in Procs, NEW n \in Names, DoSignal(p, n) PROVE TypeOK'
  <2>1. n \in SignalNames
    BY DEF SignalNames
  <2>2. Enqueue(p, n) /\ NotifyThen(p, "run") /\ "run" \in Resumes
    BY <1>1, ResumeFacts DEF DoSignal
  <2>3. /\ pending' \in [SignalNames -> Seq(Signal)]
        /\ history' \in [SignalNames -> Seq(Signal)]
        /\ inbox' \in [Procs -> Seq(Signal)]
    BY <2>1, <2>2, EnqueueType
  <2>4. pc' \in [Procs -> Labels] /\ ret' \in [Procs -> Resumes]
    BY <2>2, NotifyType
  <2>5. ops' \in Nat
    BY <1>1 DEF DoSignal, Statement, TypeOK
  <2> QED
    BY <1>1, <2>3, <2>4, <2>5 DEF DoSignal, TypeOK
<1>2. ASSUME NEW p \in Procs, NEW n \in SignalNames, WaitFor(p, n) PROVE TypeOK'
  <2>1. /\ SetState(p, "WAITING") /\ "WAITING" \in AgentStates
        /\ NotifyThen(p, "wait") /\ "wait" \in Resumes
    BY <1>2, ResumeFacts, StateFacts DEF WaitFor
  <2>2. pc' \in [Procs -> Labels] /\ ret' \in [Procs -> Resumes]
    BY <2>1, NotifyType
  <2>3. state' \in Seq(AgentStates) /\ Len(state') = Len(state)
    BY <2>1, SetStateType
  <2>4. ops' \in Nat /\ awaits' \in [Procs -> SignalNames]
    BY <1>2 DEF WaitFor, Statement, TypeOK
  <2> QED
    BY <1>2, <2>2, <2>3, <2>4 DEF WaitFor, TypeOK
<1>3. ASSUME NEW p \in Procs, Spawn(p) PROVE TypeOK'
  <2>1. /\ state \in Seq(AgentStates) /\ parent \in Seq(Procs) /\ Len(parent) = Len(state)
        /\ pc \in [Procs -> Labels]
    BY DEF TypeOK
  <2>2. /\ Len(state) < MaxAgents
        /\ state' = Append(state, "STARTING") /\ parent' = Append(parent, p)
        /\ pc' = [pc EXCEPT ![p] = "add_thread", ![Len(state) + 1] = "boot"]
    BY <1>3 DEF Spawn
  <2>3. /\ state' \in Seq(AgentStates) /\ Len(state') = Len(state) + 1
        /\ parent' \in Seq(Procs) /\ Len(parent') = Len(parent) + 1
    BY <2>1, <2>2, StateFacts
  <2>4. Len(state') <= MaxAgents
    BY <2>1, <2>2, <2>3, LenProperties
  <2>5. pc' \in [Procs -> Labels]
    BY <2>1, <2>2, LabelFacts
  <2>6. ops' \in Nat
    BY <1>3 DEF Spawn, Statement, TypeOK
  <2> QED
    BY <1>3, <2>1, <2>3, <2>4, <2>5, <2>6 DEF Spawn, TypeOK
<1>4. ASSUME NEW p \in Procs, AddThread(p) PROVE TypeOK'
  <2>1. Agents \subseteq Ids
    BY DEF TypeOK, Agents, Ids
  <2> QED
    BY <1>4, <2>1, GotoType, LabelFacts DEF AddThread, TypeOK
<1>5. ASSUME NEW p \in Procs, Notify(p) PROVE TypeOK'
  <2>1. \A l \in Resumes : l \in Labels
    BY DEF Resumes, Labels
  <2> QED
    BY <1>5, <2>1, ResumeFacts DEF Notify, TypeOK
<1>6. ASSUME NEW p \in Procs, TakeSignal(p) PROVE TypeOK'
  <2> DEFINE n == awaits[p]
  <2>1. n \in SignalNames /\ pending[n] \in Seq(Signal) /\ pending[n] # <<>>
        /\ history[n] \in Seq(Signal) /\ inbox[p] \in Seq(Signal)
    BY <1>6 DEF TakeSignal, TypeOK
  <2>2. Head(pending[n]) \in Signal /\ Tail(pending[n]) \in Seq(Signal)
    BY <2>1
  <2>3. /\ Append(history[n], Head(pending[n])) \in Seq(Signal)
        /\ Append(inbox[p], Head(pending[n])) \in Seq(Signal)
    BY <2>1, <2>2
  <2>4. /\ pending' \in [SignalNames -> Seq(Signal)]
        /\ history' \in [SignalNames -> Seq(Signal)]
        /\ inbox' \in [Procs -> Seq(Signal)]
    BY <1>6, <2>1, <2>2, <2>3 DEF TakeSignal, TypeOK
  <2> QED
    BY <1>6, <2>4, GotoType, LabelFacts DEF TakeSignal, Leaves, TypeOK
<1>7. ASSUME NEW p \in Procs, Bail(p) \/ GiveUp(p) PROVE TypeOK'
  BY <1>7, GotoType, LabelFacts DEF Bail, GiveUp, Leaves, TypeOK
<1>8. ASSUME NEW p \in Procs, Sleep(p) \/ Expire(p) \/ Spurious(p) PROVE TypeOK'
  BY <1>8 DEF Sleep, Expire, Spurious, TypeOK
<1>9. ASSUME NEW p \in Procs, Resume(p) PROVE TypeOK'
  BY <1>9, IdleIsSignal, SetStateType, NotifyType, ResumeFacts, LabelFacts, StateFacts DEF Resume, TypeOK
<1>10. ASSUME NEW i \in Ids, Start(i) \/ Finish(i) \/ Fail(i) PROVE TypeOK'
  BY <1>10, MainAndIds, SetStateType, NotifyType, ResumeFacts, LabelFacts, StateFacts
     DEF Start, Finish, Fail, TypeOK
<1>11. ASSUME NEW i \in Ids, EmitError(i) PROVE TypeOK'
  <2>1. AgentError(i) \in SignalNames /\ i \in Procs
    BY MainAndIds DEF SignalNames
  <2> QED
    BY <1>11, <2>1, EnqueueType, NotifyType, ResumeFacts, LabelFacts DEF EmitError, TypeOK
<1>12. ASSUME NEW i \in Ids, ThreadEnds(i) \/ Panic(i) PROVE TypeOK'
  BY <1>12, MainAndIds, GotoType, LabelFacts DEF ThreadEnds, Panic, TypeOK
<1>13. ASSUME Ending PROVE TypeOK'
  <2>1. Agents \subseteq Ids
    BY DEF TypeOK, Agents, Ids
  <2> QED
    BY <1>13, <2>1, MainAndIds, GotoType, LabelFacts
       DEF Ending, MainEnds, Drain, Joined, Collect, TypeOK
<1>14. CASE UNCHANGED vars
  BY <1>14 DEF vars, TypeOK
<1> QED
  BY <1>1, <1>2, <1>3, <1>4, <1>5, <1>6, <1>7, <1>8, <1>9, <1>10, <1>11, <1>12, <1>13, <1>14
     DEF Next, Step, Clock, Stray, Body, Loop, Closure, Terminated

(* Every variable keeps its type, for every program and number of agents.  *)
THEOREM TypeCorrect == Spec => []TypeOK
  BY InitType, StepType, PTL DEF Spec
-----------------------------------------------------------------------------
(* No wake-up is lost.                                                     *)

LEMMA SetStateEffect ==
    ASSUME TypeOK, NEW p \in Procs, NEW s \in AgentStates, SetState(p, s)
    PROVE  /\ Agents' = Agents
           /\ \A i \in Agents : state'[i] = IF i = p THEN s ELSE state[i]
           /\ (state' = <<>>) <=> (state = <<>>)
<1>1. CASE p \in Agents
  <2>1. state' = [state EXCEPT ![p] = s] /\ state \in Seq(AgentStates) /\ p \in DOMAIN state
    BY <1>1 DEF SetState, Agents, TypeOK
  <2>2. Agents' = Agents /\ \A i \in Agents : state'[i] = IF i = p THEN s ELSE state[i]
    BY <2>1 DEF Agents
  <2>3. state # <<>> /\ state' # <<>>
    BY <1>1, <2>1, <2>2 DEF Agents
  <2> QED
    BY <2>2, <2>3
<1>2. CASE p \notin Agents
  BY <1>2 DEF SetState, Agents
<1> QED
  BY <1>1, <1>2

(* Only registered agents have a thread.                                   *)
Unborn == \A i \in Ids \ Agents : pc[i] = "unborn"

LEMMA StepUnborn == TypeOK /\ Unborn /\ [Next]_vars => Unborn'
<1> SUFFICES ASSUME TypeOK, Unborn, [Next]_vars PROVE Unborn'
  OBVIOUS
<1>a. pc \in [Procs -> Labels]
  BY DEF TypeOK
<1>1. ASSUME NEW p \in Procs, p \in Agents \/ p = Main, Agents' = Agents,
             \A q \in Procs \ {p} : pc'[q] = pc[q]
      PROVE  Unborn'
  BY <1>1, MainAndIds DEF Unborn, Main, Ids
<1>2. ASSUME NEW p \in Procs, pc[p] # "unborn" PROVE p \in Agents \/ p = Main
  BY <1>2 DEF Unborn, Procs, Ids, Main
<1>3. ASSUME NEW p \in Procs, NEW l,  Goto(p, l) \/ NotifyThen(p, l)
      PROVE  \A q \in Procs \ {p} : pc'[q] = pc[q]
  BY <1>3, <1>a DEF Goto, NotifyThen
<1>4. ASSUME NEW p \in Procs, NEW n \in Names, DoSignal(p, n) PROVE Unborn'
  BY <1>1, <1>2, <1>3, <1>4 DEF DoSignal, Statement, Agents
<1>5. ASSUME NEW p \in Procs, NEW n \in SignalNames, WaitFor(p, n) PROVE Unborn'
  <2>1. Agents' = Agents
    BY <1>5, SetStateEffect, StateFacts DEF WaitFor
  <2> QED
    BY <1>1, <1>2, <1>3, <1>5, <2>1 DEF WaitFor, Statement
<1>6. ASSUME NEW p \in Procs, Spawn(p) PROVE Unborn'
  <2>1. /\ state' = Append(state, "STARTING") /\ state \in Seq(AgentStates)
        /\ pc' = [pc EXCEPT ![p] = "add_thread", ![Len(state) + 1] = "boot"]
    BY <1>6 DEF Spawn, TypeOK
  <2>2. Agents = 1..Len(state) /\ Agents' = 1..(Len(state) + 1) /\ Len(state) \in Nat
    BY <2>1, LenProperties DEF Agents
  <2>3. p \in Agents \/ p = Main
    BY <1>2, <1>6 DEF Spawn, Statement
  <2> QED
    BY <1>a, <2>1, <2>2, <2>3 DEF Unborn, Main, Ids, Procs
<1>7. ASSUME NEW p \in Procs, Loop(p) \/ Expire(p) \/ AddThread(p) \/ Notify(p) PROVE Unborn'
  <2>1. Agents' = Agents
    BY <1>7, SetStateEffect, StateFacts
       DEF Loop, TakeSignal, Bail, GiveUp, Sleep, Resume, Expire, AddThread, Notify, Leaves, Agents
  <2>2. p \in Agents \/ p = Main
    BY <1>7, <1>2 DEF Loop, TakeSignal, Bail, GiveUp, Sleep, Resume, Expire, AddThread, Notify,
                      KeepsWaiting, Checks
  <2>3. \A q \in Procs \ {p} : pc'[q] = pc[q]
    BY <1>7, <1>3, <1>a
       DEF Loop, TakeSignal, Bail, GiveUp, Sleep, Resume, Expire, AddThread, Notify, Leaves
  <2> QED
    BY <1>1, <2>1, <2>2, <2>3
<1>8. ASSUME NEW i \in Ids, Closure(i) PROVE Unborn'
  <2>1. Agents' = Agents
    BY <1>8, SetStateEffect, StateFacts, MainAndIds
       DEF Closure, Start, Finish, Fail, EmitError, ThreadEnds, Panic, Agents
  <2>2. i \in Agents \/ i = Main
    BY <1>8, <1>2, MainAndIds DEF Closure, Start, Finish, Fail, EmitError, ThreadEnds, Panic
  <2>3. \A q \in Procs \ {i} : pc'[q] = pc[q]
    BY <1>8, <1>3, MainAndIds DEF Closure, Start, Finish, Fail, EmitError, ThreadEnds, Panic
  <2> QED
    BY <1>1, <2>1, <2>2, <2>3, MainAndIds
<1>9. ASSUME Ending PROVE Unborn'
  BY <1>1, <1>3, <1>9, MainAndIds DEF Ending, MainEnds, Drain, Joined, Collect, Agents
<1>10. CASE UNCHANGED vars
  BY <1>10 DEF vars, Unborn, Agents
<1>11. ASSUME NEW p \in Procs, Spurious(p) PROVE Unborn'
  BY <1>11 DEF Spurious, Unborn, Agents
<1> QED
  BY <1>4, <1>5, <1>6, <1>7, <1>8, <1>9, <1>10, <1>11 DEF Next, Step, Clock, Stray, Body, Terminated

(* The sleepers are inside wait_for_signal.                                *)
WakeInv == TypeOK /\ Unborn /\ (\A p \in asleep : pc[p] = "wait") /\ NoLostWakeup

(* Nothing a sleeper looks at changes, so it still has nothing to do.      *)
LEMMA NothingNew ==
    ASSUME WakeInv, asleep' \subseteq asleep, \A p \in asleep' : CanLeave(p)' => CanLeave(p),
           \A q \in Procs : pc[q] = "notify" => pc'[q] = "notify"
    PROVE  NoLostWakeup'
  BY DEF WakeInv, NoLostWakeup

LEMMA SameAnswer ==
    ASSUME UNCHANGED <<state, pending, awaits>>, NEW q
    PROVE  CanLeave(q)' = CanLeave(q)
  BY DEF CanLeave, ProducerAlive, Agents

LEMMA StepWake == WakeInv /\ [Next]_vars => WakeInv'
<1> SUFFICES ASSUME WakeInv, [Next]_vars PROVE WakeInv'
  OBVIOUS
<1> USE DEF signals, waiting, joins
<1>0. TypeOK /\ TypeOK' /\ Unborn /\ Unborn'
  BY StepType, StepUnborn DEF WakeInv
<1>a. pc \in [Procs -> Labels] /\ asleep \subseteq Procs
  BY <1>0 DEF TypeOK
<1> DEFINE Sleepers == \A p \in asleep : pc[p] = "wait"
<1>b. Sleepers /\ NoLostWakeup
  BY DEF WakeInv
<1>1. ASSUME NEW p \in Procs, pc[p] # "wait", NEW l, NotifyThen(p, l), UNCHANGED asleep
      PROVE Sleepers' /\ NoLostWakeup'
  <2>1. pc' = [pc EXCEPT ![p] = "notify"]
    BY <1>1 DEF NotifyThen
  <2> QED
    BY <1>1, <1>a, <1>b, <2>1 DEF NoLostWakeup
<1>2. ASSUME NEW p \in Procs, NEW n \in Names, DoSignal(p, n) PROVE Sleepers' /\ NoLostWakeup'
  BY <1>1, <1>2 DEF DoSignal, Statement
<1>3. ASSUME NEW p \in Procs, NEW n \in SignalNames, WaitFor(p, n)
      PROVE Sleepers' /\ NoLostWakeup'
  BY <1>1, <1>3 DEF WaitFor, Statement
<1>4. ASSUME NEW p \in Procs, Resume(p) PROVE Sleepers' /\ NoLostWakeup'
  BY <1>1, <1>4 DEF Resume
<1>5. ASSUME NEW i \in Ids, Start(i) \/ Finish(i) \/ Fail(i) \/ EmitError(i)
      PROVE Sleepers' /\ NoLostWakeup'
  BY <1>1, <1>5, MainAndIds DEF Start, Finish, Fail, EmitError
<1>6. ASSUME NEW p \in Procs, Notify(p) PROVE Sleepers' /\ NoLostWakeup'
  BY <1>6 DEF Notify, NoLostWakeup
<1>7. ASSUME NEW p \in Procs, Spawn(p) PROVE Sleepers' /\ NoLostWakeup'
  <2>1. /\ state' = Append(state, "STARTING") /\ state \in Seq(AgentStates)
        /\ pc' = [pc EXCEPT ![p] = "add_thread", ![Len(state) + 1] = "boot"]
        /\ pc[p] = "run" /\ Len(state) < MaxAgents
        /\ UNCHANGED <<asleep, pending, awaits>>
    BY <1>0, <1>7 DEF Spawn, Statement, TypeOK
  <2> DEFINE new == Len(state) + 1
  <2>2. new \in Agents' /\ state'[new] = "STARTING"
    BY <2>1, LenProperties DEF Agents
  <2>3. new \in Ids /\ new \notin Agents
    BY <2>1, LenProperties DEF Ids, Agents
  <2>4. pc[new] = "unborn" /\ new \in Procs
    BY <2>3, <1>0, MainAndIds DEF Unborn
  <2> HIDE DEF new
  <2>5. Sleepers' /\ \A q \in Procs : pc[q] = "notify" => pc'[q] = "notify"
    BY <1>a, <1>b, <2>1, <2>4 DEF new
  <2>6. \A q \in asleep' : CanLeave(q)' => CanLeave(q)
    BY <2>1, <2>2 DEF CanLeave, ProducerAlive, Active
  <2> QED
    BY <2>1, <2>5, <2>6, NothingNew
<1>8. ASSUME NEW p \in Procs, NEW l, pc[p] # "notify", p \notin asleep, Goto(p, l),
             UNCHANGED <<asleep, awaits, state>>,
             \A n \in SignalNames : pending'[n] # <<>> => pending[n] # <<>>
      PROVE Sleepers' /\ NoLostWakeup'
  <2>1. Sleepers'
    BY <1>8, <1>a, <1>b DEF Goto
  <2>2. \A q \in asleep' : CanLeave(q)' => CanLeave(q)
    BY <1>8, <1>0 DEF CanLeave, ProducerAlive, Agents, TypeOK
  <2>3. \A q \in Procs : pc[q] = "notify" => pc'[q] = "notify"
    BY <1>8, <1>a DEF Goto
  <2> QED
    BY <1>8, <2>1, <2>2, <2>3, NothingNew
<1>9. ASSUME NEW p \in Procs, TakeSignal(p) PROVE Sleepers' /\ NoLostWakeup'
  <2>1. \A n \in SignalNames : pending'[n] # <<>> => pending[n] # <<>>
    BY <1>9, <1>0 DEF TakeSignal, TypeOK
  <2> QED
    BY <1>8, <1>9, <2>1 DEF TakeSignal, Checks, Leaves
<1>10. ASSUME NEW p \in Procs, Bail(p) \/ GiveUp(p) PROVE Sleepers' /\ NoLostWakeup'
  BY <1>8, <1>10 DEF Bail, GiveUp, KeepsWaiting, Checks, Leaves
<1>11. ASSUME NEW p \in Procs, AddThread(p) PROVE Sleepers' /\ NoLostWakeup'
  BY <1>8, <1>11, <1>b DEF AddThread
<1>12. ASSUME NEW i \in Ids, ThreadEnds(i) \/ Panic(i) PROVE Sleepers' /\ NoLostWakeup'
  BY <1>8, <1>12, <1>b, MainAndIds DEF ThreadEnds, Panic
<1>13. ASSUME Ending PROVE Sleepers' /\ NoLostWakeup'
  BY <1>8, <1>13, <1>b, MainAndIds DEF Ending, MainEnds, Drain, Joined, Collect
<1>14. ASSUME NEW p \in Procs, Sleep(p) PROVE Sleepers' /\ NoLostWakeup'
  <2>1. ~CanLeave(p)
    BY <1>14 DEF Sleep, KeepsWaiting, CanLeave
  <2>2. \A q \in Procs : CanLeave(q)' = CanLeave(q)
    BY <1>14, SameAnswer DEF Sleep
  <2> QED
    BY <1>14, <1>a, <1>b, <2>1, <2>2 DEF Sleep, KeepsWaiting, Checks, NoLostWakeup
<1>15. ASSUME NEW p \in Procs, Expire(p) \/ Spurious(p) PROVE Sleepers' /\ NoLostWakeup'
  <2>1. \A q \in Procs : CanLeave(q)' = CanLeave(q)
    BY <1>15, SameAnswer DEF Expire, Spurious
  <2> QED
    BY <1>15, <1>a, <1>b, <2>1, NothingNew DEF Expire, Spurious
<1>16. ASSUME UNCHANGED vars PROVE Sleepers' /\ NoLostWakeup'
  BY <1>16, <1>b, SameAnswer DEF vars, NoLostWakeup
<1> QED
  BY <1>0, <1>2, <1>3, <1>4, <1>5, <1>6, <1>7, <1>9, <1>10, <1>11, <1>12, <1>13, <1>14, <1>15,
     <1>16 DEF WakeInv, Next, Step, Clock, Stray, Body, Loop, Closure, Terminated

(* A thread asleep in wait_for_signal never misses the signal it waits for *)
(* or the end of the last producer, although the lock is dropped before    *)
(* notify_all is called.                                                   *)
THEOREM WakeupsAreNotLost == Spec => []NoLostWakeup
<1>1. Init => WakeInv
  BY InitType DEF Init, WakeInv, NoLostWakeup, Unborn, Ids, Main, Procs
<1>2. WakeInv => NoLostWakeup
  BY DEF WakeInv
<1> QED
  BY <1>1, <1>2, StepWake, PTL DEF Spec
-----------------------------------------------------------------------------
(* The swarm's signals implement the mailbox.                              *)

LEMMA ConcatAppend ==
    ASSUME NEW S, NEW h \in Seq(S), NEW q \in Seq(S), NEW x \in S
    PROVE  h \o Append(q, x) = Append(h \o q, x)
<1> DEFINE a == Len(h)
           b == Len(q)
           r == Append(q, x)
           c == h \o q
           d == Append(c, x)
<1>1. c \in Seq(S) /\ Len(c) = a + b /\ a \in Nat /\ b \in Nat
  BY ConcatProperties, LenProperties
<1>2. \A i \in 1..(a + b) : c[i] = IF i <= a THEN h[i] ELSE q[i - a]
  BY ConcatProperties
<1>3. r \in Seq(S) /\ Len(r) = b + 1
      /\ \A i \in 1..(b + 1) : r[i] = IF i = b + 1 THEN x ELSE q[i]
  BY <1>1
<1> HIDE DEF c
<1>4. d \in Seq(S) /\ Len(d) = Len(c) + 1
      /\ \A i \in 1..(Len(c) + 1) : d[i] = IF i = Len(c) + 1 THEN x ELSE c[i]
  BY <1>1
<1> HIDE DEF r, d
<1>5. h \o r \in Seq(S) /\ Len(h \o r) = a + Len(r)
      /\ \A i \in 1..(a + Len(r)) : (h \o r)[i] = IF i <= a THEN h[i] ELSE r[i - a]
  BY <1>3, ConcatProperties
<1> DEFINE e == h \o r
<1> HIDE DEF a, b, e
<1>6. /\ Len(d) = a + b + 1 /\ Len(e) = a + b + 1 /\ e \in Seq(S)
      /\ \A i \in 1..(a + b + 1) : d[i] = IF i = a + b + 1 THEN x ELSE c[i]
      /\ \A i \in 1..(a + b + 1) : e[i] = IF i <= a THEN h[i] ELSE r[i - a]
  <2>1. a + (b + 1) = a + b + 1
    BY <1>1
  <2> QED
    BY <1>1, <1>3, <1>4, <1>5, <2>1 DEF e
<1>7. ASSUME NEW i \in 1..(a + b + 1) PROVE e[i] = d[i]
  <2>1. CASE i <= a
    BY <1>1, <1>2, <1>6, <2>1
  <2>2. CASE i > a /\ i # a + b + 1
    <3>1. i - a \in 1..(b + 1) /\ i - a # b + 1 /\ i \in 1..(a + b) /\ ~(i <= a)
      BY <1>1, <2>2
    <3> QED
      BY <1>2, <1>3, <1>6, <2>2, <3>1
  <2>3. CASE i = a + b + 1
    <3>1. i - a = b + 1 /\ b + 1 \in 1..(b + 1) /\ ~(i <= a)
      BY <1>1, <2>3
    <3> QED
      BY <1>3, <1>6, <2>3, <3>1
  <2> QED
    BY <2>1, <2>2, <2>3, <1>1
<1>8. e = d
  BY <1>4, <1>6, <1>7, SeqEqual
<1> QED
  BY <1>8 DEF r, c, d, e

LEMMA ConcatShift ==
    ASSUME NEW S, NEW h \in Seq(S), NEW q \in Seq(S), q # <<>>
    PROVE  /\ Append(h, Head(q)) \o Tail(q) = h \o q
           /\ Len(h) < Len(h \o q)
           /\ (h \o q)[Len(h) + 1] = Head(q)
           /\ Len(Append(h, Head(q))) = Len(h) + 1
<1> DEFINE a == Len(h)
           b == Len(q)
           g == Append(h, Head(q))
           t == Tail(q)
<1>1. Head(q) \in S /\ Head(q) = q[1] /\ b \in Nat \ {0} /\ a \in Nat
  BY EmptySeq, HeadTailProperties, LenProperties
<1>2. g \in Seq(S) /\ Len(g) = a + 1
      /\ \A i \in 1..(a + 1) : g[i] = IF i = a + 1 THEN Head(q) ELSE h[i]
  BY <1>1
<1>3. t \in Seq(S) /\ Len(t) = b - 1 /\ \A i \in 1..(b - 1) : t[i] = q[i + 1]
  BY <1>1, HeadTailProperties
<1>4. h \o q \in Seq(S) /\ Len(h \o q) = a + b
      /\ \A i \in 1..(a + b) : (h \o q)[i] = IF i <= a THEN h[i] ELSE q[i - a]
  BY ConcatProperties
<1> HIDE DEF g, t
<1>5. g \o t \in Seq(S) /\ Len(g \o t) = Len(g) + Len(t)
      /\ \A i \in 1..(Len(g) + Len(t)) : (g \o t)[i] = IF i <= Len(g) THEN g[i] ELSE t[i - Len(g)]
  BY <1>2, <1>3, ConcatProperties
<1> DEFINE u == g \o t
           v == h \o q
<1> HIDE DEF a, b, u, v
<1>6. u \in Seq(S) /\ Len(u) = a + b
      /\ \A i \in 1..(a + b) : u[i] = IF i <= a + 1 THEN g[i] ELSE t[i - (a + 1)]
  <2>1. (a + 1) + (b - 1) = a + b
    BY <1>1
  <2> QED
    BY <1>2, <1>3, <1>5, <2>1 DEF u
<1>7. v \in Seq(S) /\ Len(v) = a + b
      /\ \A i \in 1..(a + b) : v[i] = IF i <= a THEN h[i] ELSE q[i - a]
  BY <1>4 DEF v
<1>8. ASSUME NEW i \in 1..(a + b) PROVE u[i] = v[i]
  <2>1. CASE i <= a
    BY <1>1, <1>2, <1>6, <1>7, <2>1
  <2>2. CASE i = a + 1
    <3>1. i <= a + 1 /\ ~(i <= a) /\ i - a = 1 /\ i \in 1..(a + 1)
      BY <1>1, <2>2
    <3> QED
      BY <1>1, <1>2, <1>6, <1>7, <2>2, <3>1
  <2>3. CASE i > a + 1
    <3> DEFINE j == i - (a + 1)
    <3>1. j \in 1..(b - 1) /\ j + 1 = i - a /\ ~(i <= a + 1) /\ ~(i <= a)
      BY <1>1, <2>3
    <3>2. t[j] = q[j + 1]
      BY <1>3, <3>1
    <3> QED
      BY <1>6, <1>7, <3>1, <3>2
  <2> QED
    BY <1>1, <2>1, <2>2, <2>3
<1>9. u = v
  BY <1>6, <1>7, <1>8, SeqEqual
<1>10. v[a + 1] = q[1] /\ a < Len(v)
  <2>1. a + 1 \in 1..(a + b) /\ ~(a + 1 <= a) /\ (a + 1) - a = 1 /\ a < a + b
    BY <1>1
  <2> QED
    BY <1>7, <2>1
<1> QED
  BY <1>1, <1>2, <1>9, <1>10 DEF a, g, t, u, v

LEMMA EnqueueEmits ==
    ASSUME TypeOK, NEW p \in Procs, NEW n \in SignalNames, Enqueue(p, n)
    PROVE  Mail!Emit(p, n)
<1> DEFINE x == [name |-> n, sender |-> p, num |-> Len(history[n]) + Len(pending[n]) + 1]
           q == pending[n]
<1>1. history[n] \in Seq(Signal) /\ q \in Seq(Signal)
  BY DEF TypeOK
<1>2. Len(history[n]) \in Nat /\ Len(q) \in Nat
      /\ Len(history[n] \o q) = Len(history[n]) + Len(q)
  BY <1>1, LenProperties, ConcatProperties
<1>3. x \in Signal
  <2>1. \A a, b \in Nat : a + b + 1 \in Nat
    OBVIOUS
  <2>2. Len(history[n]) + Len(q) + 1 \in Nat
    BY <1>2, <2>1, Zenon
  <2> QED
    BY <2>2 DEF Signal
<1>4. pending' = [pending EXCEPT ![n] = Append(q, x)] /\ UNCHANGED <<history, inbox>>
  BY DEF Enqueue
<1>6. x = [name |-> n, sender |-> p, num |-> Len(history[n] \o q) + 1]
  BY <1>2
<1> DEFINE sent == [m \in SignalNames |-> history[m] \o pending[m]]
<1>7. pending \in [SignalNames -> Seq(Signal)]
  BY DEF TypeOK
<1> HIDE DEF x
<1>5. history[n] \o Append(q, x) = Append(history[n] \o q, x)
  <2> DEFINE h == history[n]
  <2>1. h \in Seq(Signal)
    BY <1>1
  <2> HIDE DEF q, h
  <2>2. h \o Append(q, x) = Append(h \o q, x)
    BY <1>1, <1>3, <2>1, ConcatAppend
  <2> QED
    BY <2>2 DEF h
<1>8. \A m \in SignalNames : (history[m] \o pending[m])' =
                IF m = n THEN Append(history[n] \o q, x) ELSE history[m] \o pending[m]
  BY <1>4, <1>5, <1>7
<1>9. sent' = [sent EXCEPT ![n] = Append(sent[n], x)]
  BY <1>8
<1>10. sent[n] = history[n] \o q
  OBVIOUS
<1> QED
  BY <1>4, <1>6, <1>9, <1>10 DEF Mail!Emit

LEMMA TakeTakes ==
    ASSUME TypeOK, NEW p \in Procs, TakeSignal(p), NEW n \in SignalNames, n = awaits[p]
    PROVE  Mail!Take(p, n)
<1> DEFINE h == history[n]
           q == pending[n]
<1>1. /\ h \in Seq(Signal) /\ q \in Seq(Signal) /\ q # <<>>
      /\ pending \in [SignalNames -> Seq(Signal)] /\ history \in [SignalNames -> Seq(Signal)]
  BY DEF TypeOK, TakeSignal
<1>2. /\ pending' = [pending EXCEPT ![n] = Tail(q)]
      /\ history' = [history EXCEPT ![n] = Append(h, Head(q))]
      /\ inbox' = [inbox EXCEPT ![p] = Append(@, Head(q))]
  BY DEF TakeSignal
<1>3. /\ Append(h, Head(q)) \o Tail(q) = h \o q
      /\ Len(h) < Len(h \o q) /\ (h \o q)[Len(h) + 1] = Head(q)
      /\ Len(Append(h, Head(q))) = Len(h) + 1
  BY <1>1, ConcatShift
<1> DEFINE sent == [m \in SignalNames |-> history[m] \o pending[m]]
           taken == [m \in SignalNames |-> Len(history[m])]
<1>4. \A m \in SignalNames : (history[m] \o pending[m])' = history[m] \o pending[m]
  BY <1>1, <1>2, <1>3
<1>5. \A m \in SignalNames : Len(history[m])' = IF m = n THEN Len(h) + 1 ELSE Len(history[m])
  BY <1>1, <1>2, <1>3
<1>6. sent' = sent
  BY <1>4
<1>7. taken' = [taken EXCEPT ![n] = taken[n] + 1]
  BY <1>1, <1>5
<1>8. sent[n] = h \o q /\ taken[n] = Len(h)
  BY <1>1
<1> QED
  BY <1>2, <1>3, <1>6, <1>7, <1>8 DEF Mail!Take

LEMMA StepMail == TypeOK /\ [Next]_vars => [Mail!MNext]_(Mail!mailbox)
<1> SUFFICES ASSUME TypeOK, [Next]_vars PROVE [Mail!MNext]_(Mail!mailbox)
  OBVIOUS
<1>1. ASSUME UNCHANGED signals PROVE UNCHANGED Mail!mailbox
  BY <1>1 DEF signals, Mail!mailbox
<1>2. ASSUME NEW p \in Procs, NEW n \in Names, DoSignal(p, n) PROVE Mail!MNext
  <2>1. n \in SignalNames /\ Enqueue(p, n)
    BY <1>2 DEF SignalNames, DoSignal
  <2> QED
    BY <2>1, EnqueueEmits DEF Mail!MNext
<1>3. ASSUME NEW i \in Ids, EmitError(i) PROVE Mail!MNext
  <2>1. AgentError(i) \in SignalNames /\ Enqueue(i, AgentError(i)) /\ i \in Procs
    BY <1>3, MainAndIds DEF SignalNames, EmitError
  <2> QED
    BY <2>1, EnqueueEmits DEF Mail!MNext
<1>4. ASSUME NEW p \in Procs, TakeSignal(p) PROVE Mail!MNext
  <2>1. PICK n \in SignalNames : n = awaits[p]
    BY DEF TypeOK
  <2> QED
    BY <1>4, <2>1, TakeTakes DEF Mail!MNext
<1>5. ASSUME NEW p \in Procs, NEW n \in SignalNames, WaitFor(p, n) PROVE UNCHANGED signals
  BY <1>5 DEF WaitFor
<1>6. ASSUME NEW p \in Procs, Spawn(p) \/ AddThread(p) \/ Notify(p) \/ Bail(p) \/ GiveUp(p)
                              \/ Sleep(p) \/ Expire(p) \/ Spurious(p) \/ Resume(p)
      PROVE  UNCHANGED signals
  BY <1>6 DEF Spawn, AddThread, Notify, Bail, GiveUp, Sleep, Expire, Spurious, Resume
<1>7. ASSUME NEW i \in Ids, Start(i) \/ Finish(i) \/ Fail(i) \/ ThreadEnds(i) \/ Panic(i)
      PROVE  UNCHANGED signals
  BY <1>7 DEF Start, Finish, Fail, ThreadEnds, Panic
<1>8. ASSUME Ending PROVE UNCHANGED signals
  BY <1>8 DEF Ending, MainEnds, Drain, Joined, Collect
<1>9. ASSUME UNCHANGED vars PROVE UNCHANGED signals
  BY <1>9 DEF vars, signals
<1> QED
  BY <1>1, <1>2, <1>3, <1>4, <1>5, <1>6, <1>7, <1>8, <1>9
     DEF Next, Step, Clock, Stray, Body, Loop, Closure, Terminated

(* Through every interleaving of threads, wake-ups and timeouts, a signal  *)
(* is consumed at most once, by one process, in the order of emission.     *)
THEOREM SwarmImplementsMailbox == Spec => ImplementsMailbox
<1>1. Init => Mail!MInit
  <2>1. <<>> \o <<>> = <<>> /\ Len(<<>>) = 0
    BY EmptySeq, ConcatEmptySeq
  <2> QED
    BY <2>1 DEF Init, Mail!MInit
<1> QED
  BY <1>1, TypeCorrect, StepMail, PTL DEF Spec, ImplementsMailbox, Mail!MSpec
-----------------------------------------------------------------------------
(* Returning early is right.                                               *)

(* An agent that may still run a statement of its body is active.          *)
BodyLabels == {"boot", "run", "add_thread", "wait", "woken"}
InBody(i) == pc[i] \in BodyLabels \/ (pc[i] = "notify" /\ ret[i] \in {"run", "wait"})
ActiveBody == \A i \in Agents : InBody(i) => state[i] \in Active

(* Only the main program ever bails, and only after the last agent.        *)
BailedAlone ==
    \A p \in Procs : Bailed(p) =>
        p = Main /\ ~ProducerAlive /\ (awaits[p] \in Names => pending[awaits[p]] = <<>>)

BailInv == TypeOK /\ Unborn /\ ActiveBody /\ BailedAlone

LEMMA StepActive == TypeOK /\ Unborn /\ ActiveBody /\ [Next]_vars => ActiveBody'
<1> SUFFICES ASSUME TypeOK, Unborn, ActiveBody, [Next]_vars PROVE ActiveBody'
  OBVIOUS
<1> USE DEF waiting, joins
<1>a. pc \in [Procs -> Labels] /\ ret \in [Procs -> Resumes] /\ Agents \subseteq Procs
  <2>1. /\ state \in Seq(AgentStates) /\ Len(state) <= MaxAgents
        /\ pc \in [Procs -> Labels] /\ ret \in [Procs -> Resumes]
    BY DEF TypeOK
  <2>2. Agents \subseteq Procs
    BY <2>1, LenProperties DEF Agents, Procs
  <2> QED
    BY <2>1, <2>2
<1>1. ASSUME NEW p \in Procs, Agents' = Agents, \A i \in Agents \ {p} : state'[i] = state[i],
             \A i \in Procs \ {p} : pc'[i] = pc[i] /\ ret'[i] = ret[i],
             p \in Agents /\ InBody(p)' => state'[p] \in Active
      PROVE  ActiveBody'
  BY <1>1, <1>a DEF ActiveBody, InBody
<1>2. ASSUME NEW p \in Procs, NEW l, Goto(p, l) \/ NotifyThen(p, l)
      PROVE  \A i \in Procs \ {p} : pc'[i] = pc[i] /\ ret'[i] = ret[i]
  BY <1>2, <1>a DEF Goto, NotifyThen
<1>3. ASSUME NEW p \in Procs, UNCHANGED state, InBody(p)' => InBody(p),
             \A i \in Procs \ {p} : pc'[i] = pc[i] /\ ret'[i] = ret[i]
      PROVE  ActiveBody'
  BY <1>1, <1>3 DEF ActiveBody, Agents
<1>4. ASSUME NEW p \in Procs, NEW s \in AgentStates, SetState(p, s), NEW l, NotifyThen(p, l),
             l \in {"run", "wait"} => s \in Active
      PROVE  ActiveBody'
  <2>1. Agents' = Agents /\ \A i \in Agents : state'[i] = IF i = p THEN s ELSE state[i]
    BY <1>4, SetStateEffect
  <2>2. pc'[p] = "notify" /\ ret'[p] = l
    BY <1>4, <1>a DEF NotifyThen
  <2> QED
    BY <1>1, <1>2, <1>4, <2>1, <2>2 DEF InBody, BodyLabels
<1>5. ASSUME NEW p \in Procs, NEW n \in Names, DoSignal(p, n) PROVE ActiveBody'
  <2>1. pc[p] = "run"
    BY <1>5 DEF DoSignal, Statement
  <2> QED
    BY <1>2, <1>3, <1>5, <2>1 DEF DoSignal, InBody, BodyLabels
<1>6. ASSUME NEW p \in Procs, NEW n \in SignalNames, WaitFor(p, n) PROVE ActiveBody'
  BY <1>4, <1>6, StateFacts DEF WaitFor, Active
<1>7. ASSUME NEW p \in Procs, Spawn(p) PROVE ActiveBody'
  <2>1. /\ state' = Append(state, "STARTING") /\ state \in Seq(AgentStates)
        /\ pc' = [pc EXCEPT ![p] = "add_thread", ![Len(state) + 1] = "boot"]
        /\ pc[p] = "run" /\ ret' = ret /\ Len(state) < MaxAgents
    BY <1>7 DEF Spawn, Statement, TypeOK
  <2>2. /\ Agents = 1..Len(state) /\ Agents' = 1..(Len(state) + 1) /\ Len(state) \in Nat
        /\ state'[Len(state) + 1] = "STARTING" /\ \A i \in Agents : state'[i] = state[i]
    BY <2>1, LenProperties DEF Agents
  <2>3. ASSUME NEW i \in Agents', InBody(i)' PROVE state'[i] \in Active
    <3>1. CASE i = Len(state) + 1
      BY <2>2, <3>1 DEF Active
    <3>2. CASE i # Len(state) + 1
      <4>1. i \in Agents
        BY <2>2, <3>2
      <4>2. InBody(i)
        BY <1>a, <2>1, <2>3, <3>2, <4>1 DEF InBody, BodyLabels
      <4> QED
        BY <2>2, <4>1, <4>2 DEF ActiveBody
    <3> QED
      BY <3>1, <3>2
  <2> QED
    BY <2>3 DEF ActiveBody
<1>8. ASSUME NEW p \in Procs, AddThread(p) PROVE ActiveBody'
  BY <1>2, <1>3, <1>8 DEF AddThread, InBody, BodyLabels
<1>9. ASSUME NEW p \in Procs, Notify(p) PROVE ActiveBody'
  <2>1. UNCHANGED state /\ pc[p] = "notify"
        /\ \A i \in Procs \ {p} : pc'[i] = pc[i] /\ ret'[i] = ret[i]
    BY <1>9, <1>a DEF Notify
  <2>2. pc'[p] = ret[p]
    BY <1>9, <1>a DEF Notify
  <2>3. InBody(p)' => InBody(p)
    BY <1>a, <2>1, <2>2 DEF InBody, BodyLabels, Resumes
  <2> QED
    BY <1>3, <2>1, <2>3
<1>10. ASSUME NEW p \in Procs, TakeSignal(p) \/ Bail(p) \/ GiveUp(p) PROVE ActiveBody'
  BY <1>2, <1>3, <1>10 DEF TakeSignal, Bail, GiveUp, KeepsWaiting, Checks, Leaves, InBody, BodyLabels
<1>11. ASSUME NEW p \in Procs, Sleep(p) \/ Expire(p) \/ Spurious(p) PROVE ActiveBody'
  BY <1>11 DEF Sleep, Expire, Spurious, ActiveBody, InBody, Agents
<1>12. ASSUME NEW p \in Procs, Resume(p) PROVE ActiveBody'
  BY <1>4, <1>12, StateFacts DEF Resume, Active
<1>13. ASSUME NEW i \in Ids, Start(i) \/ Finish(i) \/ Fail(i) PROVE ActiveBody'
  BY <1>4, <1>13, StateFacts, MainAndIds DEF Start, Finish, Fail, Active
<1>14. ASSUME NEW i \in Ids, EmitError(i) \/ ThreadEnds(i) \/ Panic(i) PROVE ActiveBody'
  <2>1. i \in Procs /\ UNCHANGED state
    BY <1>14, MainAndIds DEF EmitError, ThreadEnds, Panic
  <2>2. ~InBody(i)'
    BY <1>14, <2>1, <1>a DEF EmitError, ThreadEnds, Panic, NotifyThen, Goto, InBody, BodyLabels
  <2> QED
    BY <1>2, <1>3, <1>14, <2>1, <2>2 DEF EmitError, ThreadEnds, Panic
<1>15. ASSUME Ending PROVE ActiveBody'
  <2>1. UNCHANGED state /\ \A i \in Procs \ {Main} : pc'[i] = pc[i] /\ ret'[i] = ret[i]
    BY <1>2, <1>15, MainAndIds DEF Ending, MainEnds, Drain, Joined, Collect
  <2>2. Main \notin Agents
    BY DEF Agents, Main, TypeOK
  <2> QED
    BY <1>1, <2>1, <2>2, MainAndIds DEF Agents
<1>16. ASSUME UNCHANGED vars PROVE ActiveBody'
  BY <1>16 DEF vars, ActiveBody, InBody, Agents
<1> QED
  BY <1>5, <1>6, <1>7, <1>8, <1>9, <1>10, <1>11, <1>12, <1>13, <1>14, <1>15, <1>16
     DEF Next, Step, Clock, Stray, Body, Loop, Closure, Terminated

LEMMA StepBailed == BailInv /\ [Next]_vars => BailedAlone'
<1> SUFFICES ASSUME BailInv, [Next]_vars PROVE BailedAlone'
  OBVIOUS
<1> USE DEF waiting, joins, signals
<1>a. TypeOK /\ Unborn /\ ActiveBody /\ BailedAlone
  BY DEF BailInv
<1>b. pc \in [Procs -> Labels] /\ answer \in [Procs -> {"none", "signal", "bail", "timeout"}]
  BY <1>a DEF TypeOK
<1>1. ASSUME NEW p \in Procs, InBody(p), p = Main => pc[p] # "woken"
      PROVE  \A q \in Procs : ~Bailed(q)
  <2>1. CASE p = Main
    BY <1>1, <1>a, <2>1 DEF BailedAlone, Bailed
  <2>2. CASE p # Main
    <3>1. pc[p] # "unborn" /\ p \in Ids
      BY <1>1, <2>2 DEF InBody, BodyLabels, Procs, Ids, Main
    <3>2. ProducerAlive
      BY <1>1, <1>a, <3>1 DEF Unborn, ActiveBody, ProducerAlive
    <3> QED
      BY <1>a, <3>2 DEF BailedAlone
  <2> QED
    BY <2>1, <2>2
<1>2. ASSUME \A q \in Procs : ~Bailed(q),
             \A q \in Procs : Bailed(q)' => Bailed(q)
      PROVE  BailedAlone'
  BY <1>2 DEF BailedAlone
<1>3. ASSUME NEW p \in Procs, pc[p] = "run", NEW l, l # "woken",
             NotifyThen(p, l) \/ Goto(p, l), UNCHANGED answer
      PROVE  BailedAlone'
  <2>1. \A q \in Procs : ~Bailed(q)
    BY <1>1, <1>3 DEF InBody, BodyLabels
  <2>2. \A q \in Procs : Bailed(q)' => Bailed(q)
    BY <1>3, <1>b DEF Bailed, NotifyThen, Goto
  <2> QED
    BY <1>2, <2>1, <2>2
<1>4. ASSUME NEW p \in Procs, NEW n \in Names, DoSignal(p, n) PROVE BailedAlone'
  BY <1>3, <1>4 DEF DoSignal, Statement
<1>5. ASSUME NEW p \in Procs, NEW n \in SignalNames, WaitFor(p, n) PROVE BailedAlone'
  BY <1>3, <1>5 DEF WaitFor, Statement
<1>6. ASSUME NEW p \in Procs, Spawn(p) PROVE BailedAlone'
  <2>1. \A q \in Procs : ~Bailed(q)
    BY <1>1, <1>6 DEF Spawn, Statement, InBody, BodyLabels
  <2>2. \A q \in Procs : Bailed(q)' => Bailed(q)
    BY <1>6, <1>b DEF Spawn, Bailed
  <2> QED
    BY <1>2, <2>1, <2>2
<1>7. ASSUME NEW p \in Procs, UNCHANGED <<state, pending, awaits, answer>>,
             \A q \in Procs : pc'[q] = "woken" => pc[q] = "woken"
      PROVE  BailedAlone'
  BY <1>7, <1>a DEF BailedAlone, Bailed, ProducerAlive, Agents
<1>8. ASSUME NEW p \in Procs, AddThread(p) \/ Notify(p) \/ Sleep(p) \/ Expire(p) \/ Spurious(p) PROVE BailedAlone'
  <2>1. ret \in [Procs -> Resumes]
    BY <1>a DEF TypeOK
  <2>2. \A q \in Procs : pc'[q] = "woken" => pc[q] = "woken"
    BY <1>8, <1>b, <2>1 DEF AddThread, Notify, Sleep, Expire, Spurious, Goto, Resumes
  <2> QED
    BY <1>7, <1>8, <2>2 DEF AddThread, Notify, Sleep, Expire, Spurious
<1>9. ASSUME NEW p \in Procs, TakeSignal(p) \/ GiveUp(p) PROVE BailedAlone'
  <2>1. \A q \in Procs : ~Bailed(q)
    BY <1>1, <1>9 DEF TakeSignal, GiveUp, KeepsWaiting, Checks, InBody, BodyLabels
  <2>2. \A q \in Procs : Bailed(q)' => Bailed(q)
    BY <1>9, <1>b DEF TakeSignal, GiveUp, Leaves, Goto, Bailed
  <2> QED
    BY <1>2, <2>1, <2>2
<1>10. ASSUME NEW p \in Procs, Bail(p) PROVE BailedAlone'
  <2>1. /\ pc[p] = "wait" /\ ~ProducerAlive /\ pending[awaits[p]] = <<>>
        /\ answer' = [answer EXCEPT ![p] = "bail"] /\ Goto(p, "woken")
        /\ UNCHANGED <<state, pending, awaits>>
    BY <1>10 DEF Bail, Checks, Leaves
  <2>2. p = Main
    BY <1>a, <2>1 DEF Unborn, ActiveBody, ProducerAlive, InBody, BodyLabels, Procs, Ids, Main
  <2>3. \A q \in Procs : ~Bailed(q)
    BY <1>1, <2>1 DEF InBody, BodyLabels
  <2>4. \A q \in Procs \ {p} : ~Bailed(q)'
    BY <1>b, <2>1, <2>3 DEF Bailed, Goto
  <2>5. ~ProducerAlive' /\ (pending[awaits[p]] = <<>>)'
    BY <2>1 DEF ProducerAlive, Agents
  <2> QED
    BY <2>2, <2>4, <2>5 DEF BailedAlone
<1>11. ASSUME NEW p \in Procs, Resume(p) PROVE BailedAlone'
  <2>1. pc[p] = "woken" /\ NotifyThen(p, "run") /\ answer' = [answer EXCEPT ![p] = "none"]
    BY <1>11 DEF Resume
  <2>2. CASE p = Main
    BY <1>a, <1>b, <2>1, <2>2 DEF BailedAlone, Bailed, NotifyThen
  <2>3. CASE p # Main
    <3>1. \A q \in Procs : ~Bailed(q)
      BY <1>1, <2>1, <2>3 DEF InBody, BodyLabels
    <3>2. \A q \in Procs : Bailed(q)' => Bailed(q)
      BY <1>b, <2>1 DEF Bailed, NotifyThen
    <3> QED
      BY <1>2, <3>1, <3>2
  <2> QED
    BY <2>2, <2>3
<1>12. ASSUME NEW i \in Ids, Start(i) PROVE BailedAlone'
  <2>1. \A q \in Procs : ~Bailed(q)
    BY <1>1, <1>12, MainAndIds DEF Start, InBody, BodyLabels
  <2>2. \A q \in Procs : Bailed(q)' => Bailed(q)
    BY <1>12, <1>b, MainAndIds DEF Start, NotifyThen, Bailed
  <2> QED
    BY <1>2, <2>1, <2>2
<1>13. ASSUME NEW i \in Ids, Finish(i) \/ Fail(i) \/ Panic(i) PROVE BailedAlone'
  BY <1>3, <1>13, MainAndIds DEF Finish, Fail, Panic
<1>14. ASSUME NEW i \in Ids, ThreadEnds(i) PROVE BailedAlone'
  <2>1. \A q \in Procs : pc'[q] = "woken" => pc[q] = "woken"
    BY <1>14, <1>b DEF ThreadEnds, Goto
  <2> QED
    BY <1>7, <1>14, <2>1, MainAndIds DEF ThreadEnds
<1>15. ASSUME NEW i \in Ids, EmitError(i) PROVE BailedAlone'
  <2>1. \A q \in Procs : pc'[q] = "woken" => pc[q] = "woken"
    BY <1>15, <1>b DEF EmitError, NotifyThen
  <2>2. AgentError(i) \notin Names
    BY DEF Ids, AgentError
  <2>3. pending \in [SignalNames -> Seq(Signal)]
    BY <1>a DEF TypeOK
  <2>4. \A n \in Names : pending'[n] = pending[n]
    BY <1>15, <2>2, <2>3 DEF EmitError, Enqueue, SignalNames
  <2>5. UNCHANGED <<state, awaits, answer>>
    BY <1>15 DEF EmitError
  <2> QED
    BY <1>a, <2>1, <2>4, <2>5 DEF BailedAlone, Bailed, ProducerAlive, Agents
<1>16. ASSUME Ending PROVE BailedAlone'
  <2>1. \A q \in Procs : pc'[q] = "woken" => pc[q] = "woken"
    BY <1>16, <1>b DEF Ending, MainEnds, Drain, Joined, Collect, Goto
  <2> QED
    BY <1>7, <1>16, <2>1, MainAndIds DEF Ending, MainEnds, Drain, Joined, Collect
<1>17. ASSUME UNCHANGED vars PROVE BailedAlone'
  BY <1>17, <1>a DEF vars, BailedAlone, Bailed, ProducerAlive, Agents
<1> QED
  BY <1>4, <1>5, <1>6, <1>8, <1>9, <1>10, <1>11, <1>12, <1>13, <1>14, <1>15, <1>16, <1>17
     DEF Next, Step, Clock, Stray, Body, Loop, Closure, Terminated

(* When wait_for returns early because no agent is active, no signal of    *)
(* the program can arrive any more: only the main program is ever in that  *)
(* position, and every agent is past the last statement of its body.       *)
THEOREM EarlyReturnIsSound == Spec => []BailIsSound
<1>1. Init => BailInv
  <2>1. Init => Unborn /\ ActiveBody /\ BailedAlone
    BY DEF Init, Unborn, ActiveBody, BailedAlone, Bailed, Agents, Ids, Main, Procs
  <2> QED
    BY <2>1, InitType DEF BailInv
<1>2. BailInv /\ [Next]_vars => BailInv'
  BY StepType, StepUnborn, StepActive, StepBailed DEF BailInv
<1>3. BailInv => BailIsSound
  BY DEF BailInv, BailedAlone, BailIsSound
<1> QED
  BY <1>1, <1>2, <1>3, PTL DEF Spec
-----------------------------------------------------------------------------
(* The agents of the main program are joined.                              *)

(* Where the handle of a child of the main program is, while main spawns,  *)
(* joins and collects.  The thread of the newest child may not be stored.  *)
Handled(i) ==
    /\ pc[Main] = "add_thread" => i \in threads \/ \A j \in Agents : parent[j] = Main => j <= i
    /\ pc[Main] = "join" => i \in joining
    /\ pc[Main] \in {"collect", "exited"} => pc[i] = "dead"
    /\ pc[Main] = "exited" /\ state[i] = "ERROR" => i \in reported
    /\ pc[Main] \notin {"add_thread", "join", "collect", "exited"} => i \in threads
AllHandled == \A i \in Agents : parent[i] = Main => Handled(i)

LEMMA StepHandled == TypeOK /\ Unborn /\ AllHandled /\ [Next]_vars => AllHandled'
<1> SUFFICES ASSUME TypeOK, Unborn, AllHandled, [Next]_vars PROVE AllHandled'
  OBVIOUS
<1>a. /\ pc \in [Procs -> Labels] /\ ret \in [Procs -> Resumes]
      /\ Agents = 1..Len(state) /\ DOMAIN parent = Agents /\ Len(state) \in Nat
      /\ Agents \subseteq Ids /\ Main \notin Ids /\ Main \in Procs /\ Ids \subseteq Procs
  <2>1. /\ state \in Seq(AgentStates) /\ Len(state) <= MaxAgents
        /\ parent \in Seq(Procs) /\ Len(parent) = Len(state)
        /\ pc \in [Procs -> Labels] /\ ret \in [Procs -> Resumes]
    BY DEF TypeOK
  <2>2. Agents = 1..Len(state) /\ DOMAIN parent = Agents /\ Len(state) \in Nat
    BY <2>1, LenProperties DEF Agents
  <2> QED
    BY <2>1, <2>2, SwarmAssumption DEF Ids, Procs, Main
<1> DEFINE Busy == {"add_thread", "join", "collect", "exited"}
<1>1. ASSUME NEW p \in Procs, ~Exited, pc[p] # "dead",
             \A q \in Procs \ {p} : pc'[q] = pc[q],
             p = Main => pc[Main] \notin Busy /\ pc'[Main] \notin Busy,
             Agents' = Agents, parent' = parent, threads \subseteq threads',
             joining' = joining
      PROVE  AllHandled'
  BY <1>a, <1>1 DEF AllHandled, Handled, Exited
<1>2. ASSUME NEW p \in Procs, NEW l, Goto(p, l) \/ NotifyThen(p, l)
      PROVE  /\ \A q \in Procs \ {p} : pc'[q] = pc[q]
             /\ pc'[p] \in {l, "notify"}
  BY <1>2, <1>a DEF Goto, NotifyThen
<1> USE DEF joins, waiting
<1>3. ASSUME ~Exited, NEW p \in Procs, NEW n \in Names, DoSignal(p, n) PROVE AllHandled'
  BY <1>1, <1>2, <1>3 DEF DoSignal, Statement, Agents
<1>4. ASSUME ~Exited, NEW p \in Procs, NEW n \in SignalNames, WaitFor(p, n) PROVE AllHandled'
  <2>1. Agents' = Agents
    BY <1>4, SetStateEffect, StateFacts DEF WaitFor
  <2> QED
    BY <1>1, <1>2, <1>4, <2>1 DEF WaitFor, Statement
<1>5. ASSUME ~Exited, NEW p \in Procs, Spawn(p) PROVE AllHandled'
  <2> DEFINE new == Len(state) + 1
  <2>1. /\ pc[p] = "run" /\ state' = Append(state, "STARTING") /\ parent' = Append(parent, p)
        /\ pc' = [pc EXCEPT ![p] = "add_thread", ![new] = "boot"]
        /\ UNCHANGED joins /\ Len(state) < MaxAgents
    BY <1>5 DEF Spawn, Statement
  <2>2. /\ Agents' = Agents \cup {new} /\ new \notin Agents /\ new \in Ids
        /\ \A i \in Agents : i < new
        /\ \A i \in Agents : parent'[i] = parent[i]
        /\ parent'[new] = p
    <3>1. parent \in Seq(Procs) /\ state \in Seq(AgentStates) /\ Len(parent) = Len(state)
      BY DEF TypeOK
    <3>2. Agents' = 1..(Len(state) + 1)
      BY <2>1, <3>1, LenProperties DEF Agents
    <3>3. /\ \A i \in 1..Len(state) : parent'[i] = parent[i]
          /\ parent'[Len(state) + 1] = p
      BY <2>1, <3>1, <1>a
    <3> QED
      BY <1>a, <2>1, <3>2, <3>3, SwarmAssumption DEF Ids
  <2>3. pc[new] = "unborn" /\ p # new /\ new # Main
    BY <2>1, <2>2, <1>a DEF Unborn
  <2>4. /\ pc'[p] = "add_thread" /\ pc'[new] = "boot"
        /\ \A q \in Procs \ {p, new} : pc'[q] = pc[q]
    BY <2>1, <2>2, <2>3, <1>a
  <2> HIDE DEF new
  <2>5. CASE p = Main
    <3>1. \A i \in Agents : parent[i] = Main => i \in threads
      BY <2>1, <2>5 DEF AllHandled, Handled
    <3>2. \A j \in Agents' : j <= new
      BY <2>2, <1>a DEF new
    <3> QED
      BY <2>1, <2>2, <2>4, <2>5, <3>1, <3>2 DEF AllHandled, Handled
  <2>6. CASE p # Main
    <3>1. pc'[Main] = pc[Main] /\ pc[Main] # "exited"
      BY <1>a, <1>5, <2>3, <2>4, <2>6 DEF Exited
    <3>2. ASSUME NEW i \in Agents', parent'[i] = Main PROVE Handled(i)'
      <4>1. i \in Agents /\ parent[i] = Main
        BY <2>2, <2>6, <3>2
      <4>2. pc[i] = "dead" => pc'[i] = "dead"
        BY <1>a, <2>1, <2>2, <2>4, <4>1
      <4>3. \A j \in Agents' : parent'[j] = Main => j \in Agents /\ parent[j] = Main
        BY <2>2, <2>6
      <4> QED
        BY <2>1, <3>1, <4>1, <4>2, <4>3 DEF AllHandled, Handled
    <3> QED
      BY <3>2 DEF AllHandled
  <2> QED
    BY <2>5, <2>6
<1>6. ASSUME ~Exited, NEW p \in Procs, AddThread(p) PROVE AllHandled'
  <2>1. /\ pc[p] = "add_thread" /\ UNCHANGED <<state, parent, joining, reported>>
        /\ threads' = threads \cup
              {i \in Agents : parent[i] = p /\ \A j \in Agents : parent[j] = p => j <= i}
        /\ Agents' = Agents /\ pc' = [pc EXCEPT ![p] = "run"]
    BY <1>6 DEF AddThread, Goto, Agents
  <2>2. CASE p = Main
    BY <1>a, <2>1, <2>2 DEF AllHandled, Handled
  <2>3. CASE p # Main
    BY <1>1, <1>6, <1>a, <2>1, <2>3
  <2> QED
    BY <2>2, <2>3
<1>7. ASSUME ~Exited, NEW p \in Procs, Notify(p) PROVE AllHandled'
  <2>1. pc[p] = "notify" /\ pc' = [pc EXCEPT ![p] = ret[p]] /\ UNCHANGED <<state, parent, threads, joining>>
    BY <1>7 DEF Notify
  <2>2. pc'[p] \in Resumes
    BY <1>a, <2>1
  <2> QED
    BY <1>1, <1>7, <1>a, <2>1, <2>2 DEF Agents, Resumes
<1>8. ASSUME ~Exited, NEW p \in Procs, Loop(p) \/ Expire(p) \/ Spurious(p) PROVE AllHandled'
  <2>1. Agents' = Agents /\ UNCHANGED <<parent, threads, joining>>
    BY <1>8, SetStateEffect, StateFacts
       DEF Loop, TakeSignal, Bail, GiveUp, Sleep, Resume, Expire, Spurious, Leaves, Agents
  <2>2. CASE pc' = pc
    BY <1>8, <2>1, <2>2, <1>a DEF AllHandled, Handled, Exited
  <2>3. CASE pc' # pc
    <3>1. /\ pc[p] \in {"wait", "woken"} /\ pc'[p] \in {"woken", "run", "notify"}
          /\ \A q \in Procs \ {p} : pc'[q] = pc[q]
      BY <1>8, <2>3, <1>2
         DEF Loop, TakeSignal, Bail, GiveUp, Sleep, Resume, Expire, Spurious, Leaves, KeepsWaiting, Checks
    <3> QED
      BY <1>1, <1>8, <2>1, <3>1
  <2> QED
    BY <2>2, <2>3
<1>9. ASSUME ~Exited, NEW i \in Ids, Closure(i) PROVE AllHandled'
  <2>1. Agents' = Agents /\ UNCHANGED <<parent, threads, joining>>
    BY <1>9, SetStateEffect, StateFacts, MainAndIds
       DEF Closure, Start, Finish, Fail, EmitError, ThreadEnds, Panic, Agents
  <2>2. pc[i] # "dead" /\ \A q \in Procs \ {i} : pc'[q] = pc[q]
    BY <1>9, <1>2, MainAndIds DEF Closure, Start, Finish, Fail, EmitError, ThreadEnds, Panic
  <2> QED
    BY <1>1, <1>9, <1>a, <2>1, <2>2
<1>10. ASSUME Ending PROVE AllHandled'
  <2>1. Agents' = Agents /\ UNCHANGED <<state, parent>>
    BY <1>10 DEF Ending, MainEnds, Drain, Joined, Collect, Agents
  <2>2. \A q \in Agents : pc'[q] = pc[q]
    BY <1>10, <1>2, <1>a DEF Ending, MainEnds, Drain, Joined, Collect
  <2>3. CASE MainEnds
    <3>1. pc[Main] = "run" /\ pc'[Main] = "drain" /\ UNCHANGED joins
      BY <1>a, <2>3 DEF MainEnds, Goto
    <3> QED
      BY <2>1, <2>2, <3>1 DEF AllHandled, Handled
  <2>4. CASE Drain
    <3>1. pc[Main] = "drain" /\ pc'[Main] = "join" /\ joining' = threads
      BY <1>a, <2>4 DEF Drain, Goto
    <3> QED
      BY <2>1, <2>2, <3>1 DEF AllHandled, Handled
  <2>5. CASE Joined
    <3>1. /\ pc[Main] = "join" /\ pc'[Main] = "collect" /\ \A i \in joining : pc[i] = "dead"
      BY <1>a, <2>5 DEF Joined, Goto
    <3> QED
      BY <2>1, <2>2, <3>1 DEF AllHandled, Handled
  <2>6. CASE Collect
    <3>1. /\ pc[Main] = "collect" /\ pc'[Main] = "exited"
          /\ reported' = {i \in Agents : state[i] = "ERROR"}
      BY <1>a, <2>6 DEF Collect, Goto
    <3> QED
      BY <2>1, <2>2, <3>1 DEF AllHandled, Handled
  <2> QED
    BY <1>10, <2>3, <2>4, <2>5, <2>6 DEF Ending
<1>11. CASE UNCHANGED vars
  BY <1>11 DEF vars, AllHandled, Handled, Agents
<1> QED
  BY <1>3, <1>4, <1>5, <1>6, <1>7, <1>8, <1>9, <1>10, <1>11
     DEF Next, Step, Clock, Stray, Body, Terminated

(* When the run exits, each agent that the main program spawned has ended, *)
(* and if it failed its error is in the exit code.                         *)
THEOREM MainJoinsItsAgents == Spec => []ChildrenJoined
<1>1. Init => TypeOK /\ Unborn /\ AllHandled
  <2>1. Init => Unborn /\ AllHandled
    BY DEF Init, Unborn, AllHandled, Agents, Ids, Main, Procs
  <2> QED
    BY <2>1, InitType
<1>2. TypeOK /\ Unborn /\ AllHandled => ChildrenJoined
  BY DEF AllHandled, Handled, ChildrenJoined, Exited
<1> QED
  BY <1>1, <1>2, StepType, StepUnborn, StepHandled, PTL DEF Spec
=============================================================================
