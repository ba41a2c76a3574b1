------------------------------- MODULE Swarm --------------------------------
(***************************************************************************)
(* A run of a Syntecnia program with agents: synsema-agents/src/swarm.rs   *)
(* and the parts of synsema-runtime/src/engine.rs that start the agents'   *)
(* threads and wait for them.                                              *)
(*                                                                         *)
(* Every process (the main program and each agent) is a thread that runs a *)
(* body of `signal', `wait for' and `spawn' statements.  The swarm is one  *)
(* Mutex and one Condvar: a method changes the state under the lock, drops *)
(* it, and only then calls notify_all, so the two are separate steps here. *)
(***************************************************************************)
EXTENDS Naturals, Sequences, FiniteSets

CONSTANTS
    MaxAgents,   \* bound: agents registered in one run
    MaxOps,      \* bound: swarm statements the bodies execute in all
    Names,       \* the names a program gives to its signals
    Panics       \* whether a panic may unwind an agent's thread

ASSUME SwarmAssumption == /\ Names # {}
                          /\ MaxAgents \in Nat
                          /\ MaxOps \in Nat
                          /\ Panics \in BOOLEAN
                          /\ \A i \in 1..MaxAgents : <<"__agent_error", i>> \notin Names

Main == 0
Ids == 1..MaxAgents
Procs == 0..MaxAgents

AgentError(i) == <<"__agent_error", i>>
SignalNames == Names \cup {AgentError(i) : i \in Ids}
Idle == CHOOSE n \in SignalNames : TRUE     \* of a process that does not wait
Signal == [name: SignalNames, sender: Procs, num: Nat]

AgentStates == {"STARTING", "WORKING", "WAITING", "DONE", "ERROR"}
Active == {"STARTING", "WORKING", "WAITING"}
Labels == {"unborn", "boot", "run", "notify", "wait", "woken", "add_thread",
           "emit_error", "ending", "dead", "drain", "join", "collect", "exited"}
Resumes == {"run", "wait", "emit_error", "ending"}

VARIABLES
    state,      \* SwarmState.agents: the state of agent i, in registration order
    pending,    \* SwarmState.pending: name -> emitted and not consumed
    history,    \* SwarmState.history: name -> consumed, in order
    asleep,     \* the threads inside cvar.wait_timeout
    expired,    \* the waits whose deadline has passed
    pc, ret,    \* where each thread is, and where it goes after notify_all
    awaits,     \* the name a process waits for
    answer,     \* how its last wait ended
    inbox,      \* what its waits returned, in order
    ops,        \* swarm statements executed so far
    parent,     \* agent -> the process whose `spawn' made it
    threads,    \* Swarm.threads: handles stored by add_thread
    joining,    \* the handles that wait_all took and joins
    reported    \* the agents whose error made the run fail

signals == <<pending, history, inbox>>
waiting == <<asleep, expired, awaits, answer>>
joins == <<threads, joining, reported>>
vars == <<state, pending, history, asleep, expired, pc, ret, awaits, answer,
          inbox, ops, parent, threads, joining, reported>>

Agents == DOMAIN state
(* Fault: an agent that waits is taken for one that will not emit.       *)
OnlyRunningProduce == \E i \in Agents : state[i] \in {"STARTING", "WORKING"}
ProducerAlive == \E i \in Agents : state[i] \in Active
Exited == pc[Main] = "exited"

Init ==
    /\ state = <<>> /\ parent = <<>>
    /\ pending = [n \in SignalNames |-> <<>>]
    /\ history = [n \in SignalNames |-> <<>>]
    /\ asleep = {} /\ expired = {}
    /\ pc = [p \in Procs |-> IF p = Main THEN "run" ELSE "unborn"]
    /\ ret = [p \in Procs |-> "run"]
    /\ awaits = [p \in Procs |-> Idle]
    /\ answer = [p \in Procs |-> "none"]
    /\ inbox = [p \in Procs |-> <<>>]
    /\ ops = 0
    /\ threads = {} /\ joining = {} /\ reported = {}
-----------------------------------------------------------------------------
(* Pieces of the handlers.                                                 *)

Goto(p, label) == pc' = [pc EXCEPT ![p] = label] /\ UNCHANGED ret

(* The lock is dropped; notify_all comes next, then the thread goes on.    *)
NotifyThen(p, label) == /\ pc' = [pc EXCEPT ![p] = "notify"]
                        /\ ret' = [ret EXCEPT ![p] = label]

(* set_state is a no-op for "main", which is not a registered agent.       *)
SetState(p, s) ==
    state' = IF p \in Agents THEN [state EXCEPT ![p] = s] ELSE state

Enqueue(p, n) ==
    /\ pending' = [pending EXCEPT ![n] =
                     Append(@, [name |-> n, sender |-> p,
                                num |-> Len(history[n]) + Len(@) + 1])]
    /\ UNCHANGED <<history, inbox>>

Statement(p) == /\ pc[p] = "run"
                /\ ops < MaxOps
                /\ ops' = ops + 1
-----------------------------------------------------------------------------
(* Statements of a body.                                                   *)

DoSignal(p, n) ==
    /\ Statement(p)
    /\ Enqueue(p, n)
    /\ NotifyThen(p, "run")
    /\ UNCHANGED <<state, parent, waiting, joins>>

(* The hook marks the agent WAITING before it enters wait_for_signal.      *)
WaitFor(p, n) ==
    /\ Statement(p)
    /\ SetState(p, "WAITING")
    /\ awaits' = [awaits EXCEPT ![p] = n]
    /\ NotifyThen(p, "wait")
    /\ UNCHANGED <<signals, asleep, expired, answer, parent, joins>>

(* register_new_agent, then the thread is created.                         *)
Spawn(p) ==
    /\ Statement(p)
    /\ Len(state) < MaxAgents
    /\ state' = Append(state, "STARTING")
    /\ parent' = Append(parent, p)
    /\ pc' = [pc EXCEPT ![p] = "add_thread", ![Len(state) + 1] = "boot"]
    /\ UNCHANGED <<ret, signals, waiting, joins>>

(* The handle added is that of the newest child of p.                      *)
AddThread(p) ==
    /\ pc[p] = "add_thread"
    /\ threads' = threads \cup
         {i \in Agents : parent[i] = p /\ \A j \in Agents : parent[j] = p => j <= i}
    /\ Goto(p, "run")
    /\ UNCHANGED <<state, parent, signals, waiting, ops, joining, reported>>

Notify(p) ==
    /\ pc[p] = "notify"
    /\ asleep' = {}
    /\ pc' = [pc EXCEPT ![p] = ret[p]]
    /\ ret' = [ret EXCEPT ![p] = "run"]
    /\ UNCHANGED <<state, parent, signals, expired, awaits, answer, ops, joins>>
-----------------------------------------------------------------------------
(* One turn of the loop of wait_for_signal, under the lock.                *)

Checks(p) == pc[p] = "wait" /\ p \notin asleep

Leaves(p, how) == /\ answer' = [answer EXCEPT ![p] = how]
                  /\ Goto(p, "woken")
                  /\ UNCHANGED <<state, parent, asleep, expired, awaits, ops, joins>>

(* Fault: the queue is popped at its back.                               *)
TakeNewest(p) ==
    LET n == awaits[p]
        k == Len(pending[n]) IN
    /\ Checks(p)
    /\ k > 0
    /\ pending' = [pending EXCEPT ![n] = SubSeq(@, 1, k - 1)]
    /\ history' = [history EXCEPT ![n] = Append(@, pending[n][k])]
    /\ inbox' = [inbox EXCEPT ![p] = Append(@, pending[n][k])]
    /\ Leaves(p, "signal")

TakeSignal(p) ==
    LET n == awaits[p] IN
    /\ Checks(p)
    /\ pending[n] # <<>>
    /\ pending' = [pending EXCEPT ![n] = Tail(@)]
    /\ history' = [history EXCEPT ![n] = Append(@, Head(pending[n]))]
    /\ inbox' = [inbox EXCEPT ![p] = Append(@, Head(pending[n]))]
    /\ Leaves(p, "signal")

Bail(p) ==
    /\ Checks(p)
    /\ pending[awaits[p]] = <<>>
    /\ ~ProducerAlive /\ state # <<>>
    /\ Leaves(p, "bail")
    /\ UNCHANGED signals

KeepsWaiting(p) == /\ Checks(p)
                   /\ pending[awaits[p]] = <<>>
                   /\ ProducerAlive \/ state = <<>>

(* Fault: the deadline is looked at before the queue.                    *)
GiveUpFirst(p) ==
    /\ Checks(p)
    /\ p \in expired
    /\ Leaves(p, "timeout")
    /\ UNCHANGED signals

GiveUp(p) ==
    /\ KeepsWaiting(p)
    /\ p \in expired
    /\ Leaves(p, "timeout")
    /\ UNCHANGED signals

Sleep(p) ==
    /\ KeepsWaiting(p)
    /\ p \notin expired
    /\ asleep' = asleep \cup {p}
    /\ UNCHANGED <<state, parent, pc, ret, signals, expired, awaits, answer, ops, joins>>

(* Fault: each wake-up starts the whole timeout again.                   *)
ExpireRestarts(p) ==
    /\ pc[p] = "wait"
    /\ asleep' = asleep \ {p}
    /\ UNCHANGED <<state, parent, pc, ret, signals, expired, awaits, answer, ops, joins>>

(* The deadline passes; it wakes the thread if it sleeps.                  *)
Expire(p) ==
    /\ pc[p] = "wait"
    /\ p \notin expired
    /\ expired' = expired \cup {p}
    /\ asleep' = asleep \ {p}
    /\ UNCHANGED <<state, parent, pc, ret, signals, awaits, answer, ops, joins>>

(* A condition variable may wake a thread for no reason.                   *)
Spurious(p) ==
    /\ p \in asleep
    /\ asleep' = asleep \ {p}
    /\ UNCHANGED <<state, parent, pc, ret, signals, expired, awaits, answer, ops, joins>>

(* wait_for_signal has returned; what it kept is forgotten.                *)
Resume(p) ==
    /\ pc[p] = "woken"
    /\ SetState(p, "WORKING")
    /\ answer' = [answer EXCEPT ![p] = "none"]
    /\ expired' = expired \ {p}
    /\ awaits' = [awaits EXCEPT ![p] = Idle]
    /\ NotifyThen(p, "run")
    /\ UNCHANGED <<parent, signals, asleep, ops, joins>>
-----------------------------------------------------------------------------
(* The closure an agent's thread runs.                                     *)

Start(i) ==
    /\ pc[i] = "boot"
    /\ SetState(i, "WORKING")
    /\ NotifyThen(i, "run")
    /\ UNCHANGED <<parent, signals, waiting, ops, joins>>

(* Fault: the end of an agent wakes nobody.                              *)
FinishQuietly(i) ==
    /\ pc[i] = "run"
    /\ SetState(i, "DONE")
    /\ Goto(i, "ending")
    /\ UNCHANGED <<parent, signals, waiting, ops, joins>>

Finish(i) ==
    /\ pc[i] = "run"
    /\ SetState(i, "DONE")
    /\ NotifyThen(i, "ending")
    /\ UNCHANGED <<parent, signals, waiting, ops, joins>>

Fail(i) ==
    /\ pc[i] = "run"
    /\ SetState(i, "ERROR")
    /\ NotifyThen(i, "emit_error")
    /\ UNCHANGED <<parent, signals, waiting, ops, joins>>

EmitError(i) ==
    /\ pc[i] = "emit_error"
    /\ Enqueue(i, AgentError(i))
    /\ NotifyThen(i, "ending")
    /\ UNCHANGED <<state, parent, waiting, ops, joins>>

(* set_finished, and the thread returns.                                   *)
ThreadEnds(i) ==
    /\ pc[i] = "ending"
    /\ Goto(i, "dead")
    /\ UNCHANGED <<state, parent, signals, waiting, ops, joins>>

Panic(i) ==
    /\ Panics
    /\ pc[i] = "run"
    /\ Goto(i, "dead")
    /\ UNCHANGED <<state, parent, signals, waiting, ops, joins>>
-----------------------------------------------------------------------------
(* run_program_ceiled once the main body has ended.                        *)

MainEnds ==
    /\ pc[Main] = "run"
    /\ Goto(Main, "drain")
    /\ UNCHANGED <<state, parent, signals, waiting, ops, joins>>

Drain ==
    /\ pc[Main] = "drain"
    /\ joining' = threads
    /\ threads' = {}
    /\ Goto(Main, "join")
    /\ UNCHANGED <<state, parent, signals, waiting, ops, reported>>

(* Fault: only one of the handles is joined.                             *)
JoinedFirst ==
    /\ pc[Main] = "join"
    /\ joining = {} \/ \E i \in joining : pc[i] = "dead"
    /\ Goto(Main, "collect")
    /\ UNCHANGED <<state, parent, signals, waiting, ops, joins>>

Joined ==
    /\ pc[Main] = "join"
    /\ \A i \in joining : pc[i] = "dead"
    /\ Goto(Main, "collect")
    /\ UNCHANGED <<state, parent, signals, waiting, ops, joins>>

(* collect_agent_errors; then the process exits and takes every thread.    *)
Collect ==
    /\ pc[Main] = "collect"
    /\ reported' = {i \in Agents : state[i] = "ERROR"}
    /\ Goto(Main, "exited")
    /\ UNCHANGED <<state, parent, signals, waiting, ops, threads, joining>>
-----------------------------------------------------------------------------
Loop(p) == TakeSignal(p) \/ Bail(p) \/ GiveUp(p) \/ Sleep(p) \/ Resume(p)

Body(p) == \/ \E n \in Names : DoSignal(p, n)
           \/ \E n \in SignalNames : WaitFor(p, n)
           \/ Spawn(p) \/ AddThread(p) \/ Notify(p)

Closure(i) == \/ Start(i) \/ Finish(i) \/ Fail(i) \/ EmitError(i)
              \/ ThreadEnds(i) \/ Panic(i)

Ending == MainEnds \/ Drain \/ Joined \/ Collect

Step(p) == ~Exited /\ (Body(p) \/ Loop(p) \/ (p = Main /\ Ending) \/ (p \in Ids /\ Closure(p)))

Clock(p) == ~Exited /\ Expire(p)

Stray(p) == ~Exited /\ Spurious(p)

Terminated == Exited /\ UNCHANGED vars

Next == (\E p \in Procs : Step(p) \/ Clock(p) \/ Stray(p)) \/ Terminated

(* Threads are scheduled and deadlines (at most 3600 s) pass.              *)
Fairness == \A p \in Procs : WF_vars(Step(p)) /\ WF_vars(Clock(p))

Spec == Init /\ [][Next]_vars
FairSpec == Spec /\ Fairness
-----------------------------------------------------------------------------
TypeOK ==
    /\ state \in Seq(AgentStates) /\ Len(state) <= MaxAgents
    /\ parent \in Seq(Procs) /\ Len(parent) = Len(state)
    /\ pending \in [SignalNames -> Seq(Signal)]
    /\ history \in [SignalNames -> Seq(Signal)]
    /\ inbox \in [Procs -> Seq(Signal)]
    /\ asleep \subseteq Procs /\ expired \subseteq Procs
    /\ pc \in [Procs -> Labels] /\ ret \in [Procs -> Resumes]
    /\ awaits \in [Procs -> SignalNames]
    /\ answer \in [Procs -> {"none", "signal", "bail", "timeout"}]
    /\ ops \in Nat
    /\ threads \subseteq Ids /\ joining \subseteq Ids /\ reported \subseteq Ids

(* No wake-up is lost between the check of wait_for_signal and its sleep:  *)
(* a thread sleeping on a signal that is there, or with nobody left to     *)
(* emit, has a thread about to call notify_all.                            *)
CanLeave(p) == \/ pending[awaits[p]] # <<>>
               \/ ~ProducerAlive /\ state # <<>>
NoLostWakeup ==
    (\E p \in asleep : CanLeave(p)) => \E q \in Procs : pc[q] = "notify"

(* A wait that returned early because no agent was active is right to: no  *)
(* signal of the program arrives before the waiter goes on.                *)
Bailed(p) == pc[p] = "woken" /\ answer[p] = "bail"
BailIsSound ==
    \A p \in Procs : Bailed(p) /\ awaits[p] \in Names => pending[awaits[p]] = <<>>

(* The agents the main program spawned have ended when the run does, and   *)
(* the error of each one is in the exit code.                              *)
ChildrenJoined ==
    Exited => \A i \in Agents : parent[i] = Main =>
                 pc[i] = "dead" /\ (state[i] = "ERROR" => i \in reported)

(* Signals are consumed exactly once and in the order of their emission.   *)
Mail == INSTANCE Mailbox WITH
           Names <- SignalNames,
           sent <- [n \in SignalNames |-> history[n] \o pending[n]],
           taken <- [n \in SignalNames |-> Len(history[n])]
ImplementsMailbox == Mail!MSpec

(* Every run whose bodies are finite ends, whatever they wait for: the     *)
(* timeout bounds every wait.                                              *)
RunEnds == <>Exited

(* A signal that is queued while main, or an agent that main spawned,      *)
(* waits for its name is consumed, even if the deadline passes at that     *)
(* moment.  (Only they are sure to outlive their waits.  With MaxOps       *)
(* statements MaxOps \div 2 waits at most find a signal.)                  *)
Joinable(p) == p = Main \/ (p \in Agents /\ parent[p] = Main)
Awaited(n) == \E p \in Procs : Joinable(p) /\ pc[p] = "wait" /\ awaits[p] = n
SignalAnswersWait ==
    \A n \in SignalNames, k \in 0..(MaxOps \div 2 - 1) :
        (Awaited(n) /\ pending[n] # <<>> /\ Len(history[n]) = k)
            ~> Len(history[n]) > k
=============================================================================
