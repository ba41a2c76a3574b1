------------------------------- MODULE SharedMC -----------------------------
(***************************************************************************)
(* Model checking of what the threads of one program share: a parallel_map, *)
(* the blackboard, the pipes of a process one of them runs.  None touches  *)
(* the state of another, so a behaviour is that of one of them, and the    *)
(* others stay as they begin.                                              *)
(***************************************************************************)
EXTENDS ParallelMap

CONSTANTS Agents, Keys, Values, Absent, MaxVersion,   \* of Blackboard
          Room, Cap, MaxOutput, Input                  \* of Process
VARIABLES which, data, log, at, awaits, answer,
          child, heir, stdin, pipe, wrote, reader, due, caller

board == <<data, log, at, awaits, answer>>
process == <<child, heir, stdin, pipe, wrote, reader, due, caller>>
B == INSTANCE Blackboard WITH pc <- at
P == INSTANCE Process

\* What stands for "no entry" is neither an entry nor a value.
ASSUME SharedAssumption ==
    /\ Absent \notin B!Entry \cup Values
    /\ Room \in Nat /\ Cap \in Nat /\ MaxOutput \in Nat /\ Input \in Nat

SharedInit ==
    /\ which \in {"parallel", "blackboard", "process"}
    /\ Init /\ B!Init /\ P!Init
    /\ which # "blackboard" => awaits = [a \in Agents |-> CHOOSE k \in Keys : TRUE]
    /\ which # "parallel" => outcome = [i \in Items |-> "value"]
    /\ which # "process" => stdin.left = 0

Mapping == which = "parallel" /\ UNCHANGED <<which, board, process>>
Sharing == which = "blackboard" /\ UNCHANGED <<which, vars, process>>
Running == which = "process" /\ UNCHANGED <<which, vars, board>>

SharedNext == \/ Mapping /\ Next
              \/ Sharing /\ B!Next
              \/ Running /\ P!Next

sharedVars == <<which, vars, board, process>>

(* The fairness of each, over the variables of all.                        *)
SharedSpec ==
    /\ SharedInit /\ [][SharedNext]_sharedVars
    /\ WF_sharedVars(Mapping /\ Dispatcher)
    /\ \A i \in Items : WF_sharedVars(Mapping /\ Job(i))
    /\ \A a \in Agents : /\ WF_sharedVars(Sharing /\ B!Notify(a))
                         /\ WF_sharedVars(Sharing /\ B!Turn(a))
                         /\ WF_sharedVars(Sharing /\ B!Expire(a))
    /\ WF_sharedVars(Running /\ P!Expire)
    /\ WF_sharedVars(Running /\ P!Poll)
    /\ WF_sharedVars(Running /\ P!Join)
    /\ \A s \in P!Streams : WF_sharedVars(Running /\ P!Reader(s))
-----------------------------------------------------------------------------
\* The call of parallel_map returns.
MapReturns == which = "parallel" => CallReturns

\* Nothing that was shared is lost from the record of a key, no thread sleeps on a
\* key that is there unless it is about to be woken, and a wait never answers that
\* a key is absent while it is there.
BoardIsTold ==
    /\ [](which = "blackboard" => B!HistoryIsComplete /\ B!NoLostWakeup)
    /\ [][which = "blackboard" => B!AbsentStep]_sharedVars

\* A wait for a key that is there to stay ends.
PresentKeyIsFound == B!PresentKeyIsFound

\* A call of run tells what its process wrote, and ends.
RunReturns == which = "process" => P!RunReturns
=============================================================================
