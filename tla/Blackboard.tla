----------------------------- MODULE Blackboard -----------------------------
(***************************************************************************)
(* The shared blackboard of the swarm (synsema-agents/src/blackboard.rs):  *)
(* `share' writes a key, `observe' reads it, and an embedder can delete a  *)
(* key or block until it exists.  One Mutex and one Condvar: write drops   *)
(* the lock before it calls notify_all, so those are two steps.            *)
(***************************************************************************)
EXTENDS Naturals, Sequences

CONSTANTS
    Agents,       \* the threads that use the blackboard
    Keys, Values,
    Absent,       \* "no entry", None
    MaxVersion    \* bound: writes to a key between two deletions

Write0 == [value: Values, by: Agents]
Entry == [value: Values, by: Agents, version: Nat, history: Seq(Write0)]

VARIABLES
    data,      \* Inner.data: key -> its entry, or Absent
    log,       \* key -> the writes since it last came to be, in order
    pc,        \* agent -> "run", "notify", "wait", "asleep" or "timed_out"
    awaits,    \* the key it waits for
    answer     \* what its last wait or read returned

vars == <<data, log, pc, awaits, answer>>

Init == /\ data = [k \in Keys |-> Absent]
        /\ log = [k \in Keys |-> <<>>]
        /\ pc = [a \in Agents |-> "run"]
        /\ awaits \in [Agents -> Keys]
        /\ answer = [a \in Agents |-> Absent]

Here(k) == data[k] # Absent
-----------------------------------------------------------------------------
(* Fault: an overwritten value is only kept the first time.                *)
OverwriteOnce(k, v, a) ==
    [data[k] EXCEPT !.value = v, !.by = a, !.version = @ + 1,
                    !.history = IF @ = <<>>
                                THEN <<[value |-> data[k].value, by |-> data[k].by]>> ELSE @]

(* The entry after a write to a key that has one.                          *)
Overwrite(k, v, a) ==
    [data[k] EXCEPT !.value = v, !.by = a, !.version = @ + 1,
                    !.history = Append(@, [value |-> data[k].value, by |-> data[k].by])]

(* Fault: a write wakes nobody.                                            *)
WriteQuietly(a, k, v) ==
    /\ pc[a] = "run"
    /\ Here(k) => data[k].version < MaxVersion
    /\ data' = [data EXCEPT ![k] =
                  IF Here(k) THEN Overwrite(k, v, a)
                  ELSE [value |-> v, by |-> a, version |-> 1, history |-> <<>>]]
    /\ log' = [log EXCEPT ![k] = Append(@, [value |-> v, by |-> a])]
    /\ UNCHANGED <<pc, awaits, answer>>

Write(a, k, v) ==
    /\ pc[a] = "run"
    /\ Here(k) => data[k].version < MaxVersion
    /\ data' = [data EXCEPT ![k] =
                  IF Here(k) THEN Overwrite(k, v, a)
                  ELSE [value |-> v, by |-> a, version |-> 1, history |-> <<>>]]
    /\ log' = [log EXCEPT ![k] = Append(@, [value |-> v, by |-> a])]
    /\ pc' = [pc EXCEPT ![a] = "notify"]
    /\ UNCHANGED <<awaits, answer>>

Notify(a) ==
    /\ pc[a] = "notify"
    /\ pc' = [b \in Agents |-> IF b = a THEN "run"
                               ELSE IF pc[b] = "asleep" THEN "wait" ELSE pc[b]]
    /\ UNCHANGED <<data, log, awaits, answer>>

(* Fault: the entry is given instead of its value.                         *)
ReadEntry(a, k) ==
    /\ pc[a] = "run"
    /\ answer' = [answer EXCEPT ![a] = data[k]]
    /\ UNCHANGED <<data, log, pc, awaits>>

Read(a, k) ==
    /\ pc[a] = "run"
    /\ answer' = [answer EXCEPT ![a] = IF Here(k) THEN data[k].value ELSE Absent]
    /\ UNCHANGED <<data, log, pc, awaits>>

(* A deletion tells nobody; the next write starts again at version 1.      *)
Delete(a, k) ==
    /\ pc[a] = "run"
    /\ data' = [data EXCEPT ![k] = Absent]
    /\ log' = [log EXCEPT ![k] = <<>>]
    /\ UNCHANGED <<pc, awaits, answer>>
-----------------------------------------------------------------------------
(* wait_for_key.                                                           *)

Wait(a, k) ==
    /\ pc[a] = "run"
    /\ pc' = [pc EXCEPT ![a] = "wait"]
    /\ awaits' = [awaits EXCEPT ![a] = k]
    /\ UNCHANGED <<data, log, answer>>

Returns(a, v) == /\ pc' = [pc EXCEPT ![a] = "run"]
                 /\ answer' = [answer EXCEPT ![a] = v]
                 /\ UNCHANGED <<data, log, awaits>>

(* Fault: a wait that timed out does not look at the key once more.        *)
FindUnlessLate(a) == /\ pc[a] = "wait" /\ Here(awaits[a])
                     /\ Returns(a, data[awaits[a]].value)

Find(a) == /\ pc[a] \in {"wait", "timed_out"} /\ Here(awaits[a])
           /\ Returns(a, data[awaits[a]].value)

Sleep(a) == /\ pc[a] = "wait" /\ ~Here(awaits[a])
            /\ pc' = [pc EXCEPT ![a] = "asleep"]
            /\ UNCHANGED <<data, log, awaits, answer>>

(* A condition variable may wake a thread for no reason.                   *)
Spurious(a) == /\ pc[a] = "asleep"
               /\ pc' = [pc EXCEPT ![a] = "wait"]
               /\ UNCHANGED <<data, log, awaits, answer>>

(* The whole timeout has passed in one sleep.                              *)
Expire(a) == /\ pc[a] = "asleep"
             /\ pc' = [pc EXCEPT ![a] = "timed_out"]
             /\ UNCHANGED <<data, log, awaits, answer>>

(* Fault: the timeout is believed although the key is there by now.        *)
GiveUpLate(a) == pc[a] = "timed_out" /\ Returns(a, Absent)

GiveUp(a) == /\ pc[a] = "timed_out" /\ ~Here(awaits[a])
             /\ Returns(a, Absent)
-----------------------------------------------------------------------------
Turn(a) == Find(a) \/ Sleep(a) \/ GiveUp(a)
Calls(a) == \E k \in Keys : \/ \E v \in Values : Write(a, k, v)
                            \/ Read(a, k) \/ Delete(a, k) \/ Wait(a, k)

Next == \E a \in Agents : Calls(a) \/ Notify(a) \/ Turn(a) \/ Expire(a) \/ Spurious(a)

Spec == Init /\ [][Next]_vars

(* Threads that are inside a method run, and a sleep ends when its time is *)
(* up.  Nothing obliges a program to call a method.                        *)
FairSpec == Spec /\ \A a \in Agents :
               WF_vars(Notify(a)) /\ WF_vars(Turn(a)) /\ WF_vars(Expire(a))
-----------------------------------------------------------------------------
TypeOK == /\ data \in [Keys -> Entry \cup {Absent}]
          /\ log \in [Keys -> Seq(Write0)]
          /\ pc \in [Agents -> {"run", "notify", "wait", "asleep", "timed_out"}]
          /\ awaits \in [Agents -> Keys]
          /\ answer \in [Agents -> Values \cup {Absent}]

(* Nothing that was shared is lost from the record of a key: its history,  *)
(* then its value, are the writes since it came to be, and it counts them. *)
HistoryIsComplete ==
    \A k \in Keys : Here(k) =>
        /\ log[k] = Append(data[k].history, [value |-> data[k].value, by |-> data[k].by])
        /\ data[k].version = Len(log[k])

(* No thread sleeps on a key that is there unless it is about to be woken. *)
NoLostWakeup ==
    (\E a \in Agents : pc[a] = "asleep" /\ Here(awaits[a]))
        => \E b \in Agents : pc[b] = "notify"

\* Why the record is complete: nothing is recorded of a key that is not there.
AbsentIsBlank == \A k \in Keys : ~Here(k) => log[k] = <<>>
Inv == TypeOK /\ AbsentIsBlank /\ HistoryIsComplete /\ NoLostWakeup

(* A wait never answers that the key is absent while it is there, however  *)
(* late the write was.                                                     *)
Waiting(a) == pc[a] \in {"wait", "asleep", "timed_out"}
AbsentStep ==
    \A a \in Agents : Waiting(a) /\ pc'[a] = "run" =>
        answer'[a] = IF Here(awaits[a]) THEN data[awaits[a]].value ELSE Absent
AbsentIsTrue == [][AbsentStep]_vars

(* A wait for a key that is there to stay ends.                            *)
PresentKeyIsFound ==
    \A a \in Agents, k \in Keys :
        (<>[]Here(k)) => [](Waiting(a) /\ awaits[a] = k => <>~Waiting(a))
=============================================================================
