---------------------------- MODULE ResourceLock ----------------------------
(***************************************************************************)
(* The preventive lock manager of synsema-agents (resource_lock.rs).       *)
(* Agents declare "I work on X" in one of three modes; a request that is   *)
(* not compatible with the active locks of the resource is denied at once  *)
(* (the timeout argument is ignored by the code).  Every public method     *)
(* takes the one Mutex for its whole body, so each method is one action.   *)
(***************************************************************************)
EXTENDS Naturals, Sequences

CONSTANTS
    Agents,       \* names passed as the `agent' argument
    Resources,    \* names passed as the `resource' argument
    MaxLocks      \* bound: locks ever granted on one resource

Modes == {"Exclusive", "Shared", "Advisory"}
Lock == [agent: Agents, mode: Modes, active: BOOLEAN]

VARIABLES
    locks,     \* Inner.locks: resource -> every lock granted, in order
    answer     \* what the last call to acquire returned, or "none"

vars == <<locks, answer>>

Active(r) == {i \in DOMAIN locks[r] : locks[r][i].active}

Init == /\ locks = [r \in Resources |-> <<>>]
        /\ answer = "none"

(* Fault: one reader is enough to let another one in.                    *)
SharedWithAnyShared(r, a, m) ==
    \/ \A i \in Active(r) : locks[r][i].agent = a
    \/ m = "Shared" /\ \E i \in Active(r) : locks[r][i].mode = "Shared"
    \/ m = "Advisory"

(* check_compatible: nobody holds it, or only the caller does, or the mode *)
(* allows company.                                                         *)
Compatible(r, a, m) ==
    \/ \A i \in Active(r) : locks[r][i].agent = a
    \/ m = "Shared" /\ \A i \in Active(r) : locks[r][i].mode = "Shared"
    \/ m = "Advisory"

Acquire(a, r, m) ==
    /\ Len(locks[r]) < MaxLocks
    /\ IF Compatible(r, a, m)
       THEN /\ locks' = [locks EXCEPT ![r] =
                           Append(@, [agent |-> a, mode |-> m, active |-> TRUE])]
            /\ answer' = "Acquired"
       ELSE /\ UNCHANGED locks
            /\ answer' = "Denied"

Held(r, a) == {i \in Active(r) : locks[r][i].agent = a}

(* The oldest active lock of the agent goes, whatever its mode.            *)
Release(a, r) ==
    /\ answer' = "none"
    /\ \/ Held(r, a) = {} /\ UNCHANGED locks
       \/ \E i \in Held(r, a) :
             /\ \A j \in Held(r, a) : i <= j
             /\ locks' = [locks EXCEPT ![r][i].active = FALSE]

ReleaseAll(a) ==
    /\ locks' = [r \in Resources |-> [i \in DOMAIN locks[r] |->
                   [locks[r][i] EXCEPT !.active = @ /\ locks[r][i].agent # a]]]
    /\ answer' = "none"

Next == \E a \in Agents :
           \/ ReleaseAll(a)
           \/ \E r \in Resources : Release(a, r)
           \/ \E r \in Resources, m \in Modes : Acquire(a, r, m)

Spec == Init /\ [][Next]_vars
-----------------------------------------------------------------------------
TypeOK == /\ locks \in [Resources -> Seq(Lock)]
          /\ answer \in {"none", "Acquired", "Denied"}

(* "exclusive (un agente), shared (varios lectores, sin escritores)": while *)
(* an agent holds a resource exclusively, whatever it was granted before    *)
(* and whatever it released, everybody else's lock is advisory.             *)
Exclusion ==
    \A r \in Resources : \A i, j \in Active(r) :
        locks[r][i].mode = "Exclusive" /\ locks[r][j].agent # locks[r][i].agent
            => locks[r][j].mode = "Advisory"
=============================================================================
