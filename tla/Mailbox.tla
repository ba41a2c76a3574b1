------------------------------ MODULE Mailbox -------------------------------
(***************************************************************************)
(* What the swarm promises about signals, with no threads, locks or        *)
(* condition variables: each name is a queue; an emission goes to its end, *)
(* and a wait that is answered gets the oldest one nobody was given.       *)
(* A signal is consumed: it is given once, to one process.                 *)
(***************************************************************************)
EXTENDS Naturals, Sequences

CONSTANTS
    Procs,     \* who may emit and wait
    Names      \* names of signals

VARIABLES
    sent,      \* name -> everything ever emitted under it, in order
    taken,     \* name -> how many of those have been given to a wait
    inbox      \* process -> what its waits returned, in order

mailbox == <<sent, taken, inbox>>

MInit == /\ sent = [n \in Names |-> <<>>]
         /\ taken = [n \in Names |-> 0]
         /\ inbox = [p \in Procs |-> <<>>]

Emit(p, n) ==
    /\ sent' = [sent EXCEPT ![n] =
                  Append(@, [name |-> n, sender |-> p, num |-> Len(@) + 1])]
    /\ UNCHANGED <<taken, inbox>>

Take(p, n) ==
    /\ taken[n] < Len(sent[n])
    /\ inbox' = [inbox EXCEPT ![p] = Append(@, sent[n][taken[n] + 1])]
    /\ taken' = [taken EXCEPT ![n] = @ + 1]
    /\ UNCHANGED sent

MNext == \E p \in Procs, n \in Names : Emit(p, n) \/ Take(p, n)

MSpec == MInit /\ [][MNext]_mailbox
=============================================================================
