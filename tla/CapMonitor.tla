----------------------------- MODULE CapMonitor -----------------------------
(***************************************************************************)
(* What the runtime promises about the capabilities of a program: a stack  *)
(* of sets, of which the top one counts.  Only the outermost set can grow, *)
(* and only under the ceiling; a scope starts with no more than what is    *)
(* allowed around it; and leaving it, in whatever way, brings back what    *)
(* was allowed before.                                                     *)
(***************************************************************************)
EXTENDS Capabilities, Sequences, SequencesExt

VARIABLES
    scopes,    \* the sets, outermost first
    top,       \* the ceiling
    base       \* what a fresh interpreter is granted

InitMonitor == /\ top \subseteq Cap
               /\ base \subseteq Cap
               /\ \A c \in base : Within(top, c)
               /\ \E set \in SUBSET Cap :
                      (\A c \in set : Within(top, c)) /\ scopes = <<set>>

Require(c) == /\ Len(scopes) = 1
              /\ Within(top, c)
              /\ scopes' = <<scopes[1] \cup {c}>>

Enter(set) == /\ \A c \in set : Allows(Last(scopes), c)
              /\ scopes' = Append(scopes, set)

Leave == /\ Len(scopes) > 1
         /\ scopes' = Front(scopes)

(* A request is over, or its interpreter is dropped.                       *)
Renew == scopes' = <<base>>

MonitorNext == /\ \/ \E c \in Cap : Require(c)
                  \/ \E set \in SUBSET Cap : Enter(set)
                  \/ Leave \/ Renew
               /\ UNCHANGED <<top, base>>

MonitorSpec == InitMonitor /\ [][MonitorNext]_<<scopes, top, base>>
=============================================================================
