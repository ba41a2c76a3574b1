----------------------------- MODULE Speculation ----------------------------
(***************************************************************************)
(* Speculative execution: snapshots of an environment, rollback, commit    *)
(* and forks (synsema-runtime/src/speculative.rs).  An environment is a    *)
(* chain of two places: its own bindings and those of its parent.  Values  *)
(* are copied deeply, so a place holds a plain value; every write gives a  *)
(* new one, which tells where a value comes from.                          *)
(***************************************************************************)
EXTENDS Naturals, Sequences, FiniteSets, SequencesExt, FiniteSetsExt

CONSTANTS
    MaxContexts,  \* bounds the speculations of a behaviour
    MaxWrites     \* bounds the writes

VARIABLES
    env,       \* place -> the write that gave its value, 0 at first
    contexts,  \* every context begun: [snapshot, committed, rolledBack]
    active,    \* the engine's count of speculations
    branches,  \* the results of the latest fork: the state of each branch at its end
    writes,    \* every write: [place, within], the contexts open at the time
    stacked,   \* contexts were finished once each, innermost first
    applied    \* a branch was chosen: what was written since the fork is gone
vars == <<env, contexts, active, branches, writes, stacked, applied>>

Places == {"own", "parent"}
Environments == [Places -> 0..MaxWrites]

Init == /\ env = [p \in Places |-> 0]
        /\ contexts = <<>> /\ active = 0 /\ branches = <<>>
        /\ writes = <<>> /\ stacked = TRUE /\ applied = FALSE

Open == {c \in DOMAIN contexts : ~contexts[c].committed /\ ~contexts[c].rolledBack}
NewWrite(n) == Len(writes) + n

Write(place) ==
    /\ Len(writes) < MaxWrites
    /\ env' = [env EXCEPT ![place] = NewWrite(1)]
    /\ writes' = Append(writes, [place |-> place, within |-> Open])
    /\ UNCHANGED <<contexts, active, branches, stacked, applied>>

Begin ==
    /\ Len(contexts) < MaxContexts
    /\ contexts' = Append(contexts, [snapshot |-> env, committed |-> FALSE, rolledBack |-> FALSE])
    /\ active' = active + 1
    /\ UNCHANGED <<env, branches, writes, stacked, applied>>

OneLess == IF active > 0 THEN active - 1 ELSE 0
Finished(c) == stacked' = (stacked /\ c \in Open /\ \A d \in Open : d <= c)

(* Fault: the snapshot has no parent.                                      *)
RestoreOwn(snapshot) == [env EXCEPT !.own = snapshot.own]

(* EnvironmentSnapshot::restore: the bindings of the whole chain.          *)
restore(snapshot) == snapshot

(* rollback: not after a commit; nothing keeps a second one from happening.*)
Rollback(c) ==
    /\ ~contexts[c].committed
    /\ Finished(c)
    /\ env' = restore(contexts[c].snapshot)
    /\ contexts' = [contexts EXCEPT ![c].rolledBack = TRUE]
    /\ active' = OneLess
    /\ UNCHANGED <<branches, writes, applied>>

Commit(c) ==
    /\ ~contexts[c].rolledBack
    /\ Finished(c)
    /\ contexts' = [contexts EXCEPT ![c].committed = TRUE]
    /\ active' = OneLess
    /\ UNCHANGED <<env, branches, writes, applied>>

(* fork: the branches run one after another, each on a copy of the         *)
(* environment's own bindings and on the same parent; the state of each is *)
(* kept as it was at its end.  A branch writes its own place and, if it is *)
(* in `reaching', the parent's.                                            *)
Fork(reaching) ==
    /\ branches = <<>> /\ Len(writes) + 4 <= MaxWrites
    /\ LET parentAfter(b) == LET done == {c \in reaching : c <= b}
                             IN  IF done = {} THEN env.parent ELSE NewWrite(2 + Max(done))
       IN  /\ branches' = [b \in 1..2 |-> [own |-> NewWrite(b), parent |-> parentAfter(b)]]
           /\ env' = [env EXCEPT !.parent = parentAfter(2)]
    /\ writes' = writes \o [i \in 1..4 |->
                     [place |-> IF i > 2 /\ i - 2 \in reaching THEN "parent" ELSE "branch",
                      within |-> Open]]
    /\ UNCHANGED <<contexts, active, stacked, applied>>

(* choose_and_apply: an index that is not there changes nothing.           *)
ChooseAndApply(i) ==
    /\ branches # <<>>
    /\ IF i \in DOMAIN branches
       THEN /\ env' = restore(branches[i]) /\ applied' = TRUE
            /\ writes' = [writes EXCEPT ![branches[i].own].place = "own"]
       ELSE UNCHANGED <<env, applied, writes>>
    /\ branches' = <<>>
    /\ UNCHANGED <<contexts, active, stacked>>

is_speculating == active > 0

Next == \/ \E p \in Places : Write(p)
        \/ Begin
        \/ \E c \in DOMAIN contexts : Rollback(c) \/ Commit(c)
        \/ \E reaching \in SUBSET (1..2) : Fork(reaching)
        \/ \E i \in 1..3 : ChooseAndApply(i)
Spec == Init /\ [][Next]_vars
-----------------------------------------------------------------------------
Undone(w) == \E c \in writes[w].within : contexts[c].rolledBack
Surviving(place) == {0} \cup {w \in DOMAIN writes : writes[w].place = place /\ ~Undone(w)}

\* Where speculations are finished as they nest, each place holds the latest
\* write that no rolled back speculation encloses: nothing of an undone
\* speculation stays, and nothing else is lost, whatever was committed inside.
\* `is_speculating' then tells whether one is open.  And what a branch that
\* was not chosen did to its own bindings is never seen.
SpeculationUndone ==
    /\ stacked => /\ ~applied => \A p \in Places : env[p] = Max(Surviving(p))
                  /\ is_speculating <=> Open # {}
    /\ env.own # 0 => writes[env.own].place = "own"
-----------------------------------------------------------------------------
\* Why: the writes that survive when a speculation is undone are those that did
\* when it began, as long as what is open is nested.
Context == [snapshot: [Places -> Nat], committed: BOOLEAN, rolledBack: BOOLEAN]
Written == [place: {"own", "parent", "branch"}, within: SUBSET Nat]
TypeOK ==
    /\ env \in [Places -> Nat] /\ active \in Nat
    /\ contexts \in Seq(Context) /\ writes \in Seq(Written)
    /\ \A w \in DOMAIN writes : writes[w].within \subseteq DOMAIN contexts
    /\ stacked \in BOOLEAN /\ applied \in BOOLEAN
    /\ branches = <<>> \/ branches \in [1..2 -> [own: DOMAIN writes, parent: Nat]]
Owned(e) == e.own # 0 => e.own \in DOMAIN writes /\ writes[e.own].place = "own"
OwnIsOwn == Owned(env) /\ \A c \in DOMAIN contexts : Owned(contexts[c].snapshot)
Counted == stacked => active = Cardinality(Open)
Latest == \A p \in Places : env[p] \in Surviving(p) /\ \A w \in Surviving(p) : w <= env[p]
Nested ==
    \A w \in DOMAIN writes : \A c \in Open \cap writes[w].within : \A d \in Open :
        d <= c => d \in writes[w].within
Before(c, w) == w = 0 \/ c \notin writes[w].within
Restores ==
    \A c \in Open, p \in Places :
        /\ contexts[c].snapshot[p] \in Surviving(p) /\ Before(c, contexts[c].snapshot[p])
        /\ \A w \in Surviving(p) : Before(c, w) => w <= contexts[c].snapshot[p]
Inv == TypeOK /\ OwnIsOwn /\ Counted /\ (stacked /\ ~applied => Latest /\ Nested /\ Restores)
=============================================================================
