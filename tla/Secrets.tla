------------------------------ MODULE Secrets ------------------------------
(***************************************************************************)
(* Variables of the environment and secrets (synsema-stdlib/src/secrets.rs): *)
(* where their values come from, what is made of them, and reveal with its *)
(* log, which outlives the process and which other programs write too.  Of *)
(* a value only what it was made of is known.                              *)
(***************************************************************************)
EXTENDS Naturals, FiniteSets

CONSTANTS
    Names,                                \* of variables
    EnvGrants, SecretGrants,              \* the names the programs may ask for
    RevealGrants,                         \* the labels they may reveal
    Callers,
    MaxValues, MaxEntries                 \* bound the values a caller holds, and the log

Label == Names \cup {"sealed", "bearer"}
Entry == [label: Label, granted: BOOLEAN]
Plain(of) == [secret |-> FALSE, label |-> "none", of |-> of]
Sealed(label, of) == [secret |-> TRUE, label |-> label, of |-> of]

VARIABLES
    defined,         \* the names that the environment or the file .env define
    held,            \* caller -> the values it has
    step,            \* caller -> "idle", or the reveal it is in
    log,             \* entry -> how many times it is in the log
    told,            \* history: label -> how many texts reveal gave for it
    opened           \* history: what those texts were made of
vars == <<defined, held, step, log, told, opened>>

Idle == [op |-> "idle"]
Init == /\ defined \in SUBSET Names
        /\ held = [c \in Callers |-> {Plain({})}]
        /\ step = [c \in Callers |-> Idle]
        /\ log = [e \in Entry |-> 0]
        /\ told = [l \in Label |-> 0] /\ opened = {}

Holds(c, v) ==
    /\ step[c] = Idle /\ Cardinality(held[c] \cup {v}) <= MaxValues
    /\ held' = [held EXCEPT ![c] = @ \cup {v}]
    /\ UNCHANGED <<defined, step, log, told, opened>>
-----------------------------------------------------------------------------
(* A variable that neither defines has the default, a text of the program. *)
Defined(name, hasDefault) == name \in defined \/ hasDefault
resolve(name) == {name} \cap defined
env(c, name, hasDefault) ==
    /\ name \in EnvGrants /\ Defined(name, hasDefault)
    /\ Holds(c, Plain(resolve(name)))
secret(c, name, hasDefault) ==
    /\ name \in SecretGrants /\ Defined(name, hasDefault)
    /\ Holds(c, Sealed(name, resolve(name)))

(* What a program makes of its values.  Shown as a text, a secret is its   *)
(* label in brackets.                                                      *)
as_secret(v, label) == IF v.secret THEN v ELSE Sealed(label, v.of)
bearer(v) == Sealed(IF v.secret THEN v.label ELSE "bearer", v.of)
Shown(v) == IF v.secret THEN Plain({}) ELSE v
(* Fault: a secret that is joined to a text is a text.                     *)
joined_as_left(a, b) ==
    [secret |-> a.secret, label |-> a.label, of |-> a.of \cup b.of]
secret_concat(a, b) ==
    IF a.secret \/ b.secret
    THEN Sealed(IF a.secret THEN a.label ELSE b.label, a.of \cup b.of)
    ELSE Plain(a.of \cup b.of)

Make(c) == \E a, b \in held[c] :
    \E v \in {as_secret(a, "sealed"), bearer(a), Shown(a), secret_concat(a, b)}
                \cup {as_secret(a, l) : l \in RevealGrants} : Holds(c, v)
-----------------------------------------------------------------------------
(* reveal asks for the label of the secret it is given.  A refusal is      *)
(* recorded if that is possible; a text is given only once the entry is    *)
(* in the log.                                                             *)
write_audit_entry(label, granted) ==
    LET e == [label |-> label, granted |-> granted]
    IN  log[e] < MaxEntries /\ log' = [log EXCEPT ![e] = @ + 1]

reveal(c, v) ==
    /\ step[c] = Idle /\ v \in held[c] /\ v.secret
    /\ step' = [step EXCEPT ![c] =
           [op |-> IF v.label \in RevealGrants THEN "granted" ELSE "denied", value |-> v]]
    /\ UNCHANGED <<defined, held, log, told, opened>>
Record(c) ==
    /\ step[c].op \in {"granted", "denied"}
    /\ write_audit_entry(step[c].value.label, step[c].op = "granted")
    /\ step' = IF step[c].op = "granted" THEN [step EXCEPT ![c].op = "recorded"]
               ELSE [step EXCEPT ![c] = Idle]
    /\ UNCHANGED <<defined, held, told, opened>>
CannotRecord(c) ==
    /\ step[c].op \in {"granted", "denied"}
    /\ step' = [step EXCEPT ![c] = Idle]
    /\ UNCHANGED <<defined, held, log, told, opened>>
Give(c) ==
    LET v == step[c].value
    IN  /\ step[c].op = "recorded" /\ step' = [step EXCEPT ![c] = Idle]
        /\ held' = [held EXCEPT ![c] = @ \cup {Plain(v.of)}]
        /\ told' = [told EXCEPT ![v.label] = @ + 1] /\ opened' = opened \cup v.of
        /\ UNCHANGED <<defined, log>>

(* The process ends, and another begins: the log stays.                 *)
Restart ==
    /\ UNCHANGED defined
    /\ held' = [c \in Callers |-> {Plain({})}] /\ step' = [c \in Callers |-> Idle]
    /\ UNCHANGED <<log, told, opened>>

Next == \/ Restart
        \/ \E c \in Callers :
               \/ \E n \in Names, d \in BOOLEAN : env(c, n, d) \/ secret(c, n, d)
               \/ Make(c) \/ \E v \in held[c] : reveal(c, v)
               \/ Record(c) \/ CannotRecord(c) \/ Give(c)
Spec == Init /\ [][Next]_vars
-----------------------------------------------------------------------------
\* For every text that reveal gave there is an entry of its own in the log, under
\* a label the program may reveal, whatever fails or ends in between.
EachIsRecorded ==
    \A l \in Label :
        /\ told[l] <= log[[label |-> l, granted |-> TRUE]]
        /\ told[l] > 0 => l \in RevealGrants

\* A secret is in a text only if some reveal gave it, or the programs may have its
\* variable as a text: joined, sealed again or shown it stays a secret.
OnlyRevealOpens ==
    \A c \in Callers : \A v \in held[c] :
        ~v.secret => v.of \subseteq EnvGrants \cup opened

SecretsAreRecorded == EachIsRecorded /\ OnlyRevealOpens
-----------------------------------------------------------------------------
\* Why: every text that reveal gave, or is about to give, has its entry.
Value == [secret : BOOLEAN, label : Label \cup {"none"}, of : SUBSET Names]
SecretValue == {v \in Value : v.secret /\ v.label \in Label}
Writing(l) == {c \in Callers : step[c].op = "recorded" /\ step[c].value.label = l}

TypeOK ==
    /\ defined \subseteq Names /\ opened \subseteq Names
    /\ held \in [Callers -> SUBSET {v \in Value : v.secret => v.label \in Label}]
    /\ step \in [Callers -> {Idle} \cup [op : {"granted", "denied", "recorded"}, value : SecretValue]]
    /\ log \in [Entry -> Nat] /\ told \in [Label -> Nat]
Granted == \A c \in Callers :
    step[c].op \in {"granted", "recorded"} => step[c].value.label \in RevealGrants
Written == \A l \in Label :
    /\ IsFiniteSet(Writing(l))
    /\ told[l] + Cardinality(Writing(l)) <= log[[label |-> l, granted |-> TRUE]]
    /\ told[l] > 0 => l \in RevealGrants
Inv == TypeOK /\ Granted /\ Written /\ OnlyRevealOpens
=============================================================================
