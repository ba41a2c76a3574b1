------------------------------ MODULE Recovery ------------------------------
(***************************************************************************)
(* Error recovery: the strategies a caller provides are tried in order,    *)
(* and then a human is asked, whose decision is kept as a precedent        *)
(* (synsema-runtime/src/recovery.rs, with the classes of error_reporter.rs)*)
(***************************************************************************)
EXTENDS Naturals, Sequences, FiniteSets, SequencesExt

CONSTANTS
    Retries,     \* max_retry_attempts
    Contexts,    \* what a decision may be about
    MaxErrors    \* bounds the errors that are handled

(* classify_error: the category of a message, whether it can be recovered  *)
(* from and whether it makes sense to try again.                           *)
Class(cat, rec, retry) == [category |-> cat, recoverable |-> rec, retry |-> retry]
classify_error ==
    [HTTP |-> Class("io", TRUE, TRUE), missing_file |-> Class("io", TRUE, FALSE),
     missing_key |-> Class("data", TRUE, FALSE), invariant |-> Class("logic", TRUE, FALSE),
     intent |-> Class("capability", FALSE, FALSE), other |-> Class("unknown", FALSE, FALSE)]
Errors == DOMAIN classify_error

Offers == SUBSET {"retry", "fallback", "partial", "alternative1", "alternative2"}
Order == <<"retry", "fallback", "partial", "alternative1", "alternative2">>
Place(s) == CHOOSE i \in DOMAIN Order : Order[i] = s

VARIABLES
    error, offer, context,
    tried,     \* the attempts of this error: [strategy, success]
    calls,     \* calls of the retry function
    stage,     \* "idle", "trying", "asking", "done"
    outcome,   \* "none", "recovered", "decided", "unrecoverable"
    human,     \* a human callback is configured
    log,       \* decision_log: [error, context, chosen]
    disk,      \* the saved decisions
    handled
vars == <<error, offer, context, tried, calls, stage, outcome, human, log, disk, handled>>

Init == /\ error = "other" /\ offer = {} /\ context = CHOOSE c \in Contexts : TRUE
        /\ tried = <<>> /\ calls = 0 /\ stage = "idle" /\ outcome = "none"
        /\ human \in BOOLEAN
        /\ log = <<>> /\ disk = <<>> /\ handled = 0
-----------------------------------------------------------------------------
(* handle_error begins: strategies are tried where the error can be        *)
(* recovered from or the caller offers some.                               *)
Raise(e, o, c) ==
    /\ stage \in {"idle", "done"} /\ handled < MaxErrors
    /\ error' = e /\ offer' = o /\ context' = c
    /\ tried' = <<>> /\ calls' = 0 /\ outcome' = "none" /\ stage' = "trying"
    /\ handled' = handled + 1
    /\ UNCHANGED <<human, log, disk>>

Untried == {s \in offer : \A i \in DOMAIN tried : tried[i].strategy # s}
Now(s) == /\ stage = "trying" /\ s \in Untried
          /\ \A t \in Untried : Place(s) <= Place(t)

Tried(s, success) ==
    /\ tried' = Append(tried, [strategy |-> s, success |-> success])
    /\ stage' = IF success THEN "done" ELSE "trying"
    /\ outcome' = IF success THEN "recovered" ELSE "none"
    /\ UNCHANGED <<error, offer, context, human, log, disk, handled>>

(* Fault: one call more than the attempts that are allowed.                *)
TryRetryOnceMore(success) ==
    /\ Now("retry") /\ calls <= Retries
    /\ calls' = calls + 1
    /\ IF success \/ calls' > Retries THEN Tried("retry", success)
       ELSE UNCHANGED <<error, offer, context, tried, stage, outcome, human, log, disk, handled>>

(* try_retry: a call of the function; the last one that fails is the       *)
(* failure of the strategy.                                                *)
TryRetry(success) ==
    /\ Now("retry") /\ calls < Retries
    /\ calls' = calls + 1
    /\ IF success \/ calls' = Retries THEN Tried("retry", success)
       ELSE UNCHANGED <<error, offer, context, tried, stage, outcome, human, log, disk, handled>>

UseFallback == Now("fallback") /\ Tried("fallback", TRUE) /\ UNCHANGED calls

TryOther(s, success) ==    \* try_partial, try_speculate
    /\ s \in {"partial", "alternative1", "alternative2"} /\ Now(s)
    /\ Tried(s, success) /\ UNCHANGED calls

Escalate ==
    /\ stage = "trying" /\ Untried = {}
    /\ IF human THEN stage' = "asking" /\ UNCHANGED outcome
       ELSE stage' = "done" /\ outcome' = "unrecoverable"
    /\ UNCHANGED <<error, offer, context, tried, calls, human, log, disk, handled>>
-----------------------------------------------------------------------------
(* generate_default_options: by the class of the error, always with Abort, *)
(* keyed A, B, C in order.                                                 *)
generate_default_options(e) ==
    LET c == classify_error[e]
        some == (IF c.retry THEN <<"Retry later">> ELSE <<>>)
                    \o (IF c.category = "io" THEN <<"Use fallback">> ELSE <<>>)
                    \o (IF c.category = "data" THEN <<"Skip this item">> ELSE <<>>)
    IN  IF some = <<>> THEN <<"Retry once", "Abort">> ELSE Append(some, "Abort")
Keys == <<"A", "B", "C">>

(* The answers of a human: a key, the beginning of a label, nothing, or    *)
(* something else.                                                         *)
Answers == {"A", "B", "C", "ABORT", "RETRY", "", "?"}
Begins(answer, label) ==
    \/ answer = ""
    \/ answer \in {"A", "ABORT"} /\ label = "Abort"
    \/ answer = "RETRY" /\ label \in {"Retry later", "Retry once"}

(* escalate_to_human: the answer is a key that is offered, or the first    *)
(* option it is the beginning of; else it is kept as it is.                *)
chosen(answer, options) ==
    LET keyed == {i \in DOMAIN options : Keys[i] = answer}
        begun == {i \in DOMAIN options : Begins(answer, options[i])}
    IN  IF keyed # {} THEN answer
        ELSE IF begun # {} THEN Keys[CHOOSE i \in begun : \A j \in begun : i <= j]
        ELSE answer

Decide(answer) ==
    /\ stage = "asking"
    /\ log' = Append(log, [error |-> error, context |-> context, answer |-> answer,
                           chosen |-> chosen(answer, generate_default_options(error))])
    /\ stage' = "done" /\ outcome' = "decided"
    /\ UNCHANGED <<error, offer, context, tried, calls, human, disk, handled>>

(* save_decisions writes the whole log; a new process begins with an empty *)
(* one and load_decisions appends what was saved.                          *)
Save ==
    /\ stage = "done" /\ disk # log
    /\ disk' = log
    /\ UNCHANGED <<error, offer, context, tried, calls, stage, outcome, human, log, handled>>
Restart ==
    /\ stage = "done"
    /\ log' = disk /\ stage' = "idle" /\ outcome' = "none" /\ tried' = <<>> /\ calls' = 0
    /\ UNCHANGED <<error, offer, context, human, disk, handled>>

(* find_precedent: the latest decision on an error of this kind in this    *)
(* context.                                                                *)
find_precedent(decisions, e, c) ==
    LET found == {i \in DOMAIN decisions : decisions[i].error = e /\ decisions[i].context = c}
    IN  IF found = {} THEN 0 ELSE CHOOSE i \in found : \A j \in found : j <= i

Next == \/ \E e \in Errors, o \in Offers, c \in Contexts : Raise(e, o, c)
        \/ \E ok \in BOOLEAN : TryRetry(ok)
        \/ UseFallback
        \/ \E s \in {"partial", "alternative1", "alternative2"}, ok \in BOOLEAN : TryOther(s, ok)
        \/ Escalate
        \/ \E a \in Answers : Decide(a)
        \/ Save \/ Restart
Spec == Init /\ [][Next]_vars
-----------------------------------------------------------------------------
Failed == {tried[i].strategy : i \in {j \in DOMAIN tried : ~tried[j].success}}
Succeeded == {tried[i].strategy : i \in {j \in DOMAIN tried : tried[j].success}}
Before(s) == {t \in offer : Place(t) < Place(s)}

\* A strategy is tried once, after all that come before it have failed, and
\* nothing is tried, and no human asked, after one has succeeded; the function
\* of a retry is called at most so many times.  A human is asked, or the error
\* given up, only when every strategy on offer has failed.
RecoveryInOrder ==
    /\ \A s \in Failed \cup Succeeded : Before(s) \subseteq Failed
    /\ Cardinality(Failed) + Cardinality(Succeeded) = Len(tried)
    /\ Cardinality(Succeeded) <= 1 /\ calls <= Retries
    /\ calls > 0 => "retry" \in offer
    /\ outcome = "recovered" <=> Succeeded # {}
    /\ (stage = "asking" \/ outcome \in {"decided", "unrecoverable"}) => Failed = offer
-----------------------------------------------------------------------------
\* Why: what was tried is what comes first of what is on offer, and all of it but
\* the last has failed.
Strategies == {"retry", "fallback", "partial", "alternative1", "alternative2"}
Done == {tried[i].strategy : i \in DOMAIN tried}

TypeOK ==
    /\ offer \in Offers /\ tried \in Seq([strategy : Strategies, success : BOOLEAN])
    /\ calls \in Nat /\ stage \in {"idle", "trying", "asking", "done"}
    /\ outcome \in {"none", "recovered", "decided", "unrecoverable"}
InTheirTurn ==
    /\ Done \subseteq offer
    /\ calls <= Retries /\ (calls > 0 => "retry" \in offer)
    /\ IsFiniteSet(Failed) /\ IsFiniteSet(Succeeded)
    /\ Cardinality(Failed) + Cardinality(Succeeded) = Len(tried)
OneSucceeds ==
    /\ Cardinality(Succeeded) <= 1 /\ (Succeeded # {} <=> outcome = "recovered")
    /\ \A s \in Succeeded : Before(s) \subseteq Failed
    /\ \A s \in Failed : Before(s) \subseteq Failed
    /\ stage \in {"idle", "trying", "asking"} => outcome = "none"
    /\ (stage = "asking" \/ outcome \in {"decided", "unrecoverable"}) => Failed = offer
Inv == TypeOK /\ InTheirTurn /\ OneSucceeds
=============================================================================
