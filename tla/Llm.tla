--------------------------------- MODULE Llm --------------------------------
(***************************************************************************)
(* Operations of the language on a model: which provider is configured     *)
(* (synsema-runtime/src/llm_providers.rs), what is asked of it and what is *)
(* made of its reply, by a program (interpreter.rs) or by a caller of the  *)
(* validator, which asks again (synsema-llm/src/validator.rs).             *)
(***************************************************************************)
EXTENDS Naturals, Sequences, SequencesExt

CONSTANT MaxRetries    \* max_retries of the validator

VARIABLES
    config,    \* the process environment and the .env file, until they are read
    provider,  \* what they configure, or Offline
    stage,     \* "wiring", "idle", "asking" or "done"
    op,        \* the operation: [kind, options, validated]
    attempt,   \* calls of the model in this operation
    feedback,  \* what the request says of the earlier reply
    reply,     \* the content of the latest reply
    result     \* [valid, value]: an option's place, or Raw for the content itself
vars == <<config, provider, stage, op, attempt, feedback, reply, result>>
-----------------------------------------------------------------------------
(* Configuration.  A knob is absent, blank or has a value.                 *)
Absent == "absent"
Blank == "blank"
Providers == <<"anthropic", "openai", "minimax", "deepseek">>    \* in order of preference
KeyOf(p) == "key of " \o p
Knobs == {"PROVIDER", "MODEL", "MAX_TOKENS", "BASE_URL"} \cup Range(Providers)
Unset == [k \in Knobs |-> Absent]

resolve_knob(c, k) ==
    IF c.environ[k] \notin {Absent, Blank} THEN c.environ[k]
    ELSE IF c.dotenv[k] \notin {Absent, Blank} THEN c.dotenv[k] ELSE Absent

Offline == [name |-> "none", protocol |-> "none", key |-> Absent, model |-> Absent, tokens |-> Absent, base |-> Absent]
named(p) == CASE p = "claude" -> "anthropic" [] p = "gpt" -> "openai" [] OTHER -> p
Or(value, default) == IF value = Absent THEN default ELSE value

build_provider(p) == IF p \in {"anthropic", "minimax"} THEN "messages" ELSE "chat completions"

provider_from_config(c) ==
    LET keyed == SelectSeq(Providers, LAMBDA p : resolve_knob(c, p) # Absent)
        asked == resolve_knob(c, "PROVIDER")
        p == IF asked # Absent THEN named(asked)
             ELSE IF keyed # <<>> THEN keyed[1] ELSE "none"
        tokens == resolve_knob(c, "MAX_TOKENS")
    IN  IF p \notin Range(Providers) \/ resolve_knob(c, p) = Absent THEN Offline
        ELSE [name |-> p, protocol |-> build_provider(p), key |-> resolve_knob(c, p),
              model |-> Or(resolve_knob(c, "MODEL"), "default of " \o p),
              tokens |-> IF tokens \in {Absent, "0", "not a number"} THEN "4096" ELSE tokens,
              base |-> Or(resolve_knob(c, "BASE_URL"), "default of " \o p)]

-----------------------------------------------------------------------------
(* Replies.  What is said of n options: the text that is one of them, or   *)
(* their number, or "option <number>" somewhere, and the options whose     *)
(* text is in it (an empty option is in every text).                       *)
Says(exact, number, ordinal, mentions) ==
    [exact |-> exact, number |-> number, ordinal |-> ordinal, mentions |-> mentions]
Empties(options) == {i \in 1..Len(options) : options[i] = ""}
Alike(options, i) == {j \in 1..Len(options) : options[j] = options[i]}
Exactly(options) ==    \* the first of the options that are alike
    {s \in [exact: 1..Len(options), number: {0}, ordinal: {0}, mentions: SUBSET (1..Len(options))] :
        /\ Empties(options) \cup Alike(options, s.exact) \subseteq s.mentions
        /\ \A j \in Alike(options, s.exact) : s.exact <= j}
ByNumber(options) == [exact: {0}, number: 1..(Len(options) + 1), ordinal: {0}, mentions: {Empties(options)}]
InWords(options) ==
    {s \in [exact: {0}, number: {0}, ordinal: 0..(Len(options) + 1), mentions: SUBSET (1..Len(options))] :
        Empties(options) \subseteq s.mentions}
Sayings(options) == Exactly(options) \cup ByNumber(options) \cup InWords(options)
Content(kind, says) == [kind |-> kind, says |-> says]
Silent == Says(0, 0, 0, {})

(* What the endpoint may answer: not at all, with something that is no     *)
(* JSON, with the error of an API, without a message, or with blocks.      *)
Blocks == {<<>>, <<"text">>, <<"text", "tool">>, <<"tool", "tool">>}
Answers == [fault: {"unreachable", "not json", "api error", "no message"}, blocks: {<<>>}]
               \cup [fault: {"none"}, blocks: Blocks]

(* parse_anthropic_step and parse_openai_step: the first tool, else the    *)
(* text; the texts leave tools out.  A fault is told as a final text.      *)
parse_step(answer) ==
    IF answer.fault # "none" THEN [kind |-> "final", content |-> "error"]
    ELSE IF "tool" \in Range(answer.blocks) THEN [kind |-> "tool", content |-> "none"]
    ELSE [kind |-> "final", content |-> IF answer.blocks = <<>> THEN "empty" ELSE "text"]
parse_text(answer) ==
    IF answer.fault # "none" THEN "error"
    ELSE IF "text" \in Range(answer.blocks) THEN "text" ELSE "empty"

(* The text of an error may have anything in it, but it is not an option.  *)
Contents(answer, options) ==
    CASE parse_text(answer) = "empty" ->
             LET empty == Empties(options)
             IN  {Content("empty", Says(IF empty = {} THEN 0 ELSE CHOOSE i \in empty : TRUE, 0, 0, empty))}
      [] parse_text(answer) = "text" -> {Content("text", s) : s \in Sayings(options)}
      [] parse_text(answer) = "error" ->
             {Content("error", s) : s \in {t \in Sayings(options) : t.exact = 0 /\ t.number = 0}}
-----------------------------------------------------------------------------
(* The validator.  Options are written with or without brackets; an empty  *)
(* part stays where there are none.                                        *)
parse_options(written) ==
    IF written.bracketed THEN SelectSeq(written.parts, LAMBDA p : p # "")
    ELSE IF written.parts = <<"">> THEN <<>> ELSE written.parts

Raw == 0
Valid(value) == [valid |-> TRUE, value |-> value]
Invalid == [valid |-> FALSE, value |-> Raw]

(* Fault: the first of several options that are mentioned is taken.        *)
decide_first_mentioned(content, options) ==
    LET says == content.says IN
    IF says.mentions # {} THEN Valid(CHOOSE i \in says.mentions : \A j \in says.mentions : i <= j)
    ELSE Invalid

validate_decide(content, options) ==
    LET says == content.says
        inRange(n) == n \in 1..Len(options)
    IN  CASE options = <<>> -> Valid(Raw)
          [] options # <<>> /\ says.exact # 0 -> Valid(says.exact)
          [] options # <<>> /\ says.exact = 0 /\ inRange(says.number) -> Valid(says.number)
          [] options # <<>> /\ says.exact = 0 /\ ~inRange(says.number) ->
                IF inRange(says.ordinal) THEN Valid(says.ordinal)
                ELSE IF \E i \in says.mentions : says.mentions = {i}
                     THEN Valid(CHOOSE i \in says.mentions : TRUE) ELSE Invalid

(* Text that is not empty and does not look like an error.                 *)
validate_text_response(content) == IF content.kind = "text" THEN Valid(Raw) ELSE Invalid

validate(o, content) ==    \* validator_for
    IF o.kind = "decide" THEN validate_decide(content, o.options) ELSE validate_text_response(content)
-----------------------------------------------------------------------------
Written == {[bracketed |-> b, parts |-> p] : b \in BOOLEAN,
              p \in {<<"">>, <<"yes">>, <<"yes", "no">>, <<"yes", "no", "">>, <<"yes", "yes">>}}
Sources == {[Unset EXCEPT !["PROVIDER"] = p, !["anthropic"] = a, !["deepseek"] = d, !["MAX_TOKENS"] = t] :
              p \in {Absent, "claude", "deepseek", "unknown"}, a \in {Blank, KeyOf("anthropic")},
              d \in {Absent, KeyOf("deepseek")}, t \in {Absent, "0"}}
Operation(k, o, v) == [kind |-> k, options |-> o, validated |-> v]

Init == /\ config \in [environ: Sources, dotenv: Sources]
        /\ provider = Offline /\ stage = "wiring"
        /\ op = Operation("reason", <<>>, FALSE) /\ attempt = 0 /\ feedback = "none"
        /\ reply = Content("empty", Silent) /\ result = Invalid

(* wire_real_llm_provider: once, when the interpreter is made.             *)
Wire ==
    /\ stage = "wiring" /\ stage' = "idle"
    /\ provider' = provider_from_config(config)
    /\ config' = [environ |-> Unset, dotenv |-> Unset]
    /\ UNCHANGED <<op, attempt, feedback, reply, result>>

(* An operation of a program, or call_validated.  Offline a program gets a *)
(* placeholder.  The validator calls the model at most MaxRetries times.   *)
Begin(o) ==
    /\ stage \in {"idle", "done"}
    /\ op' = o /\ attempt' = 0 /\ feedback' = "none"
    /\ IF provider = Offline \/ (o.validated /\ MaxRetries = 0)
       THEN /\ stage' = "done"
            /\ result' = [valid |-> ~o.validated, value |-> Raw]
            /\ reply' = Content("placeholder", Silent)
       ELSE stage' = "asking" /\ UNCHANGED <<reply, result>>
    /\ UNCHANGED <<config, provider>>

(* One call of the model: a program takes its content as it is, and the    *)
(* validator asks again unless it is valid or was the last.                *)
Reply(answer) ==
    /\ stage = "asking"
    /\ \E content \in Contents(answer, op.options) :
         LET judged == IF op.validated THEN validate(op, content) ELSE Valid(Raw)
             over == judged.valid \/ attempt + 1 = MaxRetries
         IN  /\ attempt' = attempt + 1
             /\ reply' = content
             /\ stage' = IF over THEN "done" ELSE "asking"
             /\ result' = judged
             /\ feedback' = IF over THEN feedback
                            ELSE IF attempt + 2 = MaxRetries THEN "final" ELSE "again"
    /\ UNCHANGED <<config, provider, op>>

(* llm_step: a step for the program's own loop over its tools.             *)
Step(answer) ==
    /\ stage \in {"idle", "done"} /\ provider # Offline
    /\ stage' = "done" /\ attempt' = 1 /\ feedback' = "none"
    /\ op' = Operation(parse_step(answer).kind, <<>>, FALSE)
    /\ reply' = Content(parse_step(answer).content, Silent)
    /\ result' = Valid(Raw)
    /\ UNCHANGED <<config, provider>>

Operations == {Operation("decide", parse_options(w), v) : w \in Written, v \in BOOLEAN}
                  \cup {Operation("reason", <<>>, v) : v \in BOOLEAN}
Next == \/ Wire
        \/ \E o \in Operations : Begin(o)
        \/ \E a \in Answers : Reply(a) \/ Step(a)
Spec == Init /\ [][Next]_vars
-----------------------------------------------------------------------------
NamedBy(says) ==    \* the places a reply points to in words or by number
    {says.exact, says.number, says.ordinal} \cup says.mentions

\* A decision that the validator lets through is an option the reply points to,
\* and the only one where it gives no number; a text that it lets through is no
\* error and not empty.  It gives up only after as many calls as it may make,
\* and tells the model so before the last.  The key is that of the provider.
DecisionIsNamed ==
    /\ stage = "done" /\ op.validated /\ result.valid =>
         /\ op.kind = "decide" /\ op.options # <<>> =>
              /\ result.value \in 1..Len(op.options) /\ result.value \in NamedBy(reply.says)
              /\ result.value \in {reply.says.exact, reply.says.number, reply.says.ordinal}
                   \/ reply.says.mentions = {result.value}
         /\ op.kind = "reason" => reply.kind = "text"
    /\ op.validated => attempt <= MaxRetries
    /\ stage = "done" /\ op.validated /\ ~result.valid /\ provider # Offline => attempt = MaxRetries
    /\ stage = "asking" => (feedback = "final" <=> attempt > 0 /\ attempt + 1 = MaxRetries)
    /\ provider # Offline => provider.key = KeyOf(provider.name)

\* What decide gives is one of its options, once a provider is configured: what
\* the README says of responses to a program.
DecideGivesAnOption ==
    stage = "done" /\ op.kind = "decide" /\ op.options # <<>> /\ provider # Offline /\ result.valid
        => result.value # Raw
-----------------------------------------------------------------------------
\* Why: a reply says something of the options there are, and the validator asks
\* again only while it may call the model.
TypeOK ==
    /\ stage \in {"wiring", "idle", "asking", "done"}
    /\ op = Operation(op.kind, op.options, op.validated)
    /\ op.validated \in BOOLEAN /\ op.kind \in {"decide", "reason", "tool", "final"}
    /\ op.kind \in {"tool", "final"} => ~op.validated /\ stage # "asking"
    /\ attempt \in Nat
BeforeWiring ==
    stage = "wiring" => /\ config \in [environ: Sources, dotenv: Sources]
                        /\ provider = Offline /\ ~op.validated
Asking ==
    stage = "asking" => IF op.validated THEN attempt < MaxRetries
                        ELSE attempt = 0 /\ feedback = "none"
Inv == TypeOK /\ BeforeWiring /\ Asking /\ DecisionIsNamed
=============================================================================
