------------------------------- MODULE Parser -------------------------------
(***************************************************************************)
(* The parser (synsema-core/src/parser.rs): recursive descent with fixed   *)
(* lookahead.  Each parse_ function of the code is a rule of Grammar: a    *)
(* sequence of items, in the order in which the code looks at the tokens.  *)
(* Run reads a rule against a stream of tokens, and never goes back.       *)
(*                                                                         *)
(* A node of the tree is its kind k, its words w (names, operators, texts) *)
(* and its children c.  A list of statements is a child of kind "Block".   *)
(***************************************************************************)
EXTENDS Lexer, TLC

CONSTANTS
    Words,      \* the identifiers that occur, soft keywords included
    Texts,      \* the text literals that occur
    Numbers,    \* the number literals
    Templates,  \* template token |-> its segments, a hole as the lexemes in it
    RouteSpecs  \* text literal of a route |-> [method, slash, segs]

Punctuation ==
    {"+", "-", "*", "/", "%", "**", "==", "!=", "<", ">", "<=", ">=", "=",
     "->", "=>", "|>", "(", ")", "[", "]", "{", "}", ",", ".", "...", ":"}
Tokens == keyword_lookup \cup Words \cup Texts \cup Numbers
            \cup DOMAIN Templates \cup Punctuation \cup {NL, INDENT, DEDENT, EOF}

Node(kind, words, children) == [k |-> kind, w |-> words, c |-> children]
TextLiteral(text) == Node("TextLiteral", <<text>>, <<>>)

-----------------------------------------------------------------------------
(***************************************************************************)
(* Items.                                                                  *)
(***************************************************************************)
\* A token of a set that must come now: kept as a word of the node, or not.
Expect(set) == [i |-> "token", set |-> set, keep |-> FALSE]
Keep(set) == [i |-> "token", set |-> set, keep |-> TRUE]
Tok(token) == Expect({token})
expect_name == Keep(Words)
Text == Keep(Texts)
\* A word the code adds itself, to tell two shapes of a node apart.
Mark(word) == [i |-> "mark", word |-> word]
\* A rule, whose node becomes a child.
Rule(name) == [i |-> "rule", name |-> name]
\* A node of its own, or one around the child read last.
New(kind, items) == [i |-> "node", kind |-> kind, around |-> FALSE, items |-> items]
Around(kind, items) == [i |-> "node", kind |-> kind, around |-> TRUE, items |-> items]
skip_newlines == [i |-> "newlines"]
Fail == [i |-> "fail"]
\* The first alternative whose lookahead, a sequence of sets, is what comes.
Choose(alternatives) == [i |-> "choose", alts |-> alternatives]
When(ahead, items) == [on |-> "tokens", ahead |-> ahead, items |-> items]
WhenLambda(items) == [on |-> "lambda", ahead |-> <<>>, items |-> items]
InStream(ahead, items) == [on |-> "stream", ahead |-> ahead, items |-> items]
Else(items) == When(<<>>, items)
Opt(ahead, items) == Choose(<<When(ahead, items), Else(<<>>)>>)
\* As long as the lookahead is what comes.
While(ahead, items) == [i |-> "while", ahead |-> ahead, items |-> items]
\* Inside the block of a stream, and the node of kind PropertyAccess that
\* "name of person" stands for.
Streaming(items) == [i |-> "stream", items |-> items]
PropertyOf == [i |-> "of"]
\* A check on the node read last that is an error of the parse, or changes it.
Checked(name) == [i |-> "check", name |-> name]

One(set) == <<set>>
But(set) == <<Tokens \ set>>
EndOfLine == {NL, DEDENT, EOF}

\* A list of items between commas; trailing: the comma may be the last.
Commas(close, items, trailing) ==
    Choose(<<When(One({close}), <<>>),
             Else(items \o <<While(IF trailing THEN <<{","}, Tokens \ {close}>> ELSE One({","}),
                                   <<Tok(",")>> \o items)>>
                        \o IF trailing THEN <<Opt(One({","}), <<Tok(",")>>)>> ELSE <<>>)>>)

-----------------------------------------------------------------------------
(***************************************************************************)
(* Statements.                                                             *)
(***************************************************************************)
\* A word of the language that is a name where the next token uses it so.
followed_by_name_use ==
    {"(", ".", "[", "+", "-", "*", "/", "%", "**", "==", "!=", "<", ">", "<=",
     ">=", "and", "or", "|>", "of"}
soft_dsl(word, rule) ==
    When(<<{word}, Tokens \ followed_by_name_use>>, <<Rule(rule)>>)

parse_statement ==
    LET lead(ahead, rule) == When(ahead, <<Rule(rule)>>)
        soft == <<"agent", "spawn", "share", "observe", "signal", "approve",
                  "show", "confirm", "trace", "log", "measure", "checkpoint">>
        hard == <<"let", "set", "when", "each", "while", "match", "task",
                  "give", "stop", "wait_for", "require", "sandbox",
                  "invariant", "intent", "type", "try">>
    IN  <<skip_newlines,
          Choose(<<InStream(One({"send"}), <<Rule("send")>>),
                   lead(<<{"stream"}, {NL}, {INDENT}>>, "stream"),
                   lead(<<{"rate_limit"}, Numbers \cup {"none", "unlimited"}>>, "rate_limit"),
                   lead(<<{"serve"}, {"on"}>>, "serve"),
                   lead(<<{"expect"}, {"body"}>>, "expect"),
                   lead(<<{"proxy"}, {"to"}>>, "proxy"),
                   lead(<<{"use"}, Texts>>, "use"),
                   lead(<<{"export"}, {"task", "type", "let", "enum"}>>, "export"),
                   lead(<<{"enum"}, Words>>, "enum"),
                   lead(<<{"test"}, Texts>>, "test")>>
                 \o [i \in DOMAIN soft |-> soft_dsl(soft[i], soft[i])]
                 \o [i \in DOMAIN hard |-> lead(One({hard[i]}), hard[i])]
                 \o <<Else(<<Rule("expression")>>)>>)>>

Statements == <<skip_newlines,
                While(But({DEDENT, EOF}), <<Rule("statement"), skip_newlines>>)>>
parse_block ==
    <<New("Block", <<skip_newlines, Tok(INDENT)>> \o Statements
                    \o <<Opt(One({DEDENT}), <<Tok(DEDENT)>>)>>)>>
Block == Rule("block")
Expr == Rule("expression")

\* A statement that is its keyword and some items.
Keyword(kind, items) == <<New(kind, <<Expect(Tokens)>> \o items)>>

parse_let == Keyword("LetBinding", <<expect_name, Tok("be"), Expr>>)
parse_set == Keyword("SetMutation", <<Expr, Tok("to"), Expr>>)

\* In line, "otherwise" must be on the line; in a block it may be further down.
parse_when ==
    LET otherwise(branch) ==
            Opt(One({"otherwise"}),
                <<Tok("otherwise"), skip_newlines,
                  Choose(<<When(One({"when"}), <<Rule("when")>>), Else(<<branch>>)>>)>>)
        inline == New("Block", <<Expr>>)
    IN  Keyword("WhenStatement",
            <<Expr,
              Choose(<<When(One({"then"}), <<Tok("then"), inline, otherwise(inline)>>),
                       Else(<<Block, skip_newlines, otherwise(Block)>>)>>)>>)

parse_each == Keyword("EachStatement", <<expect_name, Tok("in"), Expr, Block>>)
parse_while == Keyword("WhileStatement", <<Expr, Block>>)

parse_match ==
    LET guard == Opt(One({"when"}), <<Tok("when"), New("Guard", <<Expr>>)>>)
        arm == New("MatchArm", <<Tok("is"), Rule("pattern"), guard, Block>>)
    IN  Keyword("MatchStatement",
            <<Expr, skip_newlines, Tok(INDENT), skip_newlines,
              While(One({"is"}), <<arm, skip_newlines>>),
              Opt(One({"otherwise"}), <<Tok("otherwise"), Block, skip_newlines>>),
              Opt(One({DEDENT}), <<Tok(DEDENT)>>)>>)

parse_pattern ==
    <<Choose(<<When(<<{"_"}, Tokens \ {"(", ".", "["}>>, <<New("WildcardPattern", <<Tok("_")>>)>>),
               When(One({"["}), <<Rule("list_pattern")>>),
               When(<<{"{"}, {"}"} \cup Words>>, <<Rule("map_pattern")>>),
               Else(<<Expr>>)>>)>>

parse_list_pattern ==
    LET spread == New("Rest", <<Tok("..."), Opt(One(Words), <<expect_name>>)>>)
        element == Choose(<<When(One({"..."}), <<spread>>), Else(<<Rule("pattern")>>)>>)
    IN  <<New("ListPattern", <<Tok("["), Commas("]", <<element>>, TRUE), Tok("]")>>),
          Checked("OneSpread")>>

parse_map_pattern ==
    LET field == New("Field", <<expect_name, Opt(One({":"}), <<Tok(":"), Rule("pattern")>>)>>)
    IN  <<New("MapPattern", <<Tok("{"), Commas("}", <<field>>, TRUE), Tok("}")>>)>>

parse_use == Keyword("UseImport", <<Text, Tok("as"), expect_name>>)
parse_export ==
    Keyword("ExportDeclaration",
        <<Choose([i \in 1..4 |-> LET word == <<"task", "type", "let", "enum">>[i]
                                IN  When(One({word}), <<Rule(word)>>)] \o <<Else(<<Fail>>)>>)>>)

parse_param == New("Param", <<expect_name, Opt(One({"="}), <<Tok("="), Expr>>)>>)
parse_task_definition ==
    Keyword("TaskDefinition",
        <<expect_name,
          Opt(One({"("}), <<Tok("("), Commas(")", <<parse_param>>, FALSE), Tok(")")>>),
          Block>>)

Value == Choose(<<When(One(EndOfLine), <<>>), Else(<<Expr>>)>>)
parse_give == Keyword("GiveStatement", <<Value>>)
parse_stop == Keyword("StopStatement", <<Value>>)

\* The fields of a type and the variants of an enum, one to a line.
Members(items) ==
    <<expect_name, skip_newlines, Tok(INDENT), skip_newlines,
      While(But({DEDENT, EOF}), <<New("Member", items), skip_newlines>>),
      Opt(One({DEDENT}), <<Tok(DEDENT)>>)>>
parse_type_definition ==
    Keyword("TypeDefinition", Members(<<expect_name, Tok(":"), expect_name>>))
parse_enum ==
    Keyword("EnumDefinition",
        Members(<<expect_name,
                  Opt(One({"("}), <<Tok("("), Commas(")", <<expect_name>>, FALSE), Tok(")")>>)>>))

parse_try_recover ==
    Keyword("TryRecover",
        <<Block, skip_newlines, Tok("recover"),
          Choose(<<When(One(Words), <<expect_name>>), Else(<<Mark("error")>>)>>), Block>>)

-----------------------------------------------------------------------------
(***************************************************************************)
(* Agents, capabilities, people, observation.                              *)
(***************************************************************************)
Pair == New("Pair", <<expect_name, Tok("="), Expr>>)

parse_agent == Keyword("AgentDefinition", <<expect_name, Block>>)
parse_spawn ==
    Keyword("SpawnStatement",
        <<expect_name,
          Opt(One({"with"}), <<Tok("with"), Pair, While(One({","}), <<Tok(","), Pair>>)>>)>>)
parse_share == Keyword("ShareStatement", <<Expr, Tok("as"), Expr>>)
parse_observe == Keyword("ObserveStatement", <<Expr, Tok("as"), expect_name>>)
parse_signal == Keyword("SignalStatement", <<Expr, Opt(One({"with"}), <<Tok("with"), Expr>>)>>)
parse_wait_for ==
    Keyword("WaitForStatement",
        <<Expr, Opt(One({"timeout"}), <<Tok("timeout"), Expr>>),
          Opt(One({"as"}), <<Tok("as"), expect_name>>)>>)
parse_require ==
    Keyword("RequireStatement",
        <<expect_name, Opt(One({"."}), <<Tok("."), expect_name>>),
          Opt(One({"("}), <<Tok("("), Expr, Tok(")")>>)>>)
parse_sandbox ==
    Keyword("SandboxBlock",
        <<Choose(<<When(<<{NL}, {INDENT}>>, <<Block>>), Else(<<New("Block", <<Expr>>)>>)>>)>>)
parse_invariant == Keyword("InvariantDeclaration", <<Tok(":"), Expr>>)
parse_intent == Keyword("IntentDeclaration", <<Tok(":"), Text>>)
parse_approve == Keyword("ApproveStatement", <<Expr>>)
parse_show == Keyword("ShowStatement", <<Expr, Opt(One({"as"}), <<Tok("as"), Text>>)>>)
parse_confirm == Keyword("ConfirmStatement", <<Expr>>)
parse_trace == Keyword("TraceBlock", <<Text, Block>>)
parse_test_block == Keyword("TestBlock", <<Text, Block>>)
parse_log == Keyword("LogStatement", <<Expr>>)
parse_measure == Keyword("MeasureBlock", <<Text, Block>>)
parse_checkpoint == Keyword("CheckpointStatement", <<Expr>>)

-----------------------------------------------------------------------------
(***************************************************************************)
(* The server's blocks.                                                    *)
(***************************************************************************)
\* A clause: its word, which is kept to tell clauses apart, and its items.
Clause(word, items) == When(One({word}), <<New("Clause", <<Keep({word})>> \o items)>>)
auth_clause == Clause("auth", <<Tok("with"), Expr>>)
static_clause == Clause("static", <<Expr, Opt(One({"from"}), <<Tok("from"), Expr>>)>>)
cert_and_key == <<Tok("cert"), Expr, Tok("key"), Expr>>
route_clause == When(One({"route"}), <<Rule("route")>>)
OfOne(word) == Clause(word, <<Expr>>)
Clauses(alternatives) ==
    <<skip_newlines, Tok(INDENT), skip_newlines,
      While(But({DEDENT, EOF}), <<Choose(alternatives \o <<Else(<<Fail>>)>>), skip_newlines>>),
      Opt(One({DEDENT}), <<Tok(DEDENT)>>)>>

\* "requires auth" in a route of the block needs "auth with" in the block.
parse_serve ==
    LET tls == Clause("tls",
                 <<Choose(<<When(One({"auto"}), <<Keep({"auto"}), Value>>),
                            Else(cert_and_key)>>)>>)
    IN  <<New("ServeBlock",
            <<Tok("serve"), Tok("on"), Expr>>
            \o Clauses(<<auth_clause, OfOne("max_body"), OfOne("max_streams"),
                         When(One({"rate_limit"}), <<Rule("rate_limit")>>),
                         static_clause, OfOne("cors"),
                         When(One({"describe"}), <<Rule("describe")>>),
                         Clause("private", <<>>), tls, OfOne("domain"),
                         When(One({"host"}), <<Rule("host_block")>>),
                         Clause("redirect", <<Tok("https")>>), route_clause>>)),
          Checked("AuthDeclared")>>

parse_host_block ==
    <<New("HostBlock",
        <<Tok("host"), Expr>>
        \o Clauses(<<auth_clause, static_clause, Clause("tls", cert_and_key), route_clause>>))>>

parse_describe ==
    <<New("DescribeClause",
        <<Tok("describe")>> \o Clauses(<<Clause("about", <<Tok(":"), Expr>>),
                                         Clause("api", <<Tok(":"), Expr>>)>>))>>

\* A rate limit in the body of a route is taken out of it.
parse_route ==
    <<New("RouteDefinition",
        <<Tok("route"), Text, Checked("split_route_spec"),
          Opt(One({"requires"}), <<Keep({"requires"}), Tok("auth")>>), Block>>),
      Checked("RateLimitOut")>>

parse_proxy == Keyword("ProxyStatement", <<Tok("to"), Expr>>)
parse_rate_limit ==
    Keyword("RateLimitClause",
        <<Choose(<<When(One({"none", "unlimited"}), <<Keep({"none", "unlimited"})>>),
                   Else(<<Expr, Tok("per"), Keep({"second", "minute", "hour"})>>)>>)>>)
parse_stream == <<New("StreamBlock", <<Tok("stream"), Streaming(<<Block>>)>>)>>
parse_send == Keyword("SendStatement", <<Expr, Opt(One({"as"}), <<Tok("as"), Text>>)>>)

\* Every catch-all is named and is the last segment of the path.
split_route_spec(spec) ==
    /\ spec.method /\ spec.slash
    /\ \A i \in DOMAIN spec.segs :
         spec.segs[i].mark = "*" => spec.segs[i].name # "" /\ i = Len(spec.segs)
param_names(spec) ==
    LET named == SelectSeq(spec.segs, LAMBDA g : g.mark \in {":", "*"} /\ g.name # "")
    IN  [i \in DOMAIN named |-> named[i].name]

parse_expect_field == New("Pair", <<expect_name, Tok(":"), expect_name>>)
parse_expect ==
    Keyword("ExpectStatement",
        <<Tok("body"), Tok("{"), Commas("}", <<parse_expect_field>>, TRUE), Tok("}")>>)

-----------------------------------------------------------------------------
(***************************************************************************)
(* Expressions, from the operators that bind least to the ones that bind   *)
(* most.                                                                   *)
(***************************************************************************)
LeftAssociative(operators, tighter) ==
    <<Rule(tighter),
      While(One(operators), <<Around("BinaryOp", <<Keep(operators), Rule(tighter)>>)>>)>>
Prefix(operator, again, tighter) ==
    <<Choose(<<When(One({operator}), <<New("UnaryOp", <<Keep({operator}), Rule(again)>>)>>),
               Else(<<Rule(tighter)>>)>>)>>

parse_or == LeftAssociative({"or"}, "and")
\* Fault: what "and" joins is asked to bind more than "not" does.
parse_and_of_comparisons == LeftAssociative({"and"}, "comparison")
parse_and == LeftAssociative({"and"}, "not")
parse_not == Prefix("not", "not", "comparison")
parse_comparison == LeftAssociative({"==", "!=", "<", ">", "<=", ">="}, "addition")
parse_addition == LeftAssociative({"+", "-"}, "multiplication")
parse_multiplication == LeftAssociative({"*", "/", "%"}, "power")
parse_power ==
    <<Rule("unary"),
      Opt(One({"**"}), <<Around("BinaryOp", <<Keep({"**"}), Rule("power")>>)>>)>>
parse_unary == Prefix("-", "unary", "pipe")
parse_pipe ==
    <<Rule("postfix"),
      Opt(One({"|>"}), <<Around("PipeExpression",
                           <<While(One({"|>"}), <<Tok("|>"), Rule("postfix")>>)>>)>>)>>

parse_arg ==
    Choose(<<When(<<Words, {"="}>>, <<New("Arg", <<expect_name, Tok("="), Expr>>)>>),
             Else(<<New("Arg", <<Expr>>)>>)>>)
parse_postfix ==
    LET call == <<Around("TaskCall", <<Tok("("), Commas(")", <<parse_arg>>, FALSE), Tok(")")>>)>>
    IN  <<Rule("primary"),
          While(One({"(", ".", "[", "of"}),
              <<Choose(<<When(One({"("}), call),
                         When(One({"."}), <<Around("PropertyAccess", <<Tok("."), expect_name>>)>>),
                         When(One({"["}), <<Around("IndexAccess", <<Tok("["), Expr, Tok("]")>>)>>),
                         Else(<<Tok("of"), Rule("postfix"), PropertyOf>>)>>)>>)>>

parse_lambda ==
    <<New("LambdaExpression",
        <<Tok("("), Commas(")", <<expect_name>>, FALSE), Tok(")"), Tok("=>"), Expr>>)>>

parse_primary ==
    LET soft == <<"ask", "approve", "confirm", "show">>
        thinking == <<"reason", "decide", "analyze", "generate", "sandbox", "when">>
        literal(set, kind) == When(One(set), <<New(kind, <<Keep(set)>>)>>)
        pair == New("Pair", <<Expr, Tok(":"), Expr>>)
    IN  <<Choose([i \in DOMAIN soft |-> soft_dsl(soft[i], soft[i])]
            \o <<literal(Numbers, "NumberLiteral"), literal(Texts, "TextLiteral"),
                 When(One(DOMAIN Templates), <<[i |-> "template"]>>),
                 literal({"true", "false"}, "BoolLiteral"),
                 literal({"nothing"}, "NothingLiteral"), literal(Words, "Identifier"),
                 When(One({"["}),
                    <<New("ListLiteral", <<Tok("["), Commas("]", <<Expr>>, TRUE), Tok("]")>>)>>),
                 When(One({"{"}),
                    <<New("MapLiteral", <<Tok("{"), Commas("}", <<pair>>, TRUE), Tok("}")>>)>>),
                 WhenLambda(<<Rule("lambda")>>),
                 When(One({"("}), <<Tok("("), Expr, Tok(")")>>)>>
            \o [i \in DOMAIN thinking |-> When(One({thinking[i]}), <<Rule(thinking[i])>>)]
            \o <<Else(<<Fail>>)>>)>>

\* Some words are looked for by the value of a token: a text literal of that
\* value is taken for the word.
current_value_eq(word) == {word} \cup {t \in Texts : t = "'" \o word \o "'"}
EndOfSubject == {"with", INDENT} \cup EndOfLine
Named(word, items) ==
    Opt(One(current_value_eq(word)), <<Expect(current_value_eq(word))>> \o items)
WithPair == Opt(One({"with"}), <<Tok("with"), Pair>>)

parse_reason_expr ==
    Keyword("ReasonExpression",
        <<Named("about", <<>>),
          Choose(<<When(One(EndOfSubject), <<>>), Else(<<New("Subject", <<Expr>>)>>)>>),
          WithPair, Opt(<<{NL}, {INDENT}>>, <<Block>>)>>)
parse_decide_expr ==
    Keyword("DecideExpression",
        <<Named("between", <<>>),
          Choose(<<When(One(EndOfSubject \cup current_value_eq("given")), <<>>),
                   Else(<<New("Options", <<Expr>>)>>)>>),
          Named("given", <<New("Given", <<Expr>>)>>)>>)
parse_analyze_expr == Keyword("AnalyzeExpression", <<Expr, Named("for", <<Text>>)>>)
parse_generate_expr ==
    Keyword("GenerateExpression",
        <<Text, Named("given", <<New("Given", <<Expr>>)>>), WithPair>>)
parse_ask_expr == Keyword("AskExpression", <<Expr, Opt(One({"with"}), <<Tok("with"), Expr>>)>>)

parse ==
    <<New("Program",
        <<skip_newlines, While(But({EOF}), <<Rule("statement"), skip_newlines>>)>>)>>

Grammar ==
    [statement |-> parse_statement, block |-> parse_block, let |-> parse_let,
     set |-> parse_set, when |-> parse_when, each |-> parse_each,
     while |-> parse_while, match |-> parse_match, pattern |-> parse_pattern,
     list_pattern |-> parse_list_pattern, map_pattern |-> parse_map_pattern,
     use |-> parse_use, export |-> parse_export, task |-> parse_task_definition,
     give |-> parse_give, stop |-> parse_stop, type |-> parse_type_definition,
     enum |-> parse_enum, try |-> parse_try_recover, agent |-> parse_agent,
     spawn |-> parse_spawn, share |-> parse_share, observe |-> parse_observe,
     signal |-> parse_signal, wait_for |-> parse_wait_for,
     require |-> parse_require, sandbox |-> parse_sandbox,
     invariant |-> parse_invariant, intent |-> parse_intent,
     approve |-> parse_approve, show |-> parse_show, confirm |-> parse_confirm,
     trace |-> parse_trace, test |-> parse_test_block, log |-> parse_log,
     measure |-> parse_measure, checkpoint |-> parse_checkpoint,
     serve |-> parse_serve, host_block |-> parse_host_block,
     describe |-> parse_describe, route |-> parse_route, proxy |-> parse_proxy,
     rate_limit |-> parse_rate_limit, stream |-> parse_stream,
     send |-> parse_send, expect |-> parse_expect, expression |-> parse_or,
     and |-> parse_and, not |-> parse_not, comparison |-> parse_comparison,
     addition |-> parse_addition, multiplication |-> parse_multiplication,
     power |-> parse_power, unary |-> parse_unary, pipe |-> parse_pipe,
     postfix |-> parse_postfix, primary |-> parse_primary,
     lambda |-> parse_lambda, reason |-> parse_reason_expr,
     decide |-> parse_decide_expr, analyze |-> parse_analyze_expr,
     generate |-> parse_generate_expr, ask |-> parse_ask_expr, program |-> parse]

-----------------------------------------------------------------------------
(***************************************************************************)
(* Reading a rule.  p: the position in the tokens t; depth: the stream     *)
(* blocks around it; w and c: what the node being read has so far.         *)
(***************************************************************************)
Parser_new == [p |-> 1, depth |-> 0, w |-> <<>>, c |-> <<>>, ok |-> TRUE]

\* Past the end, the last token comes again and again.
peek(t, p) == IF p <= Len(t) THEN t[p] ELSE t[Len(t)]
advance(s) == [s EXCEPT !.p = @ + 1]
Failed(s) == [s EXCEPT !.ok = FALSE]

\* The bracket that closes the one at p is followed by an arrow.
is_lambda_ahead(t, p) ==
    LET depth(i) == Cardinality({j \in p..i : t[j] = "("}) - Cardinality({j \in p..i : t[j] = ")"})
        closing == {i \in p..Len(t) : t[i] = ")" /\ depth(i) = 0}
    IN  /\ t[p] = "("
        /\ closing # {}
        /\ peek(t, 1 + CHOOSE i \in closing : \A j \in closing : i <= j) = "=>"

Comes(ahead, t, p) == \A i \in DOMAIN ahead : peek(t, p + i - 1) \in ahead[i]
Taken(alt, t, s) ==
    CASE alt.on = "lambda" -> s.p <= Len(t) /\ is_lambda_ahead(t, s.p)
      [] alt.on = "stream" -> s.depth > 0 /\ Comes(alt.ahead, t, s.p)
      [] OTHER -> Comes(alt.ahead, t, s.p)

\* "name of person" is person.name.
OfName(c) ==
    LET n == Len(c)
        name == IF c[n - 1].k = "Identifier" THEN c[n - 1].w ELSE <<"?">>
    IN  SubSeq(c, 1, n - 2) \o <<Node("PropertyAccess", name, <<c[n]>>)>>

\* The checks on what was read last, and the rate limit of a route.
OneSpread(node) == Cardinality({i \in DOMAIN node.c : node.c[i].k = "Rest"}) <= 1
AuthDeclared(node) ==
    LET requires(n) == n.k = "RouteDefinition" /\ Len(n.w) = 2
        auth(n) == n.k = "Clause" /\ n.w[1] = "auth"
    IN  (\E i \in DOMAIN node.c : requires(node.c[i])) => \E i \in DOMAIN node.c : auth(node.c[i])
RateLimitOut(node) ==
    LET body == node.c[1].c
        limits == SelectSeq(body, LAMBDA n : n.k = "RateLimitClause")
        rest == SelectSeq(body, LAMBDA n : n.k # "RateLimitClause")
    IN  [node EXCEPT !.c = (IF limits = <<>> THEN <<>> ELSE <<Last(limits)>>)
                             \o <<Node("Block", <<>>, rest)>>]
Check(name, s) ==
    CASE name = "OneSpread" -> [s EXCEPT !.ok = OneSpread(Last(s.c))]
      [] name = "AuthDeclared" -> [s EXCEPT !.ok = AuthDeclared(Last(s.c))]
      [] name = "split_route_spec" -> [s EXCEPT !.ok = split_route_spec(RouteSpecs[Last(s.w)])]
      [] name = "RateLimitOut" -> [s EXCEPT !.c = Front(@) \o <<RateLimitOut(Last(@))>>]

RECURSIVE Run(_, _, _)

\* A template is the concatenation of its segments, from the left, beginning
\* with a text; tokens of a hole after its first expression are ignored.
Segment(seg) ==
    LET hole == Run(<<Expr>>, seg.src \o <<NL, EOF>>, Parser_new)
    IN  IF seg.hole THEN hole ELSE [Parser_new EXCEPT !.c = <<TextLiteral(seg.src)>>]
desugar_template(segs) ==
    LET parts == [i \in DOMAIN segs |-> Segment(segs[i])]
        nodes == [i \in DOMAIN segs |-> parts[i].c[1]]
        plus(left, right) == Node("BinaryOp", <<"+">>, <<left, right>>)
        first == IF nodes # <<>> /\ nodes[1].k = "TextLiteral" THEN nodes
                 ELSE <<TextLiteral("''")>> \o nodes
        ok == \A i \in DOMAIN parts : parts[i].ok
    IN  [ok |-> ok, node |-> IF ok THEN FoldLeft(plus, Head(first), Tail(first))
                             ELSE TextLiteral("''")]

Read(item, t, s) ==
    LET inner == Run(item.items, t, [s EXCEPT !.w = <<>>, !.c = <<>>])
        left == IF item.around THEN <<Last(s.c)>> ELSE <<>>
        before == IF item.around THEN Front(s.c) ELSE s.c
    IN  [inner EXCEPT !.w = s.w,
                      !.c = before \o <<Node(item.kind, inner.w, left \o inner.c)>>]

Step(item, t, s) ==
    CASE item.i = "token" ->
            IF peek(t, s.p) \notin item.set THEN Failed(s)
            ELSE [advance(s) EXCEPT !.w = IF item.keep THEN Append(@, peek(t, s.p)) ELSE @]
      [] item.i = "mark" -> [s EXCEPT !.w = Append(@, item.word)]
      [] item.i = "rule" ->
            LET inner == Run(Grammar[item.name], t, [s EXCEPT !.w = <<>>, !.c = <<>>])
            IN  [inner EXCEPT !.w = s.w, !.c = s.c \o inner.c]
      [] item.i = "node" -> Read(item, t, s)
      [] item.i = "newlines" -> Run(<<While(One({NL}), <<Tok(NL)>>)>>, t, s)
      [] item.i = "choose" ->
            LET taken == {i \in DOMAIN item.alts : Taken(item.alts[i], t, s)}
            IN  IF taken = {} THEN Failed(s)
                ELSE Run(item.alts[CHOOSE i \in taken : \A j \in taken : i <= j].items, t, s)
      [] item.i = "while" ->
            IF Comes(item.ahead, t, s.p) THEN Run(item.items \o <<item>>, t, s) ELSE s
      [] item.i = "stream" ->
            [Run(item.items, t, [s EXCEPT !.depth = @ + 1]) EXCEPT !.depth = s.depth]
      [] item.i = "of" -> [s EXCEPT !.c = OfName(@)]
      [] item.i = "check" -> Check(item.name, s)
      [] item.i = "template" ->
            LET made == desugar_template(Templates[peek(t, s.p)])
            IN  [advance(s) EXCEPT !.ok = made.ok, !.c = Append(@, made.node)]
      [] item.i = "fail" -> Failed(s)

Run(items, t, s) ==
    IF items = <<>> \/ ~s.ok THEN s
    ELSE Run(Tail(items), t, Step(Head(items), t, s))

\* What becomes of a source text: its tree, or no tree.
NoTree == Node("Error", <<>>, <<>>)
Parse(tokens) ==
    LET s == Run(<<Rule("program")>>, tokens, Parser_new)
    IN  IF s.ok THEN s.c[1] ELSE NoTree
parse_source(lines) ==
    LET lexed == tokenize_filtered(lines)
    IN  IF lexed.ok THEN Parse(lexed.toks) ELSE NoTree
=============================================================================
