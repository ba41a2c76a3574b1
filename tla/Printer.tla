------------------------------- MODULE Printer -------------------------------
(***************************************************************************)
(* How the reference writes a program (README.md, .synsema-skill): every   *)
(* tree as a text, with the parentheses that the precedence of operators   *)
(* asks for and no others.  It shares nothing with the parser.  At the end *)
(* are the programs that are written and read back.                        *)
(***************************************************************************)
EXTENDS Integers, Sequences, SequencesExt

Levels ==
    << <<"or">>, <<"and">>, <<"not">>, <<"==", "!=", "<", ">", "<=", ">=">>,
       <<"+", "-">>, <<"*", "/", "%">>, <<"**">> >>
LevelOf(op) == CHOOSE i \in DOMAIN Levels : Contains(Levels[i], op)

\* How tightly a node holds together: 8 is unary minus, 9 a pipe, 10 what may
\* be called or indexed, 0 what extends as far as it can.
Binding(n) ==
    CASE n.k = "BinaryOp" -> LevelOf(n.w[1])
      [] n.k = "UnaryOp" -> IF n.w[1] = "not" THEN 3 ELSE 8
      [] n.k = "PipeExpression" -> 9
      [] n.k \in {"NumberLiteral", "TextLiteral", "BoolLiteral", "NothingLiteral",
                  "Identifier", "ListLiteral", "MapLiteral", "TaskCall",
                  "IndexAccess", "PropertyAccess"} -> 10
      [] OTHER -> 0

Joined(parts, separator) ==
    FoldLeft(LAMBDA text, part : IF text = <<>> THEN part ELSE text \o <<separator>> \o part,
             <<>>, parts)
ChildrenOf(n, kind) == SelectSeq(n.c, LAMBDA m : m.k = kind)
Has(n, kind) == \E i \in DOMAIN n.c : n.c[i].k = kind
Child(n, kind) == ChildrenOf(n, kind)[1]

\* E: an expression where at least the given binding is asked for; P: a node.
RECURSIVE E(_, _)
RECURSIVE P(_)
E(n, binding) == IF Binding(n) < binding THEN <<"(">> \o P(n) \o <<")">> ELSE P(n)
List(nodes) == Joined([i \in DOMAIN nodes |-> P(nodes[i])], ",")
Optionally(n, kind, word) == IF Has(n, kind) THEN <<word>> \o P(Child(n, kind)) ELSE <<>>
Names(words) == Joined([i \in DOMAIN words |-> <<words[i]>>], ",")

Operator(n) ==
    LET level == LevelOf(n.w[1])
        right == IF level = 7 THEN 7 ELSE level + 1
        left == IF level = 3 THEN 4 ELSE IF level = 7 THEN 8 ELSE level
    IN  E(n.c[1], left) \o n.w \o E(n.c[2], right)

When(n) ==
    <<"when">> \o E(n.c[1], 1) \o <<"then">> \o E(n.c[2].c[1], 1)
    \o IF Len(n.c) = 2 THEN <<>>
       ELSE <<"otherwise">> \o (IF n.c[3].k = "Block" THEN E(n.c[3].c[1], 1) ELSE P(n.c[3]))

P(n) ==
    CASE n.k = "BinaryOp" -> Operator(n)
      [] n.k = "UnaryOp" -> n.w \o E(n.c[1], IF n.w[1] = "not" THEN 3 ELSE 8)
      [] n.k = "PipeExpression" ->
            Joined([i \in DOMAIN n.c |-> E(n.c[i], 10)], "|>")
      [] n.k = "TaskCall" -> E(n.c[1], 10) \o <<"(">> \o List(Tail(n.c)) \o <<")">>
      [] n.k = "Arg" -> (IF n.w = <<>> THEN <<>> ELSE n.w \o <<"=">>) \o E(n.c[1], 0)
      [] n.k = "PropertyAccess" -> E(n.c[1], 10) \o <<".">> \o n.w
      [] n.k = "IndexAccess" -> E(n.c[1], 10) \o <<"[">> \o E(n.c[2], 0) \o <<"]">>
      [] n.k = "ListLiteral" -> <<"[">> \o List(n.c) \o <<"]">>
      [] n.k = "MapLiteral" -> <<"{">> \o List(n.c) \o <<"}">>
      [] n.k = "Pair" ->
            CASE n.w = <<>> -> E(n.c[1], 0) \o <<":">> \o E(n.c[2], 0)
              [] Len(n.w) = 2 -> <<n.w[1], ":", n.w[2]>>
              [] OTHER -> n.w \o <<"=">> \o E(n.c[1], 0)
      [] n.k = "LambdaExpression" ->
            <<"(">> \o Names(n.w) \o <<")", "=>">> \o E(n.c[1], 0)
      [] n.k = "WhenStatement" -> When(n)
      [] n.k = "SandboxBlock" -> <<"sandbox">> \o E(n.c[1].c[1], 0)
      [] n.k = "ReasonExpression" ->
            <<"reason">> \o Optionally(n, "Subject", "about") \o Optionally(n, "Pair", "with")
      [] n.k = "DecideExpression" ->
            <<"decide">> \o Optionally(n, "Options", "between") \o Optionally(n, "Given", "given")
      [] n.k = "GenerateExpression" ->
            <<"generate">> \o n.w \o Optionally(n, "Given", "given") \o Optionally(n, "Pair", "with")
      [] n.k \in {"Subject", "Options", "Given"} -> E(n.c[1], 1)
      [] n.k = "AnalyzeExpression" ->
            <<"analyze">> \o E(n.c[1], 1) \o (IF n.w = <<>> THEN <<>> ELSE <<"for">> \o n.w)
      [] n.k = "AskExpression" ->
            <<"ask">> \o E(n.c[1], 1) \o (IF Len(n.c) = 2 THEN <<"with">> \o E(n.c[2], 1) ELSE <<>>)
      [] n.k = "ApproveStatement" -> <<"approve">> \o E(n.c[1], 0)
      [] n.k = "ConfirmStatement" -> <<"confirm">> \o E(n.c[1], 0)
      [] n.k = "ShowStatement" ->
            <<"show">> \o E(n.c[1], 1) \o (IF n.w = <<>> THEN <<>> ELSE <<"as">> \o n.w)
      [] n.k = "Param" -> n.w \o (IF n.c = <<>> THEN <<>> ELSE <<"=">> \o E(n.c[1], 0))
      [] n.k = "WildcardPattern" -> <<"_">>
      [] n.k = "ListPattern" -> <<"[">> \o List(n.c) \o <<"]">>
      [] n.k = "Rest" -> <<"...">> \o n.w
      [] n.k = "MapPattern" -> <<"{">> \o List(n.c) \o <<"}">>
      [] n.k = "Field" -> n.w \o (IF n.c = <<>> THEN <<>> ELSE <<":">> \o P(n.c[1]))
      [] n.k = "Guard" -> <<"when">> \o E(n.c[1], 1)
      [] OTHER -> n.w

-----------------------------------------------------------------------------
(***************************************************************************)
(* Statements: lines of a depth and lexemes.                               *)
(***************************************************************************)
OneLine(depth, lexemes) == <<[ind |-> depth, lex |-> lexemes]>>
Value(n) == IF n.c = <<>> THEN <<>> ELSE E(n.c[1], 0)
Extra(n, word) == IF Len(n.c) = 2 THEN <<word>> \o E(n.c[2], 1) ELSE <<>>

\* What comes before the first line break of a statement.
Opening(n) ==
    LET x == n.c[1]
        keyword(word) == <<word>> \o n.w
    IN
    CASE n.k = "LetBinding" -> <<"let">> \o n.w \o <<"be">> \o E(x, 0)
      [] n.k = "SetMutation" -> <<"set">> \o E(x, 0) \o <<"to">> \o E(n.c[2], 0)
      [] n.k = "WhenStatement" -> <<"when">> \o E(x, 1)
      [] n.k = "EachStatement" -> <<"each">> \o n.w \o <<"in">> \o E(x, 0)
      [] n.k = "WhileStatement" -> <<"while">> \o E(x, 0)
      [] n.k = "MatchStatement" -> <<"match">> \o E(x, 0)
      [] n.k = "MatchArm" ->
            <<"is">> \o P(x) \o (IF n.c[2].k = "Guard" THEN P(n.c[2]) ELSE <<>>)
      [] n.k = "UseImport" -> <<"use", n.w[1], "as", n.w[2]>>
      [] n.k = "TaskDefinition" ->
            keyword("task") \o (IF Has(n, "Param")
                                THEN <<"(">> \o List(ChildrenOf(n, "Param")) \o <<")">> ELSE <<>>)
      [] n.k = "GiveStatement" -> <<"give">> \o Value(n)
      [] n.k = "StopStatement" -> <<"stop">> \o Value(n)
      [] n.k = "TypeDefinition" -> keyword("type")
      [] n.k = "EnumDefinition" -> keyword("enum")
      [] n.k = "TryRecover" -> <<"try">>
      [] n.k = "AgentDefinition" -> keyword("agent")
      [] n.k = "SpawnStatement" ->
            keyword("spawn") \o (IF Has(n, "Pair") THEN <<"with">> \o List(n.c) ELSE <<>>)
      [] n.k = "ShareStatement" -> <<"share">> \o E(x, 0) \o <<"as">> \o E(n.c[2], 0)
      [] n.k = "ObserveStatement" -> <<"observe">> \o E(x, 0) \o <<"as">> \o n.w
      [] n.k = "SignalStatement" -> <<"signal">> \o E(x, 1) \o Extra(n, "with")
      [] n.k = "WaitForStatement" ->
            <<"wait_for">> \o E(x, 1) \o Extra(n, "timeout")
            \o (IF n.w = <<>> THEN <<>> ELSE <<"as">> \o n.w)
      [] n.k = "RequireStatement" ->
            <<"require", n.w[1]>> \o (IF Len(n.w) = 2 THEN <<".", n.w[2]>> ELSE <<>>)
            \o (IF n.c = <<>> THEN <<>> ELSE <<"(">> \o E(x, 0) \o <<")">>)
      [] n.k = "SandboxBlock" -> <<"sandbox">>
      [] n.k = "InvariantDeclaration" -> <<"invariant", ":">> \o E(x, 0)
      [] n.k = "IntentDeclaration" -> <<"intent", ":">> \o n.w
      [] n.k = "TraceBlock" -> keyword("trace")
      [] n.k = "TestBlock" -> keyword("test")
      [] n.k = "MeasureBlock" -> keyword("measure")
      [] n.k = "LogStatement" -> <<"log">> \o E(x, 0)
      [] n.k = "CheckpointStatement" -> <<"checkpoint">> \o E(x, 0)
      [] n.k = "ServeBlock" -> <<"serve", "on">> \o E(x, 0)
      [] n.k = "HostBlock" -> <<"host">> \o E(x, 0)
      [] n.k = "DescribeClause" -> <<"describe">>
      [] n.k = "RouteDefinition" ->
            <<"route", n.w[1]>> \o (IF Len(n.w) = 2 THEN <<"requires", "auth">> ELSE <<>>)
      [] n.k = "ProxyStatement" -> <<"proxy", "to">> \o E(x, 0)
      [] n.k = "StreamBlock" -> <<"stream">>
      [] n.k = "SendStatement" ->
            <<"send">> \o E(x, 1) \o (IF n.w = <<>> THEN <<>> ELSE <<"as">> \o n.w)
      [] n.k = "ExpectStatement" -> <<"expect", "body", "{">> \o List(n.c) \o <<"}">>
      [] n.k = "RateLimitClause" ->
            <<"rate_limit">> \o (IF n.c = <<>> THEN n.w ELSE E(x, 0) \o <<"per">> \o n.w)
      [] n.k = "Clause" ->
            CASE n.w[1] = "auth" -> <<"auth", "with">> \o E(x, 0)
              [] n.w[1] \in {"about", "api"} -> n.w \o <<":">> \o E(x, 0)
              [] n.w[1] = "static" -> n.w \o E(x, 1) \o Extra(n, "from")
              [] n.w = <<"tls">> -> <<"tls", "cert">> \o E(x, 0) \o <<"key">> \o E(n.c[2], 0)
              [] n.w[1] = "redirect" -> <<"redirect", "https">>
              [] OTHER -> n.w \o Value(n)
      [] OTHER -> P(n)

\* The block that a statement with an expression ends in, if it does.
OwnBlock(n) == n.k \in {"ReasonExpression"} /\ Has(n, "Block")

\* A statement is a few parts: a line, so much deeper than the statement, and
\* the statements below it.
Part(words, nodes) == [deeper |-> 0, words |-> words, nodes |-> nodes]
Inner(words, nodes) == [deeper |-> 1, words |-> words, nodes |-> nodes]
After(word, parts) == <<[Head(parts) EXCEPT !.words = <<word>> \o @]>> \o Tail(parts)
Member(n, kind) ==
    CASE kind = "TypeDefinition" -> <<n.w[1], ":", n.w[2]>>
      [] Len(n.w) = 1 -> n.w
      [] OTHER -> <<n.w[1], "(">> \o Names(Tail(n.w)) \o <<")">>

\* The parts of a statement with the given opening, and those of a statement it
\* goes on with: the one that is exported, or the next of a chain of conditions.
GoesOn(n) == n.k = "ExportDeclaration" \/ (n.k = "WhenStatement" /\ Len(n.c) = 3 /\ n.c[3].k # "Block")
Statement(n, opening, next) ==
    LET Led(nodes) == <<Part(opening, nodes)>>
    IN
    CASE n.k = "WhenStatement" ->
            Led(n.c[2].c)
            \o (IF GoesOn(n) THEN After("otherwise", next)
                ELSE IF Len(n.c) = 3 THEN <<Part(<<"otherwise">>, n.c[3].c)>> ELSE <<>>)
      [] n.k = "MatchStatement" ->
            Led(ChildrenOf(n, "MatchArm"))
            \o (IF Has(n, "Block") THEN <<Inner(<<"otherwise">>, Child(n, "Block").c)>> ELSE <<>>)
      [] n.k = "TryRecover" ->
            Led(n.c[1].c) \o <<Part(<<"recover">> \o n.w, n.c[2].c)>>
      [] n.k = "ExportDeclaration" -> After("export", next)
      [] n.k \in {"TypeDefinition", "EnumDefinition"} ->
            Led(<<>>) \o [i \in DOMAIN n.c |-> Inner(Member(n.c[i], n.k), <<>>)]
      [] n.k \in {"ServeBlock", "HostBlock"} -> Led(Tail(n.c))
      [] n.k = "DescribeClause" -> Led(n.c)
      [] n.k = "RouteDefinition" -> Led(Front(n.c) \o Last(n.c).c)
      [] n.k = "LetBinding" /\ OwnBlock(n.c[1]) -> Led(Last(n.c[1].c).c)
      [] n.c # <<>> /\ Last(n.c).k = "Block" -> Led(Last(n.c).c)
      [] OTHER -> Led(<<>>)

RECURSIVE Parts(_)
Parts(n) == Statement(n, Opening(n), IF GoesOn(n) THEN Parts(Last(n.c)) ELSE <<>>)

RECURSIVE Lines(_, _)
Lines(nodes, depth) ==
    IF nodes = <<>> THEN <<>>
    ELSE FoldLeft(LAMBDA lines, part :
                    lines \o OneLine(depth + part.deeper, part.words)
                          \o Lines(part.nodes, depth + part.deeper + 1),
                  <<>>, FlattenSeq([i \in DOMAIN nodes |-> Parts(nodes[i])]))

Written(program) == Lines(program.c, 0)
-----------------------------------------------------------------------------
(***************************************************************************)
(* The programs that are written and read back: every pair of operators,   *)
(* one inside the other on either side, and every statement around and     *)
(* next to others.                                                         *)
(***************************************************************************)

Node(kind, words, parts) == [k |-> kind, w |-> words, c |-> parts]
TextLiteral(text) == Node("TextLiteral", <<text>>, <<>>)
ParamNamed(name) == Node("Param", <<name>>, <<>>)

Leaf(kind, word) == Node(kind, <<word>>, <<>>)
Ident(name) == Leaf("Identifier", name)
One1 == Leaf("NumberLiteral", "1")
X == Ident("x")
T == TextLiteral("'t'")
Nothing == Leaf("NothingLiteral", "nothing")
Arg(e) == Node("Arg", <<>>, <<e>>)
Block1(s) == Node("Block", <<>>, <<s>>)
Bin(op, l, r) == Node("BinaryOp", <<op>>, <<l, r>>)
Un(op, e) == Node("UnaryOp", <<op>>, <<e>>)
Call(f, args) == Node("TaskCall", <<>>, <<f>> \o args)
Pair(k, v) == Node("Pair", <<>>, <<k, v>>)
NamedPair(k, v) == Node("Pair", <<k>>, <<v>>)

\* An operator of each level, around e on its left and f on its right.
BinaryOver(e, f) ==
    {Bin(op, e, f) : op \in {"or", "and", "<", "-", "*", "**"}}
    \cup {Node("PipeExpression", <<>>, <<e, f>>)}
\* Everything else that an expression can be, around e.
OtherOver(e) ==
    {Un("not", e), Un("-", e), Call(e, <<>>), Call(X, <<Arg(e), Arg(One1)>>),
     Call(X, <<Node("Arg", <<"y">>, <<e>>)>>), Node("PropertyAccess", <<"y">>, <<e>>),
     Node("IndexAccess", <<>>, <<e, X>>), Node("IndexAccess", <<>>, <<X, e>>),
     Node("ListLiteral", <<>>, <<e, X>>), Node("MapLiteral", <<>>, <<Pair(T, e)>>),
     Node("LambdaExpression", <<"x", "y">>, <<e>>), Node("LambdaExpression", <<>>, <<e>>),
     Node("WhenStatement", <<>>, <<e, Block1(X)>>),
     Node("WhenStatement", <<>>, <<X, Block1(e), Block1(One1)>>),
     Node("WhenStatement", <<>>, <<X, Block1(X), Node("WhenStatement", <<>>, <<e, Block1(X)>>)>>),
     Node("SandboxBlock", <<>>, <<Block1(e)>>)}
\* The questions asked of a model and, where e begins with no sign that makes
\* the word before it a name, of a person.
AfterWord(e) ==
    e.k \notin {"LambdaExpression", "ListLiteral", "WhenStatement", "SandboxBlock"} /\ ~(e.k = "UnaryOp" /\ e.w = <<"-">>)
AskedOf(e) ==
  {q \in
    {Node("ReasonExpression", <<>>, <<Node("Subject", <<>>, <<e>>), NamedPair("y", e)>>),
     Node("DecideExpression", <<>>, <<Node("Options", <<>>, <<e>>), Node("Given", <<>>, <<e>>)>>),
     Node("AnalyzeExpression", <<"'t'">>, <<e>>), Node("AnalyzeExpression", <<>>, <<e>>),
     Node("GenerateExpression", <<"'t'">>, <<Node("Given", <<>>, <<e>>), NamedPair("y", e)>>),
     Node("AskExpression", <<>>, <<e>>), Node("AskExpression", <<>>, <<e, e>>),
     Node("ApproveStatement", <<>>, <<e>>), Node("ConfirmStatement", <<>>, <<e>>),
     Node("ShowStatement", <<>>, <<e>>), Node("ShowStatement", <<"'t'">>, <<e>>)} :
   q.k \in {"AskExpression", "ApproveStatement", "ConfirmStatement", "ShowStatement"} => AfterWord(e)}

Atoms == {X, One1, T, Nothing, Leaf("BoolLiteral", "true")}
Shallow == {X} \cup BinaryOver(X, One1) \cup OtherOver(X)
Deep == UNION {BinaryOver(e, X) \cup BinaryOver(X, e) \cup OtherOver(e) : e \in Shallow}
Asked == UNION {AskedOf(e) : e \in Atoms \cup Shallow}
            \cup UNION {OtherOver(q) \cup BinaryOver(q, X) : q \in AskedOf(X)}

\* The words that are special at the start of a construct only.
SoftWords == {"serve", "on", "route", "auth", "requires", "expect", "max_body",
              "max_streams", "stream", "send", "test", "describe", "private",
              "rate_limit", "per", "export", "use", "enum", "proxy", "host"}
Named(name) == {Ident(name), Bin("-", Ident(name), Ident(name)), Call(Ident(name), <<Arg(Ident(name))>>),
                Node("PropertyAccess", <<name>>, <<Ident(name)>>)}
SoftPrograms ==
    UNION {{Node("LetBinding", <<name>>, <<e>>) : e \in Named(name)} : name \in SoftWords}

-----------------------------------------------------------------------------
Exprs == {X, Bin("-", One1, X), Call(X, <<>>)}
Plain(e) ==
    {e, Node("LetBinding", <<"y">>, <<e>>), Node("SetMutation", <<>>, <<X, e>>),
     Node("UseImport", <<"'t'", "y">>, <<>>), Node("GiveStatement", <<>>, <<e>>),
     Node("GiveStatement", <<>>, <<>>), Node("StopStatement", <<>>, <<e>>),
     Node("StopStatement", <<>>, <<>>), Node("SpawnStatement", <<"x">>, <<>>),
     Node("SpawnStatement", <<"x">>, <<NamedPair("y", e), NamedPair("x", e)>>),
     Node("ShareStatement", <<>>, <<e, T>>), Node("ObserveStatement", <<"y">>, <<e>>),
     Node("SignalStatement", <<>>, <<e>>), Node("SignalStatement", <<>>, <<T, e>>),
     Node("WaitForStatement", <<>>, <<e>>), Node("WaitForStatement", <<"y">>, <<T, e>>),
     Node("RequireStatement", <<"x">>, <<>>), Node("RequireStatement", <<"x", "y">>, <<e>>),
     Node("InvariantDeclaration", <<>>, <<e>>), Node("IntentDeclaration", <<"'t'">>, <<>>),
     Node("LogStatement", <<>>, <<e>>), Node("CheckpointStatement", <<>>, <<e>>),
     Node("TypeDefinition", <<"y">>, <<Node("Member", <<"x", "y">>, <<>>), Node("Member", <<"y", "x">>, <<>>)>>),
     Node("EnumDefinition", <<"y">>, <<Node("Member", <<"x">>, <<>>), Node("Member", <<"y", "x", "x">>, <<>>)>>)}
    \cup AskedOf(X)

Patterns == {Node("WildcardPattern", <<>>, <<>>), One1, T,
             Node("ListPattern", <<>>, <<X, Node("Rest", <<"y">>, <<>>)>>),
             Node("ListPattern", <<>>, <<Node("Rest", <<>>, <<>>), Node("ListPattern", <<>>, <<>>)>>),
             Node("MapPattern", <<>>, <<Node("Field", <<"x">>, <<>>), Node("Field", <<"y">>, <<One1>>)>>)}
Blocks(b) ==
    {Node("WhenStatement", <<>>, <<X, b>>), Node("WhenStatement", <<>>, <<X, b, b>>),
     Node("WhenStatement", <<>>, <<X, b, Node("WhenStatement", <<>>, <<X, b, b>>)>>),
     Node("EachStatement", <<"x">>, <<X, b>>), Node("WhileStatement", <<>>, <<X, b>>),
     Node("TaskDefinition", <<"f">>, <<b>>),
     Node("TaskDefinition", <<"f">>, <<ParamNamed("x"), Node("Param", <<"y">>, <<One1>>), b>>),
     Node("ExportDeclaration", <<>>, <<Node("TaskDefinition", <<"f">>, <<b>>)>>),
     Node("TryRecover", <<"y">>, <<b, b>>), Node("AgentDefinition", <<"x">>, <<b>>),
     Node("SandboxBlock", <<>>, <<b>>), Node("TraceBlock", <<"'t'">>, <<b>>),
     Node("TestBlock", <<"'t'">>, <<b>>), Node("MeasureBlock", <<"'t'">>, <<b>>),
     Node("ReasonExpression", <<>>, <<Node("Subject", <<>>, <<T>>), b>>),
     Node("LetBinding", <<"y">>, <<Node("ReasonExpression", <<>>, <<Node("Subject", <<>>, <<X>>), b>>)>>),
     Node("MatchStatement", <<>>, <<X, Node("MatchArm", <<>>, <<One1, Node("Guard", <<>>, <<X>>), b>>), b>>)}
    \cup {Node("MatchStatement", <<>>, <<X, Node("MatchArm", <<>>, <<p, b>>), Node("MatchArm", <<>>, <<X, b>>)>>) :
            p \in Patterns}
Block2(s, t) == Node("Block", <<>>, <<s, t>>)
Simple == Node("LetBinding", <<"y">>, <<X>>)

Word(words, parts) == Node("Clause", words, parts)
Limit == Node("RateLimitClause", <<"minute">>, <<One1>>)
NoLimit == Node("RateLimitClause", <<"none">>, <<>>)
Route(spec, requires, parts) == Node("RouteDefinition", <<spec>> \o requires, parts)
Streamed == Node("StreamBlock", <<>>, <<Block2(Node("SendStatement", <<>>, <<X>>),
                    Node("SendStatement", <<"'t'">>, <<Bin("-", X, One1)>>))>>)
Expected == Node("ExpectStatement", <<>>, <<Node("Pair", <<"x", "y">>, <<>>), Node("Pair", <<"y", "x">>, <<>>)>>)
Proxied == Node("ProxyStatement", <<>>, <<T>>)
Routes(b) == {Route("'/t'", <<>>, <<b>>), Route("'/t'", <<>>, <<Limit, b>>), Route("'/t'", <<"requires">>, <<NoLimit, b>>)}
RouteBodies == {Block1(Streamed), Block2(Expected, Proxied), Block2(Streamed, Simple)}
ServeClauses ==
    {Word(<<"max_body">>, <<One1>>), Word(<<"max_streams">>, <<One1>>), Limit, NoLimit,
     Word(<<"static">>, <<T>>), Word(<<"static">>, <<T, X>>), Word(<<"cors">>, <<T>>),
     Word(<<"private">>, <<>>), Word(<<"tls", "auto">>, <<>>), Word(<<"tls", "auto">>, <<X>>),
     Word(<<"tls">>, <<X, T>>), Word(<<"domain">>, <<T>>), Word(<<"redirect">>, <<>>),
     Node("DescribeClause", <<>>, <<Word(<<"about">>, <<T>>), Word(<<"api">>, <<X>>)>>),
     Node("HostBlock", <<>>, <<T, Word(<<"auth">>, <<X>>), Word(<<"tls">>, <<X, T>>),
                                Route("'/t'", <<"requires">>, <<Block1(X)>>)>>)}
Serve(clauses) == Node("ServeBlock", <<>>, <<One1>> \o clauses)
AuthWith == Word(<<"auth">>, <<X>>)
Servers ==
    {Serve(<<c, AuthWith, r>>) : c \in ServeClauses, r \in UNION {Routes(b) : b \in RouteBodies}}

\* Two statements at each level, so that what ends the first shows.
Program(statements) == Node("Program", <<>>, statements)
OfExpressions == {Program(<<Node("LetBinding", <<"y">>, <<e>>), Simple>>) : e \in Deep \cup Asked}
OfSoftWords == {Program(<<s, Simple>>) : s \in SoftPrograms}
OfStatements ==
    {Program(<<s, Simple>>) : s \in UNION {Plain(e) : e \in Exprs} \cup Servers}
    \cup {Program(<<s, Simple>>) : s \in UNION {Blocks(Block2(t, t)) : t \in Plain(X)}}
OfBlocks ==
    {Program(<<s, Simple>>) : s \in UNION {Blocks(Block2(c, Simple)) : c \in Blocks(Block1(X))}}
\* The ones that are laid out in every way.
OfLayouts ==
    LET two == Block2(X, Simple)
    IN  {Program(<<s, Simple>>) : s \in
            UNION {Blocks(Block2(c, Simple)) :
                    c \in {Node("WhenStatement", <<>>, <<X, two, two>>), Node("TryRecover", <<"y">>, <<two, two>>),
                           Node("MatchStatement", <<>>, <<X, Node("MatchArm", <<>>, <<One1, two>>), two>>)}}}
        \cup {Program(<<Serve(<<Limit, AuthWith, r>>), Simple>>) : r \in Routes(Block2(Streamed, Simple))}

\* Tasks that call one another, from everywhere in an expression.
CallOf(f) == Call(Ident(f), <<Arg(X)>>)
TaskOf(f, e) == Node("TaskDefinition", <<f>>, <<ParamNamed("x"), Block2(Node("LetBinding", <<"y">>, <<e>>), Node("GiveStatement", <<>>, <<CallOf(f)>>))>>)
OfCalls ==
    {Program(<<TaskOf("f", X), TaskOf("g", e), Node("ShowStatement", <<>>, <<CallOf("g")>>)>>) :
        e \in OtherOver(CallOf("f")) \cup AskedOf(CallOf("f")) \cup BinaryOver(CallOf("f"), CallOf("g"))}
    \cup {Program(<<Node("ExportDeclaration", <<>>, <<TaskOf("f", X)>>), TaskOf("g", CallOf("f"))>>),
          Program(<<TaskOf("f", X), Node("CheckpointStatement", <<>>, <<CallOf("f")>>)>>)}

-----------------------------------------------------------------------------
(***************************************************************************)
(* Texts given as they are, with the tree they stand for.                  *)
(***************************************************************************)
Text(text, statements) == [lines |-> text, prog |-> Program(statements)]
Ln(ind, lex) == [ind |-> ind, lex |-> lex]
Plus(l, r) == Bin("+", l, r)
\* Templates: see MCTemplates.
OfTemplates ==
    LET let(token, e) == Text(<<Ln(0, <<"let", "y", "be", token>>)>>, <<Node("LetBinding", <<"y">>, <<e>>)>>)
    IN  {let("@t", T), let("@hole", Plus(TextLiteral("''"), Bin("-", X, One1))),
         let("@around", Plus(Plus(T, X), T)),
         let("@holes", Plus(Plus(TextLiteral("''"), X), One1)), let("@empty", TextLiteral("''"))}
    \cup {Text(<<Ln(0, <<"let", "y", "be", "y", "of", "x">>)>>,
               <<Node("LetBinding", <<"y">>, <<Node("PropertyAccess", <<"y">>, <<X>>)>>)>>),
          Text(<<Ln(0, <<"let", "y", "be", "[", "1", ",">>), Ln(7, <<"--">>), Ln(3, <<"x">>), Ln(0, <<"]">>)>>,
               <<Node("LetBinding", <<"y">>, <<Node("ListLiteral", <<>>, <<One1, X>>)>>)>>)}

\* Steps of the document style: what is written, and the statements.
Simples ==
    {[lex |-> <<"Let", "y", "be", "x", ".">>, node |-> Simple],
     [lex |-> <<"Show", "x">>, node |-> Node("ShowStatement", <<>>, <<X>>)],
     [lex |-> <<"Give", "x", "(", ")", ".">>, node |-> Node("GiveStatement", <<>>, <<Call(X, <<>>)>>)],
     [lex |-> <<"Stop", ".", ".">>, node |-> Node("StopStatement", <<>>, <<>>)]}
Do(s) == Block1(s.node)
StepsOf(s, t) ==
    LET whenX == <<"When", "x", ",">> \o s.lex
        orElse(word) == word \o t.lex
        one(w, node) == [lines |-> w, node |-> node]
        two(w, node) == one(<<whenX, w>>, node)
    IN  {one(<<s.lex>>, s.node), one(<<<<"Then">> \o s.lex>>, s.node),
         one(<<whenX>>, Node("WhenStatement", <<>>, <<X, Do(s)>>)),
         two(orElse(<<"Otherwise", ",">>), Node("WhenStatement", <<>>, <<X, Do(s), Do(t)>>)),
         two(orElse(<<"otherwise">>), Node("WhenStatement", <<>>, <<X, Do(s), Do(t)>>)),
         two(orElse(<<"Otherwise", "when", "y", ",">>),
             Node("WhenStatement", <<>>, <<X, Do(s), Node("WhenStatement", <<>>, <<Ident("y"), Do(t)>>)>>)),
         one(<<orElse(<<"For", "each", "y", "in", "x", ",">>)>>,
             Node("EachStatement", <<"y">>, <<X, Do(t)>>))}
Rows(lexes, ind) == [i \in DOMAIN lexes |-> Ln(ind, lexes[i])]
Blank == <<Ln(0, <<>>)>>
OfFlat ==
    LET steps == UNION {StepsOf(s, t) : s \in Simples, t \in Simples}
        last == Text(<<Ln(0, <<"Let", "y", "be", "x", ".">>)>>, <<Simple>>)
        whole(header, q, end, node) ==
            Text(<<Ln(0, header)>> \o Rows(q.lines, 2) \o end \o last.lines, <<node, Simple>>)
    IN  UNION {
          {Text(Rows(q.lines, 0) \o last.lines, <<q.node, Simple>>),
           whole(<<"task", "f", "(", "x", ")", ":">>, q, <<Ln(0, <<"end">>)>>,
                 Node("TaskDefinition", <<"f">>, <<ParamNamed("x"), Block1(q.node)>>)),
           whole(<<"agent", "x", ":">>, q, Blank, Node("AgentDefinition", <<"x">>, <<Block1(q.node)>>))} :
          q \in steps}
        \cup {Text(<<Ln(0, <<"type", "y", ":">>), Ln(2, <<"x", ":", "y", ".">>), Ln(0, <<"end">>)>> \o last.lines,
                   <<Node("TypeDefinition", <<"y">>, <<Node("Member", <<"x", "y">>, <<>>)>>), Simple>>)}
=============================================================================
