----------------------------- MODULE LanguageMC -----------------------------
(***************************************************************************)
(* What is done with the text of a program: it is written as the reference *)
(* says and laid out in some way, or given in the document style, read     *)
(* back by the lexer and the parser, its tasks renamed, shown by address   *)
(* and tested.  Literals and layout are read from arbitrary texts.  And    *)
(* the values a program computes with, and what else is read or copied for *)
(* it: each case is a state of its own.                                    *)
(***************************************************************************)
EXTENDS AstApi

MCWords == {"x", "y", "f", "g", "h", "_", "requires", "https", "second", "minute",
            "hour", "none", "unlimited", "auto", "cert", "key", "from", "body",
            "timeout", "about", "api", "between", "given", "for",
            "agent", "spawn", "share", "observe", "signal", "approve", "show",
            "confirm", "trace", "log", "measure", "checkpoint", "ask", "serve", "on",
            "route", "auth", "expect", "max_body", "max_streams", "stream", "send",
            "test", "describe", "private", "rate_limit", "per", "export", "use",
            "enum", "proxy", "host", "static", "cors", "tls", "domain", "redirect"}
MCTexts == {"'t'", "'/t'"}
MCTemplates ==
    [t \in {"@t", "@hole", "@around", "@holes", "@empty"} |->
        CASE t = "@t" -> <<Literal("'t'")>>
          [] t = "@hole" -> <<Interp(<<"x", "-", "1">>)>>
          [] t = "@around" -> <<Literal("'t'"), Interp(<<"x">>), Literal("'t'")>>
          [] t = "@holes" -> <<Interp(<<"x">>), Interp(<<"1">>)>>
          [] t = "@empty" -> <<>>]
MCRouteSpecs == [t \in {"'/t'"} |->
    [method |-> TRUE, slash |-> TRUE, segs |-> <<[mark |-> "", name |-> "t"]>>]]

Wr == INSTANCE Printer
\* Integers of four bits, floats that hold three of them: -8..7, and 9 is no
\* float.
L == INSTANCE ValueLaws WITH Width <- 4, Mantissa <- 3, MaxDecimal <- 9

T == INSTANCE Readers

VARIABLES
    prog,   \* what the text is meant to be
    lines,  \* the text
    tree,   \* what it was read as
    stage
vars == <<prog, lines, tree, stage>>

-----------------------------------------------------------------------------
\* The ways a text may be laid out: how wide a block is, and a line without
\* a statement somewhere, but for the blocks whose first line has to follow
\* the header at once.
Filler == {Row(0, <<COMMENT>>), Row(9, <<COMMENT>>), Row(9, <<>>)}
Wide(text, w) == [i \in DOMAIN text |-> [text[i] EXCEPT !.ind = w * @]]
FixedLookahead(line) == Starts(line.lex, {"sandbox", "stream"}) \/ Contains(line.lex, "reason")
Gaps(text) == {j \in 2..Len(text) + 1 : ~FixedLookahead(text[j - 1])}
Layouts(text) ==
    {Wide(text, 1), Wide(text, 3), Append(Wide(text, 2), Row(0, <<>>))}
    \cup {InsertAt(Wide(text, 2), i, f) : i \in Gaps(text), f \in Filler}

Programs == Wr!OfExpressions \cup Wr!OfSoftWords \cup Wr!OfStatements
                \cup Wr!OfBlocks \cup Wr!OfLayouts \cup Wr!OfCalls

\* Lines that were not written by anybody: every width, brackets that do not
\* match, comments.
RawLines == [ind : 0..2, lex : {<<>>, <<COMMENT>>, <<"x">>, <<"[">>, <<"]", "x">>}]
RawTexts == UNION {[1..n -> RawLines] : n \in 0..3}

Strings == UNION {[1..n -> Chars] : n \in 0..4}
Holes == {<<"a">>, <<"q", "}", "q">>, <<"{", "a", "}">>, <<"b", "s", "b", "{", "b", "a">>}
Segments == {Literal(<<c, d>>) : c \in Chars, d \in Chars} \cup {Interp(h) : h \in Holes}
SegmentLists ==
    {<<>>} \cup {<<s>> : s \in Segments}
    \cup {<<s, t>> \in Segments \X Segments : s.hole \/ t.hole}

Start(p, l, s) == prog = p /\ lines = l /\ tree = NoTree /\ stage = s
Init == \/ \E p \in Programs : Start(p, <<>>, "made")
        \/ \E t \in Wr!OfTemplates : Start(t.prog, t.lines, "written")
        \/ \E t \in Wr!OfFlat : Start(t.prog, t.lines, "flat")
        \/ \E t \in RawTexts : Start(NoTree, t, "raw")
        \/ \E t \in Strings : Start(NoTree, t, "string")
        \/ \E t \in SegmentLists : Start(NoTree, t, "template")
        \/ \E a, b \in L!NumberCases : Start(<<a, b>>, <<>>, "numbers")
        \/ \E a, b \in L!ValueCases : Start(<<a, b>>, <<>>, "values")
        \/ \E items \in L!Items : Start(items, <<>>, "list")
        \/ \E call \in L!CallCases : Start(call, <<>>, "call")
        \/ \E text \in T!EnvCases : Start(text, <<>>, "env")
        \/ \E codes \in T!SignatureCases : Start(codes, <<>>, "signature")
        \/ \E path \in T!Paths : Start(path, <<>>, "path")
        \/ \E pair \in T!PatternCases : Start(pair, <<>>, "pattern")
        \/ \E url \in T!UrlCases : Start(url, <<>>, "url")
        \/ \E case \in T!RangeCases : Start(case, <<>>, "range")
        \/ \E case \in T!PageCases : Start(case, <<>>, "page")
        \/ \E world \in T!Worlds : Start(world, <<>>, "world")

Write ==
    /\ stage = "made" /\ stage' = "written"
    /\ lines' \in IF prog \in Wr!OfLayouts THEN Layouts(Wr!Written(prog)) ELSE {Wr!Written(prog)}
    /\ UNCHANGED <<prog, tree>>
Translate ==
    /\ stage = "flat" /\ stage' = "written"
    /\ lines' = translate_flat(lines)
    /\ UNCHANGED <<prog, tree>>
ReadBack ==
    /\ stage = "written" /\ stage' = "read"
    /\ tree' = parse_source(lines)
    /\ UNCHANGED <<prog, lines>>
\* The names f and g are those of tasks only.
Rename ==
    /\ stage = "read" /\ prog \in Wr!OfCalls /\ stage' = "renamed"
    /\ tree' = rename_task(tree, "f", "h")
    /\ UNCHANGED <<prog, lines>>
Next == Write \/ Translate \/ ReadBack \/ Rename

-----------------------------------------------------------------------------
\* The remainder by a number that is not zero is a number, as in Python.
ModuloIsFloored == stage = "numbers" => L!RemainderIsNumber(prog[1], prog[2])
\* The answers of the arithmetic are exact and agree with the order, also where
\* an integer leaves its width; equality, truth, the copy for another thread,
\* secrets and arrays agree; a scope covers what its pattern, its path or its
\* database says, however it is written; and the globals of a request are those of
\* the program.
ValuesAgree ==
    /\ stage = "numbers" => L!NumberLaw(prog[1], prog[2])
    /\ stage = "values" => L!ValueLaw(prog[1], prog[2])
    /\ stage = "path" => T!PathLaw(prog)
    /\ stage = "pattern" => T!PatternLaw(prog[1], prog[2])
    /\ stage = "url" => T!UrlLaw(prog)
    /\ stage = "world" => T!WorldLaw(prog)
\* Lists are taken apart by slices, patterns and keys without losing, moving or
\* repeating an item, and the arguments of a call are given each to its own
\* parameter, or to the field of a variant; a range of a file and the pages of a
\* list have all their parts, once.
PartsAreWhole ==
    /\ stage = "list" => L!ListLaw(prog)
    /\ stage = "call" =>
        /\ L!CallLaw(prog[1], prog[2])
        /\ L!VariantLaw([i \in DOMAIN prog[1] |-> prog[1][i].name],
                        [i \in DOMAIN prog[2] |-> prog[2][i][2]])
    /\ stage = "range" => T!RangeLaw(prog[1], prog[2])
    /\ stage = "page" => T!PageLaw(prog[1], prog[2])

\* Every block that begins ends, and none ends that did not begin, in every
\* text: also where brackets do not match or lines are only comments.
BlocksBalance ==
    LET toks == tokenize_filtered(lines).toks
        count(t, n) == Cardinality({i \in 1..n : toks[i] = t})
    IN  (stage = "raw" /\ tokenize_filtered(lines).ok) =>
            /\ \A n \in DOMAIN toks : count(DEDENT, n) <= count(INDENT, n)
            /\ count(DEDENT, Len(toks)) = count(INDENT, Len(toks))

Escaped(text, special) ==
    FoldLeft(LAMBDA acc, c : acc \o (IF c = "N" THEN <<"s", "n">>
                                     ELSE IF c \in special THEN <<"s", c>> ELSE <<c>>), <<>>, text)
TemplateText(segs) ==
    FoldLeft(LAMBDA acc, s : acc \o (IF s.hole THEN <<"{">> \o s.src \o <<"}">>
                                     ELSE Escaped(s.src, {"s", "b", "{"})), <<>>, segs)
\* A text written with its escapes is read as that text, and a template as its
\* segments, with strings and braces inside the holes.
LiteralsReadBack ==
    /\ stage = "string" =>
        LET written == Append(Escaped(lines, {"q", "s"}), "q")
        IN  read_string(written, 1, <<>>)
                = [ok |-> TRUE, text |-> lines, next |-> Len(written) + 1]
    /\ stage = "template" =>
        read_template(Append(TemplateText(lines), "b"), 1, <<>>, <<>>)
            = [ok |-> TRUE, segs |-> lines]

\* A program that is written as the reference says, with no more parentheses
\* than the precedence of its operators asks for, is read back as it was,
\* whatever its layout; so is a program in the document style, and so are its
\* texts and templates, the variables of a file .env, and signatures in base 16
\* and 64; and the blocks of every text balance.
ReadsBack ==
    /\ stage = "read" => tree = prog
    /\ LiteralsReadBack
    /\ stage = "env" => T!EnvLaw(prog)
    /\ stage = "signature" => T!SignatureLaw(prog[1], prog[2])
    /\ BlocksBalance

RECURSIVE Everywhere(_, _, _)
Everywhere(n, old, new) ==
    [n EXCEPT !.w = [i \in DOMAIN @ |-> IF @[i] = old THEN new ELSE @[i]],
              !.c = [i \in DOMAIN @ |-> Everywhere(@[i], old, new)]]
RECURSIVE AnyOf(_, _)
AnyOf(n, kinds) == n.k \in kinds \/ \E i \in DOMAIN n.c : AnyOf(n.c[i], kinds)
NewName(name) == IF name = "f" THEN "h" ELSE name
RenamedAs(graph) ==
    [name \in {NewName(m) : m \in DOMAIN graph} |->
        LET old == CHOOSE m \in DOMAIN graph : NewName(m) = name
        IN  [i \in DOMAIN graph[old] |-> NewName(graph[old][i])]]
RenamesEveryUse == stage = "renamed" => tree = Everywhere(prog, "f", "h")

\* What is shown of a task is a text of that task and of no more, and the
\* calls of its cases have as many arguments as it has parameters.
Outdented(text) == [i \in DOMAIN text |-> [text[i] EXCEPT !.ind = @ - text[1].ind]]
TaskShown ==
    LET shown == address(lines, tree, "task", "f")
        task == find_task_by_name(tree, "f")
        noCommentOutside == \A i \in DOMAIN lines : lines[i] # Row(0, <<COMMENT>>)
        cases == generate_all(tree)
    IN  stage = "read" /\ shown.found =>
            /\ noCommentOutside => parse_source(Outdented(shown.lines)).c = <<task>>
            /\ \E i \in DOMAIN cases : cases[i].task = "f"
            /\ \A i \in DOMAIN cases : cases[i].task = "f" =>
                 \E j \in DOMAIN find_tasks(tree) :
                    /\ find_tasks(tree)[j].w[1] = "f"
                    /\ Len(cases[i].inputs) = Len(Params(find_tasks(tree)[j]))

\* Renaming a task changes its name wherever it is, and nothing else; and the
\* graph of who calls whom is the one before under the new name.  A task
\* is shown and tested as it is.
RenameKeepsProgram ==
    /\ stage = "renamed" /\ ~AnyOf(prog, NotEnteredToEdit) =>
        /\ RenamesEveryUse
        /\ get_dependency_graph(tree) = RenamedAs(get_dependency_graph(prog))
        /\ Len(find_usages(tree, "h")) = Len(find_usages(prog, "f"))
    /\ TaskShown
=============================================================================
