------------------------------- MODULE AstApi -------------------------------
(***************************************************************************)
(* Editing a program by its tree (synsema-core/src/ast_api.rs) and reading *)
(* parts of it by address (addressable.rs); and test cases made from it     *)
(* (testgen.rs).  Trees are those of Parser.                               *)
(***************************************************************************)
EXTENDS Parser, FiniteSets

\* Kinds whose sub-nodes the walkers do not enter.  (Block, Pair and the like
\* are no nodes of the code: what is in them is a child of the node itself.)
NotEntered == {"LambdaExpression", "ExportDeclaration"}
NotEnteredToEdit == NotEntered \cup {"CheckpointStatement"}

children(n) == IF n.k \in NotEntered THEN <<>> ELSE n.c
children_mut(n) == IF n.k \in NotEnteredToEdit THEN <<>> ELSE n.c

\* The nodes of a tree as the walker meets them.
RECURSIVE walk(_)
walk(n) == FoldLeft(LAMBDA seen, child : seen \o walk(child), <<n>>, children(n))

OfKind(n, kind) == SelectSeq(walk(n), LAMBDA m : m.k = kind)
find_tasks(program) == OfKind(program, "TaskDefinition")
find_types(program) == OfKind(program, "TypeDefinition")
find_invariants(program) == OfKind(program, "InvariantDeclaration")
find_usages(program, name) ==
    SelectSeq(OfKind(program, "Identifier"), LAMBDA m : m.w[1] = name)

\* The first task of a name, if any; NoTree stands for none.
find_task_by_name(program, name) ==
    LET named == SelectSeq(find_tasks(program), LAMBDA t : t.w[1] = name)
    IN  IF named = <<>> THEN NoTree ELSE Head(named)

\* The names that a task calls, each once, in the order of the calls.
Distinct(seq) == FoldLeft(LAMBDA acc, e : IF Contains(acc, e) THEN acc ELSE Append(acc, e), <<>>, seq)
get_task_dependencies(program, name) ==
    LET task == find_task_by_name(program, name)
        calls == SelectSeq(OfKind(Last(task.c), "TaskCall"), LAMBDA m : m.c[1].k = "Identifier")
    IN  IF task = NoTree THEN <<>>
        ELSE Distinct([i \in DOMAIN calls |-> calls[i].c[1].w[1]])
get_dependency_graph(program) ==
    [name \in {find_tasks(program)[i].w[1] : i \in DOMAIN find_tasks(program)} |->
        get_task_dependencies(program, name)]

-----------------------------------------------------------------------------
(***************************************************************************)
(* Editing.                                                                *)
(***************************************************************************)
\* Fault: the calls keep the old name.
RenamedDefinition(n, old, new) ==
    IF n.k = "TaskDefinition" /\ n.w[1] = old THEN [n EXCEPT !.w[1] = new] ELSE n

Renamed(n, old, new) ==
    IF n.k \in {"TaskDefinition", "Identifier"} /\ n.w[1] = old
    THEN [n EXCEPT !.w[1] = new] ELSE n

RECURSIVE rename_task(_, _, _)
rename_task(n, old, new) ==
    [Renamed(n, old, new) EXCEPT
        !.c = IF children_mut(n) = <<>> THEN @
              ELSE [i \in DOMAIN n.c |-> rename_task(n.c[i], old, new)]]

make_identifier(name) == Node("Identifier", <<name>>, <<>>)
make_call(name, args) ==
    Node("TaskCall", <<>>, <<make_identifier(name)>>
            \o [i \in DOMAIN args |-> Node("Arg", <<>>, <<args[i]>>)])

Params(task) == SelectSeq(task.c, LAMBDA m : m.k = "Param")
ParamNamed(name) == Node("Param", <<name>>, <<>>)
add_parameter(task, name) ==
    IF \E i \in DOMAIN Params(task) : Params(task)[i].w[1] = name THEN task
    ELSE [task EXCEPT !.c = Front(@) \o <<ParamNamed(name), Last(@)>>]

\* Statements from..to become a task that is defined and called in their place.
extract_task(program, from, to, name, params) ==
    LET task == Node("TaskDefinition", <<name>>,
                    [i \in DOMAIN params |-> ParamNamed(params[i])]
                    \o <<Node("Block", <<>>, SubSeq(program.c, from, to))>>)
        call == make_call(name, [i \in DOMAIN params |-> make_identifier(params[i])])
    IN  [program EXCEPT !.c = SubSeq(@, 1, from - 1) \o <<task, call>>
                                \o SubSeq(@, to + 1, Len(@))]

\* The signatures of the statements of a program, not of what is inside them.
summarize(program) ==
    LET of(kind) == SelectSeq(program.c, LAMBDA m : m.k = kind)
        names(kind) == [i \in DOMAIN of(kind) |-> of(kind)[i].w[1]]
    IN  [tasks |-> names("TaskDefinition"), types |-> names("TypeDefinition"),
         agents |-> names("AgentDefinition"), intents |-> names("IntentDeclaration"),
         capabilities |-> names("RequireStatement"), variables |-> names("LetBinding"),
         invariants |-> Len(of("InvariantDeclaration"))]

-----------------------------------------------------------------------------
(***************************************************************************)
(* Reading by address.                                                     *)
(***************************************************************************)
\* The line where the first task of a name is defined (the position of its
\* token).
Defines(line, name) ==
    \E j \in 1..Len(line.lex) - 1 : line.lex[j] = "task" /\ line.lex[j + 1] = name
TaskLine(lines, name) ==
    CHOOSE i \in DOMAIN lines : Defines(lines[i], name)
        /\ \A j \in 1..i - 1 : ~Defines(lines[j], name)

\* Fault: the line that ends the task is taken with it.
extract_lines_as_far(lines, start, max) ==
    LET last == IF start + max - 1 < Len(lines) THEN start + max - 1 ELSE Len(lines)
        out == {i \in start + 1..last : lines[i].lex # <<>> /\ lines[i].ind < lines[start].ind}
        end == IF out = {} THEN last ELSE (CHOOSE i \in out : \A j \in out : i <= j) - 1
    IN  SubSeq(lines, start, end)

\* The line and the lines after it that are blank or further in, at most max
\* in all.
extract_lines(lines, start, max) ==
    LET last == IF start + max - 1 < Len(lines) THEN start + max - 1 ELSE Len(lines)
        out == {i \in start + 1..last : lines[i].lex # <<>> /\ lines[i].ind <= lines[start].ind}
        end == IF out = {} THEN last ELSE (CHOOSE i \in out : \A j \in out : i <= j) - 1
    IN  SubSeq(lines, start, end)

NotFound == [found |-> FALSE, lines |-> <<>>, params |-> <<>>, deps |-> <<>>]
address(lines, program, selector, name) ==
    LET task == find_task_by_name(program, name)
        params == [i \in DOMAIN Params(task) |-> Params(task)[i].w[1]]
    IN  CASE selector = "task" /\ task # NoTree ->
                [found |-> TRUE, params |-> params,
                 lines |-> extract_lines(lines, TaskLine(lines, name), 30),
                 deps |-> get_task_dependencies(program, name)]
          [] selector = "signature" /\ task # NoTree ->
                [NotFound EXCEPT !.found = TRUE, !.params = params]
          [] selector = "deps" ->
                [NotFound EXCEPT !.found = TRUE, !.deps = get_task_dependencies(program, name)]
          [] OTHER -> NotFound
-----------------------------------------------------------------------------
(***************************************************************************)
(* Test cases made from the tree of a program and run against it           *)
(* (synsema-core/src/testgen.rs).  A value is named after the edge it      *)
(* stands for; what a call answers, a value or an error, is given.         *)
(***************************************************************************)

gen_numbers == <<"0", "1", "-1", "0.5", "-0.5", "10", "-10", "0.0001">>
gen_texts == <<"empty", "blank", "hello", "words", "long", "special", "unicode", "lines">>
\* The first edge value of a type; nothing for a type that has none.
generate_value(type) ==
    CASE type = "number" -> gen_numbers[1] [] type = "text" -> gen_texts[1]
      [] type = "bool" -> "true" [] type = "list" -> "[]" [] type = "map" -> "{}"
      [] OTHER -> "nothing"

TestCase(name, inputs, check) == [task |-> name, inputs |-> inputs, check |-> check]
\* The same value for every parameter.
Filled(params, value) == [i \in 1..params |-> value]

task_tests(task) ==
    LET name == task.w[1]
        n == Len(Params(task))
        no_error(value) == TestCase(name, Filled(n, value), "no_error")
        edges == [i \in 1..5 |-> no_error(gen_numbers[i])]
                 \o [i \in 1..3 |-> no_error(gen_texts[i])] \o <<no_error("nothing")>>
    IN  IF n = 0 THEN <<no_error("nothing")>>
        ELSE edges \o (IF n = 1 THEN <<TestCase(name, <<"42">>, "idempotent")>> ELSE <<>>)

invariant_tests(program) ==
    [i \in DOMAIN find_invariants(program) |-> TestCase("__invariant__", <<>>, "invariant")]

type_tests(type) ==
    LET inputs == [i \in DOMAIN type.c |-> generate_value(type.c[i].w[2])]
        name == type.w[1]
    IN  <<TestCase(name, inputs, "no_error")>>
        \o (IF inputs = <<>> THEN <<>> ELSE <<TestCase(name, Front(inputs), "should_error")>>)

generate_all(program) ==
    LET flat(seqs) == FoldLeft(LAMBDA acc, s : acc \o s, <<>>, seqs)
        tasks == find_tasks(program)
        types == find_types(program)
    IN  flat([i \in DOMAIN tasks |-> task_tests(tasks[i])]) \o invariant_tests(program)
        \o flat([i \in DOMAIN types |-> type_tests(types[i])])

\* What a case is worth, given whether its name is bound and whether the call
\* (the condition, for an invariant) answers well.  A second call that fails
\* is not looked at.
run_case(case, bound, answers) ==
    CASE case.check = "invariant" -> answers
      [] case.check # "invariant" /\ ~bound -> FALSE
      [] case.check = "should_error" /\ bound -> ~answers
      [] case.check = "no_error" /\ bound -> answers
      [] case.check = "idempotent" /\ bound -> TRUE

\* bound and answers: functions of the position of the case.
run_all(cases, bound, answers) ==
    LET passed == {i \in DOMAIN cases : run_case(cases[i], bound[i], answers[i])}
    IN  [total |-> Len(cases), passed |-> Cardinality(passed),
         failed |-> Len(cases) - Cardinality(passed), errors |-> 0]
=============================================================================
