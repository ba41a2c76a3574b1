------------------------------- MODULE Lexer -------------------------------
(***************************************************************************)
(* The lexer (synsema-core/src/lexer.rs, tokens.rs).                       *)
(*                                                                         *)
(* A source text is a sequence of lines, a line the width of its leading   *)
(* blanks and its lexemes.  A lexeme is the string that a token of the     *)
(* program is written with; "--" stands for a comment up to the end of the *)
(* line.  What the lexer adds to the lexemes is layout: NL, INDENT, DEDENT *)
(* and EOF.  The two literals with an inside, strings and templates, are   *)
(* read character by character, from classes of characters.  At the end is *)
(* the document style, which is rewritten before it is read.               *)
(***************************************************************************)
EXTENDS Integers, Sequences, SequencesExt

NL == "NL"
INDENT == "INDENT"
DEDENT == "DEDENT"
EOF == "EOF"
COMMENT == "--"

\* The reserved words; every other word is an identifier, the words of the
\* server and of the agents included: the parser knows those by position.
keyword_lookup ==
    {"when", "otherwise", "each", "while", "match", "is", "then", "and_then",
     "stop", "repeat", "in", "with", "task", "give", "let", "be", "set", "to",
     "as", "of", "type", "wait_for", "require", "allow", "deny", "sandbox",
     "verify", "reason", "intent", "invariant", "decide", "analyze",
     "generate", "try", "recover", "true", "false", "nothing", "and", "or",
     "not"}

Openers == {"(", "[", "{"}
Closers == {")", "]", "}"}

\* stack: the widths of the open blocks; depth: brackets that are open.
Lexer_new == [toks |-> <<>>, stack |-> <<0>>, depth |-> 0, ok |-> TRUE]

Emit(s, token) == [s EXCEPT !.toks = Append(@, token)]

-----------------------------------------------------------------------------
(***************************************************************************)
(* Layout.                                                                 *)
(***************************************************************************)
Times(n, token) == [i \in 1..n |-> token]

\* A blank line, or one with only a comment, says nothing about blocks.  A
\* width that returns to none of the open blocks is an error.
handle_indentation(s, line) ==
    LET closed == {i \in DOMAIN s.stack : s.stack[i] > line.ind}
        stack == SubSeq(s.stack, 1, Len(s.stack) - Cardinality(closed))
    IN  IF line.lex = <<>> \/ Head(line.lex) = COMMENT THEN s
        ELSE IF line.ind > Last(s.stack)
             THEN [Emit(s, INDENT) EXCEPT !.stack = Append(@, line.ind)]
             ELSE [s EXCEPT !.stack = stack,
                            !.toks = @ \o Times(Cardinality(closed), DEDENT),
                            !.ok = Last(stack) = line.ind]

\* A newline is a token outside brackets only, and never twice in a row.
Newline(s) ==
    IF s.depth > 0 \/ s.toks = <<>> \/ Last(s.toks) = NL THEN s ELSE Emit(s, NL)

\* A bracket that closes nothing leaves the depth at zero.
Lexeme(s, lexeme) ==
    [Emit(s, lexeme) EXCEPT
        !.depth = IF lexeme \in Openers THEN @ + 1
                  ELSE IF lexeme \in Closers /\ @ > 0 THEN @ - 1 ELSE @]

\* One line and the line break that ends it, if one does.
Line(s, line, ends) ==
    LET begun == IF s.depth = 0 THEN handle_indentation(s, line) ELSE s
        read == FoldLeft(Lexeme, begun, line.lex)
    IN  IF ~s.ok THEN s ELSE IF ends THEN Newline(read) ELSE read

\* Fault: the blocks that the end of the text leaves open are not closed.
FinishOpen(s) == IF s.toks = <<>> \/ Last(s.toks) = NL THEN s ELSE Emit(s, NL)

\* At the end of the text the open blocks are closed and the last token is a
\* newline.
Finish(s) ==
    LET closed == [s EXCEPT !.toks = @ \o Times(Len(s.stack) - 1, DEDENT)]
    IN  IF closed.toks = <<>> \/ Last(closed.toks) = NL THEN closed
        ELSE Emit(closed, NL)

tokenize(lines) ==
    LET all == FoldLeft(LAMBDA s, i : Line(s, lines[i], i < Len(lines)),
                        Lexer_new, [i \in DOMAIN lines |-> i])
    IN  Emit(Finish(all), EOF)

\* The tokens the parser sees.
tokenize_filtered(lines) ==
    LET all == tokenize(lines)
    IN  [all EXCEPT !.toks = SelectSeq(@, LAMBDA t : t # COMMENT)]

-----------------------------------------------------------------------------
(***************************************************************************)
(* Strings and templates.  A character is "a" (any plain one), "q" (the    *)
(* quote), "b" (the backtick), "s" (the backslash), "n" (the letter of an  *)
(* escape), "N" (a line break), "{" or "}".                                *)
(***************************************************************************)
Chars == {"a", "q", "b", "s", "n", "N", "{", "}"}

\* What a backslash and the character after it stand for: an escape that is
\* not in the table is kept as it is written.
Escape(c, table) == IF c \in DOMAIN table THEN <<table[c]>> ELSE <<"s", c>>
StringEscapes == [n |-> "N", s |-> "s", q |-> "q"]
TemplateEscapes == StringEscapes @@ [b |-> "b"] @@ ("{" :> "{")

\* The text of a string whose opening quote is just before i, and where it
\* ends; a line break or the end of the source leaves it unterminated.
RECURSIVE read_string(_, _, _)
read_string(src, i, text) ==
    CASE i > Len(src) \/ src[i] = "N" -> [ok |-> FALSE, text |-> text, next |-> i]
      [] src[i] = "q" -> [ok |-> TRUE, text |-> text, next |-> i + 1]
      [] src[i] = "s" ->
            IF i = Len(src) THEN read_string(src, i + 1, Append(text, "s"))
            ELSE read_string(src, i + 2, text \o Escape(src[i + 1], StringEscapes))
      [] OTHER -> read_string(src, i + 1, Append(text, src[i]))

\* The end of a string nested in a hole: it is copied as it is, and a
\* backslash takes the next character with it.
RECURSIVE SkipNested(_, _, _)
SkipNested(src, i, delim) ==
    CASE i > Len(src) -> i
      [] src[i] = "s" -> SkipNested(src, i + 2, delim)
      [] src[i] = delim -> i + 1
      [] OTHER -> SkipNested(src, i + 1, delim)

\* Where the brace is that closes a hole, or one past the end if none does.
RECURSIVE HoleEnd(_, _, _)
HoleEnd(src, i, depth) ==
    CASE i > Len(src) -> Len(src) + 1
      [] src[i] \in {"q", "b"} -> HoleEnd(src, SkipNested(src, i + 1, src[i]), depth)
      [] src[i] = "{" -> HoleEnd(src, i + 1, depth + 1)
      [] src[i] = "}" -> IF depth = 1 THEN i ELSE HoleEnd(src, i + 1, depth - 1)
      [] OTHER -> HoleEnd(src, i + 1, depth)

Literal(text) == [hole |-> FALSE, src |-> text]
Interp(src) == [hole |-> TRUE, src |-> src]
Flush(segs, text) == IF text = <<>> THEN segs ELSE Append(segs, Literal(text))

\* The segments of a template whose opening backtick is just before i.
RECURSIVE read_template(_, _, _, _)
read_template(src, i, text, segs) ==
    CASE i > Len(src) -> [ok |-> FALSE, segs |-> segs]
      [] src[i] = "s" ->
            IF i = Len(src) THEN read_template(src, i + 1, Append(text, "s"), segs)
            ELSE read_template(src, i + 2, text \o Escape(src[i + 1], TemplateEscapes), segs)
      [] src[i] = "b" -> [ok |-> TRUE, segs |-> Flush(segs, text)]
      [] src[i] = "{" ->
            LET end == HoleEnd(src, i + 1, 1)
            IN  IF end > Len(src) THEN [ok |-> FALSE, segs |-> segs]
                ELSE read_template(src, end + 1, <<>>,
                        Append(Flush(segs, text), Interp(SubSeq(src, i + 1, end - 1))))
      [] OTHER -> read_template(src, i + 1, Append(text, src[i]), segs)
-----------------------------------------------------------------------------
(***************************************************************************)
(* The document style of writing a program (synsema-core/flat_syntax.rs):  *)
(* one step to a line, ended by a period, "When X, do Y."  It is rewritten *)
(* to lines of the standard syntax before the lexer reads them.  Lines are *)
(* those of Lexer; "," and "." are lexemes of their own.                   *)
(***************************************************************************)

Keywords ==
    [Let |-> "let", Set |-> "set", Give |-> "give", Show |-> "show", Log |-> "log",
     Stop |-> "stop", Approve |-> "approve", Confirm |-> "confirm",
     Share |-> "share", Observe |-> "observe", Require |-> "require",
     Spawn |-> "spawn"]

Starts(lex, heads) == lex # <<>> /\ lex[1] \in heads
\* The first comma with something before it, from position p on; 0 if none.
CommaAfter(lex, p) ==
    LET at == {i \in p + 1..Len(lex) - 1 : lex[i] = ","}
    IN  IF at = {} THEN 0 ELSE CHOOSE i \in at : \A j \in at : i <= j
Before(lex, from, comma) == SubSeq(lex, from, comma - 1)
After(lex, i) == SubSeq(lex, i + 1, Len(lex))

RECURSIVE WithoutPeriods(_)
WithoutPeriods(lex) ==
    IF lex # <<>> /\ Last(lex) = "." THEN WithoutPeriods(Front(lex)) ELSE lex

Row(ind, lex) == [ind |-> ind, lex |-> lex]
\* The text after a line break is not indented again: only the first line of
\* what is done moves in.
Under(header, action) ==
    <<Row(0, header), Row(4, action[1].lex)>> \o Tail(action)

RECURSIVE translate_statement(_)
translate_statement(line) ==
    LET lex == WithoutPeriods(line)
        two == IF Len(lex) > 1 THEN SubSeq(lex, 1, 2) ELSE <<>>
        comma == CommaAfter(lex, 2)
        commaOfOtherwise == CommaAfter(lex, 3)
        commaOfEach == CommaAfter(lex, 5)
    IN
    CASE lex = <<>> -> <<Row(0, <<>>)>>
      [] Starts(lex, {"When", "when"}) /\ comma > 0 ->
            Under(<<"when">> \o Before(lex, 2, comma), translate_statement(After(lex, comma)))
      [] two \in {<<"Otherwise", "when">>, <<"otherwise", "when">>} /\ commaOfOtherwise > 0 ->
            Under(<<"otherwise", "when">> \o Before(lex, 3, commaOfOtherwise),
                  translate_statement(After(lex, commaOfOtherwise)))
      [] Starts(lex, {"Otherwise", "otherwise"}) /\ Len(lex) > 1 /\ lex # <<lex[1], ",">> ->
            Under(<<"otherwise">>, translate_statement(After(lex, IF lex[2] = "," THEN 2 ELSE 1)))
      [] Starts(lex, {"Then", "then"}) /\ Len(lex) > 1 -> translate_statement(Tail(lex))
      [] two \in {<<"For", "each">>, <<"for", "each">>} /\ commaOfEach > 0 /\ lex[4] = "in" ->
            Under(<<"each">> \o Before(lex, 3, commaOfEach),
                  translate_statement(After(lex, commaOfEach)))
      [] OTHER ->
            IF Head(lex) \in DOMAIN Keywords
            THEN <<Row(0, <<Keywords[Head(lex)]>> \o Tail(lex))>> ELSE <<Row(0, lex)>>

\* The header of a definition, up to what its colon follows.
HeaderEnd(lex) ==
    LET colons == {i \in DOMAIN lex : lex[i] = ":"}
        colon == IF colons = {} THEN 0 ELSE CHOOSE i \in colons : \A j \in colons : i <= j
    IN  CASE Starts(lex, {"task"}) /\ colon > 4 /\ lex[3] = "(" /\ lex[colon - 1] = ")" -> colon - 1
          [] Starts(lex, {"agent", "type"}) /\ colon = 3 -> 2
          [] OTHER -> 0

IsEnd(line) == line.lex \in {<<"end">>, <<"End">>, <<"END">>}
\* The rows of a body: blank lines before it are passed over, a blank line
\* after some of it ends it, and so does "end".
RECURSIVE collect_body(_, _, _)
collect_body(lines, i, body) ==
    CASE i > Len(lines) \/ IsEnd(lines[i]) \/ (lines[i].lex = <<>> /\ body # <<>>) -> body
      [] OTHER -> collect_body(lines, i + 1, IF lines[i].lex = <<>> THEN body
                                            ELSE Append(body, lines[i].lex))

Indented(rows) == [i \in DOMAIN rows |-> [rows[i] EXCEPT !.ind = @ + 4]]
Concat(seqs) == FoldLeft(LAMBDA acc, s : acc \o s, <<>>, seqs)

\* What the rows of a body become, and where the text goes on: as many lines
\* further as the body has rows, and past an "end" there.
RECURSIVE translate(_, _)
translate(lines, i) ==
    IF i > Len(lines) THEN <<>>
    ELSE LET lex == lines[i].lex
             header == HeaderEnd(lex)
             body == collect_body(lines, i + 1, <<>>)
             rows == IF lex # <<>> /\ lex[1] = "type"
                     THEN [j \in DOMAIN body |-> Row(0, WithoutPeriods(body[j]))]
                     ELSE Concat([j \in DOMAIN body |-> translate_statement(body[j])])
             next == i + 1 + Len(body)
         IN  CASE lex = <<>> \/ lex[1] = "--" -> <<lines[i]>> \o translate(lines, i + 1)
               [] header > 0 ->
                    <<Row(0, SubSeq(lex, 1, header))>> \o Indented(rows)
                    \o translate(lines, IF next <= Len(lines) /\ IsEnd(lines[next])
                                        THEN next + 1 ELSE next)
               [] OTHER -> translate_statement(lex) \o translate(lines, i + 1)

translate_flat(lines) == translate(lines, 1)
=============================================================================
