-------------------------------- MODULE Files --------------------------------
(***************************************************************************)
(* The file builtins (synsema-capabilities/src/secure.rs) of callers that  *)
(* share one file system: interpreters of one process, or processes.  A    *)
(* text is a sequence of pieces, each as much as one system call writes.   *)
(* A file that is open outlives its name: a call knows whether what it     *)
(* opened is now the file, its temporary file, or nowhere.                 *)
(***************************************************************************)
EXTENDS Integers, Sequences, FiniteSets

CONSTANTS
    Callers,
    Pieces,      \* what write_file and append_file are given
    Edits,       \* <<old, new>>: what edit_file is given
    Allowed,     \* <<caller, kind, path>>: what its capabilities cover
    MaxLength    \* bounds the pieces of a file

Dir == "dir"     \* a directory
File == "file"   \* a file in it
Temp == "temp"   \* the file's name followed by .synsema.tmp
Gone == "gone"
Absent == <<"absent">>

VARIABLES
    texts,      \* File, Temp -> its text, or Absent
    call,       \* what each caller does
    truth,      \* history: the text the file was last given
    overlapped  \* history: two calls changed the file at the same time, and none alone since
vars == <<texts, call, truth, overlapped>>

Idle == [op |-> "idle", from |-> File, on |-> Gone, own |-> <<>>, could |-> {}, got |-> <<>>,
         text |-> <<>>, at |-> 0, alone |-> TRUE]
Init == /\ texts = [p \in {File, Temp} |-> Absent]
        /\ call = [c \in Callers |-> Idle]
        /\ truth = Absent /\ overlapped = FALSE

Changing(c) == call[c].op \in {"edit", "write", "append"}
Returns(c) == call' = [call EXCEPT ![c] = Idle]

(* A call that changes the file begins: if another one is under way, no    *)
(* call knows any more what it will find, until one changes it alone.      *)
BeginsToChange(c, r) ==
    LET alone == \A d \in Callers \ {c} : ~Changing(d)
    IN  /\ overlapped' = (overlapped \/ ~alone)
        /\ call' = [d \in Callers |->
                       IF d = c THEN [r EXCEPT !.alone = alone]
                       ELSE IF alone \/ call[d] = Idle THEN call[d]
                       ELSE [call[d] EXCEPT !.alone = FALSE]]

(* The call ends and the file has a new text, which those that read may    *)
(* see.                                                                    *)
Publish(c, text, calls) ==
    /\ truth' = text
    /\ call' = [d \in Callers |->
                   IF d = c THEN Idle
                   ELSE IF calls[d].op = "read" THEN [calls[d] EXCEPT !.could = @ \cup {text}]
                   ELSE calls[d]]
-----------------------------------------------------------------------------
(* read_file, read_file_bytes and grep: open a file, then read what was     *)
(* opened.  A grep of the directory opens what is in it, with no check of  *)
(* each name, and passes over what is gone by then.                        *)
grep_collect(p) == IF p = Dir THEN {q \in {File, Temp} : texts[q] # Absent} ELSE {p}
OpenToRead(c, p, q) ==
    /\ call[c] = Idle /\ <<c, "read", p>> \in Allowed /\ q \in grep_collect(p) /\ texts[q] # Absent
    /\ call' = [call EXCEPT ![c] = [Idle EXCEPT !.op = "read", !.from = q, !.on = q,
                                                !.could = {truth}, !.alone = ~overlapped]]
    /\ UNCHANGED <<texts, truth, overlapped>>
Read(c) ==
    /\ call[c].op = "read"
    /\ LET r == call[c]
       IN  call' = [call EXCEPT ![c] =
               [Idle EXCEPT !.op = "answered", !.from = r.from, !.could = r.could, !.alone = r.alone,
                            !.got = IF r.on = Gone THEN r.own ELSE texts[r.on]]]
    /\ UNCHANGED <<texts, truth, overlapped>>
Answer(c) ==
    /\ call[c].op = "answered" /\ Returns(c)
    /\ UNCHANGED <<texts, truth, overlapped>>

(* read_lines_range: the lines from one, counted from 1, as many as asked  *)
(* (-1: all), whatever the end of the text; a piece is a line.             *)
All == 0 - 1
read_lines_range(text, offset, limit) ==
    LET start == IF offset = 0 THEN 0 ELSE offset - 1
        end == IF limit = All THEN Len(text) ELSE start + limit
    IN  SubSeq(text, start + 1, IF end < Len(text) THEN end ELSE Len(text))
-----------------------------------------------------------------------------
(* atomic_write, up to the temporary file, whose name does not depend on   *)
(* the caller: one that is there is cut to nothing.  The directories above *)
(* the file are made first.                                                *)
Writer(on, text) == [Idle EXCEPT !.op = "write", !.on = on, !.text = text]
Writes(c, r) ==
    IF Changing(c)
    THEN /\ call' = [call EXCEPT ![c] = [r EXCEPT !.alone = call[c].alone]] /\ UNCHANGED overlapped
    ELSE BeginsToChange(c, r)
(* Fault: the text is written into the file itself.                        *)
CreateInPlace(c, text) ==
    /\ texts' = [texts EXCEPT ![File] = <<>>]
    /\ Writes(c, Writer(File, text))
atomic_write(c, text) ==
    /\ texts' = [texts EXCEPT ![Temp] = <<>>]
    /\ Writes(c, Writer(Temp, text))

write_file(c, piece) ==
    /\ call[c] = Idle /\ <<c, "write", File>> \in Allowed
    /\ atomic_write(c, <<piece, piece>>)
    /\ UNCHANGED truth

(* edit_file: reads the file, which must have what it replaces, once unless *)
(* all is meant, and then writes another.                                  *)
Occurrences(text, old) == {i \in DOMAIN text : text[i] = old}
Edited(text, old, new) == [i \in DOMAIN text |-> IF text[i] = old THEN new ELSE text[i]]
ReadToEdit(c, old, new, replace_all) ==
    /\ call[c] = Idle /\ <<c, "write", File>> \in Allowed
    /\ texts[File] # Absent
    /\ LET n == Cardinality(Occurrences(texts[File], old))
       IN  n = 1 \/ (n > 1 /\ replace_all)
    /\ BeginsToChange(c, [Idle EXCEPT !.op = "edit", !.text = Edited(texts[File], old, new)])
    /\ UNCHANGED <<texts, truth>>
edit_file(c) == /\ call[c].op = "edit" /\ atomic_write(c, call[c].text)
                /\ UNCHANGED truth

(* A piece goes to where this caller is in its own text, whatever others   *)
(* did to the file it has open.                                            *)
Put(text, at, piece) ==
    [i \in 1..(IF Len(text) > at THEN Len(text) ELSE at + 1) |->
        IF i = at + 1 THEN piece ELSE IF i \in DOMAIN text THEN text[i] ELSE "gap"]
WritePiece(c) ==
    /\ call[c].op = "write" /\ call[c].at < Len(call[c].text)
    /\ LET r == call[c]
       IN  texts' = IF r.on = Gone THEN texts
                    ELSE [texts EXCEPT ![r.on] = Put(@, r.at, r.text[r.at + 1])]
    /\ call' = [call EXCEPT ![c].at = @ + 1]
    /\ UNCHANGED <<truth, overlapped>>

(* The temporary file takes the name of the file: what others have open    *)
(* goes with it, and who reads what lost its name still has its text.      *)
Unlinked(r, text) == [r EXCEPT !.on = Gone, !.own = IF r.op = "read" THEN text ELSE <<>>]
Moved(r) ==
    IF r.op \notin {"read", "write", "append"} THEN r
    ELSE IF r.on = Temp THEN [r EXCEPT !.on = File]
    ELSE IF r.on = File THEN Unlinked(r, texts[File])
    ELSE r
Rename(c) ==
    /\ call[c].op = "write" /\ call[c].at = Len(call[c].text) /\ texts[Temp] # Absent
    /\ texts' = [texts EXCEPT ![File] = texts[Temp], ![Temp] = Absent]
    /\ Publish(c, call[c].text, [d \in Callers |-> Moved(call[d])])
    /\ overlapped' = (overlapped /\ ~call[c].alone)

(* Writing or renaming fails: the temporary file goes.                     *)
WriteFails(c) ==
    /\ call[c].op = "write"
    /\ texts' = [texts EXCEPT ![Temp] = Absent]
    /\ call' = [d \in Callers |->
                   IF d = c THEN Idle
                   ELSE IF call[d].op \in {"read", "write", "append"} /\ call[d].on = Temp
                   THEN Unlinked(call[d], texts[Temp]) ELSE call[d]]
    /\ UNCHANGED <<truth, overlapped>>

(* append_file: opens the file, which makes it, and then adds to its end.  *)
OpenToAppend(c, piece) ==
    /\ call[c] = Idle /\ <<c, "write", File>> \in Allowed
    /\ texts' = IF texts[File] = Absent THEN [texts EXCEPT ![File] = <<>>] ELSE texts
    /\ BeginsToChange(c, [Idle EXCEPT !.op = "append", !.on = File, !.text = <<piece>>])
    /\ truth' = IF truth = Absent THEN <<>> ELSE truth

Add(c) ==
    /\ call[c].op = "append" /\ (call[c].on = File => Len(texts[File]) < MaxLength)
    /\ IF call[c].on = File
       THEN LET text == texts[File] \o call[c].text
            IN  texts' = [texts EXCEPT ![File] = text] /\ Publish(c, text, call)
       ELSE UNCHANGED <<texts, truth>> /\ Returns(c)
    /\ UNCHANGED overlapped

(* Adding fails, or the process of a caller is killed, whatever it does.   *)
Killed(c) ==
    /\ call[c] # Idle /\ Returns(c)
    /\ UNCHANGED <<texts, truth, overlapped>>

Next == \E c \in Callers :
    \/ \E p \in {Dir, File}, q \in {File, Temp} : OpenToRead(c, p, q)
    \/ Read(c) \/ Answer(c)
    \/ \E piece \in Pieces : write_file(c, piece) \/ OpenToAppend(c, piece)
    \/ \E e \in Edits, all \in BOOLEAN : ReadToEdit(c, e[1], e[2], all)
    \/ edit_file(c) \/ WritePiece(c) \/ Rename(c) \/ WriteFails(c) \/ Add(c) \/ Killed(c)
Spec == Init /\ [][Next]_vars
-----------------------------------------------------------------------------
\* Whoever reads the file finds it as some call left it, never half of a text,
\* whatever fails or is killed in between, as long as no two calls change it at
\* the same time: writers of one file share the name of the temporary file, and
\* an edit writes back what it read.
WholeTexts ==
    /\ overlapped \/ texts[File] = truth
    /\ \A c \in Callers :
           call[c].op = "answered" /\ call[c].from = File /\ call[c].alone =>
               call[c].got \in call[c].could

\* Reading a text by consecutive ranges of lines gives each line once, in order.
RangesJoin ==
    texts[File] # Absent =>
        \A n \in 0..MaxLength + 1, k \in 0..MaxLength :
            LET text == texts[File]
            IN  read_lines_range(text, 1, n) \o read_lines_range(text, n + 1, k)
                    \o read_lines_range(text, n + k + 1, All) = text

FilesAreWhole == WholeTexts /\ RangesJoin
-----------------------------------------------------------------------------
\* Why: a call that changes the file alone has its temporary file for itself, and
\* as long as no two do at once every one does; whoever has the file open has the
\* text it was last given, or one that it had before.
Kept == Pieces \cup {e[2] : e \in Edits} \cup {"gap"}
Texts == Seq(Kept) \cup {Absent}
Calls == [op: {"idle", "read", "answered", "edit", "write", "append"}, from: {File, Temp},
          on: {File, Temp, Gone}, own: Texts, could: SUBSET Texts, got: Texts, text: Seq(Kept),
          at: Nat, alone: BOOLEAN]
TypeOK == /\ texts \in [{File, Temp} -> Texts] /\ call \in [Callers -> Calls]
          /\ truth \in Texts /\ overlapped \in BOOLEAN
Opened ==
    \A c \in Callers : call[c].op \in {"read", "write", "append"} /\ call[c].on # Gone =>
        texts[call[c].on] # Absent
Alone ==
    /\ ~overlapped => \A c \in Callers : Changing(c) => call[c].alone
    /\ \A c \in Callers : Changing(c) /\ call[c].alone => \A d \in Callers \ {c} : ~Changing(d)
WritesItsOwn ==
    \A c \in Callers : call[c].op = "write" /\ call[c].alone =>
        /\ call[c].on = Temp /\ Len(texts[Temp]) = call[c].at /\ call[c].at <= Len(call[c].text)
        /\ \A i \in 1..call[c].at : texts[Temp][i] = call[c].text[i]
ReadsWhole ==
    \A c \in Callers : call[c].op = "read" /\ call[c].from = File =>
        /\ call[c].on # Temp
        /\ call[c].alone => /\ ~overlapped
                            /\ (IF call[c].on = Gone THEN call[c].own ELSE truth) \in call[c].could
Inv == TypeOK /\ Opened /\ Alone /\ WritesItsOwn /\ ReadsWhole /\ WholeTexts
=============================================================================
