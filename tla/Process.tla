------------------------------- MODULE Process -------------------------------
(***************************************************************************)
(* The builtin run: a child process, the threads that feed and drain its   *)
(* pipes, and the wait with a deadline (synsema-capabilities/src/secure.rs). *)
(* Data is counted in pieces; what the child does is up to it.             *)
(***************************************************************************)
EXTENDS Naturals, FiniteSets

CONSTANTS
    Room,       \* pieces a pipe holds
    Cap,        \* max_output: the pieces of a stream that are kept
    MaxOutput,  \* bounds what the child and its heir write
    Input       \* the pieces of stdin

Streams == {"stdout", "stderr"}

VARIABLES
    child,   \* "running", "exited" or "killed"
    heir,    \* a process the child left behind with its pipes: "none", "open" or "gone"
    stdin,   \* [left to feed, in the pipe, closed]
    pipe,    \* stream -> pieces in the pipe
    wrote,   \* history: stream -> pieces written
    reader,  \* stream -> [kept, truncated, ended]
    due,     \* the deadline has passed
    caller   \* "waiting", "joining", "late" (joining after the deadline), "returned" or "failed"
vars == <<child, heir, stdin, pipe, wrote, reader, due, caller>>

Init == /\ child = "running" /\ heir = "none"
        /\ stdin \in [left : {0, Input}, piped : {0}, closed : {FALSE}]
        /\ pipe = [s \in Streams |-> 0] /\ wrote = [s \in Streams |-> 0]
        /\ reader = [s \in Streams |-> [kept |-> 0, truncated |-> FALSE, ended |-> FALSE]]
        /\ due = FALSE /\ caller = "waiting"
-----------------------------------------------------------------------------
(* The child and its heir.  A write waits for room and fails when nobody   *)
(* reads any more.                                                         *)
HasPipes == child = "running" \/ heir = "open"
Output == wrote["stdout"] + wrote["stderr"]
Write(s) ==
    /\ HasPipes /\ Output < MaxOutput /\ pipe[s] < Room /\ ~reader[s].ended
    /\ pipe' = [pipe EXCEPT ![s] = @ + 1] /\ wrote' = [wrote EXCEPT ![s] = @ + 1]
    /\ UNCHANGED <<child, heir, stdin, reader, due, caller>>
TakeInput ==
    /\ child = "running" /\ stdin.piped > 0
    /\ stdin' = [stdin EXCEPT !.piped = @ - 1]
    /\ UNCHANGED <<child, heir, pipe, wrote, reader, due, caller>>
Fork == /\ child = "running" /\ heir = "none" /\ heir' = "open"
        /\ UNCHANGED <<child, stdin, pipe, wrote, reader, due, caller>>
Exit == /\ child = "running" /\ child' = "exited"
        /\ UNCHANGED <<heir, stdin, pipe, wrote, reader, due, caller>>
HeirExits == /\ heir = "open" /\ heir' = "gone"
             /\ UNCHANGED <<child, stdin, pipe, wrote, reader, due, caller>>
-----------------------------------------------------------------------------
(* The thread that feeds stdin, which ends when all is fed or nobody reads, *)
(* and closes it; without input it is closed at once.                      *)
Feed ==
    /\ ~stdin.closed
    /\ stdin' = IF stdin.left = 0 \/ ~HasPipes THEN [stdin EXCEPT !.closed = TRUE]
                ELSE [stdin EXCEPT !.left = @ - 1, !.piped = @ + 1]
    /\ stdin.left > 0 /\ HasPipes => stdin.piped < Room
    /\ UNCHANGED <<child, heir, pipe, wrote, reader, due, caller>>

(* Fault: nothing is read after the cap.                                   *)
KeptAndEnded(r, n) == [r EXCEPT !.kept = IF r.kept + n < Cap THEN r.kept + n ELSE Cap,
                                !.ended = r.kept + n >= Cap]
(* read_capped: a read takes some of what is there; what passes the cap is *)
(* dropped, and the stream read on until all that hold it are gone.        *)
Kept(r, n) ==
    LET take == IF Cap - r.kept < n THEN Cap - r.kept ELSE n
    IN  [r EXCEPT !.kept = @ + take, !.truncated = @ \/ take < n]
Drain(s, n) ==
    /\ ~reader[s].ended /\ n \in 1..pipe[s]
    /\ reader' = [reader EXCEPT ![s] = Kept(@, n)]
    /\ pipe' = [pipe EXCEPT ![s] = @ - n]
    /\ UNCHANGED <<child, heir, stdin, wrote, due, caller>>
EndOfStream(s) ==
    /\ ~reader[s].ended /\ pipe[s] = 0 /\ ~HasPipes
    /\ reader' = [reader EXCEPT ![s].ended = TRUE]
    /\ UNCHANGED <<child, heir, stdin, pipe, wrote, due, caller>>
Reader(s) == EndOfStream(s) \/ \E n \in 1..Room : Drain(s, n)
-----------------------------------------------------------------------------
(* The caller looks every now and then, kills the child when its time is   *)
(* up, and waits for both streams in any case.                             *)
Expire == /\ caller = "waiting" /\ ~due /\ due' = TRUE
          /\ UNCHANGED <<child, heir, stdin, pipe, wrote, reader, caller>>
Poll ==
    /\ caller = "waiting"
    /\ \/ child # "running" /\ caller' = "joining" /\ UNCHANGED child
       \/ child = "running" /\ due /\ child' = "killed" /\ caller' = "late"
    /\ UNCHANGED <<heir, stdin, pipe, wrote, reader, due>>
Join ==
    /\ caller \in {"joining", "late"} /\ \A s \in Streams : reader[s].ended
    /\ caller' = IF caller = "late" THEN "failed" ELSE "returned"
    /\ UNCHANGED <<child, heir, stdin, pipe, wrote, reader, due>>

Next == \/ \E s \in Streams : Write(s) \/ Reader(s)
        \/ TakeInput \/ Fork \/ Exit \/ HeirExits \/ Feed \/ Expire \/ Poll \/ Join

(* Time passes and the threads of the caller run; the child and its heir   *)
(* do as they like, or nothing.                                            *)
Spec == /\ Init /\ [][Next]_vars
        /\ WF_vars(Expire) /\ WF_vars(Poll) /\ WF_vars(Join)
        /\ \A s \in Streams : WF_vars(Reader(s))
-----------------------------------------------------------------------------
\* A call that returns tells all that was written to each stream up to the cap,
\* and that there was more exactly when there was, whoever wrote it.
OutputIsTold ==
    caller = "returned" =>
        \A s \in Streams : /\ reader[s].kept = (IF wrote[s] < Cap THEN wrote[s] ELSE Cap)
                           /\ reader[s].truncated <=> wrote[s] > Cap

\* Why: what is kept is what was read up to the cap, and a stream ends empty, when
\* nobody holds it.
TypeOK == /\ child \in {"running", "exited", "killed"} /\ heir \in {"none", "open", "gone"}
          /\ pipe \in [Streams -> Nat] /\ wrote \in [Streams -> Nat]
          /\ reader \in [Streams -> [kept : Nat, truncated : BOOLEAN, ended : BOOLEAN]]
          /\ caller \in {"waiting", "joining", "late", "returned", "failed"}
Accounted ==
    \A s \in Streams :
        /\ pipe[s] <= wrote[s]
        /\ reader[s].kept = (IF wrote[s] - pipe[s] < Cap THEN wrote[s] - pipe[s] ELSE Cap)
        /\ reader[s].truncated <=> wrote[s] - pipe[s] > Cap
        /\ reader[s].ended => pipe[s] = 0 /\ ~HasPipes
        /\ caller \in {"returned", "failed"} => reader[s].ended
Inv == TypeOK /\ Accounted

\* The call ends, with an error if the child took too long, unless a process the
\* child left behind keeps a stream open for ever: killing the child does not
\* close it.
CallEnds == <>(caller \in {"returned", "failed"}) \/ <>[](heir = "open")

RunReturns == []OutputIsTold /\ CallEnds
=============================================================================
