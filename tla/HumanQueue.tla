----------------------------- MODULE HumanQueue -----------------------------
(***************************************************************************)
(* Questions to a human (synsema-llm/src/human.rs): callers ask through a  *)
(* manager, which numbers the questions, and block in handle until the     *)
(* queue has an answer for that number or the time is over.  One Mutex and *)
(* one Condvar; respond drops the lock before it calls notify_all.         *)
(***************************************************************************)
EXTENDS Naturals, Sequences, SequencesExt

CONSTANTS
    Callers,        \* threads that ask
    ManagerOf,      \* [Callers -> managers]: who numbers their questions
    MaxQuestions,   \* bounds the questions of a manager
    MaxAnswers      \* bounds the answers to a question

Managers == {ManagerOf[c] : c \in Callers}
Ids == 1..MaxQuestions
Actions == {"approve", "ask"}    \* confirm and review are as approve, show as ask
Nothing == "nothing"
Timeout == [status |-> "timeout", value |-> Nothing]
NoAnswer == [status |-> "none", value |-> Nothing]
Responses == [status: {"approved", "denied"}, value: {"text"}]

VARIABLES
    handler,    \* "queue", or a handler that answers by itself: "yes", "no"
    counter,    \* manager -> questions so far
    pending,    \* ids in the queue's map of pending questions
    responses,  \* id -> the answer that waits to be taken, or NoAnswer
    stage,      \* caller -> "idle", "asked", "asleep", "awake"
    question,   \* caller -> its question: [id, action]
    late,       \* callers whose deadline has passed
    answer,     \* caller -> what its last question came to
    notifying,  \* respond has dropped the lock and not notified yet
    given       \* id -> every answer given to it
vars == <<handler, counter, pending, responses, stage, question, late, answer, notifying, given>>

Init == /\ handler \in {"queue", "yes", "no"}
        /\ counter = [m \in Managers |-> 0]
        /\ pending = {} /\ responses = [i \in Ids |-> NoAnswer]
        /\ stage = [c \in Callers |-> "idle"]
        /\ question = [c \in Callers |-> [id |-> 0, action |-> "ask"]]
        /\ late = {} /\ answer = [c \in Callers |-> Nothing]
        /\ notifying = FALSE /\ given = [i \in Ids |-> <<>>]
-----------------------------------------------------------------------------
(* What the callback makes of a response.                                  *)
Told(action, response) ==
    IF action = "approve" THEN response.status = "approved"
    ELSE IF response.value = Nothing THEN "" ELSE response.value

(* AutoHandler: the default for a question of yes or no, and for a text    *)
(* the default answer (the callback offers no options).                    *)
AutoHandler(action) ==
    IF action = "approve"
    THEN [status |-> IF handler = "yes" THEN "approved" ELSE "denied", value |-> Nothing]
    ELSE [status |-> "answered", value |-> "default"]

(* get_callback: the next number of the manager, then the handler.         *)
Ask(c, action) ==
    /\ stage[c] = "idle" /\ counter[ManagerOf[c]] < MaxQuestions
    /\ LET id == counter[ManagerOf[c]] + 1
       IN  /\ counter' = [counter EXCEPT ![ManagerOf[c]] = id]
           /\ question' = [question EXCEPT ![c] = [id |-> id, action |-> action]]
    /\ IF handler = "queue"
       THEN stage' = [stage EXCEPT ![c] = "asked"] /\ UNCHANGED answer
       ELSE answer' = [answer EXCEPT ![c] = Told(action, AutoHandler(action))] /\ UNCHANGED stage
    /\ UNCHANGED <<handler, pending, responses, late, notifying, given>>

Returns(c, response) ==
    /\ stage' = [stage EXCEPT ![c] = "idle"]
    /\ late' = late \ {c}
    /\ answer' = [answer EXCEPT ![c] = Told(question[c].action, response)]
    /\ pending' = pending \ {question[c].id}
Looking(c) == stage[c] \in {"asked", "awake"}

(* handle, from the lock to the return or the wait: the answer is looked   *)
(* at before the time.                                                     *)
Take(c) ==
    LET id == question[c].id
    IN  /\ Looking(c) /\ responses[id] # NoAnswer
        /\ Returns(c, responses[id])
        /\ responses' = [responses EXCEPT ![id] = NoAnswer]
        /\ UNCHANGED <<handler, counter, question, notifying, given>>
(* Fault: the time is looked at before the answer.                         *)
GiveUpFirst(c) ==
    /\ Looking(c) /\ c \in late
    /\ Returns(c, Timeout)
    /\ UNCHANGED <<handler, counter, responses, question, notifying, given>>
GiveUp(c) ==
    /\ Looking(c) /\ responses[question[c].id] = NoAnswer /\ c \in late
    /\ Returns(c, Timeout)
    /\ UNCHANGED <<handler, counter, responses, question, notifying, given>>
Sleep(c) ==
    /\ Looking(c) /\ responses[question[c].id] = NoAnswer /\ c \notin late
    /\ pending' = pending \cup {question[c].id}
    /\ stage' = [stage EXCEPT ![c] = "asleep"]
    /\ UNCHANGED <<handler, counter, responses, question, late, answer, notifying, given>>

(* The time is over: a sleeper wakes up by itself.                         *)
Expire(c) ==
    /\ stage[c] # "idle" /\ c \notin late
    /\ late' = late \cup {c}
    /\ stage' = [stage EXCEPT ![c] = IF @ = "asleep" THEN "awake" ELSE @]
    /\ UNCHANGED <<handler, counter, pending, responses, question, answer, notifying, given>>
Spurious(c) ==
    /\ stage[c] = "asleep"
    /\ stage' = [stage EXCEPT ![c] = "awake"]
    /\ UNCHANGED <<handler, counter, pending, responses, question, late, answer, notifying, given>>

(* respond: whoever answers has seen the number in the queue, now or       *)
(* before.  An answer that is not taken yet is replaced.                   *)
Respond(id, response) ==
    /\ ~notifying /\ Len(given[id]) < MaxAnswers
    /\ \E m \in Managers : id <= counter[m]
    /\ responses' = [responses EXCEPT ![id] = response]
    /\ given' = [given EXCEPT ![id] = Append(@, response)]
    /\ notifying' = TRUE
    /\ UNCHANGED <<handler, counter, pending, stage, question, late, answer>>
Notify ==
    /\ notifying /\ notifying' = FALSE
    /\ stage' = [c \in Callers |-> IF stage[c] = "asleep" THEN "awake" ELSE stage[c]]
    /\ UNCHANGED <<handler, counter, pending, responses, question, late, answer, given>>

Next == \/ \E c \in Callers : \/ \E a \in Actions : Ask(c, a)
                              \/ Take(c) \/ GiveUp(c) \/ Sleep(c) \/ Expire(c) \/ Spurious(c)
        \/ \E id \in Ids, r \in Responses : Respond(id, r)
        \/ Notify
Spec == Init /\ [][Next]_vars
-----------------------------------------------------------------------------
\* A question comes to the latest answer that was given to it, and to none only
\* if none was: not to the answer of another question, of an earlier one whose
\* time was over, or to silence as the answer arrives.  What waits in the queue
\* are the questions still under way, and a caller sleeps on an answer only
\* while the thread that gave it has not notified yet.
AnswerStep ==
    \A c \in Callers :
        LET q == question[c]
        IN  /\ (stage[c] # "idle" /\ stage'[c] = "idle") =>
                  answer'[c] = Told(q.action, IF given[q.id] = <<>> THEN Timeout ELSE Last(given[q.id]))
            /\ stage'[c] = "asleep" => /\ question'[c].id \in pending'
                                       /\ responses'[question'[c].id] # NoAnswer => notifying'
AnswersAreTheirs == [][AnswerStep]_vars
-----------------------------------------------------------------------------
\* Why: under one manager no two questions have one number, no answer is given to
\* a number that is not taken, and what the queue has for a question under way is
\* the latest answer to it.
TypeOK ==
    /\ handler \in {"queue", "yes", "no"} /\ notifying \in BOOLEAN
    /\ counter \in [Managers -> 0..MaxQuestions] /\ pending \subseteq Nat
    /\ responses \in [Ids -> Responses \cup {NoAnswer}] /\ given \in [Ids -> Seq(Responses)]
    /\ stage \in [Callers -> {"idle", "asked", "asleep", "awake"}]
    /\ question \in [Callers -> [id: 0..MaxQuestions, action: Actions]]
    /\ late \subseteq Callers /\ answer = [c \in Callers |-> answer[c]]
Numbered ==
    /\ \A c \in Callers : stage[c] # "idle" => question[c].id \in 1..counter[ManagerOf[c]]
    /\ \A c, d \in Callers : stage[c] # "idle" /\ stage[d] # "idle" /\ c # d =>
           question[c].id # question[d].id
Unasked == \A i \in Ids : (\A m \in Managers : counter[m] < i) =>
               given[i] = <<>> /\ responses[i] = NoAnswer
UnderWay ==
    \A c \in Callers : stage[c] # "idle" =>
        LET q == question[c].id
        IN  responses[q] = IF given[q] = <<>> THEN NoAnswer ELSE Last(given[q])
Asleep ==
    \A c \in Callers : stage[c] = "asleep" =>
        /\ question[c].id \in pending
        /\ responses[question[c].id] # NoAnswer => notifying
Inv == TypeOK /\ Numbered /\ Unasked /\ UnderWay /\ Asleep
=============================================================================
