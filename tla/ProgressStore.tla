--------------------------- MODULE ProgressStore ----------------------------
(***************************************************************************)
(* The progress of one task and its rows: synsema-agents/src/progress.rs   *)
(* and save_progress / load_progress of synsema-runtime/src/persistence.rs,*)
(* under `serve' (saved by every call, under the lock) and `run' (saved    *)
(* once, when the program ends).  Tasks do not share rows, so one task is  *)
(* enough.                                                                 *)
(*                                                                         *)
(* A save writes the steps of the plan in memory one by one; INSERT OR     *)
(* REPLACE gives the row a new, last, rowid; no row is ever deleted.       *)
(***************************************************************************)
EXTENDS Naturals, Sequences, SequencesExt

CONSTANTS
    Plans,        \* "serve" and "run" -> the step lists passed to create_progress
    MaxCalls      \* bound: calls of a behaviour

Modes == DOMAIN Plans

Names == UNION {ToSet(s) : s \in UNION {Plans[m] : m \in Modes}}
Statuses == {"pending", "in_progress", "done", "failed"}
Step == [name: Names, status: Statuses]
NoTask == <<>>          \* a task with no steps is one that is not tracked

VARIABLES
    mode,       \* the command the program runs under
    rows,       \* the rows of the task, in the order of their rowids
    task,       \* ProgressManager.tasks: the steps of the plan in memory
    pc,         \* "down", "up" or "saving"
    saved,      \* rows written by the save in progress
    left,       \* where the last call to return, or program to end, left the task
    wanted,     \* the steps of the plan the program last created
    finished,   \* the steps completed since
    torn,       \* whether a crash has cut a save short
    calls

vars == <<mode, rows, task, pc, saved, left, wanted, finished, torn, calls>>

Over(s) == s.status \in {"done", "skipped"}
IsComplete(steps) == \A i \in DOMAIN steps : Over(steps[i])

First(steps, statuses) == SelectInSeq(steps, LAMBDA s : s.status \in statuses)

(* resume_point: the first step in progress or failed, or else the first   *)
(* pending one; "" when there is none.                                     *)
ResumePoint(steps) ==
    LET retry == First(steps, {"in_progress", "failed"})
        pending == First(steps, {"pending"})
    IN CASE retry > 0 -> steps[retry].name
         [] retry = 0 /\ pending > 0 -> steps[pending].name
         [] OTHER -> ""

Init == /\ rows = <<>> /\ task = NoTask /\ pc = "down" /\ saved = 0
        /\ left = "" /\ wanted = {} /\ finished = {} /\ calls = 0
        /\ mode \in Modes /\ torn = FALSE
-----------------------------------------------------------------------------
(* A new process starts: load_progress.                                    *)
Boot ==
    /\ pc = "down"
    /\ task' = rows
    /\ pc' = "up"
    /\ UNCHANGED <<mode, rows, saved, left, wanted, finished, torn, calls>>

Save == pc' = "saving" /\ saved' = 0

Call == pc = "up" /\ calls < MaxCalls /\ calls' = calls + 1

Changed == IF mode = "serve" THEN Save ELSE UNCHANGED <<pc, saved>>

Fresh(names) == [i \in DOMAIN names |-> [name |-> names[i], status |-> "pending"]]

(* Fault: the plan is replaced even when it is not complete.               *)
CreateAlways(names) ==
    /\ Call
    /\ task' = Fresh(names)
    /\ wanted' = ToSet(names) /\ finished' = {}
    /\ Changed
    /\ UNCHANGED <<mode, rows, left, torn>>

(* create: a plan that is not complete goes on.                            *)
Create(names) ==
    /\ Call
    /\ IF task # NoTask /\ ~IsComplete(task)
       THEN UNCHANGED <<task, wanted, finished>>
       ELSE /\ task' = Fresh(names)
            /\ wanted' = ToSet(names) /\ finished' = {}
    /\ Changed
    /\ UNCHANGED <<mode, rows, left, torn>>

(* start_step, complete_step and fail_step: the first step of that name;   *)
(* any step may be given any status.                                       *)
SetStatus(name, status) ==
    /\ Call
    /\ \E i \in DOMAIN task :
          /\ task[i].name = name
          /\ \A j \in 1..(i - 1) : task[j].name # name
          /\ task' = [task EXCEPT ![i].status = status]
    /\ finished' = IF status = "done" THEN finished \cup {name} ELSE finished \ {name}
    /\ Changed
    /\ UNCHANGED <<mode, rows, left, wanted, torn>>

InsertOrReplace(steps, step) ==
    Append(RemoveFirstMatch(steps, LAMBDA r : r.name = step.name), step)
WriteRow ==
    /\ pc = "saving" /\ saved < Len(task)
    /\ rows' = InsertOrReplace(rows, task[saved + 1])
    /\ saved' = saved + 1
    /\ UNCHANGED <<mode, task, pc, left, wanted, finished, torn, calls>>

Saved ==
    /\ pc = "saving" /\ saved = Len(task)
    /\ left' = ResumePoint(task)
    /\ saved' = 0
    /\ IF mode = "serve" THEN pc' = "up" /\ UNCHANGED task
                   ELSE pc' = "down" /\ task' = NoTask
    /\ UNCHANGED <<mode, rows, wanted, finished, torn, calls>>

(* The end of a program under `run'.                                       *)
Ends == /\ mode = "run" /\ pc = "up"
        /\ Save
        /\ UNCHANGED <<mode, rows, task, left, wanted, finished, torn, calls>>

(* A call that is cut short may leave the task anywhere.                   *)
Crash ==
    /\ pc \in {"up", "saving"}
    /\ pc' = "down" /\ task' = NoTask /\ saved' = 0
    /\ left' = IF pc = "saving" THEN ResumePoint(rows) ELSE left
    /\ torn' = (torn \/ pc = "saving")
    /\ UNCHANGED <<mode, rows, wanted, finished, calls>>
-----------------------------------------------------------------------------
Next == \/ Boot \/ WriteRow \/ Saved \/ Ends \/ Crash
        \/ \E names \in Plans[mode] : Create(names)
        \/ \E name \in Names, status \in Statuses \ {"pending"} : SetStatus(name, status)

Spec == Init /\ [][Next]_vars
-----------------------------------------------------------------------------
(* Whenever a process is not in the middle of a save, the next one resumes *)
(* where the last call to return (`serve') or the last program to end      *)
(* (`run') left the task: the rows of the plans that were replaced do not  *)
(* lead it astray, nor does a save that moves rows.                        *)
ResumesThere == pc # "saving" => ResumePoint(rows) = left

(* "A restarted daemon resumes where it left off": as long as no crash cuts *)
(* a save short, a task that is complete under `serve' has had every step   *)
(* of its plan completed, whatever plans it replaced and whenever the       *)
(* process restarted.                                                       *)
NoStepSkipped ==
    mode = "serve" /\ ~torn /\ pc = "up" /\ task # NoTask /\ IsComplete(task)
        => wanted \subseteq finished
-----------------------------------------------------------------------------
\* Why: the rows of a plan that was replaced are over, and those of the plan in
\* memory come after them, in its order.
Distinct(steps) == \A i, j \in DOMAIN steps : steps[i].name = steps[j].name => i = j
Has(steps, name) == \E i \in DOMAIN steps : steps[i].name = name
NamesOf(m) == UNION {ToSet(s) : s \in Plans[m]}
TypeOK == /\ mode \in Modes /\ torn \in BOOLEAN
          /\ rows \in Seq(Step) /\ task \in Seq(Step) /\ Distinct(rows) /\ Distinct(task)
          /\ pc \in {"down", "up", "saving"} /\ saved \in Nat
          /\ \A i \in DOMAIN rows : rows[i].name \in NamesOf(mode)
          /\ \A i \in DOMAIN task : task[i].name \in NamesOf(mode)
LastAre(steps, n) ==
    /\ n <= Len(rows) /\ n <= Len(steps)
    /\ \A i \in 1..n : rows[Len(rows) - n + i] = steps[i]
InOrder == /\ pc = "saving" => LastAre(task, saved)
           /\ pc = "up" /\ mode = "serve" => LastAre(task, Len(task))
OthersOver ==
    pc # "down" => \A i \in DOMAIN rows :
        /\ rows[i].status = "done" \/ Has(task, rows[i].name)
        /\ mode = "run" => Has(task, rows[i].name)
Completed(steps) ==
    /\ \A name \in wanted : Has(steps, name)
    /\ \A i \in DOMAIN steps :
           steps[i].name \in wanted /\ steps[i].status = "done" => steps[i].name \in finished
StepsKept == mode = "serve" /\ ~torn => Completed(IF pc = "down" THEN rows ELSE task)
Inv == TypeOK /\ InOrder /\ OthersOver /\ StepsKept /\ ResumesThere
=============================================================================
