------------------------------ MODULE Scheduler -----------------------------
(***************************************************************************)
(* The scheduler behind cron_every and cron_after: a thread per job, found *)
(* by its name in a table (synsema-stdlib/src/cron.rs).  A thread waits,   *)
(* looks at its flag, counts and runs; cancel takes the job out of the     *)
(* table, sets the flag and wakes the thread.                              *)
(***************************************************************************)
EXTENDS Naturals, Sequences, FiniteSets

CONSTANTS
    JobNames,
    MaxJobs,   \* bounds the jobs of a behaviour
    MaxRuns    \* bounds the runs of a job

VARIABLES
    jobs,      \* every job: [name, repeating, builtin, cancelled, runs, calls, thread]
    table      \* name -> the job it means, or None
vars == <<jobs, table>>

None == 0
Threads == {"waiting", "about", "running", "ended"}

Init == jobs = <<>> /\ table = [n \in JobNames |-> None]

(* Fault: the job that had the name goes on.                               *)
ReplacedSilently(n) == jobs

(* cancel: the flag of the job that has the name.                          *)
Cancelled(n) == IF table[n] = None THEN jobs
                ELSE [jobs EXCEPT ![table[n]].cancelled = TRUE]

(* schedule: a job of the same name is cancelled first.  The callers of    *)
(* `every' and `after' give the function to run, and cron_every and        *)
(* cron_after give one that is empty.                                      *)
Schedule(n, repeating, builtin) ==
    /\ Cardinality(DOMAIN jobs) < MaxJobs
    /\ LET j == Cardinality(DOMAIN jobs) + 1
       IN  /\ jobs' = [i \in 1..j |-> IF i < j THEN Cancelled(n)[i]
                                      ELSE [name |-> n, repeating |-> repeating, builtin |-> builtin,
                                            cancelled |-> FALSE, runs |-> 0, calls |-> 0,
                                            thread |-> "waiting"]]
           /\ table' = [table EXCEPT ![n] = j]

Cancel(n) ==
    /\ table[n] # None
    /\ jobs' = Cancelled(n)
    /\ table' = [table EXCEPT ![n] = None]
CancelAll ==
    /\ \E n \in JobNames : table[n] # None
    /\ jobs' = [i \in DOMAIN jobs |-> [jobs[i] EXCEPT !.cancelled =
                    @ \/ \E n \in JobNames : table[n] = i]]
    /\ table' = [n \in JobNames |-> None]

(* The time is up, or the thread was woken: it ends if it was cancelled.   *)
Expire(i) ==
    /\ jobs[i].thread = "waiting"
    /\ jobs' = [jobs EXCEPT ![i].thread = IF jobs[i].cancelled THEN "ended" ELSE "about"]
    /\ UNCHANGED table
Run(i) ==
    /\ jobs[i].thread = "about" /\ jobs[i].runs < MaxRuns
    /\ jobs' = [jobs EXCEPT ![i].thread = "running", ![i].runs = @ + 1,
                            ![i].calls = IF jobs[i].builtin THEN @ ELSE @ + 1]
    /\ UNCHANGED table
Finish(i) ==
    /\ jobs[i].thread = "running"
    /\ jobs' = [jobs EXCEPT ![i].thread = IF jobs[i].repeating THEN "waiting" ELSE "ended"]
    /\ UNCHANGED table

(* list_jobs: every entry of the table, as active.                         *)
list_jobs == {[name |-> n, runs |-> jobs[table[n]].runs, active |-> TRUE] :
                n \in {m \in JobNames : table[m] # None}}

Next == \/ \E n \in JobNames : Cancel(n) \/ \E r, b \in BOOLEAN : Schedule(n, r, b)
        \/ CancelAll
        \/ \E i \in DOMAIN jobs : Expire(i) \/ Run(i) \/ Finish(i)
Spec == Init /\ [][Next]_vars
-----------------------------------------------------------------------------
\* A job that is cancelled, by its name or by another job of its name, runs at
\* most the once it was about to; and every job that may still start by itself
\* is in the table, so that it can be cancelled.
CancelStep ==
    /\ \A i \in DOMAIN jobs : jobs[i].cancelled =>
          /\ jobs[i].thread # "about" => jobs'[i].runs = jobs[i].runs
          /\ jobs'[i].thread = "about" => jobs[i].thread = "about"
    /\ \A i \in DOMAIN jobs' : (jobs'[i].thread = "waiting" /\ ~jobs'[i].cancelled)
                                 => table'[jobs'[i].name] = i
CancelStops == [][CancelStep]_vars
-----------------------------------------------------------------------------
\* Why: a job that is not cancelled is what the table has under its name.
JobRecord == [name : JobNames, repeating : BOOLEAN, builtin : BOOLEAN, cancelled : BOOLEAN,
              runs : Nat, calls : Nat, thread : Threads]
TypeOK == /\ jobs \in Seq(JobRecord)
          /\ table \in [JobNames -> Nat]
Listed == \A i \in DOMAIN jobs : ~jobs[i].cancelled => table[jobs[i].name] = i
Known == \A n \in JobNames : table[n] # None => table[n] \in DOMAIN jobs
Inv == TypeOK /\ Listed /\ Known
=============================================================================
