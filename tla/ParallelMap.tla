---------------------------- MODULE ParallelMap -----------------------------
(***************************************************************************)
(* One call of parallel_map(task, list, limit): run_parallel of            *)
(* synsema-runtime/src/parallel.rs.  A dispatcher takes a permit of a      *)
(* semaphore for each item, in order, and gives the item to a blocking     *)
(* thread; then it awaits the threads in the same order.  The first error  *)
(* raises the `aborted' flag, which stops the dispatcher and makes the     *)
(* items already given to a thread, but not begun, end at once.            *)
(***************************************************************************)
EXTENDS Integers, Sequences, FiniteSets

CONSTANTS
    N,        \* items of the list
    Limit     \* the concurrency limit, after the defaults are applied

ASSUME ParallelMapAssumption == N \in Nat /\ Limit \in Nat \ {0}

Items == 1..N
Outcomes == {"value", "error", "panic"}
Nothing == 0      \* the `nothing' value; the value of item i is i
Held == {"spawned", "running", "raised"}
Over == {"done", "skipped", "failed", "panicked"}

VARIABLES
    outcome,   \* what the task does on each item
    pc,        \* the dispatcher: "acquire", "check", "await" or "returned"
    next,      \* the item it is at
    permits,   \* free permits of the semaphore
    job,       \* item -> where its blocking job is
    aborted,   \* the AtomicBool
    error,     \* the index of the recorded error, or none
    out        \* the results awaited so far

vars == <<outcome, pc, next, permits, job, aborted, error, out>>

Init ==
    /\ outcome \in [Items -> Outcomes]
    /\ pc = "acquire" /\ next = 1 /\ permits = Limit
    /\ job = [i \in Items |-> "unborn"]
    /\ aborted = FALSE /\ error = 0 /\ out = <<>>
-----------------------------------------------------------------------------
(* The dispatcher.                                                         *)

(* Fault: a job is given out without waiting for a permit.               *)
AcquireUnbounded ==
    /\ pc = "acquire" /\ next <= N
    /\ permits' = permits - 1
    /\ pc' = "check"
    /\ UNCHANGED <<outcome, next, job, aborted, error, out>>

Acquire ==
    /\ pc = "acquire" /\ next <= N
    /\ permits > 0
    /\ permits' = permits - 1
    /\ pc' = "check"
    /\ UNCHANGED <<outcome, next, job, aborted, error, out>>

Spawn ==
    /\ pc = "check" /\ ~aborted
    /\ job' = [job EXCEPT ![next] = "spawned"]
    /\ next' = next + 1
    /\ pc' = "acquire"
    /\ UNCHANGED <<outcome, permits, aborted, error, out>>

(* Fault: the permit of the item that is not given out is lost.          *)
StopAndKeepPermit ==
    /\ pc = "check" /\ aborted
    /\ pc' = "await"
    /\ UNCHANGED <<outcome, next, permits, job, aborted, error, out>>

StopEarly ==
    /\ pc = "check" /\ aborted
    /\ permits' = permits + 1
    /\ pc' = "await"
    /\ UNCHANGED <<outcome, next, job, aborted, error, out>>

AllSpawned ==
    /\ pc = "acquire" /\ next > N
    /\ pc' = "await"
    /\ UNCHANGED <<outcome, next, permits, job, aborted, error, out>>

(* Fault: the slot is read before its job has ended.                     *)
AwaitNobody ==
    LET k == Len(out) + 1 IN
    /\ pc = "await" /\ k < next
    /\ out' = Append(out, IF job[k] = "done" THEN k ELSE Nothing)
    /\ UNCHANGED <<outcome, pc, next, permits, job, aborted, error>>

(* handles[k].await: a skipped, failed or panicked job gives `nothing'.    *)
Await ==
    LET k == Len(out) + 1 IN
    /\ pc = "await" /\ k < next
    /\ job[k] \in Over
    /\ out' = Append(out, IF job[k] = "done" THEN k ELSE Nothing)
    /\ UNCHANGED <<outcome, pc, next, permits, job, aborted, error>>

Return ==
    /\ pc = "await" /\ Len(out) + 1 = next
    /\ pc' = "returned"
    /\ UNCHANGED <<outcome, next, permits, job, aborted, error, out>>
-----------------------------------------------------------------------------
(* The blocking job of item i; its permit is dropped when it ends.         *)

Ends(i, how) == /\ job' = [job EXCEPT ![i] = how]
                /\ permits' = permits + 1

Skip(i) ==
    /\ job[i] = "spawned" /\ aborted
    /\ Ends(i, "skipped")
    /\ UNCHANGED <<outcome, pc, next, aborted, error, out>>

Start(i) ==
    /\ job[i] = "spawned" /\ ~aborted
    /\ job' = [job EXCEPT ![i] = "running"]
    /\ UNCHANGED <<outcome, pc, next, permits, aborted, error, out>>

Value(i) ==
    /\ job[i] = "running" /\ outcome[i] = "value"
    /\ Ends(i, "done")
    /\ UNCHANGED <<outcome, pc, next, aborted, error, out>>

(* Fault: a job that panics is given out again.                          *)
PanicRetries(i) ==
    /\ job[i] = "running" /\ outcome[i] = "panic"
    /\ job' = [job EXCEPT ![i] = "spawned"]
    /\ UNCHANGED <<outcome, pc, next, permits, aborted, error, out>>

Panic(i) ==
    /\ job[i] = "running" /\ outcome[i] = "panic"
    /\ Ends(i, "panicked")
    /\ UNCHANGED <<outcome, pc, next, aborted, error, out>>

(* Fault: the last error wins, not the one of the least index.           *)
RecordLastError(i) ==
    /\ job[i] = "running" /\ outcome[i] = "error"
    /\ \A j \in Items : job[j] # "raised"
    /\ error' = i
    /\ job' = [job EXCEPT ![i] = "raised"]
    /\ UNCHANGED <<outcome, pc, next, permits, aborted, out>>

(* The error's lock is held until the flag is set.                         *)
RecordError(i) ==
    /\ job[i] = "running" /\ outcome[i] = "error"
    /\ \A j \in Items : job[j] # "raised"
    /\ error' = IF error = 0 \/ i < error THEN i ELSE error
    /\ job' = [job EXCEPT ![i] = "raised"]
    /\ UNCHANGED <<outcome, pc, next, permits, aborted, out>>

Abort(i) ==
    /\ job[i] = "raised"
    /\ aborted' = TRUE
    /\ Ends(i, "failed")
    /\ UNCHANGED <<outcome, pc, next, error, out>>
-----------------------------------------------------------------------------
Dispatcher == Acquire \/ Spawn \/ StopEarly \/ AllSpawned \/ Await \/ Return
Job(i) == Skip(i) \/ Start(i) \/ Value(i) \/ Panic(i) \/ RecordError(i) \/ Abort(i)
Returned == pc = "returned" /\ UNCHANGED vars

Next == Dispatcher \/ (\E i \in Items : Job(i)) \/ Returned

Spec == Init /\ [][Next]_vars

(* The threads are scheduled and the task terminates on every item.        *)
FairSpec == Spec /\ WF_vars(Dispatcher) /\ \A i \in Items : WF_vars(Job(i))
-----------------------------------------------------------------------------
TypeOK ==
    /\ outcome \in [Items -> Outcomes]
    /\ pc \in {"acquire", "check", "await", "returned"}
    /\ next \in 1..(N + 1) /\ permits \in Nat
    /\ job \in [Items -> {"unborn"} \cup Held \cup Over]
    /\ aborted \in BOOLEAN /\ error \in 0..N
    /\ out \in Seq(0..N)

Holders == {i \in Items : job[i] \in Held}

(* Permits are neither lost nor made, by errors, skips or panics: what is  *)
(* free and what is held are `limit', so no more interpreters run at once. *)
PermitsConserved ==
    permits + Cardinality(Holders) + (IF pc = "check" THEN 1 ELSE 0) = Limit

(* A call that returns a list ran the task to its end on every item, in    *)
(* input order; only a panic of the worker leaves a hole.                  *)
ListIsComplete ==
    pc = "returned" /\ error = 0 =>
        /\ Len(out) = N
        /\ \A i \in Items : CASE outcome[i] = "value" -> out[i] = i
                              [] outcome[i] = "panic" -> out[i] = Nothing
                              [] outcome[i] = "error" -> FALSE

(* The call fails exactly when an item that ran fails, with the error of   *)
(* an item that failed and of no later one than any other that ran.        *)
ErrorIsReal ==
    pc = "returned" /\ error # 0 =>
        /\ outcome[error] = "error"
        /\ \A i \in Items : job[i] = "failed" => error <= i

(* "fail-fast con el error de menor indice. Semantica identica a apply     *)
(* secuencial": the error is the one a sequential apply would stop at.     *)
SequentialError ==
    pc = "returned" /\ error # 0 => \A i \in 1..(error - 1) : outcome[i] # "error"

(* Every call returns.                                                     *)
CallReturns == <>(pc = "returned")
=============================================================================
