--------------------------- MODULE HostingProofs ----------------------------
(***************************************************************************)
(* Proofs about what a program has on its host: its schedules, its         *)
(* certificates, the resolution of its serve blocks, the daemons of a      *)
(* directory, and the files that its builtins share, each for any          *)
(* constants that ServicesAssumption allows.                               *)
(***************************************************************************)
EXTENDS ServicesMC, SequenceTheorems, FiniteSetTheorems, TLAPS

-----------------------------------------------------------------------------
(***************************************************************************)
(* Schedules: jobs are started and cancelled by name.                      *)
(***************************************************************************)
(* FiniteSets as the scheduler sees it.                                    *)
LEMMA JobsCardinality == \A S : Jobs!Cardinality(S) = Cardinality(S)
  BY DEF Jobs!Cardinality, Cardinality

(* The jobs are a sequence of them.                                        *)
LEMMA JobShape ==
    ASSUME NEW S, NEW s
    PROVE  s \in Seq(S) <=> \E n \in Nat : s \in [1..n -> S]
<1>1. s \in Seq(S) => Len(s) \in Nat /\ s \in [1..Len(s) -> S]
  OBVIOUS
<1>2. ASSUME NEW n \in Nat, s \in [1..n -> S] PROVE s \in Seq(S)
  BY <1>2
<1> QED
  BY <1>1, <1>2

(* A job with some of its fields changed.                                  *)
LEMMA JobFlagged ==
    ASSUME NEW r \in Jobs!JobRecord, NEW b \in BOOLEAN
    PROVE  LET s == [r EXCEPT !.cancelled = b]
           IN  /\ s \in Jobs!JobRecord /\ s.cancelled = b
               /\ s.name = r.name /\ s.runs = r.runs /\ s.thread = r.thread
  BY DEF Jobs!JobRecord
LEMMA JobMoved ==
    ASSUME NEW r \in Jobs!JobRecord, NEW t \in Jobs!Threads
    PROVE  LET s == [r EXCEPT !.thread = t]
           IN  /\ s \in Jobs!JobRecord /\ s.thread = t
               /\ s.name = r.name /\ s.runs = r.runs /\ s.cancelled = r.cancelled
  BY DEF Jobs!JobRecord
LEMMA JobsStart == Jobs!Init => Jobs!Inv
<1> SUFFICES ASSUME Jobs!Init PROVE Jobs!Inv
  OBVIOUS
<1>1. jobs = <<>> /\ jobTable = [n \in JobNames |-> 0]
  BY DEF Jobs!Init, Jobs!None
<1>2. <<>> \in [1..0 -> Jobs!JobRecord] /\ DOMAIN <<>> = {}
  OBVIOUS
<1> QED
  BY <1>1, <1>2, JobShape DEF Jobs!Inv, Jobs!TypeOK, Jobs!Listed, Jobs!Known, Jobs!None

(* cancel sets the flag of the job that has the name, and no other.        *)
LEMMA CancelledJobs ==
    ASSUME Jobs!Inv, NEW n \in JobNames
    PROVE  /\ DOMAIN Jobs!Cancelled(n) = DOMAIN jobs
           /\ \A i \in DOMAIN jobs :
                 /\ Jobs!Cancelled(n)[i] \in Jobs!JobRecord
                 /\ Jobs!Cancelled(n)[i].cancelled = (jobs[i].cancelled \/ i = jobTable[n])
                 /\ Jobs!Cancelled(n)[i].name = jobs[i].name
                 /\ Jobs!Cancelled(n)[i].runs = jobs[i].runs
                 /\ Jobs!Cancelled(n)[i].thread = jobs[i].thread
<1>1. PICK m \in Nat : jobs \in [1..m -> Jobs!JobRecord]
  BY JobShape DEF Jobs!Inv, Jobs!TypeOK
<1>2. CASE jobTable[n] = 0
  <2>1. Jobs!Cancelled(n) = jobs /\ \A i \in DOMAIN jobs : i # jobTable[n]
    BY <1>1, <1>2 DEF Jobs!Cancelled, Jobs!None
  <2>2. \A i \in DOMAIN jobs : jobs[i] \in Jobs!JobRecord /\ jobs[i].cancelled \in BOOLEAN
    BY <1>1 DEF Jobs!JobRecord
  <2> QED
    BY <2>1, <2>2
<1>3. CASE jobTable[n] # 0
  <2> DEFINE t == jobTable[n]
  <2>1. t \in DOMAIN jobs /\ Jobs!Cancelled(n) = [jobs EXCEPT ![t].cancelled = TRUE]
    BY <1>3 DEF Jobs!Inv, Jobs!Known, Jobs!Cancelled, Jobs!None
  <2> HIDE DEF t
  <2>2. /\ DOMAIN Jobs!Cancelled(n) = DOMAIN jobs
        /\ \A i \in DOMAIN jobs : Jobs!Cancelled(n)[i] =
              IF i = t THEN [jobs[i] EXCEPT !.cancelled = TRUE] ELSE jobs[i]
    BY <1>1, <2>1
  <2>3. \A i \in DOMAIN jobs : jobs[i] \in Jobs!JobRecord
    BY <1>1
  <2>4. ASSUME NEW i \in DOMAIN jobs
        PROVE  /\ [jobs[i] EXCEPT !.cancelled = TRUE].cancelled = TRUE
               /\ [jobs[i] EXCEPT !.cancelled = TRUE].name = jobs[i].name
               /\ [jobs[i] EXCEPT !.cancelled = TRUE].runs = jobs[i].runs
               /\ [jobs[i] EXCEPT !.cancelled = TRUE].thread = jobs[i].thread
               /\ [jobs[i] EXCEPT !.cancelled = TRUE] \in Jobs!JobRecord
               /\ jobs[i].cancelled \in BOOLEAN
    <3>1. jobs[i] \in Jobs!JobRecord
      BY <2>3
    <3>2. jobs[i].cancelled \in BOOLEAN
      BY <3>1 DEF Jobs!JobRecord
    <3> QED
      BY <3>1, <3>2, JobFlagged
  <2> QED
    BY <2>2, <2>3, <2>4 DEF t
<1> QED
  BY <1>2, <1>3

(* A step of one thread: it goes on, and does not begin to run cancelled.  *)
LEMMA ThreadMoves ==
    ASSUME Jobs!Inv, NEW i \in DOMAIN jobs, Jobs!Expire(i) \/ Jobs!Run(i) \/ Jobs!Finish(i)
    PROVE  /\ jobTable' = jobTable /\ DOMAIN jobs' = DOMAIN jobs
           /\ \A k \in DOMAIN jobs :
                 /\ jobs'[k] \in Jobs!JobRecord
                 /\ jobs'[k].cancelled = jobs[k].cancelled /\ jobs'[k].name = jobs[k].name
                 /\ jobs[k].thread # "about" => jobs'[k].runs = jobs[k].runs
                 /\ jobs[k].cancelled /\ jobs'[k].thread = "about" => jobs[k].thread = "about"
<1>1. PICK m \in Nat : jobs \in [1..m -> Jobs!JobRecord]
  BY JobShape DEF Jobs!Inv, Jobs!TypeOK
<1>2. jobs[i] \in Jobs!JobRecord
  BY <1>1
<1>3. \A t \in Jobs!Threads :
         LET r == [jobs[i] EXCEPT !.thread = t]
         IN  /\ r \in Jobs!JobRecord /\ r.thread = t
             /\ r.cancelled = jobs[i].cancelled /\ r.name = jobs[i].name /\ r.runs = jobs[i].runs
  BY <1>2, JobMoved
<1>4. CASE Jobs!Expire(i) \/ Jobs!Finish(i)
  <2>1. PICK t \in Jobs!Threads :
           /\ jobs' = [jobs EXCEPT ![i].thread = t] /\ jobTable' = jobTable
           /\ jobs[i].cancelled => t # "about"
    BY <1>4 DEF Jobs!Expire, Jobs!Finish, Jobs!Threads
  <2>2. /\ DOMAIN jobs' = DOMAIN jobs
        /\ \A k \in DOMAIN jobs : jobs'[k] = IF k = i THEN [jobs[i] EXCEPT !.thread = t] ELSE jobs[k]
    BY <1>1, <2>1
  <2> QED
    BY <1>1, <1>3, <2>1, <2>2
<1>5. CASE Jobs!Run(i)
  <2>1. PICK n \in Nat :
           /\ jobs' = [jobs EXCEPT ![i].thread = "running", ![i].runs = jobs[i].runs + 1, ![i].calls = n]
           /\ jobs[i].thread = "about" /\ jobTable' = jobTable
    <3> DEFINE n == IF jobs[i].builtin THEN jobs[i].calls ELSE jobs[i].calls + 1
    <3>1. n \in Nat
      BY <1>2 DEF Jobs!JobRecord
    <3>2. /\ jobs' = [jobs EXCEPT ![i].thread = "running", ![i].runs = jobs[i].runs + 1, ![i].calls = n]
          /\ jobs[i].thread = "about" /\ jobTable' = jobTable
      BY <1>5 DEF Jobs!Run
    <3> HIDE DEF n
    <3> QED
      BY <3>1, <3>2
  <2> DEFINE r == [jobs[i] EXCEPT !.thread = "running", !.runs = jobs[i].runs + 1, !.calls = n]
  <2>2. /\ DOMAIN jobs' = DOMAIN jobs
        /\ \A k \in DOMAIN jobs : jobs'[k] = IF k = i THEN r ELSE jobs[k]
    BY <1>1, <2>1
  <2>3. /\ r \in Jobs!JobRecord /\ r.thread = "running"
        /\ r.cancelled = jobs[i].cancelled /\ r.name = jobs[i].name
    <3>1. jobs[i].runs + 1 \in Nat
      BY <1>2 DEF Jobs!JobRecord
    <3>2. n \in Nat
      BY <2>1
    <3>3. ASSUME NEW x \in Jobs!JobRecord, NEW k \in Nat
          PROVE  LET s == [x EXCEPT !.thread = "running", !.runs = k, !.calls = n]
                 IN  /\ s \in Jobs!JobRecord /\ s.thread = "running"
                     /\ s.name = x.name /\ s.cancelled = x.cancelled
      BY <3>2 DEF Jobs!JobRecord, Jobs!Threads
    <3> QED
      BY <1>2, <3>1, <3>3
  <2> HIDE DEF r
  <2> QED
    BY <1>1, <2>1, <2>2, <2>3
<1> QED
  BY <1>4, <1>5

(* The new job has the next number; the one of its name is cancelled.      *)
LEMMA JobScheduled ==
    ASSUME Jobs!Inv, NEW n \in JobNames, NEW r \in BOOLEAN, NEW b \in BOOLEAN, Jobs!Schedule(n, r, b)
    PROVE  /\ Jobs!Inv' /\ Jobs!CancelStep
<1>1. PICK m \in Nat : jobs \in [1..m -> Jobs!JobRecord]
  BY JobShape DEF Jobs!Inv, Jobs!TypeOK
<1>2. DOMAIN jobs = 1..m /\ Cardinality(DOMAIN jobs) = m
  <2>1. DOMAIN jobs = 1..m
    BY <1>1
  <2>2. Cardinality(1..m) = m
    BY FS_Interval
  <2> QED
    BY <2>1, <2>2
<1> DEFINE new == [name |-> n, repeating |-> r, builtin |-> b, cancelled |-> FALSE, runs |-> 0,
                   calls |-> 0, thread |-> "waiting"]
<1>3. /\ jobs' = [i \in 1..(m + 1) |-> IF i < m + 1 THEN Jobs!Cancelled(n)[i] ELSE new]
      /\ jobTable' = [jobTable EXCEPT ![n] = m + 1]
  BY <1>2, JobsCardinality DEF Jobs!Schedule
<1>4. new \in Jobs!JobRecord /\ new.cancelled = FALSE /\ new.name = n
  BY DEF Jobs!JobRecord, Jobs!Threads
<1> HIDE DEF new
<1>5. /\ DOMAIN jobs' = 1..(m + 1) /\ jobs'[m + 1] = new
      /\ \A i \in 1..m : jobs'[i] = Jobs!Cancelled(n)[i]
      /\ \A i \in 1..(m + 1) : i \in 1..m \/ i = m + 1
  BY <1>3
<1>6. \A i \in 1..m :
         /\ jobs'[i] \in Jobs!JobRecord /\ jobs[i].name \in JobNames
         /\ jobs'[i].cancelled = (jobs[i].cancelled \/ i = jobTable[n])
         /\ jobs'[i].name = jobs[i].name /\ jobs'[i].runs = jobs[i].runs
         /\ jobs'[i].thread = jobs[i].thread
  <2>1. \A i \in 1..m : jobs[i].name \in JobNames
    BY <1>1 DEF Jobs!JobRecord
  <2>2. \A i \in 1..m :
           /\ Jobs!Cancelled(n)[i] \in Jobs!JobRecord
           /\ Jobs!Cancelled(n)[i].cancelled = (jobs[i].cancelled \/ i = jobTable[n])
           /\ Jobs!Cancelled(n)[i].name = jobs[i].name
           /\ Jobs!Cancelled(n)[i].runs = jobs[i].runs
           /\ Jobs!Cancelled(n)[i].thread = jobs[i].thread
    BY <1>2, CancelledJobs
  <2> QED
    BY <1>5, <2>1, <2>2
<1>7. jobTable \in [JobNames -> Nat]
  BY JobShape DEF Jobs!Inv, Jobs!TypeOK
<1>8. Jobs!TypeOK'
  <2>1. jobs' \in [1..(m + 1) -> Jobs!JobRecord]
    <3>1. \A i \in 1..(m + 1) : jobs'[i] \in Jobs!JobRecord
      BY <1>4, <1>5, <1>6
    <3>2. jobs' = [i \in 1..(m + 1) |-> jobs'[i]]
      BY <1>3
    <3> QED
      BY <3>1, <3>2
  <2> QED
    BY <1>3, <1>7, <2>1, JobShape DEF Jobs!TypeOK
<1>9. Jobs!Listed'
  <2>1. ASSUME NEW i \in 1..m, ~jobs'[i].cancelled PROVE jobTable'[jobs'[i].name] = i
    <3>1. ~jobs[i].cancelled /\ i # jobTable[n]
      BY <1>6, <2>1
    <3>2. jobTable[jobs[i].name] = i
      BY <1>2, <3>1 DEF Jobs!Inv, Jobs!Listed
    <3> QED
      BY <1>3, <1>6, <1>7, <3>1, <3>2
  <2> QED
    BY <1>3, <1>4, <1>5, <1>7, <2>1 DEF Jobs!Listed
<1>10. Jobs!Known'
  BY <1>2, <1>3, <1>5, <1>7 DEF Jobs!Known, Jobs!Inv, Jobs!None
<1>11. Jobs!CancelStep
  BY <1>2, <1>5, <1>6, <1>9 DEF Jobs!CancelStep, Jobs!Listed
<1> QED
  BY <1>8, <1>9, <1>10, <1>11 DEF Jobs!Inv

(* cancel, and cancel of every job.                                        *)
LEMMA JobsCancelled ==
    ASSUME Jobs!Inv, Jobs!CancelAll \/ \E n \in JobNames : Jobs!Cancel(n)
    PROVE  Jobs!Inv' /\ Jobs!CancelStep
<1>1. PICK m \in Nat : jobs \in [1..m -> Jobs!JobRecord]
  BY JobShape DEF Jobs!Inv, Jobs!TypeOK
<1>2. PICK S \in SUBSET JobNames :
         /\ jobTable' = [n \in JobNames |-> IF n \in S THEN 0 ELSE jobTable[n]]
         /\ jobs' \in [1..m -> Jobs!JobRecord]
         /\ \A i \in 1..m :
               /\ jobs'[i].cancelled = (jobs[i].cancelled \/ \E n \in S : jobTable[n] = i)
               /\ jobs'[i].name = jobs[i].name /\ jobs'[i].runs = jobs[i].runs
               /\ jobs'[i].thread = jobs[i].thread
  <2>1. ASSUME NEW n \in JobNames, Jobs!Cancel(n)
        PROVE  /\ jobTable' = [o \in JobNames |-> IF o \in {n} THEN 0 ELSE jobTable[o]]
               /\ jobs' \in [1..m -> Jobs!JobRecord]
               /\ \A i \in 1..m :
                     /\ jobs'[i].cancelled = (jobs[i].cancelled \/ \E o \in {n} : jobTable[o] = i)
                     /\ jobs'[i].name = jobs[i].name /\ jobs'[i].runs = jobs[i].runs
                     /\ jobs'[i].thread = jobs[i].thread
    <3>1. jobs' = Jobs!Cancelled(n) /\ jobTable' = [jobTable EXCEPT ![n] = 0]
      BY <2>1 DEF Jobs!Cancel, Jobs!None
    <3>2. jobTable \in [JobNames -> Nat]
      BY JobShape DEF Jobs!Inv, Jobs!TypeOK
    <3>3. jobs' \in [1..m -> Jobs!JobRecord]
      <4>1. DOMAIN Jobs!Cancelled(n) = 1..m /\ \A i \in 1..m : Jobs!Cancelled(n)[i] \in Jobs!JobRecord
        BY <1>1, CancelledJobs
      <4>2. Jobs!Cancelled(n) = [i \in DOMAIN Jobs!Cancelled(n) |-> Jobs!Cancelled(n)[i]]
        BY <1>1 DEF Jobs!Cancelled
      <4> QED
        BY <3>1, <4>1, <4>2
    <3>4. \A i \in 1..m :
             /\ jobs'[i].cancelled = (jobs[i].cancelled \/ i = jobTable[n])
             /\ jobs'[i].name = jobs[i].name /\ jobs'[i].runs = jobs[i].runs
             /\ jobs'[i].thread = jobs[i].thread
      BY <1>1, <3>1, CancelledJobs
    <3> QED
      BY <3>1, <3>2, <3>3, <3>4
  <2>2. ASSUME Jobs!CancelAll
        PROVE  /\ jobTable' = [o \in JobNames |-> IF o \in JobNames THEN 0 ELSE jobTable[o]]
               /\ jobs' \in [1..m -> Jobs!JobRecord]
               /\ \A i \in 1..m :
                     /\ jobs'[i].cancelled = (jobs[i].cancelled \/ \E o \in JobNames : jobTable[o] = i)
                     /\ jobs'[i].name = jobs[i].name /\ jobs'[i].runs = jobs[i].runs
                     /\ jobs'[i].thread = jobs[i].thread
    <3>1. /\ jobs' = [i \in 1..m |-> [jobs[i] EXCEPT !.cancelled =
                         jobs[i].cancelled \/ \E n \in JobNames : jobTable[n] = i]]
          /\ jobTable' = [n \in JobNames |-> 0]
      BY <1>1, <2>2 DEF Jobs!CancelAll, Jobs!None
    <3>2. ASSUME NEW i \in 1..m, NEW b \in BOOLEAN
          PROVE  /\ [jobs[i] EXCEPT !.cancelled = b] \in Jobs!JobRecord
                 /\ [jobs[i] EXCEPT !.cancelled = b].cancelled = b
                 /\ [jobs[i] EXCEPT !.cancelled = b].name = jobs[i].name
                 /\ [jobs[i] EXCEPT !.cancelled = b].runs = jobs[i].runs
                 /\ [jobs[i] EXCEPT !.cancelled = b].thread = jobs[i].thread
      BY <1>1, JobFlagged
    <3>3. \A i \in 1..m : (jobs[i].cancelled \/ \E n \in JobNames : jobTable[n] = i) \in BOOLEAN
      OBVIOUS
    <3>4. ASSUME NEW i \in 1..m
          PROVE  /\ jobs'[i] \in Jobs!JobRecord
                 /\ jobs'[i].cancelled = (jobs[i].cancelled \/ \E o \in JobNames : jobTable[o] = i)
                 /\ jobs'[i].name = jobs[i].name /\ jobs'[i].runs = jobs[i].runs
                 /\ jobs'[i].thread = jobs[i].thread
      <4> DEFINE flag == jobs[i].cancelled \/ \E n \in JobNames : jobTable[n] = i
      <4>1. jobs'[i] = [jobs[i] EXCEPT !.cancelled = flag] /\ flag \in BOOLEAN
        BY <3>1
      <4> HIDE DEF flag
      <4>2. /\ jobs'[i] \in Jobs!JobRecord /\ jobs'[i].cancelled = flag
            /\ jobs'[i].name = jobs[i].name /\ jobs'[i].runs = jobs[i].runs
            /\ jobs'[i].thread = jobs[i].thread
        BY <3>2, <4>1
      <4> QED
        BY <4>2 DEF flag
    <3>5. jobs' \in [1..m -> Jobs!JobRecord]
      BY <3>1, <3>4
    <3> QED
      BY <3>1, <3>4, <3>5
  <2>3. CASE Jobs!CancelAll
    BY <2>2, <2>3
  <2>4. CASE \E n \in JobNames : Jobs!Cancel(n)
    <3>1. PICK n \in JobNames : Jobs!Cancel(n)
      BY <2>4
    <3>2. {n} \in SUBSET JobNames
      OBVIOUS
    <3> QED
      BY <2>1, <3>1, <3>2
  <2> QED
    BY <2>3, <2>4
<1>3. jobTable \in [JobNames -> Nat] /\ DOMAIN jobs = 1..m /\ DOMAIN jobs' = 1..m
      /\ \A i \in 1..m : jobs[i].name \in JobNames
  BY <1>1, <1>2, JobShape DEF Jobs!Inv, Jobs!TypeOK, Jobs!JobRecord
<1>4. Jobs!TypeOK'
  BY <1>2, <1>3, JobShape DEF Jobs!TypeOK
<1>5. Jobs!Listed'
  <2>1. ASSUME NEW i \in 1..m, ~jobs'[i].cancelled PROVE jobTable'[jobs'[i].name] = i
    <3>1. ~jobs[i].cancelled /\ \A n \in S : jobTable[n] # i
      BY <1>2, <2>1
    <3>2. jobTable[jobs[i].name] = i
      BY <1>3, <3>1 DEF Jobs!Inv, Jobs!Listed
    <3> QED
      BY <1>2, <1>3, <3>1, <3>2
  <2> QED
    BY <1>3, <2>1 DEF Jobs!Listed
<1>6. Jobs!Known'
  BY <1>2, <1>3 DEF Jobs!Known, Jobs!Inv, Jobs!None
<1>7. Jobs!CancelStep
  BY <1>2, <1>3, <1>5 DEF Jobs!CancelStep, Jobs!Listed
<1> QED
  BY <1>4, <1>5, <1>6, <1>7 DEF Jobs!Inv

LEMMA JobsStep == ASSUME Jobs!Inv, Jobs!Next PROVE Jobs!Inv' /\ Jobs!CancelStep
<1>1. CASE \E i \in DOMAIN jobs : Jobs!Expire(i) \/ Jobs!Run(i) \/ Jobs!Finish(i)
  <2>1. PICK m \in Nat : jobs \in [1..m -> Jobs!JobRecord]
    BY JobShape DEF Jobs!Inv, Jobs!TypeOK
  <2>2. PICK i \in DOMAIN jobs : Jobs!Expire(i) \/ Jobs!Run(i) \/ Jobs!Finish(i)
    BY <1>1
  <2>3. /\ jobTable' = jobTable /\ DOMAIN jobs' = DOMAIN jobs
        /\ \A k \in DOMAIN jobs :
                 /\ jobs'[k] \in Jobs!JobRecord
                 /\ jobs'[k].cancelled = jobs[k].cancelled /\ jobs'[k].name = jobs[k].name
                 /\ jobs[k].thread # "about" => jobs'[k].runs = jobs[k].runs
                 /\ jobs[k].cancelled /\ jobs'[k].thread = "about" => jobs[k].thread = "about"
    BY <2>2, ThreadMoves
  <2>4. jobs' = [k \in DOMAIN jobs' |-> jobs'[k]]
    BY <2>1, <2>2 DEF Jobs!Expire, Jobs!Run, Jobs!Finish
  <2>5. Jobs!TypeOK'
    <3>1. jobs' \in [1..m -> Jobs!JobRecord]
      BY <2>1, <2>3, <2>4
    <3> QED
      BY <2>3, <3>1, JobShape DEF Jobs!TypeOK, Jobs!Inv
  <2>6. Jobs!Listed' /\ Jobs!Known'
    BY <2>3 DEF Jobs!Inv, Jobs!Listed, Jobs!Known
  <2>7. Jobs!CancelStep
    BY <2>3, <2>6 DEF Jobs!CancelStep, Jobs!Listed
  <2> QED
    BY <2>5, <2>6, <2>7 DEF Jobs!Inv
<1>2. CASE \E n \in JobNames, r, b \in BOOLEAN : Jobs!Schedule(n, r, b)
  BY <1>2, JobScheduled
<1>3. CASE Jobs!CancelAll \/ \E n \in JobNames : Jobs!Cancel(n)
  BY <1>3, JobsCancelled
<1> QED
  BY <1>1, <1>2, <1>3 DEF Jobs!Next

(* Whoever cancels, and whenever: a job that is cancelled runs at most the *)
(* once it was about to, and what may still start is in the table.         *)
THEOREM CancelledJobsStop == ServicesSpec => CancelStops
<1>1. ServicesInit => Jobs!Inv
  BY JobsStart DEF ServicesInit
<1>2. Jobs!Inv /\ [ServicesNext]_servicesVars => Jobs!Inv'
  <2>1. CASE UNCHANGED scheduler
    BY <2>1, JobShape DEF scheduler, Jobs!Inv, Jobs!TypeOK, Jobs!Listed, Jobs!Known
  <2>2. [ServicesNext]_servicesVars => Jobs!Next \/ UNCHANGED scheduler
    BY DEF ServicesNext, servicesVars
  <2> QED
    BY <2>1, <2>2, JobsStep
<1>3. Jobs!Inv /\ [ServicesNext]_servicesVars => [which = "scheduler" => Jobs!CancelStep]_servicesVars
  <2>1. ServicesNext /\ which = "scheduler" => Jobs!Next
    BY DEF ServicesNext
  <2> QED
    BY <2>1, JobsStep
<1> QED
  BY <1>1, <1>2, <1>3, PTL DEF ServicesSpec, CancelStops

-----------------------------------------------------------------------------
(***************************************************************************)
(* Certificates and serve blocks.                                          *)
(***************************************************************************)
LEMMA HttpsStarts == Https!Init => Https!Inv
  BY DEF Https!Init, Https!Inv, Https!TypeOK, Https!DayIsLast, Https!Dated, Https!Saving,
     Https!NoJob, Https!None, Https!Pair

(* The files and the job, whatever happens to the server.                  *)
LEMMA HttpsFresh ==
    ASSUME Https!Inv
    PROVE  /\ Lifetime \in Nat /\ RenewBefore \in Nat
           /\ Https!has_fresh_cert <=> Https!Dated
  BY ServicesAssumption DEF Https!Inv, Https!TypeOK, Https!DayIsLast, Https!has_fresh_cert, Https!Dated

LEMMA HttpsLoads ==
    ASSUME Https!Inv, Https!Load
    PROVE  /\ server' \in {"down", "starting", "serving"}
           /\ live' \in [cert : Https!Pair, key : Https!Pair]
           /\ live'.cert = live'.key /\ (server' = "serving" => live'.cert.order > 0)
  BY DEF Https!Load, Https!Inv, Https!TypeOK

LEMMA HttpsInterrupted ==
    ASSUME Https!Inv, Https!Interrupted, job' = Https!NoJob, UNCHANGED <<today, orders>>
    PROVE  /\ files' \in [cert : Https!Pair, key : Https!Pair, issued : Nat]
           /\ job' \in [stage : {"none", "order", "cert", "key", "day", "load"}, pair : Https!Pair]
           /\ Https!DayIsLast'
<1>1. job' \in [stage : {"none", "order", "cert", "key", "day", "load"}, pair : Https!Pair] /\ job'.stage = "none"
  BY DEF Https!NoJob, Https!None, Https!Pair
<1>2. Https!Half \in Https!Pair /\ Https!Half.order # 0
  BY DEF Https!Half, Https!Pair
<1>3. CASE UNCHANGED files
  BY <1>1, <1>3 DEF Https!Inv, Https!TypeOK, Https!DayIsLast, Https!Saving, Https!Dated
<1>4. CASE job.stage = "cert" /\ files' = [files EXCEPT !.cert = Https!Half]
  BY <1>1, <1>2, <1>4 DEF Https!Inv, Https!TypeOK, Https!DayIsLast, Https!Saving, Https!Dated
<1>5. CASE job.stage = "key" /\ files' = [files EXCEPT !.key = Https!Half]
  BY <1>1, <1>2, <1>5 DEF Https!Inv, Https!TypeOK, Https!DayIsLast, Https!Saving, Https!Dated
<1>6. CASE job.stage = "day" /\ files' = [files EXCEPT !.issued = 0]
  BY <1>1, <1>6 DEF Https!Inv, Https!TypeOK, Https!DayIsLast, Https!Saving, Https!Dated
<1> QED
  BY <1>3, <1>4, <1>5, <1>6 DEF Https!Interrupted

LEMMA HttpsKeeps == Https!Inv /\ [Https!Next]_https => Https!Inv'
<1> SUFFICES ASSUME Https!Inv, [Https!Next]_https PROVE Https!Inv'
  OBVIOUS
<1> USE HttpsFresh DEF Https!Inv, Https!TypeOK, Https!DayIsLast, Https!Saving, Https!Dated
<1>1. CASE UNCHANGED https
  BY <1>1 DEF https
<1>2. CASE Https!Start
  BY <1>2 DEF Https!Start, Https!NoJob, Https!None, Https!Pair
<1>3. CASE Https!Renew
  BY <1>3 DEF Https!Renew, Https!NoJob, Https!None, Https!Pair
<1>4. CASE Https!Provision
  BY <1>4 DEF Https!Provision, Https!Pair
<1>5. CASE Https!Fails
  BY <1>5, HttpsInterrupted DEF Https!Fails
<1>6. CASE Https!Save
  <2>1. CASE job.stage = "cert"
    BY <1>6, <2>1 DEF Https!Save, Https!save_cert
  <2>2. CASE job.stage = "key"
    BY <1>6, <2>2 DEF Https!Save, Https!save_cert
  <2>3. CASE job.stage = "day"
    BY <1>6, <2>3 DEF Https!Save, Https!save_cert
  <2> QED
    BY <1>6, <2>1, <2>2, <2>3 DEF Https!Save, Https!save_cert
<1>7. CASE Https!LoadPair
  BY <1>7, HttpsLoads DEF Https!LoadPair, Https!NoJob, Https!None, Https!Pair
<1>8. CASE Https!Kill
  BY <1>8, HttpsInterrupted DEF Https!Kill, Https!None, Https!Pair
<1>9. CASE Https!NextDay
  BY <1>9 DEF Https!NextDay
<1> QED
  BY <1>1, <1>2, <1>3, <1>4, <1>5, <1>6, <1>7, <1>8, <1>9 DEF Https!Next

LEMMA HttpsWhole == Https!Inv => Https!CertificateIsWhole
  BY HttpsFresh DEF Https!Inv, Https!TypeOK, Https!DayIsLast, Https!Dated, Https!CertificateIsWhole

LEMMA UpStarts == Up!Init => Up!Inv
  BY ServicesAssumption DEF Up!Init, Up!Inv, Up!TypeOK, Up!AtABlock, Up!OfThis, Up!OfThose, Up!Bound,
     Up!Resolved, Up!Early, Up!Late

LEMMA UpBlocks ==
    ASSUME Up!Inv
    PROVE  /\ Len(blocks) \in Nat /\ DOMAIN blocks = 1..Len(blocks)
           /\ \A i \in 1..Len(blocks) : blocks[i] \in Up!Block /\ Up!Port(blocks[i]) \in Nat
           /\ serveStage \in Up!Early \cup Up!Late => at \in 1..Len(blocks)
<1>1. /\ flags \in Up!CommandLine /\ blocks \in Seq(Up!Block)
      /\ serveStage \in Up!Early \cup Up!Late => at \in DOMAIN blocks
  BY DEF Up!Inv, Up!TypeOK, Up!AtABlock
<1>2. flags.port \in Nat /\ \A b \in Up!Block : b.port \in Nat
  BY <1>1 DEF Up!Block, Up!CommandLine
<1> HIDE DEF Up!Block
<1>3. Len(blocks) \in Nat /\ DOMAIN blocks = 1..Len(blocks)
  BY <1>1
<1>4. \A i \in 1..Len(blocks) : blocks[i] \in Up!Block
  BY <1>1
<1> QED
  BY <1>1, <1>2, <1>3, <1>4 DEF Up!Port

(* A step of a block that binds nothing.                                   *)
LEMMA UpGoes ==
    ASSUME Up!Inv, NEW s, Up!Goes(s), UNCHANGED sockets,
           \/ serveStage = "permit" /\ s = "tables"
           \/ serveStage = "tables" /\ s = "tls"
           \/ serveStage = "tls" /\ s = "bind" /\ (Up!host_certs(blocks[at]) => Up!manual_cert(blocks[at]))
           \/ serveStage = "obtain" /\ s = "start"
    PROVE  Up!Inv'
<1>1. serveStage' = s /\ UNCHANGED <<flags, blocks, at, failed, sockets>>
  BY DEF Up!Goes
<1>2. Up!TypeOK'
  BY <1>1 DEF Up!Inv, Up!TypeOK, Up!Early, Up!Late
<1>3. Up!AtABlock'
  BY <1>1 DEF Up!Inv, Up!AtABlock, Up!Early, Up!Late
<1>4. Up!OfThis'
  BY <1>1 DEF Up!Inv, Up!OfThis, Up!Late
<1>5. Up!OfThose'
  BY <1>1 DEF Up!Inv, Up!OfThose, Up!Serving
<1>6. Up!Bound'
  BY <1>1 DEF Up!Inv, Up!Bound, Up!Late
<1>7. Up!Resolved'
  BY <1>1 DEF Up!Inv, Up!Resolved, Up!tls_auto_eff, Up!manual_cert, Up!host_certs, Up!cli_overrides_tls
<1> QED
  BY <1>2, <1>3, <1>4, <1>5, <1>6, <1>7 DEF Up!Inv

(* The next block: what is bound is of blocks that are done.               *)
LEMMA UpReaches ==
    ASSUME Up!Inv, Up!Reaches(at + 1), at < Len(blocks) + 1,
           sockets' \subseteq Up!Socket, failed' \subseteq 1..Len(blocks),
           \A i \in failed' : i <= at, flags.tls \notin {"half", "both"},
           \A s \in sockets' : /\ s.block \in 1..at /\ s.run
                               /\ IF s.block \in failed' THEN s.use = "challenge" /\ blocks[s.block].tried
                                  ELSE \E t \in sockets' : t.block = s.block /\ t.use = "server" /\ t.run
                               /\ \E t \in sockets : t.block = s.block /\ t.use = s.use /\ t.tls = s.tls
    PROVE  Up!Inv'
<1>1. /\ at' = at + 1 /\ UNCHANGED <<flags, blocks>> /\ at \in Nat /\ Len(blocks) \in Nat
      /\ IF at + 1 <= Len(blocks) THEN serveStage' = "permit"
         ELSE IF sockets' = {} THEN serveStage' = "ended" ELSE serveStage' = "running"
  BY DEF Up!Reaches, Up!Inv, Up!TypeOK
<1>2. Up!TypeOK'
  BY <1>1 DEF Up!Inv, Up!TypeOK, Up!Early, Up!Late
<1>3. Up!AtABlock'
  <2>1. \A i \in failed' : i \in Nat /\ i <= at /\ i # at + 1 /\ i <= at + 1
    BY <1>1
  <2> QED
    BY <1>1, <2>1, UpBlocks DEF Up!AtABlock, Up!Early, Up!Late
<1>4. Up!OfThis'
  BY <1>1 DEF Up!OfThis
<1>5. Up!OfThose'
  BY <1>1 DEF Up!OfThose, Up!Serving
<1>6. Up!Bound'
  BY <1>1 DEF Up!Bound, Up!Late
<1>7. Up!Resolved'
  <2>1. serveStage' # "bind"
    BY <1>1
  <2>2. ASSUME NEW s \in sockets', s.use = "server"
        PROVE  /\ s.tls = IF Up!tls_auto_eff(blocks[s.block]) THEN "auto"
                          ELSE IF Up!manual_cert(blocks[s.block]) THEN "manual" ELSE "none"
               /\ Up!host_certs(blocks[s.block]) => Up!manual_cert(blocks[s.block])
    <3>1. PICK t \in sockets : t.block = s.block /\ t.use = s.use /\ t.tls = s.tls
      OBVIOUS
    <3> QED
      BY <2>2, <3>1 DEF Up!Inv, Up!Resolved
  <2> QED
    BY <1>1, <2>1, <2>2 DEF Up!Resolved, Up!tls_auto_eff, Up!manual_cert, Up!host_certs, Up!cli_overrides_tls
<1> QED
  BY <1>2, <1>3, <1>4, <1>5, <1>6, <1>7 DEF Up!Inv

LEMMA UpFails ==
    ASSUME Up!Inv, Up!Fail, serveStage \in (Up!Early \cup Up!Late) \ {"start"}
    PROVE  Up!Inv'
<1>1. /\ at \in 1..Len(blocks) /\ Len(blocks) \in Nat /\ at \notin failed
      /\ failed' = failed \cup {at} /\ flags.tls \notin {"half", "both"}
      /\ sockets \subseteq Up!Socket /\ failed \subseteq 1..Len(blocks)
  BY UpBlocks DEF Up!Fail, Up!Inv, Up!TypeOK, Up!AtABlock, Up!Early, Up!Late
<1>4. \A i \in failed : i \in Nat /\ i <= at
  BY <1>1 DEF Up!Inv, Up!AtABlock
<1>2. CASE blocks[at].tried
  <2>1. sockets' = {s \in sockets : s.run} /\ Up!Reaches(at + 1)
    BY <1>2 DEF Up!Fail
  <2>2. (\A i \in failed' : i <= at) /\ failed' \subseteq 1..Len(blocks)
    BY <1>1, <1>4
  <2>3. sockets' \subseteq Up!Socket
    BY <1>1, <2>1
  <2>4. ASSUME NEW s \in sockets'
        PROVE  /\ s.block \in 1..at /\ s.run /\ s \in sockets
               /\ IF s.block \in failed' THEN s.use = "challenge" /\ blocks[s.block].tried
                  ELSE \E t \in sockets' : t.block = s.block /\ t.use = "server" /\ t.run
    <3>1. s \in sockets /\ s.run /\ s.block \in 1..at
      BY <1>1, <2>1 DEF Up!Inv, Up!AtABlock
    <3>2. CASE s.block = at
      <4>1. s.use = "challenge"
        BY <1>1, <3>1, <3>2 DEF Up!Inv, Up!OfThis, Up!Late, Up!TypeOK, Up!Socket
      <4> QED
        BY <1>1, <1>2, <3>1, <3>2, <4>1
    <3>3. CASE s.block # at
      <4>1. IF s.block \in failed THEN s.use = "challenge" /\ blocks[s.block].tried
            ELSE Up!Serving(s.block) # {}
        BY <3>1, <3>3 DEF Up!Inv, Up!OfThose
      <4>2. \A t \in Up!Serving(s.block) : t \in sockets' /\ t.block = s.block /\ t.use = "server" /\ t.run
        BY <2>1 DEF Up!Serving
      <4> QED
        BY <1>1, <3>1, <3>3, <4>1, <4>2
    <3> QED
      BY <3>2, <3>3
  <2>5. at < Len(blocks) + 1
    BY <1>1
  <2> QED
    BY <1>1, <2>1, <2>2, <2>3, <2>4, <2>5, UpReaches
<1>3. CASE ~blocks[at].tried
  <2>1. sockets' = {} /\ serveStage' = "ended" /\ UNCHANGED <<flags, blocks, at>>
    BY <1>3 DEF Up!Fail
  <2> QED
    <3>1. Up!TypeOK' /\ Up!AtABlock'
      BY <1>1, <1>4, <2>1 DEF Up!Inv, Up!TypeOK, Up!AtABlock, Up!Early, Up!Late
    <3> QED
      BY <2>1, <3>1 DEF Up!Inv, Up!OfThis, Up!OfThose, Up!Bound, Up!Resolved, Up!Late
<1> QED
  BY <1>2, <1>3

(* A step that binds a port.                                               *)
LEMMA UpBinds ==
    ASSUME Up!Inv, NEW n \in Up!Socket, NEW then, Up!Goes(then),
           sockets' = sockets \cup {n}, n.block = at,
           \/ /\ serveStage = "bind" /\ then \in {"challenge", "redirect", "start"}
              /\ n.use = "server" /\ ~n.run
              /\ n.tls = IF Up!tls_auto_eff(blocks[at]) THEN "auto"
                         ELSE IF Up!manual_cert(blocks[at]) THEN "manual" ELSE "none"
           \/ serveStage = "challenge" /\ then = "obtain" /\ n.use = "challenge" /\ n.run
           \/ serveStage = "redirect" /\ then = "start" /\ n.use = "redirect" /\ n.run
    PROVE  Up!Inv'
<1>1. serveStage' = then /\ UNCHANGED <<flags, blocks, at, failed>>
  BY DEF Up!Goes
<1>2. /\ serveStage \in Up!Early \cup Up!Late /\ then \in Up!Late /\ at \in 1..Len(blocks)
      /\ serveStage # "bind" => serveStage \in Up!Late
  BY UpBlocks DEF Up!Early, Up!Late
<1>3. Up!TypeOK'
  BY <1>1, <1>2 DEF Up!Inv, Up!TypeOK
<1>4. Up!AtABlock'
  BY <1>1, <1>2 DEF Up!Inv, Up!TypeOK, Up!AtABlock, Up!Early, Up!Late
<1>5. Up!OfThis'
  BY <1>1, <1>2 DEF Up!Inv, Up!OfThis, Up!Late
<1>6. Up!OfThose'
  BY <1>1 DEF Up!Inv, Up!OfThose, Up!Serving
<1>7. Up!Bound'
  BY <1>1, <1>2 DEF Up!Inv, Up!Bound
<1>8. Up!Resolved'
  <2>1. /\ serveStage' # "bind"
        /\ serveStage = "bind" /\ Up!host_certs(blocks[at]) => Up!manual_cert(blocks[at])
    BY <1>1, <1>2 DEF Up!Inv, Up!Resolved, Up!Late
  <2>2. ASSUME NEW s \in sockets', s.use = "server"
        PROVE  /\ s.tls = IF Up!tls_auto_eff(blocks[s.block]) THEN "auto"
                          ELSE IF Up!manual_cert(blocks[s.block]) THEN "manual" ELSE "none"
               /\ Up!host_certs(blocks[s.block]) => Up!manual_cert(blocks[s.block])
    <3>1. CASE s \in sockets
      BY <2>2, <3>1 DEF Up!Inv, Up!Resolved
    <3>2. CASE s = n
      BY <2>1, <2>2, <3>2
    <3> QED
      BY <3>1, <3>2
  <2> QED
    BY <1>1, <2>1, <2>2 DEF Up!Resolved, Up!tls_auto_eff, Up!manual_cert, Up!host_certs, Up!cli_overrides_tls
<1> QED
  BY <1>3, <1>4, <1>5, <1>6, <1>7, <1>8 DEF Up!Inv

LEMMA UpBindsOrFails ==
    ASSUME Up!Inv, HttpPort \in Nat, Up!BindServer \/ Up!BindChallenge \/ Up!BindRedirect PROVE Up!Inv'
<1>1. serveStage \in {"bind", "challenge", "redirect"}
  BY DEF Up!BindServer, Up!BindChallenge, Up!BindRedirect
<1>2. at \in Nat \ {0} /\ Up!Port(blocks[at]) \in Nat
  BY <1>1, UpBlocks DEF Up!Early, Up!Late
<1>3. CASE Up!Fail
  BY <1>1, <1>3, UpFails DEF Up!Early, Up!Late
<1>4. CASE Up!BindServer /\ ~Up!Fail
  <2> DEFINE b == blocks[at]
             tls == IF Up!tls_auto_eff(b) THEN "auto" ELSE IF Up!manual_cert(b) THEN "manual" ELSE "none"
             then == IF tls = "auto" THEN "challenge"
                     ELSE IF b.redirect /\ tls = "manual" THEN "redirect" ELSE "start"
             n == [port |-> Up!Port(b), block |-> at, use |-> "server", tls |-> tls, run |-> FALSE]
  <2>1. serveStage = "bind" /\ Up!Goes(then) /\ sockets' = sockets \cup {n}
    BY <1>4 DEF Up!BindServer, Up!Bind
  <2>2. n \in Up!Socket /\ n.use = "server" /\ ~n.run /\ n.tls = tls /\ n.block = at
    BY <1>2 DEF Up!Socket
  <2>3. then \in {"challenge", "redirect", "start"}
    OBVIOUS
  <2> HIDE DEF n, then
  <2> QED
    BY <2>1, <2>2, <2>3, UpBinds
<1>5. CASE Up!BindChallenge /\ ~Up!Fail
  <2> DEFINE n == [port |-> HttpPort, block |-> at, use |-> "challenge", tls |-> "none", run |-> TRUE]
  <2>1. serveStage = "challenge" /\ Up!Goes("obtain") /\ sockets' = sockets \cup {n}
    BY <1>5 DEF Up!BindChallenge, Up!Bind
  <2>2. n \in Up!Socket /\ n.use = "challenge" /\ n.run /\ n.block = at
    BY <1>2 DEF Up!Socket
  <2> HIDE DEF n
  <2> QED
    BY <2>1, <2>2, UpBinds
<1>6. CASE Up!BindRedirect /\ ~Up!Fail
  <2> DEFINE n == [port |-> HttpPort, block |-> at, use |-> "redirect", tls |-> "none", run |-> TRUE]
  <2>1. serveStage = "redirect" /\ Up!Goes("start") /\ sockets' = sockets \cup {n}
    BY <1>6 DEF Up!BindRedirect, Up!Bind
  <2>2. n \in Up!Socket /\ n.use = "redirect" /\ n.run /\ n.block = at
    BY <1>2 DEF Up!Socket
  <2> HIDE DEF n
  <2> QED
    BY <2>1, <2>2, UpBinds
<1> QED
  BY <1>3, <1>4, <1>5, <1>6

LEMMA UpBegins == ASSUME Up!Inv, Up!Validate PROVE Up!Inv'
<1>1. at = 0 /\ sockets = {} /\ failed = {} /\ UNCHANGED <<flags, blocks, sockets, failed>>
  BY DEF Up!Inv, Up!AtABlock, Up!TypeOK, Up!Validate, Up!Reaches
<1>2. CASE Up!is_empty \/ (Up!validate /\ Up!OneBlock)
  <2>1. Up!Reaches(at + 1) /\ flags.tls \notin {"half", "both"}
    BY <1>1, <1>2 DEF Up!Validate, Up!is_empty, Up!validate
  <2>2. at < Len(blocks) + 1
    BY <1>1, UpBlocks
  <2> QED
    BY <1>1, <2>1, <2>2, UpReaches
<1>3. CASE ~(Up!is_empty \/ (Up!validate /\ Up!OneBlock))
  <2>1. serveStage' = "ended" /\ at' = at
    BY <1>3 DEF Up!Validate
  <2> QED
    BY <1>1, <2>1 DEF Up!Inv, Up!TypeOK, Up!AtABlock, Up!OfThis, Up!OfThose, Up!Bound, Up!Resolved,
       Up!Early, Up!Late
<1> QED
  BY <1>2, <1>3

LEMMA UpServes == ASSUME Up!Inv, Up!Start PROVE Up!Inv'
<1> DEFINE Runs(s) == IF s.block = at THEN [s EXCEPT !.run = TRUE] ELSE s
<1>1. /\ serveStage = "start" /\ failed' = failed /\ Up!Reaches(at + 1)
      /\ sockets' = {Runs(s) : s \in sockets}
  BY DEF Up!Start
<1>2. /\ at \in 1..Len(blocks) /\ Len(blocks) \in Nat /\ at \notin failed
      /\ flags.tls \notin {"half", "both"}
      /\ sockets \subseteq Up!Socket /\ failed \subseteq 1..Len(blocks)
      /\ \A i \in failed : i \in Nat /\ i <= at
  BY <1>1, UpBlocks DEF Up!Inv, Up!TypeOK, Up!AtABlock, Up!Early, Up!Late
<1>3. \A s \in sockets : /\ Runs(s) \in Up!Socket /\ Runs(s).block = s.block /\ Runs(s).use = s.use
                         /\ Runs(s).tls = s.tls /\ Runs(s) \in sockets' /\ (s.run => Runs(s).run)
                         /\ s.block = at => Runs(s).run
  BY <1>1, <1>2 DEF Up!Socket
<1>4. \E s \in sockets : s.block = at /\ s.use = "server"
  BY <1>1 DEF Up!Inv, Up!Bound, Up!Late
<1>5. ASSUME NEW s \in sockets
      PROVE  /\ s.block \in 1..at /\ Runs(s).run
             /\ IF s.block \in failed THEN s.use = "challenge" /\ blocks[s.block].tried
                ELSE \E t \in sockets' : t.block = s.block /\ t.use = "server" /\ t.run
  <2>1. s.block \in 1..at
    BY <1>2 DEF Up!Inv, Up!AtABlock
  <2>2. CASE s.block = at
    BY <1>2, <1>3, <1>4, <2>1, <2>2
  <2>3. CASE s.block # at
    <3>1. s.run /\ IF s.block \in failed THEN s.use = "challenge" /\ blocks[s.block].tried
                   ELSE Up!Serving(s.block) # {}
      BY <2>3 DEF Up!Inv, Up!OfThose
    <3>2. \A t \in Up!Serving(s.block) : t \in sockets /\ t.block = s.block /\ t.use = "server" /\ t.run
      BY DEF Up!Serving
    <3> QED
      BY <1>3, <2>1, <3>1, <3>2
  <2> QED
    BY <2>2, <2>3
<1>6. \A r \in sockets' : \E s \in sockets : r = Runs(s)
  BY <1>1
<1> HIDE DEF Runs
<1>7. at < Len(blocks) + 1 /\ (\A i \in failed' : i <= at) /\ failed' \subseteq 1..Len(blocks)
  BY <1>1, <1>2
<1>8. sockets' \subseteq Up!Socket
  BY <1>3, <1>6
<1>9. \A s \in sockets' :
         /\ s.block \in 1..at /\ s.run
         /\ IF s.block \in failed' THEN s.use = "challenge" /\ blocks[s.block].tried
            ELSE \E t \in sockets' : t.block = s.block /\ t.use = "server" /\ t.run
         /\ \E t \in sockets : t.block = s.block /\ t.use = s.use /\ t.tls = s.tls
  BY <1>1, <1>3, <1>5, <1>6
<1> QED
  BY <1>1, <1>2, <1>7, <1>8, <1>9, UpReaches

LEMMA UpKeeps == Up!Inv /\ HttpPort \in Nat /\ [Up!Next]_deploy => Up!Inv'
<1> SUFFICES ASSUME Up!Inv, HttpPort \in Nat, [Up!Next]_deploy PROVE Up!Inv'
  OBVIOUS
<1>1. CASE UNCHANGED deploy
  BY <1>1 DEF deploy, Up!Inv, Up!TypeOK, Up!AtABlock, Up!OfThis, Up!OfThose, Up!Bound, Up!Resolved,
     Up!Serving, Up!tls_auto_eff, Up!manual_cert, Up!host_certs, Up!cli_overrides_tls
<1>2. CASE Up!Permit
  BY <1>2, UpGoes, UpFails DEF Up!Permit, Up!Early
<1>3. CASE Up!build_host_table
  BY <1>3, UpGoes, UpFails DEF Up!build_host_table, Up!Early
<1>4. CASE Up!ResolveTls
  BY <1>4, UpGoes, UpFails DEF Up!ResolveTls, Up!Early
<1>5. CASE Up!Obtain
  BY <1>5, UpGoes, UpFails DEF Up!Obtain, Up!Late
<1> QED
  BY <1>1, <1>2, <1>3, <1>4, <1>5, UpBegins, UpBindsOrFails, UpServes DEF Up!Next

LEMMA UpAsAsked == Up!Inv => Up!DeployedAsAsked
<1> SUFFICES ASSUME Up!Inv PROVE Up!DeployedAsAsked
  OBVIOUS
<1>1. Up!TlsAsAsked
  <2> SUFFICES ASSUME NEW i \in DOMAIN blocks, NEW s \in Up!Serving(i)
               PROVE  /\ s.tls = "none" => ~(Up!cli_overrides_tls \/ blocks[i].auto
                                               \/ blocks[i].manual \/ blocks[i].hostCert)
                      /\ Up!cli_overrides_tls => s.tls = flags.tls
    BY DEF Up!TlsAsAsked
  <2>1. s \in sockets /\ s.block = i /\ s.use = "server"
    BY DEF Up!Serving
  <2>2. flags.tls \in {"none", "auto", "manual"}
    BY <2>1 DEF Up!Inv, Up!TypeOK, Up!AtABlock, Up!CommandLine
  <2> QED
    BY <2>1, <2>2 DEF Up!Inv, Up!Resolved, Up!tls_auto_eff, Up!manual_cert, Up!host_certs, Up!cli_overrides_tls
<1>2. Up!NothingLeftBehind
  <2>1. ASSUME NEW s \in sockets, s.block = at PROVE s.block \notin failed
    BY <2>1 DEF Up!Inv, Up!AtABlock, Up!OfThis
  <2>2. serveStage = "ended" => sockets = {}
    BY DEF Up!Inv, Up!AtABlock
  <2> QED
    BY <2>1, <2>2 DEF Up!Inv, Up!NothingLeftBehind, Up!OfThose
<1> QED
  BY <1>1, <1>2 DEF Up!DeployedAsAsked

(* What a listener serves with is what the flags and the block ask for, the *)
(* pair of files of a certificate is never taken half written, and a block *)
(* that failed leaves no listener but the one it cannot close, for any     *)
(* programs, flags and ports (make_serve_hook, save_cert, serve_inner).    *)
THEOREM ServesAsAsked == ServicesSpec => []DeployedAsAsked
<1>1. ServicesInit => Https!Inv /\ Up!Inv
  BY HttpsStarts, UpStarts DEF ServicesInit
<1>2. Https!Inv /\ Up!Inv /\ [ServicesNext]_servicesVars => Https!Inv' /\ Up!Inv'
  <2>1. [ServicesNext]_servicesVars => [Https!Next]_https /\ [Up!Next]_deploy
    BY DEF ServicesNext, servicesVars
  <2> QED
    BY <2>1, HttpsKeeps, UpKeeps, ServicesAssumption
<1>3. Https!Inv /\ Up!Inv => DeployedAsAsked
  BY HttpsWhole, UpAsAsked DEF DeployedAsAsked
<1> QED
  BY <1>1, <1>2, <1>3, PTL DEF ServicesSpec

-----------------------------------------------------------------------------
(***************************************************************************)
(* Daemons: several shells work on one directory.                          *)
(***************************************************************************)
LEMMA DaemonIsSeq ==
    ASSUME NEW S, NEW n \in Nat, NEW s \in [1..n -> S]
    PROVE  s \in Seq(S)
  OBVIOUS
LEMMA DaemonSeqIs ==
    ASSUME NEW S, NEW s \in Seq(S)
    PROVE  Len(s) \in Nat /\ s \in [1..Len(s) -> S]
  OBVIOUS

(* The number of processes so far is the last pid.                         *)
LEMMA DaemonPids ==
    ASSUME NEW S, NEW s \in Seq(S)
    PROVE  /\ Len(s) \in Nat /\ DOMAIN s = 1..Len(s) /\ Daemons!Cardinality(DOMAIN s) = Len(s)
           /\ \A i \in DOMAIN s : s[i] \in S
<1>1. Len(s) \in Nat /\ DOMAIN s = 1..Len(s) /\ \A i \in DOMAIN s : s[i] \in S
  OBVIOUS
<1>2. Daemons!Cardinality(1..Len(s)) = Cardinality(1..Len(s))
  BY DEF Daemons!Cardinality, Cardinality
<1>3. Cardinality(1..Len(s)) = Len(s)
  BY <1>1, FS_Interval
<1> QED
  BY <1>1, <1>2, <1>3

LEMMA DaemonStart == Daemons!Init => Daemons!Inv
<1> SUFFICES ASSUME Daemons!Init PROVE Daemons!Inv
  OBVIOUS
<1> USE DEF Daemons!Init, Daemons!Idle, Daemons!None, Daemons!Nothing
<1>1. Daemons!TypeOK
  BY DEF Daemons!TypeOK, Daemons!Command
<1>2. \A n : Daemons!Up(n) = {}
  BY DEF Daemons!Up
<1>3. \A c \in Shells : \A n : ~Daemons!Works(c, n)
  BY DEF Daemons!Works
<1>4. Daemons!Named
  BY DEF Daemons!Named
<1>5. Daemons!OneWorks
  BY <1>3 DEF Daemons!OneWorks
<1>6. Daemons!Known
  BY <1>2, <1>3 DEF Daemons!Known
<1> QED
  BY <1>1, <1>4, <1>5, <1>6 DEF Daemons!Inv

(* Of a name that two commands are busy with, no promise is kept.          *)
LEMMA DaemonOverlap ==
    ASSUME Daemons!Overlap, Daemons!TypeOK
    PROVE  commandsOverlapped \subseteq commandsOverlapped' /\ commandsOverlapped' \subseteq Daemons!Names
           /\ Daemons!OneWorks'
  BY DEF Daemons!Overlap, Daemons!Busy, Daemons!OneWorks, Daemons!Works, Daemons!TypeOK

(* A step of command c that touches no name but m keeps what is known of   *)
(* all names when it keeps what is known of m.                             *)
LEMMA DaemonKnownAfter ==
    ASSUME Daemons!Known, Daemons!OneWorks, Daemons!OneWorks', NEW c \in Shells, NEW m \in Daemons!Names,
           commandsOverlapped \subseteq commandsOverlapped',
           \A d \in Shells : d # c => cmd'[d] = cmd[d],
           \A n \in Daemons!Names : n # m =>
               /\ ~Daemons!Works(c, n) /\ ~Daemons!Works(c, n)'
               /\ pidFile'[n] = pidFile[n] /\ Daemons!Up(n)' \subseteq Daemons!Up(n),
           m \notin commandsOverlapped' /\ Daemons!Works(c, m)' =>
               /\ cmd'[c].op \in {"spawn", "forget", "forget again", "wait"} => Daemons!Up(m)' = {}
               /\ cmd'[c].op = "record" => Daemons!Up(m)' \subseteq {cmd'[c].pid}
               /\ cmd'[c].op \in {"kill", "kill again"} =>
                      Daemons!Up(m)' \subseteq {pidFile'[m]} /\ cmd'[c].pid = pidFile'[m],
           m \notin commandsOverlapped' /\ Daemons!Works(c, m) /\ ~Daemons!Works(c, m)' =>
               Daemons!Up(m)' \subseteq {pidFile'[m]},
           ~Daemons!Works(c, m) /\ ~Daemons!Works(c, m)' =>
               pidFile'[m] = pidFile[m] /\ Daemons!Up(m)' \subseteq Daemons!Up(m)
    PROVE  Daemons!Known'
<1>0. \A d \in Shells : \A n : d # c => (Daemons!Works(d, n)' <=> Daemons!Works(d, n))
  BY DEF Daemons!Works
<1> SUFFICES ASSUME NEW n \in Daemons!Names, n \notin commandsOverlapped'
             PROVE  /\ \A d \in Shells : Daemons!Works(d, n)' =>
                           /\ cmd'[d].op \in {"spawn", "forget", "forget again", "wait"} => Daemons!Up(n)' = {}
                           /\ cmd'[d].op = "record" => Daemons!Up(n)' \subseteq {cmd'[d].pid}
                           /\ cmd'[d].op \in {"kill", "kill again"} =>
                                  Daemons!Up(n)' \subseteq {pidFile'[n]} /\ cmd'[d].pid = pidFile'[n]
                    /\ (\A d \in Shells : ~Daemons!Works(d, n)') => Daemons!Up(n)' \subseteq {pidFile'[n]}
  BY DEF Daemons!Known
<1>1. n \notin commandsOverlapped
  OBVIOUS
<1>2. /\ \A d \in Shells : Daemons!Works(d, n) =>
             /\ cmd[d].op \in {"spawn", "forget", "forget again", "wait"} => Daemons!Up(n) = {}
             /\ cmd[d].op = "record" => Daemons!Up(n) \subseteq {cmd[d].pid}
             /\ cmd[d].op \in {"kill", "kill again"} =>
                    Daemons!Up(n) \subseteq {pidFile[n]} /\ cmd[d].pid = pidFile[n]
      /\ (\A d \in Shells : ~Daemons!Works(d, n)) => Daemons!Up(n) \subseteq {pidFile[n]}
  BY <1>1 DEF Daemons!Known
<1>3. ASSUME ~Daemons!Works(c, n), ~Daemons!Works(c, n)',
             pidFile'[n] = pidFile[n], Daemons!Up(n)' \subseteq Daemons!Up(n)
      PROVE  /\ \A d \in Shells : Daemons!Works(d, n)' =>
                    /\ cmd'[d].op \in {"spawn", "forget", "forget again", "wait"} => Daemons!Up(n)' = {}
                    /\ cmd'[d].op = "record" => Daemons!Up(n)' \subseteq {cmd'[d].pid}
                    /\ cmd'[d].op \in {"kill", "kill again"} =>
                           Daemons!Up(n)' \subseteq {pidFile'[n]} /\ cmd'[d].pid = pidFile'[n]
             /\ (\A d \in Shells : ~Daemons!Works(d, n)') => Daemons!Up(n)' \subseteq {pidFile'[n]}
  <2>1. ASSUME NEW d \in Shells, Daemons!Works(d, n)'
        PROVE  d # c /\ Daemons!Works(d, n) /\ cmd'[d] = cmd[d]
    BY <2>1, <1>3, <1>0
  <2>2. (\A d \in Shells : ~Daemons!Works(d, n)') => (\A d \in Shells : ~Daemons!Works(d, n))
    BY <1>3, <1>0
  <2> QED
    BY <2>1, <2>2, <1>2, <1>3
<1>4. CASE n # m
  BY <1>3, <1>4
<1>5. CASE n = m /\ Daemons!Works(c, m)'
  <2>1. \A d \in Shells : Daemons!Works(d, m)' => d = c
    BY <1>5 DEF Daemons!OneWorks
  <2> QED
    BY <2>1, <1>5
<1>6. CASE n = m /\ Daemons!Works(c, m) /\ ~Daemons!Works(c, m)'
  <2>1. \A d \in Shells : Daemons!Works(d, m) => d = c
    BY <1>1, <1>6 DEF Daemons!OneWorks
  <2>2. \A d \in Shells : ~Daemons!Works(d, m)'
    BY <2>1, <1>0, <1>6
  <2> QED
    BY <2>2, <1>6
<1>7. CASE n = m /\ ~Daemons!Works(c, m) /\ ~Daemons!Works(c, m)'
  BY <1>7, <1>3
<1> QED
  BY <1>4, <1>5, <1>6, <1>7

(* What a command c about the daemon m is told to do next, r; what the     *)
(* tables are afterwards; and what is left up of m.                        *)
DaemonMoves(c, m, r) ==
    /\ c \in Shells /\ m \in Daemons!Names /\ r \in Daemons!Command
    /\ cmd' = [cmd EXCEPT ![c] = r]
    /\ cmd[c].op # "idle" => cmd[c].name = m
    /\ r.op # "idle" => r.name = m /\ (r.program # Daemons!Nothing =>
                                      r.program \in DaemonPrograms /\ NameOf[r.program] = m)
    /\ r.op \in {"spawn", "record"} => r.program \in DaemonPrograms /\ NameOf[r.program] = m
DaemonTables(m) ==
    /\ procs' \in Seq([program : DaemonPrograms, state : {"up", "ending", "gone"}])
    /\ pidFile' \in [Daemons!Names -> Nat]
    /\ meta' \in [Daemons!Names -> DaemonPrograms \cup {Daemons!Nothing}]
    /\ \A n \in Daemons!Names : meta'[n] # Daemons!Nothing => NameOf[meta'[n]] = n
    /\ \A n \in Daemons!Names : n # m => pidFile'[n] = pidFile[n] /\ Daemons!Up(n)' \subseteq Daemons!Up(n)
DaemonLeaves(c, m, r) ==
    /\ m \notin commandsOverlapped /\ (\A d \in Shells : d # c => ~Daemons!Works(d, m)) =>
          /\ r.op \in {"spawn", "forget", "forget again", "wait"} => Daemons!Up(m)' = {}
          /\ r.op = "record" => Daemons!Up(m)' \subseteq {r.pid}
          /\ r.op \in {"kill", "kill again"} =>
                 Daemons!Up(m)' \subseteq {pidFile'[m]} /\ r.pid = pidFile'[m]
          /\ r.op = "idle" /\ cmd[c].op # "idle" => Daemons!Up(m)' \subseteq {pidFile'[m]}
    /\ r.op = "idle" /\ cmd[c].op = "idle" =>
          pidFile'[m] = pidFile[m] /\ Daemons!Up(m)' \subseteq Daemons!Up(m)

LEMMA DaemonStep ==
    ASSUME Daemons!Inv, Daemons!Overlap, NEW c, NEW m, NEW r,
           DaemonMoves(c, m, r), DaemonTables(m), DaemonLeaves(c, m, r)
    PROVE  Daemons!Inv'
<1> USE DEF DaemonMoves, DaemonTables, DaemonLeaves
<1>1. Daemons!TypeOK /\ Daemons!Named /\ Daemons!OneWorks /\ Daemons!Known
  BY DEF Daemons!Inv
<1>2. /\ cmd' \in [Shells -> Daemons!Command] /\ cmd'[c] = r
      /\ \A d \in Shells : d # c => cmd'[d] = cmd[d]
  BY <1>1 DEF Daemons!TypeOK
<1>3. commandsOverlapped \subseteq commandsOverlapped' /\ commandsOverlapped' \subseteq Daemons!Names
      /\ Daemons!OneWorks'
  BY <1>1, DaemonOverlap
<1>4. Daemons!TypeOK'
  BY <1>2, <1>3 DEF Daemons!TypeOK
<1>5. Daemons!Named'
  <2>1. \A d \in Shells :
           /\ cmd'[d].op # "idle" => cmd'[d].name \in Daemons!Names
           /\ cmd'[d].op \in {"spawn", "record"} => cmd'[d].program \in DaemonPrograms
           /\ cmd'[d].op # "idle" /\ cmd'[d].program # Daemons!Nothing =>
                  cmd'[d].program \in DaemonPrograms /\ NameOf[cmd'[d].program] = cmd'[d].name
           /\ cmd'[d].op \in {"spawn", "record"} => NameOf[cmd'[d].program] = cmd'[d].name
    <3> SUFFICES ASSUME NEW d \in Shells
                 PROVE  /\ cmd'[d].op # "idle" => cmd'[d].name \in Daemons!Names
                        /\ cmd'[d].op \in {"spawn", "record"} => cmd'[d].program \in DaemonPrograms
                        /\ cmd'[d].op # "idle" /\ cmd'[d].program # Daemons!Nothing =>
                               cmd'[d].program \in DaemonPrograms /\ NameOf[cmd'[d].program] = cmd'[d].name
                        /\ cmd'[d].op \in {"spawn", "record"} => NameOf[cmd'[d].program] = cmd'[d].name
      OBVIOUS
    <3>1. CASE d = c
      BY <3>1, <1>2
    <3>2. CASE d # c
      BY <3>2, <1>1, <1>2 DEF Daemons!Named
    <3> QED
      BY <3>1, <3>2
  <2> QED
    BY <2>1 DEF Daemons!Named
<1>6. /\ Daemons!Works(c, m) <=> cmd[c].op # "idle"
      /\ Daemons!Works(c, m)' <=> r.op # "idle"
      /\ \A n \in Daemons!Names : n # m => ~Daemons!Works(c, n) /\ ~Daemons!Works(c, n)'
  BY <1>2 DEF Daemons!Works
<1>7. ASSUME m \notin commandsOverlapped', Daemons!Works(c, m)'
      PROVE  /\ cmd'[c].op \in {"spawn", "forget", "forget again", "wait"} => Daemons!Up(m)' = {}
             /\ cmd'[c].op = "record" => Daemons!Up(m)' \subseteq {cmd'[c].pid}
             /\ cmd'[c].op \in {"kill", "kill again"} =>
                    Daemons!Up(m)' \subseteq {pidFile'[m]} /\ cmd'[c].pid = pidFile'[m]
  <2>1. m \notin commandsOverlapped
    BY <1>7, <1>3
  <2>2. \A d \in Shells : Daemons!Works(d, m)' => d = c
    BY <1>3, <1>7 DEF Daemons!OneWorks
  <2>3. \A d \in Shells : d # c => ~Daemons!Works(d, m)
    BY <2>2, <1>2 DEF Daemons!Works
  <2> QED
    BY <2>1, <2>3, <1>2
<1>8. m \notin commandsOverlapped' /\ Daemons!Works(c, m) /\ ~Daemons!Works(c, m)' =>
          Daemons!Up(m)' \subseteq {pidFile'[m]}
  BY <1>1, <1>3, <1>6 DEF Daemons!OneWorks
<1>9. ~Daemons!Works(c, m) /\ ~Daemons!Works(c, m)' =>
          pidFile'[m] = pidFile[m] /\ Daemons!Up(m)' \subseteq Daemons!Up(m)
  BY <1>6
<1>10. Daemons!Known'
  BY <1>1, <1>2, <1>3, <1>6, <1>7, <1>8, <1>9, DaemonKnownAfter
<1> QED
  BY <1>3, <1>4, <1>5, <1>10 DEF Daemons!Inv

(* What is up follows the processes.                                       *)
LEMMA DaemonUp ==
    ASSUME Daemons!TypeOK, NEW n \in Daemons!Names
    PROVE  /\ procs' = procs => Daemons!Up(n)' = Daemons!Up(n)
           /\ \A pid, s : s # "up" /\ procs' = [procs EXCEPT ![pid].state = s] =>
                  Daemons!Up(n)' = Daemons!Up(n) \ {pid}
<1>1. procs' = procs => Daemons!Up(n)' = Daemons!Up(n)
  BY DEF Daemons!Up
<1>2. ASSUME NEW pid, NEW s, s # "up", procs' = [procs EXCEPT ![pid].state = s]
      PROVE  Daemons!Up(n)' = Daemons!Up(n) \ {pid}
  <2>0. \A i \in DOMAIN procs : procs[i] \in [program : DaemonPrograms, state : {"up", "ending", "gone"}]
    BY DaemonPids DEF Daemons!TypeOK
  <2>1. DOMAIN procs' = DOMAIN procs
    BY <1>2
  <2>2. \A i \in DOMAIN procs : i # pid => procs'[i] = procs[i]
    BY <1>2
  <2>3. pid \in DOMAIN procs => procs'[pid].state = s
    BY <1>2, <2>0
  <2> QED
    BY <1>2, <2>1, <2>2, <2>3 DEF Daemons!Up
<1> QED
  BY <1>1, <1>2

(* Commands that do not change the processes.                              *)
LEMMA DaemonStarts ==
    ASSUME Daemons!Inv, Daemons!Overlap, NEW c \in Shells, NEW p \in DaemonPrograms, Daemons!Start(c, p)
    PROVE  Daemons!Inv'
<1> DEFINE m == NameOf[p]
           r == IF Daemons!AlreadyRunning(m) THEN Daemons!Idle ELSE Daemons!StartOf(c, p)
<1>1. Daemons!TypeOK /\ Daemons!Named /\ Daemons!Known
  BY DEF Daemons!Inv
<1>2. m \in Daemons!Names /\ cmd[c].op = "idle" /\ cmd' = [cmd EXCEPT ![c] = r]
      /\ procs' = procs /\ pidFile' = pidFile /\ meta' = meta
  BY DEF Daemons!Start, Daemons!At, Daemons!Names
<1>3. /\ r \in Daemons!Command
      /\ Daemons!AlreadyRunning(m) => r.op = "idle"
      /\ ~Daemons!AlreadyRunning(m) => r.op = "spawn" /\ r.name = m /\ r.program = p
  BY <1>2 DEF Daemons!Command, Daemons!Idle, Daemons!StartOf, Daemons!None
<1>4. \A n \in Daemons!Names : Daemons!Up(n)' = Daemons!Up(n)
  BY <1>1, <1>2, DaemonUp
<1>5. ASSUME m \notin commandsOverlapped, \A d \in Shells : d # c => ~Daemons!Works(d, m),
             ~Daemons!AlreadyRunning(m)
      PROVE  Daemons!Up(m) = {}
  <2>1. Daemons!Up(m) \subseteq {pidFile[m]}
    BY <1>1, <1>2, <1>5 DEF Daemons!Known, Daemons!Works
  <2>2. pidFile[m] \notin Daemons!Up(m)
    <3>1. 0 \notin DOMAIN procs
      BY <1>1, DaemonPids DEF Daemons!TypeOK
    <3> QED
      BY <3>1, <1>5 DEF Daemons!AlreadyRunning, Daemons!Running, Daemons!None, Daemons!Up
  <2> QED
    BY <2>1, <2>2
<1> HIDE DEF m, r
<1>6. /\ r.op # "idle" => r.name = m /\ (r.program # Daemons!Nothing =>
                                             r.program \in DaemonPrograms /\ NameOf[r.program] = m)
      /\ r.op \in {"spawn", "record"} => r.program \in DaemonPrograms /\ NameOf[r.program] = m
  BY <1>3 DEF m
<1>7. /\ procs' \in Seq([program : DaemonPrograms, state : {"up", "ending", "gone"}])
      /\ pidFile' \in [Daemons!Names -> Nat]
      /\ meta' \in [Daemons!Names -> DaemonPrograms \cup {Daemons!Nothing}]
      /\ \A n \in Daemons!Names : meta'[n] # Daemons!Nothing => NameOf[meta'[n]] = n
  BY <1>1, <1>2 DEF Daemons!TypeOK, Daemons!Named
<1>8. m \notin commandsOverlapped /\ (\A d \in Shells : d # c => ~Daemons!Works(d, m)) =>
               /\ r.op \in {"spawn", "forget", "forget again", "wait"} => Daemons!Up(m)' = {}
               /\ r.op = "record" => Daemons!Up(m)' \subseteq {r.pid}
               /\ r.op \in {"kill", "kill again"} =>
                      Daemons!Up(m)' \subseteq {pidFile'[m]} /\ r.pid = pidFile'[m]
               /\ r.op = "idle" /\ cmd[c].op # "idle" => Daemons!Up(m)' \subseteq {pidFile'[m]}
  BY <1>2, <1>3, <1>4, <1>5
<1>moves. DaemonMoves(c, m, r)
  BY <1>2, <1>3, <1>4, <1>6, <1>7, <1>8 DEF DaemonMoves
<1>tables. DaemonTables(m)
  BY <1>2, <1>3, <1>4, <1>6, <1>7, <1>8 DEF DaemonTables
<1>leaves. DaemonLeaves(c, m, r)
  BY <1>2, <1>3, <1>4, <1>6, <1>7, <1>8 DEF DaemonLeaves
<1> QED
  BY <1>moves, <1>tables, <1>leaves, DaemonStep

LEMMA DaemonStops ==
    ASSUME Daemons!Inv, Daemons!Overlap, NEW c \in Shells, NEW m \in Daemons!Names, NEW again \in BOOLEAN,
           Daemons!Stop(c, m, again)
    PROVE  Daemons!Inv'
<1> DEFINE r == [op |-> IF again THEN "kill again" ELSE "kill", name |-> m,
                 program |-> meta[m], pid |-> pidFile[m]]
<1>1. Daemons!TypeOK /\ Daemons!Named /\ Daemons!Known
  BY DEF Daemons!Inv
<1>2. cmd[c].op = "idle" /\ cmd' = [cmd EXCEPT ![c] = r]
      /\ procs' = procs /\ pidFile' = pidFile /\ meta' = meta
  BY DEF Daemons!Stop, Daemons!At
<1>3. meta[m] \in DaemonPrograms \cup {Daemons!Nothing} /\ pidFile[m] \in Nat
      /\ (meta[m] # Daemons!Nothing => NameOf[meta[m]] = m)
  BY <1>1 DEF Daemons!TypeOK, Daemons!Named
<1>4. r \in Daemons!Command /\ r.op \in {"kill", "kill again"} /\ r.name = m
      /\ r.program = meta[m] /\ r.pid = pidFile[m]
  BY <1>3 DEF Daemons!Command
<1>5. \A n \in Daemons!Names : Daemons!Up(n)' = Daemons!Up(n)
  BY <1>1, <1>2, DaemonUp
<1>6. m \notin commandsOverlapped /\ (\A d \in Shells : d # c => ~Daemons!Works(d, m)) =>
          Daemons!Up(m) \subseteq {pidFile[m]}
  BY <1>1, <1>2 DEF Daemons!Known, Daemons!Works
<1> HIDE DEF r
<1>7. /\ r.op # "idle" => r.name = m /\ (r.program # Daemons!Nothing =>
                                             r.program \in DaemonPrograms /\ NameOf[r.program] = m)
      /\ r.op \notin {"spawn", "record", "idle", "forget", "forget again", "wait"}
  BY <1>3, <1>4
<1>8. /\ procs' \in Seq([program : DaemonPrograms, state : {"up", "ending", "gone"}])
      /\ pidFile' \in [Daemons!Names -> Nat]
      /\ meta' \in [Daemons!Names -> DaemonPrograms \cup {Daemons!Nothing}]
      /\ \A n \in Daemons!Names : meta'[n] # Daemons!Nothing => NameOf[meta'[n]] = n
  BY <1>1, <1>2 DEF Daemons!TypeOK, Daemons!Named
<1>9. m \notin commandsOverlapped /\ (\A d \in Shells : d # c => ~Daemons!Works(d, m)) =>
               /\ r.op \in {"spawn", "forget", "forget again", "wait"} => Daemons!Up(m)' = {}
               /\ r.op = "record" => Daemons!Up(m)' \subseteq {r.pid}
               /\ r.op \in {"kill", "kill again"} =>
                      Daemons!Up(m)' \subseteq {pidFile'[m]} /\ r.pid = pidFile'[m]
               /\ r.op = "idle" /\ cmd[c].op # "idle" => Daemons!Up(m)' \subseteq {pidFile'[m]}
  BY <1>2, <1>4, <1>5, <1>6
<1>10. \A n \in Daemons!Names : n # m => pidFile'[n] = pidFile[n] /\ Daemons!Up(n)' \subseteq Daemons!Up(n)
  BY <1>2, <1>5
<1>moves. DaemonMoves(c, m, r)
  BY <1>2, <1>4, <1>7, <1>8, <1>9, <1>10 DEF DaemonMoves
<1>tables. DaemonTables(m)
  BY <1>2, <1>4, <1>7, <1>8, <1>9, <1>10 DEF DaemonTables
<1>leaves. DaemonLeaves(c, m, r)
  BY <1>2, <1>4, <1>7, <1>8, <1>9, <1>10 DEF DaemonLeaves
<1> QED
  BY <1>moves, <1>tables, <1>leaves, DaemonStep

(* What a command in progress works on.                                    *)
LEMMA DaemonBusy ==
    ASSUME Daemons!Inv, NEW c \in Shells, cmd[c].op # "idle"
    PROVE  LET m == cmd[c].name
           IN  /\ m \in Daemons!Names /\ cmd[c] \in Daemons!Command
               /\ cmd[c].program # Daemons!Nothing => cmd[c].program \in DaemonPrograms /\ NameOf[cmd[c].program] = m
               /\ cmd[c].op \in {"spawn", "record"} =>
                      cmd[c].program \in DaemonPrograms /\ NameOf[cmd[c].program] = m
               /\ m \notin commandsOverlapped =>
                      /\ cmd[c].op \in {"spawn", "forget", "forget again", "wait"} => Daemons!Up(m) = {}
                      /\ cmd[c].op = "record" => Daemons!Up(m) \subseteq {cmd[c].pid}
                      /\ cmd[c].op \in {"kill", "kill again"} =>
                             Daemons!Up(m) \subseteq {pidFile[m]} /\ cmd[c].pid = pidFile[m]
<1>1. Daemons!TypeOK /\ Daemons!Named /\ Daemons!Known
  BY DEF Daemons!Inv
<1>2. cmd[c] \in Daemons!Command /\ cmd[c].name \in Daemons!Names
  BY <1>1 DEF Daemons!TypeOK, Daemons!Named
<1>3. Daemons!Works(c, cmd[c].name)
  BY DEF Daemons!Works
<1>4. cmd[c].name \notin commandsOverlapped =>
          /\ cmd[c].op \in {"spawn", "forget", "forget again", "wait"} => Daemons!Up(cmd[c].name) = {}
          /\ cmd[c].op = "record" => Daemons!Up(cmd[c].name) \subseteq {cmd[c].pid}
          /\ cmd[c].op \in {"kill", "kill again"} =>
                 Daemons!Up(cmd[c].name) \subseteq {pidFile[cmd[c].name]} /\ cmd[c].pid = pidFile[cmd[c].name]
  BY <1>1, <1>2, <1>3 DEF Daemons!Known
<1> QED
  BY <1>1, <1>2, <1>4 DEF Daemons!Named

LEMMA DaemonSpawns ==
    ASSUME Daemons!Inv, Daemons!Overlap, NEW c \in Shells, Daemons!Spawn(c)
    PROVE  Daemons!Inv'
<1>0. PICK m : m = cmd[c].name
  OBVIOUS
<1> DEFINE pid == Len(procs) + 1
           q == [program |-> cmd[c].program, state |-> "up"]
           r == [cmd[c] EXCEPT !.op = "record", !.pid = pid]
<1>1. Daemons!TypeOK /\ Daemons!Named
  BY DEF Daemons!Inv
<1>2. cmd[c].op = "spawn" /\ pidFile' = pidFile /\ meta' = meta
  BY <1>0 DEF Daemons!Spawn, Daemons!At
<1>3. /\ m \in Daemons!Names /\ cmd[c] \in Daemons!Command
      /\ cmd[c].program \in DaemonPrograms /\ NameOf[cmd[c].program] = m
      /\ m \notin commandsOverlapped => Daemons!Up(m) = {}
  BY <1>0, <1>2, DaemonBusy
<1>4. /\ Len(procs) \in Nat /\ DOMAIN procs = 1..Len(procs)
      /\ Daemons!Cardinality(DOMAIN procs) = Len(procs)
      /\ \A i \in DOMAIN procs : procs[i] \in [program : DaemonPrograms, state : {"up", "ending", "gone"}]
  BY <1>1, DaemonPids DEF Daemons!TypeOK
<1>5. /\ procs' = [i \in 1..pid |-> IF i < pid THEN procs[i] ELSE q]
      /\ cmd' = [cmd EXCEPT ![c].op = "record", ![c].pid = pid]
  BY <1>4 DEF Daemons!Spawn
<1>6. cmd' = [cmd EXCEPT ![c] = r]
  BY <1>5
<1>7. r \in Daemons!Command /\ r.op = "record" /\ r.name = m /\ r.program = cmd[c].program /\ r.pid = pid
  <2>1. pid \in Nat
    BY <1>4
  <2> HIDE DEF pid
  <2> QED
    BY <2>1, <1>0, <1>3, <1>4 DEF Daemons!Command
<1>8. procs' \in Seq([program : DaemonPrograms, state : {"up", "ending", "gone"}])
  <2>1. q \in [program : DaemonPrograms, state : {"up", "ending", "gone"}]
    BY <1>3
  <2>2. procs' \in [1..pid -> [program : DaemonPrograms, state : {"up", "ending", "gone"}]]
    BY <1>4, <1>5, <2>1
  <2>3. pid \in Nat
    BY <1>4
  <2> HIDE DEF pid, q
  <2> QED
    BY <2>2, <2>3, DaemonIsSeq
<1>9. /\ DOMAIN procs' = 1..pid /\ procs'[pid] = q
      /\ \A i \in 1..pid : i # pid => i \in DOMAIN procs /\ procs'[i] = procs[i]
  BY <1>4, <1>5
<1>10. \A n \in Daemons!Names :
           /\ n # m => Daemons!Up(n)' \subseteq Daemons!Up(n)
           /\ Daemons!Up(n)' \subseteq Daemons!Up(n) \cup {pid}
  <2>1. q.program = cmd[c].program
    OBVIOUS
  <2> HIDE DEF pid, q
  <2> QED
    BY <1>9, <1>3, <2>1 DEF Daemons!Up
<1> HIDE DEF r
<1>11. /\ r.op # "idle" => r.name = m /\ (r.program # Daemons!Nothing =>
                                             r.program \in DaemonPrograms /\ NameOf[r.program] = m)
      /\ r.op \in {"spawn", "record"} => r.program \in DaemonPrograms /\ NameOf[r.program] = m
  BY <1>3, <1>7
<1>12. /\ procs' \in Seq([program : DaemonPrograms, state : {"up", "ending", "gone"}])
      /\ pidFile' \in [Daemons!Names -> Nat]
      /\ meta' \in [Daemons!Names -> DaemonPrograms \cup {Daemons!Nothing}]
      /\ \A n \in Daemons!Names : meta'[n] # Daemons!Nothing => NameOf[meta'[n]] = n
  BY <1>1, <1>2, <1>8 DEF Daemons!TypeOK, Daemons!Named
<1>13. m \notin commandsOverlapped /\ (\A d \in Shells : d # c => ~Daemons!Works(d, m)) =>
               /\ r.op \in {"spawn", "forget", "forget again", "wait"} => Daemons!Up(m)' = {}
               /\ r.op = "record" => Daemons!Up(m)' \subseteq {r.pid}
               /\ r.op \in {"kill", "kill again"} =>
                      Daemons!Up(m)' \subseteq {pidFile'[m]} /\ r.pid = pidFile'[m]
               /\ r.op = "idle" /\ cmd[c].op # "idle" => Daemons!Up(m)' \subseteq {pidFile'[m]}
  BY <1>3, <1>7, <1>10
<1>14. \A n \in Daemons!Names : n # m => pidFile'[n] = pidFile[n] /\ Daemons!Up(n)' \subseteq Daemons!Up(n)
  BY <1>2, <1>10
<1>moves. DaemonMoves(c, m, r)
  BY <1>0, <1>2, <1>3, <1>6, <1>7, <1>11, <1>12, <1>13, <1>14 DEF DaemonMoves
<1>tables. DaemonTables(m)
  BY <1>0, <1>2, <1>3, <1>6, <1>7, <1>11, <1>12, <1>13, <1>14 DEF DaemonTables
<1>leaves. DaemonLeaves(c, m, r)
  BY <1>0, <1>2, <1>3, <1>6, <1>7, <1>11, <1>12, <1>13, <1>14 DEF DaemonLeaves
<1> QED
  BY <1>moves, <1>tables, <1>leaves, DaemonStep

LEMMA DaemonSpawnFails ==
    ASSUME Daemons!Inv, Daemons!Overlap, NEW c \in Shells, Daemons!SpawnFails(c)
    PROVE  Daemons!Inv'
<1>0. PICK m : m = cmd[c].name
  OBVIOUS
<1> DEFINE r == Daemons!Idle
<1>1. Daemons!TypeOK /\ Daemons!Named
  BY DEF Daemons!Inv
<1>2. cmd[c].op = "spawn" /\ cmd' = [cmd EXCEPT ![c] = r]
      /\ procs' = procs /\ pidFile' = pidFile /\ meta' = meta
  BY <1>0 DEF Daemons!SpawnFails, Daemons!At, Daemons!Ends
<1>3. m \in Daemons!Names /\ (m \notin commandsOverlapped => Daemons!Up(m) = {})
  BY <1>0, <1>2, DaemonBusy
<1>4. \A n \in Daemons!Names : Daemons!Up(n)' = Daemons!Up(n)
  BY <1>1, <1>2, DaemonUp
<1>5. r \in Daemons!Command /\ r.op = "idle"
  BY DEF Daemons!Command, Daemons!Idle, Daemons!None
<1> HIDE DEF r
<1>6. /\ procs' \in Seq([program : DaemonPrograms, state : {"up", "ending", "gone"}])
      /\ pidFile' \in [Daemons!Names -> Nat]
      /\ meta' \in [Daemons!Names -> DaemonPrograms \cup {Daemons!Nothing}]
      /\ \A n \in Daemons!Names : meta'[n] # Daemons!Nothing => NameOf[meta'[n]] = n
  BY <1>1, <1>2 DEF Daemons!TypeOK, Daemons!Named
<1>7. m \notin commandsOverlapped /\ (\A d \in Shells : d # c => ~Daemons!Works(d, m)) =>
               /\ r.op \in {"spawn", "forget", "forget again", "wait"} => Daemons!Up(m)' = {}
               /\ r.op = "record" => Daemons!Up(m)' \subseteq {r.pid}
               /\ r.op \in {"kill", "kill again"} =>
                      Daemons!Up(m)' \subseteq {pidFile'[m]} /\ r.pid = pidFile'[m]
               /\ r.op = "idle" /\ cmd[c].op # "idle" => Daemons!Up(m)' \subseteq {pidFile'[m]}
  BY <1>0, <1>3, <1>4, <1>5
<1>8. \A n \in Daemons!Names : n # m => pidFile'[n] = pidFile[n] /\ Daemons!Up(n)' \subseteq Daemons!Up(n)
  BY <1>2, <1>4
<1>moves. DaemonMoves(c, m, r)
  BY <1>0, <1>2, <1>3, <1>5, <1>6, <1>7, <1>8 DEF DaemonMoves
<1>tables. DaemonTables(m)
  BY <1>0, <1>2, <1>3, <1>5, <1>6, <1>7, <1>8 DEF DaemonTables
<1>leaves. DaemonLeaves(c, m, r)
  BY <1>0, <1>2, <1>3, <1>5, <1>6, <1>7, <1>8 DEF DaemonLeaves
<1> QED
  BY <1>moves, <1>tables, <1>leaves, DaemonStep

LEMMA DaemonRecords ==
    ASSUME Daemons!Inv, Daemons!Overlap, NEW c \in Shells, Daemons!Record(c)
    PROVE  Daemons!Inv'
<1>0. PICK m : m = cmd[c].name
  OBVIOUS
<1> DEFINE r == Daemons!Idle
<1>1. Daemons!TypeOK /\ Daemons!Named
  BY DEF Daemons!Inv
<1>2. cmd[c].op = "record" /\ cmd' = [cmd EXCEPT ![c] = r] /\ procs' = procs
      /\ pidFile' = [pidFile EXCEPT ![m] = cmd[c].pid] /\ meta' = [meta EXCEPT ![m] = cmd[c].program]
  BY <1>0 DEF Daemons!Record, Daemons!At, Daemons!Ends
<1>3. /\ m \in Daemons!Names /\ cmd[c] \in Daemons!Command
      /\ cmd[c].program \in DaemonPrograms /\ NameOf[cmd[c].program] = m
      /\ m \notin commandsOverlapped => Daemons!Up(m) \subseteq {cmd[c].pid}
  BY <1>0, <1>2, DaemonBusy
<1>4. \A n \in Daemons!Names : Daemons!Up(n)' = Daemons!Up(n)
  BY <1>1, <1>2, DaemonUp
<1>5. r \in Daemons!Command /\ r.op = "idle"
  BY DEF Daemons!Command, Daemons!Idle, Daemons!None
<1>6. cmd[c].pid \in Nat
  BY <1>0, <1>3 DEF Daemons!Command
<1> HIDE DEF r
<1>7. /\ procs' \in Seq([program : DaemonPrograms, state : {"up", "ending", "gone"}])
      /\ pidFile' \in [Daemons!Names -> Nat]
      /\ meta' \in [Daemons!Names -> DaemonPrograms \cup {Daemons!Nothing}]
      /\ \A n \in Daemons!Names : meta'[n] # Daemons!Nothing => NameOf[meta'[n]] = n
  BY <1>1, <1>2, <1>3, <1>6 DEF Daemons!TypeOK, Daemons!Named
<1>8. pidFile'[m] = cmd[c].pid
  BY <1>1, <1>2, <1>3 DEF Daemons!TypeOK
<1>9. m \notin commandsOverlapped /\ (\A d \in Shells : d # c => ~Daemons!Works(d, m)) =>
               /\ r.op \in {"spawn", "forget", "forget again", "wait"} => Daemons!Up(m)' = {}
               /\ r.op = "record" => Daemons!Up(m)' \subseteq {r.pid}
               /\ r.op \in {"kill", "kill again"} =>
                      Daemons!Up(m)' \subseteq {pidFile'[m]} /\ r.pid = pidFile'[m]
               /\ r.op = "idle" /\ cmd[c].op # "idle" => Daemons!Up(m)' \subseteq {pidFile'[m]}
  BY <1>3, <1>4, <1>5, <1>8
<1>10. \A n \in Daemons!Names : n # m => pidFile'[n] = pidFile[n] /\ Daemons!Up(n)' \subseteq Daemons!Up(n)
  BY <1>1, <1>2, <1>4 DEF Daemons!TypeOK
<1>moves. DaemonMoves(c, m, r)
  BY <1>0, <1>2, <1>3, <1>5, <1>7, <1>9, <1>10 DEF DaemonMoves
<1>tables. DaemonTables(m)
  BY <1>0, <1>2, <1>3, <1>5, <1>7, <1>9, <1>10 DEF DaemonTables
<1>leaves. DaemonLeaves(c, m, r)
  BY <1>0, <1>2, <1>3, <1>5, <1>7, <1>9, <1>10 DEF DaemonLeaves
<1> QED
  BY <1>moves, <1>tables, <1>leaves, DaemonStep

LEMMA DaemonTold ==
    ASSUME Daemons!TypeOK, NEW pid
    PROVE  /\ Daemons!Told(pid) \in Seq([program : DaemonPrograms, state : {"up", "ending", "gone"}])
           /\ procs' = Daemons!Told(pid) =>
                  \A n \in Daemons!Names : Daemons!Up(n)' \subseteq Daemons!Up(n) /\ pid \notin Daemons!Up(n)'
<1>0. procs \in Seq([program : DaemonPrograms, state : {"up", "ending", "gone"}])
  BY DEF Daemons!TypeOK
<1>1. CASE Daemons!Running(pid) /\ procs[pid].state = "up"
  <2>1. Daemons!Told(pid) = [procs EXCEPT ![pid].state = "ending"] /\ pid \in DOMAIN procs
    BY <1>1 DEF Daemons!Told, Daemons!Running
  <2>2. \A i \in DOMAIN procs : procs[i] \in [program : DaemonPrograms, state : {"up", "ending", "gone"}]
    BY <1>0, DaemonSeqIs
  <2>3. [procs[pid] EXCEPT !.state = "ending"] \in [program : DaemonPrograms, state : {"up", "ending", "gone"}]
    BY <2>1, <2>2
  <2>4. Daemons!Told(pid) \in Seq([program : DaemonPrograms, state : {"up", "ending", "gone"}])
    <3>1. Len(procs) \in Nat /\ procs \in [1..Len(procs) -> [program : DaemonPrograms, state : {"up", "ending", "gone"}]]
      BY <1>0, DaemonSeqIs
    <3>2. Daemons!Told(pid) \in [1..Len(procs) -> [program : DaemonPrograms, state : {"up", "ending", "gone"}]]
      BY <2>1, <2>3, <3>1
    <3> QED
      BY <3>1, <3>2, DaemonIsSeq
  <2> QED
    BY <2>1, <2>4, DaemonUp
<1>2. CASE ~(Daemons!Running(pid) /\ procs[pid].state = "up")
  <2>1. Daemons!Told(pid) = procs
    BY <1>2 DEF Daemons!Told
  <2>2. \A n \in Daemons!Names : pid \notin Daemons!Up(n)
    BY <1>2 DEF Daemons!Up, Daemons!Running
  <2> QED
    BY <1>0, <2>1, <2>2, DaemonUp
<1> QED
  BY <1>1, <1>2

LEMMA DaemonKills ==
    ASSUME Daemons!Inv, Daemons!Overlap, NEW c \in Shells, Daemons!Kill(c)
    PROVE  Daemons!Inv'
<1>0. PICK m : m = cmd[c].name
  OBVIOUS
<1> DEFINE r == [cmd[c] EXCEPT !.op = IF cmd[c].op = "kill" THEN "forget" ELSE "forget again"]
<1>1. Daemons!TypeOK /\ Daemons!Named
  BY DEF Daemons!Inv
<1>2. cmd[c].op \in {"kill", "kill again"} /\ pidFile' = pidFile /\ meta' = meta
      /\ procs' = (IF cmd[c].pid = 0 THEN procs ELSE Daemons!Told(cmd[c].pid))
      /\ cmd' = [cmd EXCEPT ![c].op = IF cmd[c].op = "kill" THEN "forget" ELSE "forget again"]
  BY <1>0 DEF Daemons!Kill, Daemons!At, Daemons!Goto, Daemons!None
<1>3. /\ m \in Daemons!Names /\ cmd[c] \in Daemons!Command
      /\ cmd[c].program # Daemons!Nothing => cmd[c].program \in DaemonPrograms /\ NameOf[cmd[c].program] = m
      /\ m \notin commandsOverlapped => Daemons!Up(m) \subseteq {cmd[c].pid}
  BY <1>0, <1>2, DaemonBusy
<1>4. cmd' = [cmd EXCEPT ![c] = r]
  BY <1>2
<1>5. /\ r \in Daemons!Command /\ r.op \in {"forget", "forget again"}
      /\ r.name = m /\ r.program = cmd[c].program /\ r.pid = cmd[c].pid
  BY <1>0, <1>3 DEF Daemons!Command
<1>6. /\ procs' \in Seq([program : DaemonPrograms, state : {"up", "ending", "gone"}])
      /\ \A n \in Daemons!Names : Daemons!Up(n)' \subseteq Daemons!Up(n) /\ cmd[c].pid \notin Daemons!Up(n)'
  <2>1. CASE cmd[c].pid = 0
    <3>1. 0 \notin DOMAIN procs
      BY <1>1, DaemonPids DEF Daemons!TypeOK
    <3>2. procs' = procs
      BY <1>2, <2>1
    <3>3. \A n \in Daemons!Names : Daemons!Up(n)' = Daemons!Up(n)
      BY <3>2, <1>1, DaemonUp
    <3>4. \A n \in Daemons!Names : 0 \notin Daemons!Up(n)
      BY <3>1 DEF Daemons!Up
    <3> QED
      BY <2>1, <3>2, <3>3, <3>4, <1>1 DEF Daemons!TypeOK
  <2>2. CASE cmd[c].pid # 0
    BY <2>2, <1>1, <1>2, DaemonTold
  <2> QED
    BY <2>1, <2>2
<1> HIDE DEF r
<1>7. /\ r.op # "idle" => r.name = m /\ (r.program # Daemons!Nothing =>
                                             r.program \in DaemonPrograms /\ NameOf[r.program] = m)
      /\ r.op \in {"spawn", "record"} => r.program \in DaemonPrograms /\ NameOf[r.program] = m
  BY <1>3, <1>5
<1>8. /\ procs' \in Seq([program : DaemonPrograms, state : {"up", "ending", "gone"}])
      /\ pidFile' \in [Daemons!Names -> Nat]
      /\ meta' \in [Daemons!Names -> DaemonPrograms \cup {Daemons!Nothing}]
      /\ \A n \in Daemons!Names : meta'[n] # Daemons!Nothing => NameOf[meta'[n]] = n
  BY <1>1, <1>2, <1>6 DEF Daemons!TypeOK, Daemons!Named
<1>9. m \notin commandsOverlapped /\ (\A d \in Shells : d # c => ~Daemons!Works(d, m)) =>
               /\ r.op \in {"spawn", "forget", "forget again", "wait"} => Daemons!Up(m)' = {}
               /\ r.op = "record" => Daemons!Up(m)' \subseteq {r.pid}
               /\ r.op \in {"kill", "kill again"} =>
                      Daemons!Up(m)' \subseteq {pidFile'[m]} /\ r.pid = pidFile'[m]
               /\ r.op = "idle" /\ cmd[c].op # "idle" => Daemons!Up(m)' \subseteq {pidFile'[m]}
  BY <1>3, <1>5, <1>6
<1>10. \A n \in Daemons!Names : n # m => pidFile'[n] = pidFile[n] /\ Daemons!Up(n)' \subseteq Daemons!Up(n)
  BY <1>2, <1>6
<1>11. r.op # "idle" /\ cmd[c].op # "idle"
  BY <1>2, <1>5
<1>moves. DaemonMoves(c, m, r)
  BY <1>0, <1>3, <1>4, <1>5, <1>7, <1>8, <1>9, <1>10, <1>11 DEF DaemonMoves
<1>tables. DaemonTables(m)
  BY <1>0, <1>3, <1>4, <1>5, <1>7, <1>8, <1>9, <1>10, <1>11 DEF DaemonTables
<1>leaves. DaemonLeaves(c, m, r)
  BY <1>0, <1>3, <1>4, <1>5, <1>7, <1>8, <1>9, <1>10, <1>11 DEF DaemonLeaves
<1> QED
  BY <1>moves, <1>tables, <1>leaves, DaemonStep

LEMMA DaemonForgets ==
    ASSUME Daemons!Inv, Daemons!Overlap, NEW c \in Shells, Daemons!Forget(c)
    PROVE  Daemons!Inv'
<1>0. PICK m : m = cmd[c].name
  OBVIOUS
<1> DEFINE r == IF cmd[c].op = "forget" THEN Daemons!Idle ELSE [cmd[c] EXCEPT !.op = "wait"]
<1>1. Daemons!TypeOK /\ Daemons!Named
  BY DEF Daemons!Inv
<1>2. cmd[c].op \in {"forget", "forget again"} /\ procs' = procs /\ meta' = meta
      /\ pidFile' = [pidFile EXCEPT ![m] = 0]
  BY <1>0 DEF Daemons!Forget, Daemons!None
<1>3. /\ m \in Daemons!Names /\ cmd[c] \in Daemons!Command
      /\ cmd[c].program # Daemons!Nothing => cmd[c].program \in DaemonPrograms /\ NameOf[cmd[c].program] = m
      /\ m \notin commandsOverlapped => Daemons!Up(m) = {}
  BY <1>0, <1>2, DaemonBusy
<1>4. cmd' = [cmd EXCEPT ![c] = r]
  BY <1>0 DEF Daemons!Forget, Daemons!At, Daemons!Ends, Daemons!Goto
<1>5. /\ r \in Daemons!Command /\ r.op \in {"idle", "wait"}
      /\ r.op # "idle" => r.name = m /\ r.program = cmd[c].program
  BY <1>0, <1>3 DEF Daemons!Command, Daemons!Idle, Daemons!None
<1>6. \A n \in Daemons!Names : Daemons!Up(n)' = Daemons!Up(n)
  BY <1>1, <1>2, DaemonUp
<1> HIDE DEF r
<1>7. /\ r.op # "idle" => r.name = m /\ (r.program # Daemons!Nothing =>
                                             r.program \in DaemonPrograms /\ NameOf[r.program] = m)
      /\ r.op \in {"spawn", "record"} => r.program \in DaemonPrograms /\ NameOf[r.program] = m
  BY <1>3, <1>5
<1>8. /\ procs' \in Seq([program : DaemonPrograms, state : {"up", "ending", "gone"}])
      /\ pidFile' \in [Daemons!Names -> Nat]
      /\ meta' \in [Daemons!Names -> DaemonPrograms \cup {Daemons!Nothing}]
      /\ \A n \in Daemons!Names : meta'[n] # Daemons!Nothing => NameOf[meta'[n]] = n
  BY <1>1, <1>2, <1>3 DEF Daemons!TypeOK, Daemons!Named
<1>9. m \notin commandsOverlapped /\ (\A d \in Shells : d # c => ~Daemons!Works(d, m)) =>
               /\ r.op \in {"spawn", "forget", "forget again", "wait"} => Daemons!Up(m)' = {}
               /\ r.op = "record" => Daemons!Up(m)' \subseteq {r.pid}
               /\ r.op \in {"kill", "kill again"} =>
                      Daemons!Up(m)' \subseteq {pidFile'[m]} /\ r.pid = pidFile'[m]
               /\ r.op = "idle" /\ cmd[c].op # "idle" => Daemons!Up(m)' \subseteq {pidFile'[m]}
  BY <1>3, <1>5, <1>6
<1>10. \A n \in Daemons!Names : n # m => pidFile'[n] = pidFile[n] /\ Daemons!Up(n)' \subseteq Daemons!Up(n)
  BY <1>1, <1>2, <1>6 DEF Daemons!TypeOK
<1>moves. DaemonMoves(c, m, r)
  BY <1>0, <1>2, <1>3, <1>4, <1>5, <1>7, <1>8, <1>9, <1>10 DEF DaemonMoves
<1>tables. DaemonTables(m)
  BY <1>0, <1>2, <1>3, <1>4, <1>5, <1>7, <1>8, <1>9, <1>10 DEF DaemonTables
<1>leaves. DaemonLeaves(c, m, r)
  BY <1>0, <1>2, <1>3, <1>4, <1>5, <1>7, <1>8, <1>9, <1>10 DEF DaemonLeaves
<1> QED
  BY <1>moves, <1>tables, <1>leaves, DaemonStep

LEMMA DaemonStartsAgain ==
    ASSUME Daemons!Inv, Daemons!Overlap, NEW c \in Shells, Daemons!StartAgain(c)
    PROVE  Daemons!Inv'
<1>0. PICK m : m = cmd[c].name
  OBVIOUS
<1> DEFINE r == IF cmd[c].program = Daemons!Nothing \/ Daemons!AlreadyRunning(m) THEN Daemons!Idle
                ELSE Daemons!StartOf(c, cmd[c].program)
<1>1. Daemons!TypeOK /\ Daemons!Named
  BY DEF Daemons!Inv
<1>2. cmd[c].op = "wait" /\ procs' = procs /\ meta' = meta /\ pidFile' = pidFile
  BY <1>0 DEF Daemons!StartAgain, Daemons!At
<1>3. /\ m \in Daemons!Names /\ cmd[c] \in Daemons!Command
      /\ cmd[c].program # Daemons!Nothing => cmd[c].program \in DaemonPrograms /\ NameOf[cmd[c].program] = m
      /\ m \notin commandsOverlapped => Daemons!Up(m) = {}
  BY <1>0, <1>2, DaemonBusy
<1>4. cmd' = [cmd EXCEPT ![c] = r]
  BY <1>0 DEF Daemons!StartAgain, Daemons!At, Daemons!Ends
<1>5. /\ r \in Daemons!Command /\ r.op \in {"idle", "spawn"}
      /\ r.op # "idle" => /\ cmd[c].program # Daemons!Nothing
                          /\ r.name = NameOf[cmd[c].program] /\ r.program = cmd[c].program
  <2>1. Daemons!Idle \in Daemons!Command /\ Daemons!Idle.op = "idle"
    BY DEF Daemons!Command, Daemons!Idle, Daemons!None
  <2>2. ASSUME cmd[c].program # Daemons!Nothing
        PROVE  LET s == Daemons!StartOf(c, cmd[c].program)
               IN  /\ s \in Daemons!Command /\ s.op = "spawn"
                   /\ s.name = NameOf[cmd[c].program] /\ s.program = cmd[c].program
    BY <1>3, <2>2 DEF Daemons!Command, Daemons!StartOf, Daemons!None
  <2> QED
    BY <2>1, <2>2
<1>6. \A n \in Daemons!Names : Daemons!Up(n)' = Daemons!Up(n)
  BY <1>1, <1>2, DaemonUp
<1> HIDE DEF r
<1>7. /\ r.op # "idle" => r.name = m /\ (r.program # Daemons!Nothing =>
                                             r.program \in DaemonPrograms /\ NameOf[r.program] = m)
      /\ r.op \in {"spawn", "record"} => r.program \in DaemonPrograms /\ NameOf[r.program] = m
  BY <1>0, <1>3, <1>5
<1>8. /\ procs' \in Seq([program : DaemonPrograms, state : {"up", "ending", "gone"}])
      /\ pidFile' \in [Daemons!Names -> Nat]
      /\ meta' \in [Daemons!Names -> DaemonPrograms \cup {Daemons!Nothing}]
      /\ \A n \in Daemons!Names : meta'[n] # Daemons!Nothing => NameOf[meta'[n]] = n
  BY <1>1, <1>2, <1>3 DEF Daemons!TypeOK, Daemons!Named
<1>9. m \notin commandsOverlapped /\ (\A d \in Shells : d # c => ~Daemons!Works(d, m)) =>
               /\ r.op \in {"spawn", "forget", "forget again", "wait"} => Daemons!Up(m)' = {}
               /\ r.op = "record" => Daemons!Up(m)' \subseteq {r.pid}
               /\ r.op \in {"kill", "kill again"} =>
                      Daemons!Up(m)' \subseteq {pidFile'[m]} /\ r.pid = pidFile'[m]
               /\ r.op = "idle" /\ cmd[c].op # "idle" => Daemons!Up(m)' \subseteq {pidFile'[m]}
  BY <1>3, <1>5, <1>6
<1>10. \A n \in Daemons!Names : n # m => pidFile'[n] = pidFile[n] /\ Daemons!Up(n)' \subseteq Daemons!Up(n)
  BY <1>2, <1>6
<1>moves. DaemonMoves(c, m, r)
  BY <1>0, <1>2, <1>3, <1>4, <1>5, <1>7, <1>8, <1>9, <1>10 DEF DaemonMoves
<1>tables. DaemonTables(m)
  BY <1>0, <1>2, <1>3, <1>4, <1>5, <1>7, <1>8, <1>9, <1>10 DEF DaemonTables
<1>leaves. DaemonLeaves(c, m, r)
  BY <1>0, <1>2, <1>3, <1>4, <1>5, <1>7, <1>8, <1>9, <1>10 DEF DaemonLeaves
<1> QED
  BY <1>moves, <1>tables, <1>leaves, DaemonStep

LEMMA DaemonDies ==
    ASSUME Daemons!Inv, Daemons!Overlap, NEW pid \in DOMAIN procs, Daemons!Die(pid)
    PROVE  Daemons!Inv'
<1>1. Daemons!TypeOK /\ Daemons!Named /\ Daemons!OneWorks /\ Daemons!Known
  BY DEF Daemons!Inv
<1>2. procs' = [procs EXCEPT ![pid].state = "gone"] /\ pidFile' = pidFile /\ meta' = meta /\ cmd' = cmd
  BY DEF Daemons!Die
<1>3. commandsOverlapped \subseteq commandsOverlapped' /\ commandsOverlapped' \subseteq Daemons!Names
      /\ Daemons!OneWorks'
  BY <1>1, DaemonOverlap
<1>4. \A n \in Daemons!Names : Daemons!Up(n)' \subseteq Daemons!Up(n)
  BY <1>1, <1>2, DaemonUp
<1>5. procs' \in Seq([program : DaemonPrograms, state : {"up", "ending", "gone"}])
  <2>1. /\ Len(procs) \in Nat
        /\ procs \in [1..Len(procs) -> [program : DaemonPrograms, state : {"up", "ending", "gone"}]]
    BY <1>1, DaemonSeqIs DEF Daemons!TypeOK
  <2>2. [procs[pid] EXCEPT !.state = "gone"] \in [program : DaemonPrograms, state : {"up", "ending", "gone"}]
    BY <2>1
  <2>3. procs' \in [1..Len(procs) -> [program : DaemonPrograms, state : {"up", "ending", "gone"}]]
    BY <1>2, <2>1, <2>2
  <2> QED
    BY <2>1, <2>3, DaemonIsSeq
<1>6. Daemons!TypeOK' /\ Daemons!Named'
  BY <1>1, <1>2, <1>3, <1>5 DEF Daemons!TypeOK, Daemons!Named
<1>7. \A d \in Shells : \A n : Daemons!Works(d, n)' <=> Daemons!Works(d, n)
  BY <1>2 DEF Daemons!Works
<1>8. Daemons!Known'
  BY <1>1, <1>2, <1>3, <1>4, <1>7 DEF Daemons!Known
<1> QED
  BY <1>3, <1>6, <1>8 DEF Daemons!Inv

LEMMA DaemonSteps == Daemons!Inv /\ [Daemons!Next]_daemon => Daemons!Inv'
<1> SUFFICES ASSUME Daemons!Inv, [Daemons!Next]_daemon PROVE Daemons!Inv'
  OBVIOUS
<1>1. CASE UNCHANGED daemon
  <2>1. procs' = procs /\ pidFile' = pidFile /\ meta' = meta /\ cmd' = cmd
        /\ commandsOverlapped' = commandsOverlapped
    BY <1>1 DEF daemon
  <2>2. \A c, n : Daemons!Works(c, n)' <=> Daemons!Works(c, n)
    BY <2>1 DEF Daemons!Works
  <2>3. \A n : Daemons!Up(n)' = Daemons!Up(n)
    BY <2>1 DEF Daemons!Up
  <2>4. Daemons!TypeOK' /\ Daemons!Named'
    BY <2>1 DEF Daemons!Inv, Daemons!TypeOK, Daemons!Named
  <2>5. Daemons!OneWorks'
    BY <2>1, <2>2 DEF Daemons!Inv, Daemons!OneWorks
  <2>6. Daemons!Known'
    BY <2>1, <2>2, <2>3 DEF Daemons!Inv, Daemons!Known
  <2> QED
    BY <2>4, <2>5, <2>6 DEF Daemons!Inv
<1>2. CASE Daemons!Next
  <2>1. Daemons!Overlap
    BY <1>2 DEF Daemons!Next
  <2>2. ASSUME NEW c \in Shells,
               \/ \E p \in DaemonPrograms : Daemons!Start(c, p)
               \/ Daemons!Spawn(c) \/ Daemons!SpawnFails(c) \/ Daemons!Record(c)
               \/ \E n \in Daemons!Names, r \in BOOLEAN : Daemons!Stop(c, n, r)
               \/ Daemons!Kill(c) \/ Daemons!Forget(c) \/ Daemons!StartAgain(c)
        PROVE  Daemons!Inv'
    BY <2>1, <2>2, DaemonStarts, DaemonSpawns, DaemonSpawnFails, DaemonRecords, DaemonStops,
       DaemonKills, DaemonForgets, DaemonStartsAgain
  <2>3. ASSUME NEW pid \in DOMAIN procs, Daemons!Die(pid) PROVE Daemons!Inv'
    BY <2>1, <2>3, DaemonDies
  <2> QED
    BY <1>2, <2>2, <2>3 DEF Daemons!Next
<1> QED
  BY <1>1, <1>2

(* A daemon that was not told to end is the one its pid file names, when   *)
(* no command works on its name and no two ever did at the same time,      *)
(* whatever programs, names and command line processes there are           *)
(* (daemon_start, daemon_stop and daemon_restart).                         *)
THEOREM DaemonsKnown == ServicesSpec => []DaemonIsKnown
<1>1. ServicesInit => Daemons!Inv
  BY DaemonStart DEF ServicesInit
<1>2. Daemons!Inv /\ [ServicesNext]_servicesVars => Daemons!Inv'
  <2>1. [ServicesNext]_servicesVars => [Daemons!Next]_daemon
    BY DEF ServicesNext, servicesVars
  <2> QED
    BY <2>1, DaemonSteps
<1>3. Daemons!Inv => DaemonIsKnown
  <2> SUFFICES ASSUME Daemons!Inv, NEW pid \in DOMAIN procs, procs[pid].state = "up",
                      NameOf[procs[pid].program] \notin commandsOverlapped,
                      \A c \in Shells : cmd[c].op = "idle" \/ cmd[c].name # NameOf[procs[pid].program]
               PROVE  pidFile[NameOf[procs[pid].program]] = pid
    BY DEF DaemonIsKnown, Daemons!DaemonIsKnown, Daemons!At
  <2>1. procs[pid].program \in DaemonPrograms
    <3>1. procs[pid] \in [program : DaemonPrograms, state : {"up", "ending", "gone"}]
      BY DaemonPids DEF Daemons!Inv, Daemons!TypeOK
    <3> QED
      BY <3>1
  <2>2. NameOf[procs[pid].program] \in Daemons!Names
    BY <2>1 DEF Daemons!Names
  <2>3. pid \in Daemons!Up(NameOf[procs[pid].program])
    BY DEF Daemons!Up
  <2>4. \A c \in Shells : ~Daemons!Works(c, NameOf[procs[pid].program])
    BY DEF Daemons!Works
  <2> QED
    BY <2>2, <2>3, <2>4 DEF Daemons!Inv, Daemons!Known
<1> QED
  BY <1>1, <1>2, <1>3, PTL DEF ServicesSpec

-----------------------------------------------------------------------------
(***************************************************************************)
(* Files: callers of the builtins read, write, edit and append to one      *)
(* file.                                                                   *)
(***************************************************************************)
(* Texts: what is written is one, and a file that is not there has none.   *)
LEMMA TextShape ==
    /\ Disk!Absent \notin Seq(Disk!Kept) /\ Disk!Absent \in Disk!Texts
    /\ <<>> \in Seq(Disk!Kept) /\ Len(<<>>) = 0 /\ Seq(Disk!Kept) \subseteq Disk!Texts
    /\ \A x \in Disk!Kept : <<x>> \in Seq(Disk!Kept) /\ <<x, x>> \in Seq(Disk!Kept)
<1>1. "absent" \notin Disk!Kept
  BY ServicesAssumption DEF Disk!Kept
<1>2. Disk!Absent \notin Seq(Disk!Kept)
  <2>1. Disk!Absent[1] = "absent" /\ Len(Disk!Absent) = 1
    BY DEF Disk!Absent
  <2> DEFINE K == Disk!Kept
             A == Disk!Absent
  <2> HIDE DEF K, A
  <2>2. A \in Seq(K) /\ Len(A) = 1 => A[1] \in K
    OBVIOUS
  <2> QED
    BY <1>1, <2>1, <2>2 DEF K, A
<1>3. \A K : <<>> \in Seq(K) /\ Len(<<>>) = 0 /\ \A x \in K : <<x>> \in Seq(K) /\ <<x, x>> \in Seq(K)
  OBVIOUS
<1> QED
  BY <1>2, <1>3 DEF Disk!Texts

LEMMA TextMade ==
    ASSUME NEW s \in Seq(Disk!Kept), NEW x \in Disk!Kept, NEW k \in Nat, NEW old
    PROVE  /\ Disk!Edited(s, old, x) \in Seq(Disk!Kept)
           /\ Disk!Put(s, k, x) \in Seq(Disk!Kept)
           /\ Len(s) = k => /\ Len(Disk!Put(s, k, x)) = k + 1 /\ Disk!Put(s, k, x)[k + 1] = x
                           /\ \A i \in 1..k : Disk!Put(s, k, x)[i] = s[i]
<1> DEFINE K == Disk!Kept
<1>1. "gap" \in K
  BY DEF Disk!Kept
<1> HIDE DEF K
<1>2. s \in Seq(K) /\ x \in K
  BY DEF K
<1>3. Len(s) \in Nat /\ DOMAIN s = 1..Len(s) /\ \A i \in 1..Len(s) : s[i] \in K
  BY <1>2, LenProperties, ElementOfSeq
<1>4. \A n \in Nat : \A f \in [1..n -> K] : f \in Seq(K) /\ Len(f) = n
  <2> SUFFICES ASSUME NEW n \in Nat, NEW f \in [1..n -> K] PROVE f \in Seq(K) /\ Len(f) = n
    OBVIOUS
  <2>1. [1..n -> K] \in {[1..m -> K] : m \in Nat}
    OBVIOUS
  <2>2. f \in UNION {[1..m -> K] : m \in Nat}
    BY <2>1
  <2>3. f \in Seq(K)
    BY <2>2, SeqDef
  <2>4. DOMAIN f = 1..Len(f) /\ Len(f) \in Nat /\ DOMAIN f = 1..n
    BY <2>3, LenProperties
  <2> QED
    BY <2>3, <2>4
<1>5. Disk!Edited(s, old, x) \in Seq(K)
  <2>1. Disk!Edited(s, old, x) \in [1..Len(s) -> K]
    BY <1>2, <1>3 DEF Disk!Edited
  <2> QED
    BY <1>3, <1>4, <2>1
<1>6. PICK n \in Nat : n = IF Len(s) > k THEN Len(s) ELSE k + 1
  <2>1. CASE Len(s) > k
    BY <1>3, <2>1
  <2>2. CASE ~(Len(s) > k)
    <3>1. k + 1 \in Nat
      OBVIOUS
    <3> QED
      BY <2>2, <3>1
  <2> QED
    BY <2>1, <2>2
<1>7. Disk!Put(s, k, x) = [i \in 1..n |-> IF i = k + 1 THEN x ELSE IF i \in DOMAIN s THEN s[i] ELSE "gap"]
  BY <1>6 DEF Disk!Put
<1>8. Disk!Put(s, k, x) \in [1..n -> K]
  BY <1>1, <1>2, <1>3, <1>7
<1>9. Disk!Put(s, k, x) \in Seq(K) /\ Len(Disk!Put(s, k, x)) = n
  BY <1>4, <1>8
<1>10. ASSUME Len(s) = k
       PROVE  /\ n = k + 1 /\ Disk!Put(s, k, x)[k + 1] = x
              /\ \A i \in 1..k : Disk!Put(s, k, x)[i] = s[i]
  BY <1>3, <1>6, <1>7, <1>10
<1> QED
  BY <1>5, <1>9, <1>10 DEF K

(* Ranges of lines, one after the other.                                   *)
LEMMA ThreeParts ==
    ASSUME NEW S, NEW s \in Seq(S), NEW a \in Seq(S), NEW b \in Seq(S), NEW c \in Seq(S),
           Len(s) = Len(a) + Len(b) + Len(c),
           \A i \in 1..Len(a) : a[i] = s[i],
           \A i \in 1..Len(b) : b[i] = s[Len(a) + i],
           \A i \in 1..Len(c) : c[i] = s[Len(a) + Len(b) + i]
    PROVE  a \o b \o c = s
<1>0. Len(a) \in Nat /\ Len(b) \in Nat /\ Len(c) \in Nat
  BY LenProperties
<1>1. /\ a \o b \in Seq(S) /\ Len(a \o b) = Len(a) + Len(b)
      /\ \A i \in 1..Len(a) + Len(b) : (a \o b)[i] = IF i <= Len(a) THEN a[i] ELSE b[i - Len(a)]
  BY ConcatProperties
<1>2. PICK d \in Seq(S) : d = a \o b
  BY <1>1
<1>3. /\ d \o c \in Seq(S) /\ Len(d \o c) = Len(d) + Len(c)
      /\ \A i \in 1..Len(d) + Len(c) : (d \o c)[i] = IF i <= Len(d) THEN d[i] ELSE c[i - Len(d)]
  BY ConcatProperties
<1>4. Len(d) = Len(a) + Len(b) /\ Len(d \o c) = Len(s)
  BY <1>1, <1>2, <1>3
<1>5. ASSUME NEW i \in 1..Len(s) PROVE (d \o c)[i] = s[i]
  <2>1. CASE i <= Len(a)
    BY <1>0, <1>1, <1>2, <1>3, <1>4, <2>1
  <2>2. CASE i > Len(a) /\ i <= Len(d)
    <3>1. i - Len(a) \in 1..Len(b) /\ Len(a) + (i - Len(a)) = i
      BY <1>0, <1>4, <2>2
    <3>2. (d \o c)[i] = b[i - Len(a)]
      BY <1>0, <1>1, <1>2, <1>3, <1>4, <2>2
    <3> QED
      BY <3>1, <3>2
  <2>3. CASE i > Len(d)
    <3>1. i - Len(d) \in 1..Len(c) /\ Len(a) + Len(b) + (i - Len(d)) = i
      BY <1>0, <1>4, <2>3
    <3>2. (d \o c)[i] = c[i - Len(d)]
      BY <1>0, <1>3, <1>4, <2>3
    <3> QED
      BY <3>1, <3>2
  <2> QED
    BY <1>0, <1>4, <2>1, <2>2, <2>3
<1> QED
  BY <1>2, <1>3, <1>4, <1>5, SeqEqual

LEMMA SubSeqOf ==
    ASSUME NEW S, NEW s \in Seq(S), NEW m \in Nat, NEW n \in Nat, m >= 1, n <= Len(s)
    PROVE  /\ SubSeq(s, m, n) \in Seq(S) /\ Len(SubSeq(s, m, n)) = IF m <= n THEN (n - m) + 1 ELSE 0
           /\ \A i \in 1..Len(SubSeq(s, m, n)) : SubSeq(s, m, n)[i] = s[(m - 1) + i]
<1>1. Len(s) \in Nat /\ \A i \in m..n : s[i] \in S
  BY LenProperties, ElementOfSeq
<1>2. /\ SubSeq(s, m, n) \in Seq(S)
      /\ Len(SubSeq(s, m, n)) = IF m <= n THEN n - m + 1 ELSE 0
      /\ \A i \in 1..n - m + 1 : SubSeq(s, m, n)[i] = s[m + i - 1]
  BY <1>1, SubSeqProperties
<1> QED
  BY <1>2

LEMMA RangesOf ==
    ASSUME NEW S, NEW s \in Seq(S), NEW n \in Nat, NEW k \in Nat
    PROVE  Disk!read_lines_range(s, 1, n) \o Disk!read_lines_range(s, n + 1, k)
               \o Disk!read_lines_range(s, n + k + 1, Disk!All) = s
<1>0. Len(s) \in Nat
  BY LenProperties
<1>1. Disk!All \notin Nat
  BY DEF Disk!All
<1>2. PICK i \in Nat : i = IF n < Len(s) THEN n ELSE Len(s)
  BY <1>0
<1>3. PICK j \in Nat : j = IF n + k < Len(s) THEN n + k ELSE Len(s)
  BY <1>0
<1>4. PICK a : a = SubSeq(s, 1, i)
  OBVIOUS
<1>5. PICK b : b = SubSeq(s, n + 1, j)
  OBVIOUS
<1>6. PICK c : c = SubSeq(s, n + k + 1, Len(s))
  OBVIOUS
<1>7. Disk!read_lines_range(s, 1, n) = a
  <2>1. (1 - 1) + n = n /\ n # Disk!All
    BY <1>1
  <2> QED
    BY <1>2, <1>4, <2>1 DEF Disk!read_lines_range
<1>8. Disk!read_lines_range(s, n + 1, k) = b
  <2>1. n + 1 # 0 /\ (n + 1) - 1 = n /\ k # Disk!All
    BY <1>1
  <2> QED
    BY <1>3, <1>5, <2>1 DEF Disk!read_lines_range
<1>9. Disk!read_lines_range(s, n + k + 1, Disk!All) = c
  <2>1. n + k + 1 # 0 /\ (n + k + 1) - 1 = n + k
    OBVIOUS
  <2> QED
    BY <1>0, <1>6, <2>1 DEF Disk!read_lines_range
<1>10. a \in Seq(S) /\ Len(a) = i /\ \A x \in 1..Len(a) : a[x] = s[x]
  <2>1. /\ a \in Seq(S) /\ Len(a) = IF 1 <= i THEN (i - 1) + 1 ELSE 0
        /\ \A x \in 1..Len(a) : a[x] = s[(1 - 1) + x]
    BY <1>0, <1>2, <1>4, SubSeqOf
  <2> QED
    BY <2>1
<1>11. /\ b \in Seq(S) /\ Len(b) = IF n + 1 <= j THEN (j - (n + 1)) + 1 ELSE 0
       /\ \A x \in 1..Len(b) : b[x] = s[n + x]
  <2>1. /\ b \in Seq(S) /\ Len(b) = IF n + 1 <= j THEN (j - (n + 1)) + 1 ELSE 0
        /\ \A x \in 1..Len(b) : b[x] = s[((n + 1) - 1) + x]
    BY <1>0, <1>3, <1>5, SubSeqOf
  <2>2. (n + 1) - 1 = n
    OBVIOUS
  <2> QED
    BY <2>1, <2>2
<1>12. /\ c \in Seq(S) /\ Len(c) = IF n + k + 1 <= Len(s) THEN (Len(s) - (n + k + 1)) + 1 ELSE 0
       /\ \A x \in 1..Len(c) : c[x] = s[n + k + x]
  <2>1. /\ c \in Seq(S) /\ Len(c) = IF n + k + 1 <= Len(s) THEN (Len(s) - (n + k + 1)) + 1 ELSE 0
        /\ \A x \in 1..Len(c) : c[x] = s[((n + k + 1) - 1) + x]
    BY <1>0, <1>6, SubSeqOf
  <2>2. (n + k + 1) - 1 = n + k
    OBVIOUS
  <2> QED
    BY <2>1, <2>2
<1>13. /\ Len(s) = Len(a) + Len(b) + Len(c)
       /\ \A x \in 1..Len(b) : b[x] = s[Len(a) + x]
       /\ \A x \in 1..Len(c) : c[x] = s[Len(a) + Len(b) + x]
  <2>1. CASE n >= Len(s)
    <3>1. Len(a) = Len(s) /\ Len(b) = 0 /\ Len(c) = 0
      BY <1>0, <1>2, <1>3, <1>10, <1>11, <1>12, <2>1
    <3> QED
      BY <1>0, <3>1
  <2>2. CASE n < Len(s) /\ n + k >= Len(s)
    <3>1. Len(a) = n /\ Len(b) = Len(s) - n /\ Len(c) = 0
      BY <1>0, <1>2, <1>3, <1>10, <1>11, <1>12, <2>2
    <3> QED
      BY <1>0, <1>11, <3>1
  <2>3. CASE n + k < Len(s)
    <3>1. Len(a) = n /\ Len(b) = k /\ Len(c) = Len(s) - (n + k)
      BY <1>0, <1>2, <1>3, <1>10, <1>11, <1>12, <2>3
    <3>2. Len(s) = Len(a) + Len(b) + Len(c)
      BY <1>0, <3>1
    <3>3. \A x \in 1..Len(b) : b[x] = s[Len(a) + x]
      BY <1>11, <3>1
    <3>4. \A x \in 1..Len(c) : c[x] = s[Len(a) + Len(b) + x]
      BY <1>12, <3>1
    <3> QED
      BY <3>2, <3>3, <3>4
  <2> QED
    BY <1>0, <2>1, <2>2, <2>3
<1>14. a \in Seq(S) /\ b \in Seq(S) /\ c \in Seq(S) /\ \A x \in 1..Len(a) : a[x] = s[x]
  BY <1>10, <1>11, <1>12
<1>15. a \o b \o c = s
  BY <1>13, <1>14, ThreeParts
<1> QED
  BY <1>7, <1>8, <1>9, <1>15

LEMMA IdleCall ==
    /\ Disk!Idle \in Disk!Calls /\ Disk!Idle.op = "idle" /\ Disk!Idle.from = Disk!File
    /\ Disk!Idle.on = Disk!Gone /\ Disk!Idle.own = <<>> /\ Disk!Idle.at = 0 /\ Disk!Idle.text = <<>>
    /\ Disk!Idle.could = {} /\ Disk!Idle.got = <<>> /\ Disk!Idle.alone = TRUE
    /\ Disk!File # Disk!Temp /\ Disk!File # Disk!Gone /\ Disk!Temp # Disk!Gone
  BY TextShape DEF Disk!Idle, Disk!Calls, Disk!Texts, Disk!File, Disk!Temp, Disk!Gone

LEMMA FileStarts == Disk!Init => Disk!Inv
<1> SUFFICES ASSUME Disk!Init PROVE Disk!Inv
  OBVIOUS
<1>1. /\ texts = [p \in {Disk!File, Disk!Temp} |-> Disk!Absent] /\ truth = Disk!Absent /\ overlapped = FALSE
      /\ fileCall = [c \in FileCallers |-> Disk!Idle] /\ \A c \in FileCallers : fileCall[c].op = "idle"
      /\ texts[Disk!File] = Disk!Absent
  BY IdleCall DEF Disk!Init
<1>2. Disk!TypeOK
  BY <1>1, IdleCall, TextShape DEF Disk!TypeOK
<1>3. Disk!Opened /\ Disk!Alone /\ Disk!WritesItsOwn /\ Disk!ReadsWhole /\ Disk!WholeTexts
  BY <1>1 DEF Disk!Opened, Disk!Alone, Disk!WritesItsOwn, Disk!ReadsWhole, Disk!WholeTexts, Disk!Changing
<1> QED
  BY <1>2, <1>3 DEF Disk!Inv

(* Another caller goes on as it did, and may no longer be alone.           *)
GoesOn(d) ==
    /\ fileCall'[d].op = fileCall[d].op /\ fileCall'[d].from = fileCall[d].from
    /\ fileCall'[d].on = fileCall[d].on /\ fileCall'[d].own = fileCall[d].own
    /\ fileCall'[d].could = fileCall[d].could /\ fileCall'[d].got = fileCall[d].got
    /\ fileCall'[d].text = fileCall[d].text /\ fileCall'[d].at = fileCall[d].at
    /\ fileCall'[d].alone => fileCall[d].alone
Begun(c, r) ==
    /\ fileCall' \in [FileCallers -> Disk!Calls] /\ overlapped' \in BOOLEAN
    /\ fileCall'[c].op = r.op /\ fileCall'[c].on = r.on /\ fileCall'[c].text = r.text /\ fileCall'[c].at = r.at
    /\ \A d \in FileCallers \ {c} :
          /\ GoesOn(d) /\ (Disk!Changing(d) => ~fileCall'[d].alone)
          /\ fileCall[d].op = "read" /\ fileCall'[d].alone /\ ~overlapped => ~overlapped'
    /\ overlapped => overlapped'
    /\ Disk!Alone'

LEMMA FileBegins ==
    ASSUME Disk!Inv, NEW c \in FileCallers, NEW r \in Disk!Calls, fileCall[c] = Disk!Idle,
           r.op \in {"edit", "write", "append"}, Disk!BeginsToChange(c, r)
    PROVE  Begun(c, r)
<1>0. /\ fileCall \in [FileCallers -> Disk!Calls] /\ overlapped \in BOOLEAN /\ fileCall[c].op = "idle"
      /\ Disk!Alone
  BY IdleCall DEF Disk!Inv, Disk!TypeOK
<1>1. \A s \in Disk!Calls, b \in BOOLEAN :
         /\ [s EXCEPT !.alone = b] \in Disk!Calls /\ [s EXCEPT !.alone = b].alone = b
         /\ [s EXCEPT !.alone = b].op = s.op /\ [s EXCEPT !.alone = b].from = s.from
         /\ [s EXCEPT !.alone = b].on = s.on /\ [s EXCEPT !.alone = b].own = s.own
         /\ [s EXCEPT !.alone = b].could = s.could /\ [s EXCEPT !.alone = b].got = s.got
         /\ [s EXCEPT !.alone = b].text = s.text /\ [s EXCEPT !.alone = b].at = s.at
  BY DEF Disk!Calls
<1>2. PICK alone \in BOOLEAN : alone <=> \A d \in FileCallers \ {c} : ~Disk!Changing(d)
  OBVIOUS
<1>3. /\ overlapped' = (overlapped \/ ~alone)
      /\ fileCall' = [d \in FileCallers |->
                         IF d = c THEN [r EXCEPT !.alone = alone]
                         ELSE IF alone \/ fileCall[d] = Disk!Idle THEN fileCall[d]
                         ELSE [fileCall[d] EXCEPT !.alone = FALSE]]
  BY <1>2 DEF Disk!BeginsToChange
<1>4. fileCall'[c] = [r EXCEPT !.alone = alone]
      /\ \A d \in FileCallers \ {c} :
            fileCall'[d] = IF alone \/ fileCall[d] = Disk!Idle THEN fileCall[d]
                           ELSE [fileCall[d] EXCEPT !.alone = FALSE]
  BY <1>3
<1>5. fileCall' \in [FileCallers -> Disk!Calls]
  BY <1>0, <1>1, <1>3
<1>6. /\ fileCall'[c].op = r.op /\ fileCall'[c].on = r.on /\ fileCall'[c].text = r.text
      /\ fileCall'[c].at = r.at /\ fileCall'[c].alone = alone
  BY <1>1, <1>4
<1>7. ASSUME NEW d \in FileCallers \ {c} PROVE GoesOn(d)
  <2>1. CASE alone \/ fileCall[d] = Disk!Idle
    <3>1. fileCall'[d] = fileCall[d]
      BY <1>4, <2>1
    <3> QED
      BY <3>1 DEF GoesOn
  <2>2. CASE ~alone /\ fileCall[d] # Disk!Idle
    <3>1. fileCall'[d] = [fileCall[d] EXCEPT !.alone = FALSE]
      BY <1>4, <2>2
    <3>2. fileCall[d] \in Disk!Calls
      BY <1>0
    <3>3. /\ fileCall'[d].op = fileCall[d].op /\ fileCall'[d].from = fileCall[d].from
          /\ fileCall'[d].on = fileCall[d].on /\ fileCall'[d].own = fileCall[d].own
          /\ fileCall'[d].could = fileCall[d].could /\ fileCall'[d].got = fileCall[d].got
          /\ fileCall'[d].text = fileCall[d].text /\ fileCall'[d].at = fileCall[d].at
      BY <1>1, <3>1, <3>2
    <3>4. fileCall'[d].alone = FALSE
      BY <1>1, <3>1, <3>2
    <3> QED
      BY <3>3, <3>4 DEF GoesOn
  <2> QED
    BY <2>1, <2>2
<1>8. ASSUME NEW d \in FileCallers \ {c}, Disk!Changing(d) PROVE ~fileCall'[d].alone
  <2>1. ~alone /\ fileCall[d] # Disk!Idle
    BY <1>2, <1>8, IdleCall DEF Disk!Changing
  <2>2. fileCall'[d] = [fileCall[d] EXCEPT !.alone = FALSE] /\ fileCall[d] \in Disk!Calls
    BY <1>0, <1>4, <2>1
  <2>3. fileCall'[d].alone = FALSE
    BY <1>1, <2>2
  <2> QED
    BY <2>3
<1>9. ASSUME NEW d \in FileCallers \ {c}, fileCall[d].op = "read", fileCall'[d].alone, ~overlapped
      PROVE  ~overlapped'
  <2>1. fileCall[d] # Disk!Idle
    BY <1>9, IdleCall
  <2>2. ASSUME ~alone PROVE FALSE
    <3>1. fileCall'[d] = [fileCall[d] EXCEPT !.alone = FALSE] /\ fileCall[d] \in Disk!Calls
      BY <1>0, <1>4, <2>1, <2>2
    <3>2. fileCall'[d].alone = FALSE
      BY <1>1, <3>1
    <3> QED
      BY <1>9, <3>2
  <2> QED
    BY <1>3, <1>9, <2>2
<1>10. Disk!Alone'
  <2>1. \A d \in FileCallers \ {c} : Disk!Changing(d)' <=> Disk!Changing(d)
    BY <1>7 DEF GoesOn, Disk!Changing
  <2>2. ~overlapped' => alone /\ \A d \in FileCallers \ {c} : ~Disk!Changing(d)
    BY <1>2, <1>3
  <2>3. ~overlapped' => \A d \in FileCallers : Disk!Changing(d)' => fileCall'[d].alone
    BY <1>6, <2>1, <2>2
  <2>4. ASSUME NEW d \in FileCallers, Disk!Changing(d)', fileCall'[d].alone,
               NEW e \in FileCallers \ {d}, Disk!Changing(e)'
        PROVE  FALSE
    BY <1>2, <1>6, <1>8, <2>1, <2>4
  <2> QED
    BY <2>3, <2>4 DEF Disk!Alone
<1> QED
  BY <1>3, <1>5, <1>6, <1>7, <1>8, <1>9, <1>10 DEF Begun

LEMMA FileBegun ==
    ASSUME Disk!Inv, NEW c \in FileCallers, NEW r \in Disk!Calls, Begun(c, r),
           r.op \in {"edit", "write", "append"},
           texts' \in [{Disk!File, Disk!Temp} -> Disk!Texts], truth' \in Disk!Texts,
           \A p \in {Disk!File, Disk!Temp} : texts[p] # Disk!Absent => texts'[p] # Disk!Absent,
           r.op # "edit" => r.on \in {Disk!File, Disk!Temp} /\ texts'[r.on] # Disk!Absent,
           r.op = "write" => r.on = Disk!Temp /\ r.at = 0 /\ texts'[Disk!Temp] = <<>>,
           texts[Disk!File] = truth => texts'[Disk!File] = truth',
           truth # Disk!Absent => truth' = truth
    PROVE  Disk!Inv'
<1>1. Disk!TypeOK'
  BY DEF Begun, Disk!TypeOK
<1>2. Disk!Opened'
  <2> SUFFICES ASSUME NEW d \in FileCallers, fileCall'[d].op \in {"read", "write", "append"},
                      fileCall'[d].on # Disk!Gone
               PROVE  texts'[fileCall'[d].on] # Disk!Absent
    BY DEF Disk!Opened
  <2>1. CASE d = c
    BY <2>1 DEF Begun
  <2>2. CASE d # c
    <3>1. fileCall[d].op \in {"read", "write", "append"} /\ fileCall'[d].on = fileCall[d].on
          /\ fileCall[d].on \in {Disk!File, Disk!Temp}
      BY <2>2 DEF Begun, GoesOn, Disk!Inv, Disk!TypeOK, Disk!Calls
    <3>2. texts[fileCall[d].on] # Disk!Absent
      BY <3>1, IdleCall DEF Disk!Inv, Disk!Opened
    <3> QED
      BY <3>1, <3>2
  <2> QED
    BY <2>1, <2>2
<1>3. Disk!WritesItsOwn'
  <2> SUFFICES ASSUME NEW d \in FileCallers, fileCall'[d].op = "write", fileCall'[d].alone
               PROVE  /\ fileCall'[d].on = Disk!Temp /\ Len(texts'[Disk!Temp]) = fileCall'[d].at
                      /\ fileCall'[d].at <= Len(fileCall'[d].text)
                      /\ \A i \in 1..fileCall'[d].at : texts'[Disk!Temp][i] = fileCall'[d].text[i]
    BY DEF Disk!WritesItsOwn
  <2>1. d = c
    BY DEF Begun, GoesOn, Disk!Changing
  <2>2. /\ fileCall'[c].on = Disk!Temp /\ fileCall'[c].at = 0 /\ texts'[Disk!Temp] = <<>>
        /\ fileCall'[c].text \in Seq(Disk!Kept)
    BY <2>1 DEF Begun, Disk!Calls
  <2>3. Len(fileCall'[c].text) \in Nat
    BY <2>2, LenProperties
  <2> QED
    BY <2>1, <2>2, <2>3, TextShape
<1>4. Disk!ReadsWhole'
  <2> SUFFICES ASSUME NEW d \in FileCallers, fileCall'[d].op = "read", fileCall'[d].from = Disk!File
               PROVE  /\ fileCall'[d].on # Disk!Temp
                      /\ fileCall'[d].alone =>
                           /\ ~overlapped'
                           /\ (IF fileCall'[d].on = Disk!Gone THEN fileCall'[d].own ELSE truth') \in fileCall'[d].could
    BY DEF Disk!ReadsWhole
  <2>1. d # c /\ GoesOn(d)
    BY DEF Begun
  <2>2. fileCall[d].op = "read" /\ fileCall[d].from = Disk!File
    BY <2>1 DEF GoesOn
  <2>3. /\ fileCall[d].on # Disk!Temp
        /\ fileCall[d].alone => /\ ~overlapped
                               /\ (IF fileCall[d].on = Disk!Gone THEN fileCall[d].own ELSE truth) \in fileCall[d].could
    BY <2>2 DEF Disk!Inv, Disk!ReadsWhole
  <2>4. fileCall[d].alone /\ fileCall[d].on # Disk!Gone => truth' = truth
    <3>1. ASSUME fileCall[d].on # Disk!Gone PROVE texts[Disk!File] # Disk!Absent
      <4>1. fileCall[d].on \in {Disk!File, Disk!Temp, Disk!Gone}
        BY DEF Disk!Inv, Disk!TypeOK, Disk!Calls
      <4>2. fileCall[d].on = Disk!File
        BY <2>3, <3>1, <4>1
      <4>3. texts[fileCall[d].on] # Disk!Absent
        BY <2>2, <3>1 DEF Disk!Inv, Disk!Opened
      <4> QED
        BY <4>2, <4>3
    <3>2. ~overlapped => texts[Disk!File] = truth
      BY DEF Disk!Inv, Disk!WholeTexts
    <3>3. ASSUME fileCall[d].alone, fileCall[d].on # Disk!Gone PROVE truth' = truth
      <4>1. ~overlapped
        BY <2>3, <3>3
      <4>2. truth # Disk!Absent
        BY <3>1, <3>2, <3>3, <4>1
      <4> QED
        BY <4>2
    <3> QED
      BY <3>3
  <2>5. ASSUME fileCall'[d].alone
        PROVE  /\ ~overlapped'
               /\ (IF fileCall'[d].on = Disk!Gone THEN fileCall'[d].own ELSE truth') \in fileCall'[d].could
    <3>1. fileCall[d].alone /\ ~overlapped
          /\ (IF fileCall[d].on = Disk!Gone THEN fileCall[d].own ELSE truth) \in fileCall[d].could
      BY <2>1, <2>3, <2>5 DEF GoesOn
    <3>2. ~overlapped'
      BY <2>1, <2>2, <2>5, <3>1 DEF Begun
    <3>3. /\ fileCall'[d].on = fileCall[d].on /\ fileCall'[d].own = fileCall[d].own
          /\ fileCall'[d].could = fileCall[d].could
      BY <2>1 DEF GoesOn
    <3> QED
      BY <2>4, <3>1, <3>2, <3>3
  <2>6. fileCall'[d].on # Disk!Temp
    BY <2>1, <2>3 DEF GoesOn
  <2> QED
    BY <2>5, <2>6
<1>5. Disk!WholeTexts'
  <2>1. overlapped' \/ texts'[Disk!File] = truth'
    BY DEF Begun, Disk!Inv, Disk!WholeTexts
  <2>2. ASSUME NEW d \in FileCallers, fileCall'[d].op = "answered", fileCall'[d].from = Disk!File,
               fileCall'[d].alone
        PROVE  fileCall'[d].got \in fileCall'[d].could
    <3>1. d # c /\ GoesOn(d)
      BY <2>2 DEF Begun
    <3> QED
      BY <2>2, <3>1 DEF GoesOn, Disk!Inv, Disk!WholeTexts
  <2> QED
    BY <2>1, <2>2 DEF Disk!WholeTexts
<1> QED
  BY <1>1, <1>2, <1>3, <1>4, <1>5 DEF Begun, Disk!Inv

(* The other callers, when one of them just goes on.                       *)
LEMMA FileWrites ==
    ASSUME Disk!Inv, NEW c \in FileCallers, NEW piece \in Pieces, Disk!write_file(c, piece)
    PROVE  Disk!Inv'
<1> DEFINE r == Disk!Writer(Disk!Temp, <<piece, piece>>)
<1>1. /\ fileCall[c] = Disk!Idle /\ texts' = [texts EXCEPT ![Disk!Temp] = <<>>] /\ truth' = truth
      /\ Disk!BeginsToChange(c, r)
  BY IdleCall DEF Disk!write_file, Disk!atomic_write, Disk!Writes, Disk!Changing
<1>2. r \in Disk!Calls /\ r.op = "write" /\ r.on = Disk!Temp /\ r.at = 0
  <2>1. <<piece, piece>> \in Seq(Disk!Kept)
    BY TextShape DEF Disk!Kept
  <2> QED
    BY <2>1, IdleCall DEF Disk!Writer, Disk!Calls, Disk!Idle
<1> HIDE DEF r
<1>3. Begun(c, r)
  BY <1>1, <1>2, FileBegins
<1>4. texts \in [{Disk!File, Disk!Temp} -> Disk!Texts] /\ truth \in Disk!Texts
  BY DEF Disk!Inv, Disk!TypeOK
<1>5. /\ texts' \in [{Disk!File, Disk!Temp} -> Disk!Texts]
      /\ texts'[Disk!Temp] = <<>> /\ texts'[Disk!File] = texts[Disk!File]
      /\ <<>> # Disk!Absent
  BY <1>1, <1>4, IdleCall, TextShape
<1>6. \A p \in {Disk!File, Disk!Temp} : texts[p] # Disk!Absent => texts'[p] # Disk!Absent
  BY <1>5
<1> QED
  BY <1>1, <1>2, <1>3, <1>4, <1>5, <1>6, FileBegun

LEMMA FileAppends ==
    ASSUME Disk!Inv, NEW c \in FileCallers, NEW piece \in Pieces, Disk!OpenToAppend(c, piece)
    PROVE  Disk!Inv'
<1> DEFINE r == [Disk!Idle EXCEPT !.op = "append", !.on = Disk!File, !.text = <<piece>>]
<1>1. /\ fileCall[c] = Disk!Idle /\ Disk!BeginsToChange(c, r)
      /\ texts' = IF texts[Disk!File] = Disk!Absent THEN [texts EXCEPT ![Disk!File] = <<>>] ELSE texts
      /\ truth' = IF truth = Disk!Absent THEN <<>> ELSE truth
  BY DEF Disk!OpenToAppend
<1>2. r \in Disk!Calls /\ r.op = "append" /\ r.on = Disk!File
  <2>1. <<piece>> \in Seq(Disk!Kept)
    BY TextShape DEF Disk!Kept
  <2> QED
    BY <2>1, IdleCall DEF Disk!Calls, Disk!Idle
<1> HIDE DEF r
<1>3. Begun(c, r)
  BY <1>1, <1>2, FileBegins
<1>4. texts \in [{Disk!File, Disk!Temp} -> Disk!Texts] /\ truth \in Disk!Texts
  BY DEF Disk!Inv, Disk!TypeOK
<1>5. /\ texts' \in [{Disk!File, Disk!Temp} -> Disk!Texts]
      /\ texts'[Disk!Temp] = texts[Disk!Temp]
      /\ texts'[Disk!File] = IF texts[Disk!File] = Disk!Absent THEN <<>> ELSE texts[Disk!File]
      /\ <<>> # Disk!Absent /\ <<>> \in Disk!Texts
  BY <1>1, <1>4, IdleCall, TextShape
<1>6. \A p \in {Disk!File, Disk!Temp} : texts[p] # Disk!Absent => texts'[p] # Disk!Absent
  BY <1>5
<1>7. texts[Disk!File] = truth => texts'[Disk!File] = truth'
  BY <1>1, <1>5
<1>8. truth' \in Disk!Texts /\ (truth # Disk!Absent => truth' = truth) /\ texts'[Disk!File] # Disk!Absent
  BY <1>1, <1>4, <1>5
<1> QED
  BY <1>2, <1>3, <1>5, <1>6, <1>7, <1>8, FileBegun

LEMMA FileEditBegins ==
    ASSUME Disk!Inv, NEW c \in FileCallers, NEW e \in Edits, NEW all \in BOOLEAN,
           Disk!ReadToEdit(c, e[1], e[2], all)
    PROVE  Disk!Inv'
<1> DEFINE text == Disk!Edited(texts[Disk!File], e[1], e[2])
           r == [Disk!Idle EXCEPT !.op = "edit", !.text = text]
<1>1. /\ fileCall[c] = Disk!Idle /\ Disk!BeginsToChange(c, r) /\ UNCHANGED <<texts, truth>>
      /\ texts[Disk!File] # Disk!Absent
  BY DEF Disk!ReadToEdit
<1>2. texts \in [{Disk!File, Disk!Temp} -> Disk!Texts] /\ truth \in Disk!Texts
  BY DEF Disk!Inv, Disk!TypeOK
<1>3. text \in Seq(Disk!Kept)
  <2>1. texts[Disk!File] \in Seq(Disk!Kept)
    BY <1>1, <1>2 DEF Disk!Texts
  <2>2. e[2] \in Disk!Kept
    BY DEF Disk!Kept
  <2>3. 0 \in Nat
    OBVIOUS
  <2> QED
    BY <2>1, <2>2, <2>3, TextMade
<1> HIDE DEF text
<1>4. r \in Disk!Calls /\ r.op = "edit"
  BY <1>3, IdleCall DEF Disk!Calls, Disk!Idle
<1> HIDE DEF r
<1>5. Begun(c, r)
  BY <1>1, <1>4, FileBegins
<1> QED
  BY <1>1, <1>2, <1>4, <1>5, FileBegun

(* A caller goes on by itself, and what it does to the texts leaves the    *)
(* others where they are.                                                  *)
Alters(c, new) ==
    /\ fileCall' = [fileCall EXCEPT ![c] = new] /\ new \in Disk!Calls
    /\ UNCHANGED <<truth, overlapped>>
    /\ texts' \in [{Disk!File, Disk!Temp} -> Disk!Texts]
    /\ \A p \in {Disk!File, Disk!Temp} : texts[p] # Disk!Absent => texts'[p] # Disk!Absent

LEMMA FileAlters ==
    ASSUME Disk!Inv, NEW c \in FileCallers, NEW new, Alters(c, new),
           new.op \in {"edit", "write", "append"} => Disk!Changing(c) /\ new.alone = fileCall[c].alone,
           UNCHANGED texts \/ (Disk!Changing(c) /\ (overlapped \/ texts'[Disk!File] = texts[Disk!File])),
           new.op \in {"read", "write", "append"} /\ new.on # Disk!Gone => texts'[new.on] # Disk!Absent,
           new.op = "write" /\ new.alone =>
              /\ new.on = Disk!Temp /\ Len(texts'[Disk!Temp]) = new.at /\ new.at <= Len(new.text)
              /\ \A i \in 1..new.at : texts'[Disk!Temp][i] = new.text[i],
           new.op = "read" /\ new.from = Disk!File =>
              /\ new.on # Disk!Temp
              /\ new.alone => ~overlapped /\ (IF new.on = Disk!Gone THEN new.own ELSE truth) \in new.could,
           new.op = "answered" /\ new.from = Disk!File /\ new.alone => new.got \in new.could
    PROVE  Disk!Inv'
<1>1. /\ fileCall \in [FileCallers -> Disk!Calls] /\ overlapped \in BOOLEAN /\ truth \in Disk!Texts
      /\ fileCall' = [fileCall EXCEPT ![c] = new] /\ new \in Disk!Calls
      /\ truth' = truth /\ overlapped' = overlapped
  BY DEF Disk!Inv, Disk!TypeOK, Alters
<1>2. /\ fileCall'[c] = new /\ fileCall' \in [FileCallers -> Disk!Calls]
      /\ \A d \in FileCallers : d # c => fileCall'[d] = fileCall[d]
  BY <1>1
<1>3. Disk!TypeOK'
  BY <1>1, <1>2 DEF Alters, Disk!TypeOK
<1>4. Disk!Opened'
  <2> SUFFICES ASSUME NEW d \in FileCallers, fileCall'[d].op \in {"read", "write", "append"},
                      fileCall'[d].on # Disk!Gone
               PROVE  texts'[fileCall'[d].on] # Disk!Absent
    BY DEF Disk!Opened
  <2>1. CASE d = c
    BY <1>2, <2>1
  <2>2. CASE d # c
    <3>1. fileCall'[d] = fileCall[d] /\ fileCall[d].on \in {Disk!File, Disk!Temp}
      BY <1>1, <1>2, <2>2 DEF Disk!Calls
    <3>2. texts[fileCall[d].on] # Disk!Absent
      BY <3>1 DEF Disk!Inv, Disk!Opened
    <3> QED
      BY <3>1, <3>2 DEF Alters
  <2> QED
    BY <2>1, <2>2
<1>5. /\ \A d \in FileCallers : Disk!Changing(d)' => Disk!Changing(d)
      /\ \A d \in FileCallers : Disk!Changing(d)' => fileCall'[d].alone = fileCall[d].alone
  BY <1>1, <1>2 DEF Disk!Changing
<1>6. Disk!Alone'
  BY <1>1, <1>5 DEF Disk!Inv, Disk!Alone
<1>7. Disk!WritesItsOwn'
  <2> SUFFICES ASSUME NEW d \in FileCallers, fileCall'[d].op = "write", fileCall'[d].alone
               PROVE  /\ fileCall'[d].on = Disk!Temp /\ Len(texts'[Disk!Temp]) = fileCall'[d].at
                      /\ fileCall'[d].at <= Len(fileCall'[d].text)
                      /\ \A i \in 1..fileCall'[d].at : texts'[Disk!Temp][i] = fileCall'[d].text[i]
    BY DEF Disk!WritesItsOwn
  <2>1. CASE d = c
    BY <1>2, <2>1
  <2>2. CASE d # c
    <3>1. fileCall'[d] = fileCall[d] /\ Disk!Changing(d)
      BY <1>2, <2>2 DEF Disk!Changing
    <3>2. ~Disk!Changing(c)
      BY <2>2, <3>1 DEF Disk!Inv, Disk!Alone
    <3>3. texts' = texts
      BY <3>2
    <3> QED
      BY <3>1, <3>3 DEF Disk!Inv, Disk!WritesItsOwn
  <2> QED
    BY <2>1, <2>2
<1>8. Disk!ReadsWhole'
  <2> SUFFICES ASSUME NEW d \in FileCallers, fileCall'[d].op = "read", fileCall'[d].from = Disk!File
               PROVE  /\ fileCall'[d].on # Disk!Temp
                      /\ fileCall'[d].alone =>
                           /\ ~overlapped'
                           /\ (IF fileCall'[d].on = Disk!Gone THEN fileCall'[d].own ELSE truth') \in fileCall'[d].could
    BY DEF Disk!ReadsWhole
  <2>1. CASE d = c
    BY <1>1, <1>2, <2>1
  <2>2. CASE d # c
    BY <1>1, <1>2, <2>2 DEF Disk!Inv, Disk!ReadsWhole
  <2> QED
    BY <2>1, <2>2
<1>9. Disk!WholeTexts'
  <2>1. overlapped' \/ texts'[Disk!File] = truth'
    BY <1>1 DEF Disk!Inv, Disk!WholeTexts
  <2>2. ASSUME NEW d \in FileCallers, fileCall'[d].op = "answered", fileCall'[d].from = Disk!File,
               fileCall'[d].alone
        PROVE  fileCall'[d].got \in fileCall'[d].could
    BY <1>2, <2>2 DEF Disk!Inv, Disk!WholeTexts
  <2> QED
    BY <2>1, <2>2 DEF Disk!WholeTexts
<1> QED
  BY <1>3, <1>4, <1>6, <1>7, <1>8, <1>9 DEF Disk!Inv

LEMMA FileOpens ==
    ASSUME Disk!Inv, NEW c \in FileCallers, NEW p, NEW q \in {Disk!File, Disk!Temp}, Disk!OpenToRead(c, p, q)
    PROVE  Disk!Inv'
<1>0. texts \in [{Disk!File, Disk!Temp} -> Disk!Texts] /\ truth \in Disk!Texts /\ overlapped \in BOOLEAN
  BY DEF Disk!Inv, Disk!TypeOK
<1>1. PICK new : new = [Disk!Idle EXCEPT !.op = "read", !.from = q, !.on = q,
                                         !.could = {truth}, !.alone = ~overlapped]
  OBVIOUS
<1>2. /\ fileCall' = [fileCall EXCEPT ![c] = new] /\ UNCHANGED <<texts, truth, overlapped>>
      /\ texts[q] # Disk!Absent
  BY <1>1 DEF Disk!OpenToRead
<1>3. new \in Disk!Calls /\ new.op = "read" /\ new.from = q /\ new.on = q /\ new.could = {truth}
  BY <1>0, <1>1, IdleCall DEF Disk!Calls, Disk!Idle
<1>4. new.alone => ~overlapped
  <2>1. new.alone = ~overlapped
    BY <1>1 DEF Disk!Idle
  <2> QED
    BY <2>1
<1>5. Alters(c, new)
  BY <1>0, <1>2, <1>3 DEF Alters
<1>6. q # Disk!Gone
  BY IdleCall
<1>7. new.from = Disk!File => new.on # Disk!Temp
  BY <1>3, IdleCall
<1>8. texts'[q] # Disk!Absent
  BY <1>2
<1> QED
  BY <1>2, <1>3, <1>4, <1>5, <1>6, <1>7, <1>8, FileAlters

LEMMA FileReads ==
    ASSUME Disk!Inv, NEW c \in FileCallers, Disk!Read(c)
    PROVE  Disk!Inv'
<1>0. /\ texts \in [{Disk!File, Disk!Temp} -> Disk!Texts] /\ fileCall[c] \in Disk!Calls
      /\ truth \in Disk!Texts
  BY DEF Disk!Inv, Disk!TypeOK
<1>1. PICK r \in Disk!Calls : r = fileCall[c]
  BY <1>0
<1>2. PICK got : got = IF r.on = Disk!Gone THEN r.own ELSE texts[r.on]
  OBVIOUS
<1>3. PICK new : new = [Disk!Idle EXCEPT !.op = "answered", !.from = r.from, !.could = r.could,
                                         !.alone = r.alone, !.got = got]
  OBVIOUS
<1>4. /\ fileCall' = [fileCall EXCEPT ![c] = new] /\ UNCHANGED <<texts, truth, overlapped>>
      /\ r.op = "read"
  BY <1>1, <1>2, <1>3 DEF Disk!Read
<1>5. got \in Disk!Texts
  BY <1>0, <1>2 DEF Disk!Calls
<1>6. new \in Disk!Calls /\ new.op = "answered" /\ new.from = r.from /\ new.could = r.could /\ new.got = got
  BY <1>3, <1>5, IdleCall DEF Disk!Calls, Disk!Idle
<1>7. new.alone => r.alone
  <2>1. new.alone = r.alone
    BY <1>3 DEF Disk!Idle
  <2> QED
    BY <2>1
<1>8. Alters(c, new)
  BY <1>0, <1>4, <1>6 DEF Alters
<1>9. ASSUME r.from = Disk!File, r.alone PROVE got \in r.could
  <2>1. /\ r.on # Disk!Temp /\ ~overlapped
        /\ (IF r.on = Disk!Gone THEN r.own ELSE truth) \in r.could
    BY <1>1, <1>4, <1>9 DEF Disk!Inv, Disk!ReadsWhole
  <2>2. r.on = Disk!File \/ r.on = Disk!Gone
    BY <2>1 DEF Disk!Calls
  <2>3. texts[Disk!File] = truth
    BY <2>1 DEF Disk!Inv, Disk!WholeTexts
  <2> QED
    BY <1>2, <2>1, <2>2, <2>3
<1> QED
  BY <1>4, <1>6, <1>7, <1>8, <1>9, FileAlters

LEMMA FileReturns ==
    ASSUME Disk!Inv, NEW c \in FileCallers, Disk!Returns(c), UNCHANGED <<texts, truth, overlapped>>
    PROVE  Disk!Inv'
<1>1. Alters(c, Disk!Idle)
  BY IdleCall DEF Disk!Returns, Alters, Disk!Inv, Disk!TypeOK
<1> QED
  BY <1>1, IdleCall, FileAlters

LEMMA FileEdits ==
    ASSUME Disk!Inv, NEW c \in FileCallers, Disk!edit_file(c)
    PROVE  Disk!Inv'
<1>0. /\ texts \in [{Disk!File, Disk!Temp} -> Disk!Texts] /\ fileCall[c] \in Disk!Calls
      /\ fileCall[c].op = "edit" /\ Disk!Changing(c)
  BY DEF Disk!Inv, Disk!TypeOK, Disk!edit_file, Disk!Changing
<1>1. PICK text \in Seq(Disk!Kept) : text = fileCall[c].text
  BY <1>0 DEF Disk!Calls
<1>2. PICK new : new = [Disk!Writer(Disk!Temp, text) EXCEPT !.alone = fileCall[c].alone]
  OBVIOUS
<1>3. /\ fileCall' = [fileCall EXCEPT ![c] = new] /\ UNCHANGED <<truth, overlapped>>
      /\ texts' = [texts EXCEPT ![Disk!Temp] = <<>>]
  BY <1>0, <1>1, <1>2 DEF Disk!edit_file, Disk!atomic_write, Disk!Writes
<1>4. fileCall[c].alone \in BOOLEAN
  BY <1>0 DEF Disk!Calls
<1>5. new \in Disk!Calls /\ new.op = "write" /\ new.on = Disk!Temp /\ new.text = text /\ new.at = 0
  BY <1>2, <1>4, IdleCall DEF Disk!Calls, Disk!Idle, Disk!Writer
<1>6. new.alone = fileCall[c].alone
  BY <1>2 DEF Disk!Idle, Disk!Writer
<1>7. /\ texts' \in [{Disk!File, Disk!Temp} -> Disk!Texts]
      /\ texts'[Disk!Temp] = <<>> /\ texts'[Disk!File] = texts[Disk!File]
      /\ <<>> # Disk!Absent
  BY <1>0, <1>3, IdleCall, TextShape
<1>8. Alters(c, new)
  BY <1>3, <1>5, <1>7 DEF Alters
<1>9. Len(text) \in Nat /\ Len(<<>>) = 0
  BY <1>1, LenProperties
<1> QED
  BY <1>0, <1>5, <1>6, <1>7, <1>8, <1>9, FileAlters

LEMMA FileWritesPiece ==
    ASSUME Disk!Inv, NEW c \in FileCallers, Disk!WritePiece(c)
    PROVE  Disk!Inv'
<1>0. /\ texts \in [{Disk!File, Disk!Temp} -> Disk!Texts] /\ fileCall[c] \in Disk!Calls
      /\ fileCall[c].op = "write" /\ Disk!Changing(c)
  BY DEF Disk!Inv, Disk!TypeOK, Disk!WritePiece, Disk!Changing
<1>1. PICK r \in Disk!Calls : r = fileCall[c]
  BY <1>0
<1>2. r.at \in Nat /\ r.text \in Seq(Disk!Kept) /\ r.on \in {Disk!File, Disk!Temp, Disk!Gone}
  BY DEF Disk!Calls
<1>3. PICK new : new = [r EXCEPT !.at = @ + 1]
  OBVIOUS
<1>4. /\ fileCall' = [fileCall EXCEPT ![c] = new] /\ UNCHANGED <<truth, overlapped>>
      /\ texts' = IF r.on = Disk!Gone THEN texts
                  ELSE [texts EXCEPT ![r.on] = Disk!Put(@, r.at, r.text[r.at + 1])]
      /\ r.at < Len(r.text) /\ r.op = "write"
  BY <1>1, <1>3 DEF Disk!WritePiece
<1>5. new \in Disk!Calls /\ new.op = "write" /\ new.on = r.on /\ new.text = r.text /\ new.at = r.at + 1
  BY <1>2, <1>3, <1>4 DEF Disk!Calls
<1>6. new.alone = r.alone
  BY <1>3 DEF Disk!Calls
<1>7. Len(r.text) \in Nat /\ r.text[r.at + 1] \in Disk!Kept
  BY <1>2, <1>4, LenProperties, ElementOfSeq
<1>8. PICK x \in Disk!Kept : x = r.text[r.at + 1]
  BY <1>7
<1>9. r.on # Disk!Gone => texts[r.on] \in Seq(Disk!Kept)
  <2>1. ASSUME r.on # Disk!Gone PROVE texts[r.on] # Disk!Absent /\ texts[r.on] \in Disk!Texts
    BY <1>0, <1>1, <1>2, <1>4, <2>1 DEF Disk!Inv, Disk!Opened
  <2> QED
    BY <2>1 DEF Disk!Texts
<1>10. r.on # Disk!Gone =>
          /\ Disk!Put(texts[r.on], r.at, x) \in Seq(Disk!Kept)
          /\ Len(texts[r.on]) = r.at =>
                /\ Len(Disk!Put(texts[r.on], r.at, x)) = r.at + 1
                /\ Disk!Put(texts[r.on], r.at, x)[r.at + 1] = x
                /\ \A i \in 1..r.at : Disk!Put(texts[r.on], r.at, x)[i] = texts[r.on][i]
  <2> SUFFICES ASSUME r.on # Disk!Gone
               PROVE  /\ Disk!Put(texts[r.on], r.at, x) \in Seq(Disk!Kept)
                      /\ Len(texts[r.on]) = r.at =>
                            /\ Len(Disk!Put(texts[r.on], r.at, x)) = r.at + 1
                            /\ Disk!Put(texts[r.on], r.at, x)[r.at + 1] = x
                            /\ \A i \in 1..r.at : Disk!Put(texts[r.on], r.at, x)[i] = texts[r.on][i]
    OBVIOUS
  <2>1. PICK s \in Seq(Disk!Kept), k \in Nat : s = texts[r.on] /\ k = r.at
    BY <1>2, <1>9
  <2>2. /\ Disk!Put(s, k, x) \in Seq(Disk!Kept)
        /\ Len(s) = k => /\ Len(Disk!Put(s, k, x)) = k + 1 /\ Disk!Put(s, k, x)[k + 1] = x
                        /\ \A i \in 1..k : Disk!Put(s, k, x)[i] = s[i]
    BY TextMade
  <2> QED
    BY <2>1, <2>2
<1>11. ASSUME r.on # Disk!Gone
       PROVE  /\ texts'[r.on] = Disk!Put(texts[r.on], r.at, x)
              /\ texts'[r.on] \in Seq(Disk!Kept)
              /\ \A p \in {Disk!File, Disk!Temp} : p # r.on => texts'[p] = texts[p]
              /\ texts' \in [{Disk!File, Disk!Temp} -> Disk!Texts]
  <2>1. texts' = [texts EXCEPT ![r.on] = Disk!Put(texts[r.on], r.at, x)] /\ r.on \in {Disk!File, Disk!Temp}
    BY <1>0, <1>2, <1>4, <1>8, <1>11
  <2>2. Disk!Put(texts[r.on], r.at, x) \in Disk!Texts
    BY <1>10, <1>11, TextShape
  <2> QED
    BY <1>0, <1>10, <1>11, <2>1, <2>2
<1>12. /\ texts' \in [{Disk!File, Disk!Temp} -> Disk!Texts]
       /\ \A p \in {Disk!File, Disk!Temp} : texts[p] # Disk!Absent => texts'[p] # Disk!Absent
       /\ r.on # Disk!Gone => texts'[r.on] # Disk!Absent
  BY <1>0, <1>2, <1>4, <1>11, TextShape
<1>13. Alters(c, new)
  BY <1>4, <1>5, <1>12 DEF Alters
<1>14. ASSUME r.alone
       PROVE  /\ r.on = Disk!Temp /\ Len(texts'[Disk!Temp]) = r.at + 1 /\ r.at + 1 <= Len(r.text)
              /\ \A i \in 1..r.at + 1 : texts'[Disk!Temp][i] = r.text[i]
  <2>1. /\ r.on = Disk!Temp /\ Len(texts[Disk!Temp]) = r.at
        /\ \A i \in 1..r.at : texts[Disk!Temp][i] = r.text[i]
    BY <1>1, <1>4, <1>14 DEF Disk!Inv, Disk!WritesItsOwn
  <2>2. PICK t : t = texts'[Disk!Temp]
    OBVIOUS
  <2>3. /\ Len(t) = r.at + 1 /\ t[r.at + 1] = r.text[r.at + 1]
        /\ \A i \in 1..r.at : t[i] = r.text[i]
    BY <1>8, <1>10, <1>11, <2>1, <2>2, IdleCall
  <2> QED
    BY <1>2, <1>4, <1>7, <2>1, <2>2, <2>3
<1>15. overlapped \/ texts'[Disk!File] = texts[Disk!File]
  <2>1. ASSUME ~overlapped PROVE r.on = Disk!Temp
    <3>1. r.alone
      BY <1>0, <1>1, <2>1 DEF Disk!Inv, Disk!Alone
    <3> QED
      BY <1>14, <3>1
  <2>2. r.on = Disk!Temp => texts'[Disk!File] = texts[Disk!File]
    BY <1>11, IdleCall
  <2> QED
    BY <2>1, <2>2
<1> QED
  BY <1>0, <1>1, <1>5, <1>6, <1>12, <1>13, <1>14, <1>15, FileAlters

(* A caller that changed the file returns; what the others have open may   *)
(* have gone elsewhere, and what they read may be the file's new text.     *)
Goes(d) ==
    /\ fileCall'[d].op = fileCall[d].op /\ fileCall'[d].from = fileCall[d].from
    /\ fileCall'[d].text = fileCall[d].text /\ fileCall'[d].at = fileCall[d].at
    /\ fileCall'[d].got = fileCall[d].got /\ fileCall'[d].alone = fileCall[d].alone
    /\ fileCall[d].could \subseteq fileCall'[d].could
ReadsOn(d) ==
    /\ fileCall'[d].on # Disk!Temp
    /\ fileCall[d].alone =>
          /\ ~overlapped'
          /\ (IF fileCall'[d].on = Disk!Gone THEN fileCall'[d].own ELSE truth') \in fileCall'[d].could
Left(c) ==
    /\ fileCall' \in [FileCallers -> Disk!Calls] /\ fileCall'[c] = Disk!Idle
    /\ \A d \in FileCallers \ {c} :
          /\ Goes(d)
          /\ fileCall[d].op \in {"read", "write", "append"} /\ fileCall'[d].on # Disk!Gone =>
                texts'[fileCall'[d].on] # Disk!Absent
          /\ fileCall[d].op = "read" /\ fileCall[d].from = Disk!File => ReadsOn(d)

LEMMA FileLeft ==
    ASSUME Disk!Inv, NEW c \in FileCallers, Disk!Changing(c), Left(c),
           texts' \in [{Disk!File, Disk!Temp} -> Disk!Texts], truth' \in Disk!Texts, overlapped' \in BOOLEAN,
           ~overlapped' => ~overlapped \/ fileCall[c].alone,
           overlapped' \/ texts'[Disk!File] = truth'
    PROVE  Disk!Inv'
<1>1. fileCall'[c].op = "idle"
  BY IdleCall DEF Left
<1>2. Disk!TypeOK'
  BY DEF Left, Disk!TypeOK
<1>3. Disk!Opened'
  BY <1>1 DEF Left, Goes, Disk!Opened
<1>4. /\ ~Disk!Changing(c)'
      /\ \A d \in FileCallers \ {c} : /\ Disk!Changing(d)' <=> Disk!Changing(d)
                                      /\ fileCall'[d].alone = fileCall[d].alone
  BY <1>1 DEF Left, Goes, Disk!Changing
<1>5. \A d \in FileCallers \ {c} : Disk!Changing(d) => ~fileCall[d].alone
  BY DEF Disk!Inv, Disk!Alone
<1>6. fileCall[c].alone => \A d \in FileCallers \ {c} : ~Disk!Changing(d)
  BY DEF Disk!Inv, Disk!Alone
<1>7. ~overlapped' => \A d \in FileCallers \ {c} : Disk!Changing(d) => fileCall[d].alone
  BY <1>6 DEF Disk!Inv, Disk!Alone
<1>8. Disk!Alone'
  BY <1>4, <1>5, <1>7 DEF Disk!Alone
<1>9. Disk!WritesItsOwn'
  <2> SUFFICES ASSUME NEW d \in FileCallers, fileCall'[d].op = "write", fileCall'[d].alone PROVE FALSE
    BY DEF Disk!WritesItsOwn
  <2>1. d # c /\ Disk!Changing(d)
    BY <1>1, <1>4 DEF Disk!Changing
  <2> QED
    BY <1>4, <1>5, <2>1
<1>10. Disk!ReadsWhole'
  <2> SUFFICES ASSUME NEW d \in FileCallers, fileCall'[d].op = "read", fileCall'[d].from = Disk!File
               PROVE  /\ fileCall'[d].on # Disk!Temp
                      /\ fileCall'[d].alone =>
                           /\ ~overlapped'
                           /\ (IF fileCall'[d].on = Disk!Gone THEN fileCall'[d].own ELSE truth') \in fileCall'[d].could
    BY DEF Disk!ReadsWhole
  <2>1. d # c /\ Goes(d) /\ fileCall[d].op = "read" /\ fileCall[d].from = Disk!File
    BY <1>1 DEF Left, Goes
  <2>2. ReadsOn(d) /\ fileCall'[d].alone = fileCall[d].alone
    BY <2>1 DEF Left, Goes
  <2> QED
    BY <2>2 DEF ReadsOn
<1>11. Disk!WholeTexts'
  <2>1. ASSUME NEW d \in FileCallers, fileCall'[d].op = "answered", fileCall'[d].from = Disk!File,
               fileCall'[d].alone
        PROVE  fileCall'[d].got \in fileCall'[d].could
    <3>1. d # c /\ Goes(d)
      BY <1>1, <2>1 DEF Left
    <3> QED
      BY <2>1, <3>1 DEF Goes, Disk!Inv, Disk!WholeTexts
  <2> QED
    BY <2>1 DEF Disk!WholeTexts
<1> QED
  BY <1>2, <1>3, <1>8, <1>9, <1>10, <1>11 DEF Disk!Inv

LEMMA FileFails ==
    ASSUME Disk!Inv, NEW c \in FileCallers, Disk!WriteFails(c)
    PROVE  Disk!Inv'
<1>0. /\ texts \in [{Disk!File, Disk!Temp} -> Disk!Texts] /\ fileCall \in [FileCallers -> Disk!Calls]
      /\ truth \in Disk!Texts /\ overlapped \in BOOLEAN /\ Disk!Changing(c)
  BY DEF Disk!Inv, Disk!TypeOK, Disk!WriteFails, Disk!Changing
<1>1. /\ texts' = [texts EXCEPT ![Disk!Temp] = Disk!Absent] /\ UNCHANGED <<truth, overlapped>>
      /\ fileCall' = [d \in FileCallers |->
             IF d = c THEN Disk!Idle
             ELSE IF fileCall[d].op \in {"read", "write", "append"} /\ fileCall[d].on = Disk!Temp
             THEN Disk!Unlinked(fileCall[d], texts[Disk!Temp]) ELSE fileCall[d]]
  BY DEF Disk!WriteFails
<1>2. /\ texts' \in [{Disk!File, Disk!Temp} -> Disk!Texts] /\ texts'[Disk!File] = texts[Disk!File]
      /\ texts[Disk!Temp] \in Disk!Texts
  BY <1>0, <1>1, IdleCall, TextShape
<1>3. ASSUME NEW d \in FileCallers \ {c}
      PROVE  /\ fileCall'[d] \in Disk!Calls /\ Goes(d)
             /\ fileCall[d].op \in {"read", "write", "append"} /\ fileCall'[d].on # Disk!Gone =>
                   texts'[fileCall'[d].on] # Disk!Absent
             /\ fileCall[d].op = "read" /\ fileCall[d].from = Disk!File => ReadsOn(d)
  <2>0. fileCall[d] \in Disk!Calls /\ Disk!Gone \in {Disk!File, Disk!Temp, Disk!Gone}
    BY <1>0
  <2>1. CASE fileCall[d].op \in {"read", "write", "append"} /\ fileCall[d].on = Disk!Temp
    <3>0. PICK r \in Disk!Calls, w \in Disk!Texts :
             r = fileCall[d] /\ w = IF r.op = "read" THEN texts[Disk!Temp] ELSE <<>>
      BY <1>2, <2>0, TextShape
    <3>1. fileCall'[d] = [r EXCEPT !.on = Disk!Gone, !.own = w]
      BY <1>1, <2>1, <3>0 DEF Disk!Unlinked
    <3>4. /\ fileCall'[d] \in Disk!Calls /\ fileCall'[d].on = Disk!Gone
          /\ fileCall'[d].op = r.op /\ fileCall'[d].from = r.from
          /\ fileCall'[d].text = r.text /\ fileCall'[d].at = r.at
          /\ fileCall'[d].got = r.got /\ fileCall'[d].alone = r.alone
          /\ fileCall'[d].could = r.could
      BY <2>0, <3>0, <3>1 DEF Disk!Calls
    <3>2. fileCall'[d] \in Disk!Calls /\ Goes(d) /\ fileCall'[d].on = Disk!Gone
      BY <3>0, <3>4 DEF Goes
    <3>3. ~(fileCall[d].op = "read" /\ fileCall[d].from = Disk!File)
      BY <2>1 DEF Disk!Inv, Disk!ReadsWhole
    <3> QED
      BY <3>2, <3>3
  <2>2. CASE ~(fileCall[d].op \in {"read", "write", "append"} /\ fileCall[d].on = Disk!Temp)
    <3>1. fileCall'[d] = fileCall[d]
      BY <1>1, <2>2
    <3>2. Goes(d)
      BY <3>1 DEF Goes
    <3>3. ASSUME fileCall[d].op \in {"read", "write", "append"}, fileCall[d].on # Disk!Gone
          PROVE  texts'[fileCall[d].on] # Disk!Absent
      <4>1. fileCall[d].on = Disk!File /\ texts[fileCall[d].on] # Disk!Absent
        BY <2>0, <2>2, <3>3 DEF Disk!Calls, Disk!Inv, Disk!Opened
      <4> QED
        BY <1>2, <4>1
    <3>4. fileCall[d].op = "read" /\ fileCall[d].from = Disk!File => ReadsOn(d)
      BY <1>1, <3>1 DEF Disk!Inv, Disk!ReadsWhole, ReadsOn
    <3> QED
      BY <2>0, <3>1, <3>2, <3>3, <3>4
  <2> QED
    BY <2>1, <2>2
<1>4. fileCall'[c] = Disk!Idle /\ fileCall' \in [FileCallers -> Disk!Calls]
  <2>1. fileCall'[c] = Disk!Idle
    BY <1>1
  <2>2. \A d \in FileCallers : fileCall'[d] \in Disk!Calls
    BY <1>3, <2>1, IdleCall
  <2> QED
    BY <1>1, <2>1, <2>2
<1>5. Left(c)
  BY <1>3, <1>4 DEF Left
<1>6. overlapped \/ texts[Disk!File] = truth
  BY DEF Disk!Inv, Disk!WholeTexts
<1> QED
  BY <1>0, <1>1, <1>2, <1>5, <1>6, FileLeft

(* The file gets a new text and the caller returns.                        *)
LEMMA FilePublishes ==
    ASSUME NEW c \in FileCallers, NEW text \in Disk!Texts, NEW m \in [FileCallers -> Disk!Calls],
           Disk!Publish(c, text, m)
    PROVE  /\ fileCall' \in [FileCallers -> Disk!Calls] /\ fileCall'[c] = Disk!Idle /\ truth' = text
           /\ \A d \in FileCallers \ {c} :
                /\ fileCall'[d].op = m[d].op /\ fileCall'[d].from = m[d].from
                /\ fileCall'[d].text = m[d].text /\ fileCall'[d].at = m[d].at
                /\ fileCall'[d].got = m[d].got /\ fileCall'[d].alone = m[d].alone
                /\ fileCall'[d].on = m[d].on /\ fileCall'[d].own = m[d].own
                /\ m[d].could \subseteq fileCall'[d].could
                /\ m[d].op = "read" => text \in fileCall'[d].could
<1>1. /\ truth' = text
      /\ fileCall' = [d \in FileCallers |->
                         IF d = c THEN Disk!Idle
                         ELSE IF m[d].op = "read" THEN [m[d] EXCEPT !.could = @ \cup {text}]
                         ELSE m[d]]
  BY DEF Disk!Publish
<1>2. fileCall'[c] = Disk!Idle
  BY <1>1
<1>3. ASSUME NEW d \in FileCallers \ {c}
      PROVE  /\ fileCall'[d] \in Disk!Calls
             /\ fileCall'[d].op = m[d].op /\ fileCall'[d].from = m[d].from
             /\ fileCall'[d].text = m[d].text /\ fileCall'[d].at = m[d].at
             /\ fileCall'[d].got = m[d].got /\ fileCall'[d].alone = m[d].alone
             /\ fileCall'[d].on = m[d].on /\ fileCall'[d].own = m[d].own
             /\ m[d].could \subseteq fileCall'[d].could
             /\ m[d].op = "read" => text \in fileCall'[d].could
  <2>1. m[d] \in Disk!Calls
    OBVIOUS
  <2>2. CASE m[d].op = "read"
    <3>1. PICK r \in Disk!Calls : r = m[d]
      BY <2>1
    <3>2. PICK u : u = r.could \cup {text}
      OBVIOUS
    <3>4. u \in SUBSET Disk!Texts
      BY <3>1, <3>2 DEF Disk!Calls
    <3>5. PICK n : n = [r EXCEPT !.could = u]
      OBVIOUS
    <3>6. fileCall'[d] = n
      BY <1>1, <2>2, <3>1, <3>2, <3>5
    <3>7. /\ n.op = r.op /\ n.from = r.from /\ n.text = r.text /\ n.at = r.at
          /\ n.got = r.got /\ n.alone = r.alone /\ n.on = r.on /\ n.own = r.own /\ n.could = u
      BY <3>1, <3>5 DEF Disk!Calls
    <3>8. n \in Disk!Calls
      BY <3>1, <3>4, <3>5 DEF Disk!Calls
    <3>3. /\ fileCall'[d] \in Disk!Calls
          /\ fileCall'[d].op = r.op /\ fileCall'[d].from = r.from
          /\ fileCall'[d].text = r.text /\ fileCall'[d].at = r.at
          /\ fileCall'[d].got = r.got /\ fileCall'[d].alone = r.alone
          /\ fileCall'[d].on = r.on /\ fileCall'[d].own = r.own
          /\ fileCall'[d].could = r.could \cup {text}
      BY <3>2, <3>6, <3>7, <3>8
    <3> QED
      BY <3>1, <3>3
  <2>3. CASE m[d].op # "read"
    <3>1. fileCall'[d] = m[d]
      BY <1>1, <2>3
    <3> QED
      BY <2>1, <2>3, <3>1
  <2> QED
    BY <2>2, <2>3
<1>4. \A d \in FileCallers : fileCall'[d] \in Disk!Calls
  BY <1>2, <1>3, IdleCall
<1> QED
  BY <1>1, <1>2, <1>3, <1>4

LEMMA FileAdds ==
    ASSUME Disk!Inv, NEW c \in FileCallers, Disk!Add(c)
    PROVE  Disk!Inv'
<1>0. /\ texts \in [{Disk!File, Disk!Temp} -> Disk!Texts] /\ fileCall \in [FileCallers -> Disk!Calls]
      /\ truth \in Disk!Texts /\ overlapped \in BOOLEAN /\ Disk!Changing(c) /\ overlapped' = overlapped
      /\ fileCall[c].op = "append" /\ fileCall[c] \in Disk!Calls
  BY DEF Disk!Inv, Disk!TypeOK, Disk!Add, Disk!Changing
<1>1. CASE fileCall[c].on # Disk!File
  <2>1. Disk!Returns(c) /\ UNCHANGED <<texts, truth, overlapped>>
    BY <1>0, <1>1 DEF Disk!Add
  <2> QED
    BY <2>1, FileReturns
<1>2. CASE fileCall[c].on = Disk!File
  <2>1. texts[Disk!File] \in Seq(Disk!Kept)
    <3>1. texts[fileCall[c].on] # Disk!Absent
      BY <1>0, <1>2, IdleCall DEF Disk!Inv, Disk!Opened
    <3>2. texts[Disk!File] \in Disk!Texts
      BY <1>0
    <3> QED
      BY <1>2, <3>1, <3>2 DEF Disk!Texts
  <2>2. fileCall[c].text \in Seq(Disk!Kept)
    BY <1>0 DEF Disk!Calls
  <2>3. PICK text \in Seq(Disk!Kept) : text = texts[Disk!File] \o fileCall[c].text
    BY <2>1, <2>2, ConcatProperties
  <2>4. texts' = [texts EXCEPT ![Disk!File] = text] /\ Disk!Publish(c, text, fileCall)
    BY <1>2, <2>3 DEF Disk!Add
  <2>5. text \in Disk!Texts /\ text # Disk!Absent
    BY TextShape
  <2>6. /\ texts' \in [{Disk!File, Disk!Temp} -> Disk!Texts]
        /\ texts'[Disk!File] = text /\ texts'[Disk!Temp] = texts[Disk!Temp]
    BY <1>0, <2>4, <2>5, IdleCall
  <2>7. /\ fileCall' \in [FileCallers -> Disk!Calls] /\ fileCall'[c] = Disk!Idle /\ truth' = text
        /\ \A d \in FileCallers \ {c} :
             /\ fileCall'[d].op = fileCall[d].op /\ fileCall'[d].from = fileCall[d].from
             /\ fileCall'[d].text = fileCall[d].text /\ fileCall'[d].at = fileCall[d].at
             /\ fileCall'[d].got = fileCall[d].got /\ fileCall'[d].alone = fileCall[d].alone
             /\ fileCall'[d].on = fileCall[d].on /\ fileCall'[d].own = fileCall[d].own
             /\ fileCall[d].could \subseteq fileCall'[d].could
             /\ fileCall[d].op = "read" => text \in fileCall'[d].could
    BY <1>0, <2>4, <2>5, FilePublishes
  <2>8. ASSUME NEW d \in FileCallers \ {c}
        PROVE  /\ Goes(d)
               /\ fileCall[d].op \in {"read", "write", "append"} /\ fileCall'[d].on # Disk!Gone =>
                     texts'[fileCall'[d].on] # Disk!Absent
               /\ fileCall[d].op = "read" /\ fileCall[d].from = Disk!File => ReadsOn(d)
    <3>1. Goes(d)
      BY <2>7 DEF Goes
    <3>2. fileCall'[d].on = fileCall[d].on /\ fileCall[d].on \in {Disk!File, Disk!Temp, Disk!Gone}
          /\ fileCall'[d].own = fileCall[d].own /\ fileCall[d].could \subseteq fileCall'[d].could
      BY <1>0, <2>7 DEF Disk!Calls
    <3>3. ASSUME fileCall[d].op \in {"read", "write", "append"}, fileCall[d].on # Disk!Gone
          PROVE  texts'[fileCall[d].on] # Disk!Absent
      <4>1. texts[fileCall[d].on] # Disk!Absent
        BY <3>3 DEF Disk!Inv, Disk!Opened
      <4> QED
        BY <2>5, <2>6, <3>2, <3>3, <4>1
    <3>4. ASSUME fileCall[d].op = "read", fileCall[d].from = Disk!File PROVE ReadsOn(d)
      <4>1. /\ fileCall[d].on # Disk!Temp
            /\ fileCall[d].alone => /\ ~overlapped
                                   /\ (IF fileCall[d].on = Disk!Gone THEN fileCall[d].own ELSE truth) \in fileCall[d].could
        BY <3>4 DEF Disk!Inv, Disk!ReadsWhole
      <4>2. truth' \in fileCall'[d].could
        BY <2>7, <3>4
      <4> QED
        BY <1>0, <3>2, <4>1, <4>2 DEF ReadsOn
    <3> QED
      BY <3>1, <3>2, <3>3, <3>4
  <2>9. Left(c)
    BY <2>7, <2>8 DEF Left
  <2> QED
    BY <1>0, <2>5, <2>6, <2>7, <2>9, FileLeft
<1> QED
  BY <1>1, <1>2

LEMMA FileMoves ==
    ASSUME Disk!Inv, NEW d \in FileCallers, NEW m, m = Disk!Moved(fileCall[d])
    PROVE  /\ m \in Disk!Calls /\ m.op = fileCall[d].op /\ m.from = fileCall[d].from
           /\ m.text = fileCall[d].text /\ m.at = fileCall[d].at /\ m.got = fileCall[d].got
           /\ m.alone = fileCall[d].alone /\ m.could = fileCall[d].could
           /\ m.op \in {"read", "write", "append"} =>
                /\ m.on \in {Disk!File, Disk!Gone}
                /\ m.on = Disk!File => fileCall[d].on = Disk!Temp
                /\ m.op = "read" =>
                      m.own = IF fileCall[d].on = Disk!File THEN texts[Disk!File] ELSE fileCall[d].own
<1>1. PICK r \in Disk!Calls, w \in Disk!Texts :
         r = fileCall[d] /\ w = IF r.op = "read" THEN texts[Disk!File] ELSE <<>>
  BY TextShape DEF Disk!Inv, Disk!TypeOK
<1>2. r.on \in {Disk!File, Disk!Temp, Disk!Gone} /\ r.own \in Disk!Texts
  BY DEF Disk!Calls
<1>3. CASE r.op \notin {"read", "write", "append"}
  BY <1>1, <1>3 DEF Disk!Moved
<1>4. CASE r.op \in {"read", "write", "append"} /\ r.on = Disk!Temp
  <2>1. m = [r EXCEPT !.on = Disk!File]
    BY <1>1, <1>4 DEF Disk!Moved
  <2>2. m = [r EXCEPT !.on = Disk!File, !.own = r.own]
    BY <2>1 DEF Disk!Calls
  <2>3. /\ m \in Disk!Calls /\ m.on = Disk!File /\ m.own = r.own
        /\ m.op = r.op /\ m.from = r.from /\ m.text = r.text /\ m.at = r.at /\ m.got = r.got
        /\ m.alone = r.alone /\ m.could = r.could
    BY <1>1, <1>2, <2>2 DEF Disk!Calls
  <2> QED
    BY <1>1, <1>4, <2>3, IdleCall
<1>5. CASE r.op \in {"read", "write", "append"} /\ r.on = Disk!File
  <2>1. m = [r EXCEPT !.on = Disk!Gone, !.own = w]
    BY <1>1, <1>5, IdleCall DEF Disk!Moved, Disk!Unlinked
  <2>2. /\ m \in Disk!Calls /\ m.on = Disk!Gone /\ m.own = w
        /\ m.op = r.op /\ m.from = r.from /\ m.text = r.text /\ m.at = r.at /\ m.got = r.got
        /\ m.alone = r.alone /\ m.could = r.could
    BY <1>1, <2>1, IdleCall DEF Disk!Calls
  <2> QED
    BY <1>1, <1>5, <2>2, IdleCall
<1>6. CASE r.op \in {"read", "write", "append"} /\ r.on = Disk!Gone
  <2>1. m = r
    BY <1>1, <1>6, IdleCall DEF Disk!Moved
  <2> QED
    BY <1>1, <1>6, <2>1, IdleCall
<1> QED
  BY <1>2, <1>3, <1>4, <1>5, <1>6

(* A caller that changed the file alone gives it its own text.             *)
LEMMA FileRenames ==
    ASSUME Disk!Inv, NEW c \in FileCallers, Disk!Rename(c)
    PROVE  Disk!Inv'
<1>0. /\ texts \in [{Disk!File, Disk!Temp} -> Disk!Texts] /\ fileCall \in [FileCallers -> Disk!Calls]
      /\ truth \in Disk!Texts /\ overlapped \in BOOLEAN /\ Disk!Changing(c)
      /\ fileCall[c].op = "write" /\ fileCall[c] \in Disk!Calls
  BY DEF Disk!Inv, Disk!TypeOK, Disk!Rename, Disk!Changing
<1>1. PICK text \in Seq(Disk!Kept) : text = fileCall[c].text
  BY <1>0 DEF Disk!Calls
<1>2. PICK m : m = [d \in FileCallers |-> Disk!Moved(fileCall[d])]
  OBVIOUS
<1>3. /\ texts' = [texts EXCEPT ![Disk!File] = texts[Disk!Temp], ![Disk!Temp] = Disk!Absent]
      /\ Disk!Publish(c, text, m) /\ overlapped' = (overlapped /\ ~fileCall[c].alone)
      /\ fileCall[c].at = Len(text) /\ texts[Disk!Temp] # Disk!Absent
  BY <1>1, <1>2 DEF Disk!Rename
<1>4. /\ texts' \in [{Disk!File, Disk!Temp} -> Disk!Texts] /\ texts'[Disk!File] = texts[Disk!Temp]
      /\ texts[Disk!Temp] \in Seq(Disk!Kept)
  <2>1. texts[Disk!Temp] \in Disk!Texts
    BY <1>0
  <2>2. texts[Disk!Temp] \in Seq(Disk!Kept)
    BY <1>3, <2>1 DEF Disk!Texts
  <2>3. texts' \in [{Disk!File, Disk!Temp} -> Disk!Texts] /\ texts'[Disk!File] = texts[Disk!Temp]
    BY <1>0, <1>3, <2>1, IdleCall, TextShape
  <2> QED
    BY <2>2, <2>3
<1>5. text \in Disk!Texts
  BY TextShape
<1>6. \A d \in FileCallers :
         /\ m[d] \in Disk!Calls /\ m[d].op = fileCall[d].op /\ m[d].from = fileCall[d].from
         /\ m[d].text = fileCall[d].text /\ m[d].at = fileCall[d].at /\ m[d].got = fileCall[d].got
         /\ m[d].alone = fileCall[d].alone /\ m[d].could = fileCall[d].could
         /\ m[d].op \in {"read", "write", "append"} =>
              /\ m[d].on \in {Disk!File, Disk!Gone}
              /\ m[d].on = Disk!File => fileCall[d].on = Disk!Temp
              /\ m[d].op = "read" =>
                    m[d].own = IF fileCall[d].on = Disk!File THEN texts[Disk!File] ELSE fileCall[d].own
  <2> TAKE d \in FileCallers
  <2>1. m[d] = Disk!Moved(fileCall[d])
    BY <1>2
  <2> QED
    BY <2>1, FileMoves
<1>7. m \in [FileCallers -> Disk!Calls]
  BY <1>2, <1>6
<1>8. /\ fileCall' \in [FileCallers -> Disk!Calls] /\ fileCall'[c] = Disk!Idle /\ truth' = text
      /\ \A d \in FileCallers \ {c} :
           /\ fileCall'[d].op = m[d].op /\ fileCall'[d].from = m[d].from
           /\ fileCall'[d].text = m[d].text /\ fileCall'[d].at = m[d].at
           /\ fileCall'[d].got = m[d].got /\ fileCall'[d].alone = m[d].alone
           /\ fileCall'[d].on = m[d].on /\ fileCall'[d].own = m[d].own
           /\ m[d].could \subseteq fileCall'[d].could
           /\ m[d].op = "read" => text \in fileCall'[d].could
  BY <1>3, <1>5, <1>7, FilePublishes
<1>9. ASSUME NEW d \in FileCallers \ {c}
      PROVE  /\ Goes(d)
             /\ fileCall[d].op \in {"read", "write", "append"} /\ fileCall'[d].on # Disk!Gone =>
                   texts'[fileCall'[d].on] # Disk!Absent
             /\ fileCall[d].op = "read" /\ fileCall[d].from = Disk!File => ReadsOn(d)
  <2>1. Goes(d)
    BY <1>6, <1>8 DEF Goes
  <2>2. fileCall[d].op \in {"read", "write", "append"} =>
           /\ fileCall'[d].on \in {Disk!File, Disk!Gone}
           /\ fileCall'[d].on = Disk!File => fileCall[d].on = Disk!Temp
           /\ fileCall[d].op = "read" =>
                 fileCall'[d].own = IF fileCall[d].on = Disk!File THEN texts[Disk!File] ELSE fileCall[d].own
    BY <1>6, <1>8
  <2>3. fileCall[d].op \in {"read", "write", "append"} /\ fileCall'[d].on # Disk!Gone =>
           texts'[fileCall'[d].on] # Disk!Absent
    BY <1>3, <1>4, <2>2
  <2>4. ASSUME fileCall[d].op = "read", fileCall[d].from = Disk!File PROVE ReadsOn(d)
    <3>1. /\ fileCall[d].on # Disk!Temp
          /\ fileCall[d].alone => /\ ~overlapped
                                 /\ (IF fileCall[d].on = Disk!Gone THEN fileCall[d].own ELSE truth) \in fileCall[d].could
      BY <2>4 DEF Disk!Inv, Disk!ReadsWhole
    <3>2. fileCall'[d].on = Disk!Gone /\ fileCall[d].on \in {Disk!File, Disk!Gone}
      BY <1>0, <2>2, <2>4, <3>1 DEF Disk!Calls
    <3>3. ~overlapped => texts[Disk!File] = truth
      BY DEF Disk!Inv, Disk!WholeTexts
    <3>4. fileCall[d].alone => fileCall'[d].own \in fileCall[d].could
      BY <2>2, <2>4, <3>1, <3>2, <3>3, IdleCall
    <3>5. fileCall[d].could \subseteq fileCall'[d].could
      BY <2>1 DEF Goes
    <3>6. fileCall[d].alone => ~overlapped'
      BY <1>3, <3>1
    <3>7. fileCall'[d].on # Disk!Temp
      BY <3>2, IdleCall
    <3> QED
      BY <3>2, <3>4, <3>5, <3>6, <3>7 DEF ReadsOn
  <2> QED
    BY <2>1, <2>3, <2>4
<1>10. Left(c)
  BY <1>8, <1>9 DEF Left
<1>11. ASSUME ~overlapped' PROVE texts[Disk!Temp] = text
  <2>1. fileCall[c].alone
    BY <1>0, <1>3, <1>11 DEF Disk!Inv, Disk!Alone
  <2>2. /\ Len(texts[Disk!Temp]) = Len(text)
        /\ \A i \in 1..Len(text) : texts[Disk!Temp][i] = text[i]
    BY <1>0, <1>1, <1>3, <2>1 DEF Disk!Inv, Disk!WritesItsOwn
  <2> QED
    BY <1>4, <2>2, SeqEqual
<1>12. overlapped' \in BOOLEAN /\ (~overlapped' => ~overlapped \/ fileCall[c].alone)
  BY <1>0, <1>3
<1>13. overlapped' \/ texts'[Disk!File] = truth'
  BY <1>4, <1>8, <1>11
<1> QED
  BY <1>0, <1>4, <1>5, <1>8, <1>10, <1>12, <1>13, FileLeft

LEMMA FileKeeps == Disk!Inv /\ [Disk!Next]_filesystem => Disk!Inv'
<1> SUFFICES ASSUME Disk!Inv, [Disk!Next]_filesystem PROVE Disk!Inv'
  OBVIOUS
<1>1. CASE UNCHANGED filesystem
  BY <1>1 DEF filesystem, Disk!Inv, Disk!TypeOK, Disk!Opened, Disk!Alone, Disk!WritesItsOwn, Disk!ReadsWhole,
              Disk!WholeTexts, Disk!Changing
<1>2. ASSUME NEW c \in FileCallers, NEW p \in {Disk!Dir, Disk!File}, NEW q \in {Disk!File, Disk!Temp},
             Disk!OpenToRead(c, p, q)
      PROVE  Disk!Inv'
  BY <1>2, FileOpens
<1>3. ASSUME NEW c \in FileCallers, Disk!Read(c) PROVE Disk!Inv'
  BY <1>3, FileReads
<1>4. ASSUME NEW c \in FileCallers, Disk!Answer(c) \/ Disk!Killed(c) PROVE Disk!Inv'
  BY <1>4, FileReturns DEF Disk!Answer, Disk!Killed
<1>5. ASSUME NEW c \in FileCallers, NEW piece \in Pieces, Disk!write_file(c, piece) PROVE Disk!Inv'
  BY <1>5, FileWrites
<1>6. ASSUME NEW c \in FileCallers, NEW piece \in Pieces, Disk!OpenToAppend(c, piece) PROVE Disk!Inv'
  BY <1>6, FileAppends
<1>7. ASSUME NEW c \in FileCallers, NEW e \in Edits, NEW all \in BOOLEAN,
             Disk!ReadToEdit(c, e[1], e[2], all)
      PROVE  Disk!Inv'
  BY <1>7, FileEditBegins
<1>8. ASSUME NEW c \in FileCallers, Disk!edit_file(c) PROVE Disk!Inv'
  BY <1>8, FileEdits
<1>9. ASSUME NEW c \in FileCallers, Disk!WritePiece(c) PROVE Disk!Inv'
  BY <1>9, FileWritesPiece
<1>10. ASSUME NEW c \in FileCallers, Disk!Rename(c) PROVE Disk!Inv'
  BY <1>10, FileRenames
<1>11. ASSUME NEW c \in FileCallers, Disk!WriteFails(c) PROVE Disk!Inv'
  BY <1>11, FileFails
<1>12. ASSUME NEW c \in FileCallers, Disk!Add(c) PROVE Disk!Inv'
  BY <1>12, FileAdds
<1> QED
  BY <1>1, <1>2, <1>3, <1>4, <1>5, <1>6, <1>7, <1>8, <1>9, <1>10, <1>11, <1>12 DEF Disk!Next

LEMMA FileRanges == Disk!Inv => Disk!RangesJoin
<1> SUFFICES ASSUME Disk!Inv, texts[Disk!File] # Disk!Absent,
                    NEW n \in 0..MaxLength + 1, NEW k \in 0..MaxLength
             PROVE  LET text == texts[Disk!File]
                    IN  Disk!read_lines_range(text, 1, n) \o Disk!read_lines_range(text, n + 1, k)
                            \o Disk!read_lines_range(text, n + k + 1, Disk!All) = text
  BY DEF Disk!RangesJoin
<1>1. texts[Disk!File] \in Seq(Disk!Kept)
  BY DEF Disk!Inv, Disk!TypeOK, Disk!Texts
<1>2. PICK text \in Seq(Disk!Kept) : text = texts[Disk!File]
  BY <1>1
<1>3. n \in Nat /\ k \in Nat
  BY ServicesAssumption
<1>4. Disk!read_lines_range(text, 1, n) \o Disk!read_lines_range(text, n + 1, k)
          \o Disk!read_lines_range(text, n + k + 1, Disk!All) = text
  BY <1>3, RangesOf
<1> QED
  BY <1>2, <1>4

\* Whoever reads the file finds it as some call left it, never half of a text,
\* whatever fails or is killed in between, as long as no two calls change it at the
\* same time (secure.rs, atomic_write); and ranges of lines put together are the text.
THEOREM TextsAreWhole == ServicesSpec => []FilesAreWhole
<1>1. ServicesInit => Disk!Inv
  BY FileStarts DEF ServicesInit
<1>2. Disk!Inv /\ [ServicesNext]_servicesVars => Disk!Inv'
  <2>1. [ServicesNext]_servicesVars => [Disk!Next]_filesystem
    BY DEF ServicesNext, servicesVars
  <2> QED
    BY <2>1, FileKeeps
<1>3. Disk!Inv => FilesAreWhole
  BY FileRanges DEF FilesAreWhole, Disk!FilesAreWhole, Disk!Inv
<1> QED
  BY <1>1, <1>2, <1>3, PTL DEF ServicesSpec
=============================================================================
