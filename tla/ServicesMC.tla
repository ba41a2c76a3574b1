----------------------------- MODULE ServicesMC -----------------------------
(***************************************************************************)
(* Model checking of the services a program uses besides its agents and    *)
(* its server.  Each has state of its own and they do not call each other, *)
(* so a behaviour is one of the service that `which' names, and the others *)
(* stay as they begin.  What two of them call alike is renamed here.       *)
(***************************************************************************)
EXTENDS ResourceLock

CONSTANTS
    Procs, Commands, Crashing, MaxEntries,            \* of MemoryStore
    Plans, MaxCalls,                                  \* of ProgressStore
    MaxContexts, MaxWrites,                           \* of Speculation
    Retries, Contexts, MaxErrors,                     \* of Recovery
    DaemonPrograms, NameOf, MaxPid, Shells,           \* of Daemon
    JobNames, MaxJobs, MaxRuns,                       \* of Scheduler
    Askers, ManagerOf, MaxQuestions, MaxAnswers,      \* of HumanQueue
    MaxRetries,                                       \* of Llm
    Requests, Targets, BackendOf, TTL, MaxTime,       \* of Database
    DbAllowed,
    FileCallers, Pieces, Edits, MaxLength,            \* of Files
    FilesAllowed,
    SecretNames, EnvGrants, SecretGrants, RevealGrants,     \* of Secrets
    SecretCallers, MaxValues, MaxLogged,
    Lifetime, RenewBefore, MaxDay, MaxOrders,         \* of Certificates
    ServePrograms, CommandLines, HttpPort             \* of Deploy

\* Plans that share steps in different orders and, under `serve', a new step.
SameSteps == {<<"a", "b">>, <<"b", "a">>}
MCPlans == [serve |-> SameSteps \cup {<<"b", "c">>}, run |-> SameSteps]
MCNameOf == [p1 |-> "n1", p2 |-> "n2"]
\* Two threads that share one manager.
MCManagerOf == [t1 |-> "m", t2 |-> "m"]
MCBackendOf == [t1 |-> "sql", t2 |-> "redis"]
\* One caller reads and writes what is in the directory, the other only writes.
MCFilesAllowed == {<<"c1", "read", "dir">>, <<"c1", "read", "file">>,
                   <<"c1", "write", "file">>, <<"c2", "write", "file">>}
MCEdits == {<<"a", "b">>}
\* One block of any kind, or a block in a try and then one on the port of HTTP.
Blocks(port, tried) ==
    [port : {port}, granted : BOOLEAN, mounts : BOOLEAN, auto : BOOLEAN, manual : BOOLEAN,
     domain : BOOLEAN, hostCert : BOOLEAN, redirect : BOOLEAN, tried : {tried}]
Permitted(bs) == {b \in bs : b.granted /\ ~b.mounts /\ ~b.hostCert}
MCServePrograms ==
    {<<b>> : b \in Blocks(443, FALSE)}
        \cup (Permitted(Blocks(443, TRUE)) \X Permitted(Blocks(80, FALSE)))
MCCommandLines == [tls : {"none", "auto", "manual", "half", "both"}, port : {0, 8443},
                   domain : BOOLEAN]

VARIABLES
    which,
    mode, table, mem, counter, pc, unsaved, call, fresh, known, gone, given,
    taskMode, rows, task, taskPc, saved, left, wanted, finished, torn, taskCalls,
    env, contexts, active, branches, writes, stacked, applied,
    error, offer, context, attempts, calls, errorStage, outcome, human, decisionLog, disk,
    handled,
    procs, pidFile, meta, cmd, commandsOverlapped,
    jobs, jobTable,
    handler, asked, pending, responses, stage, question, late, told, notifying, answers,
    config, provider, llmStage, llmOp, attempt, feedback, reply, result,
    connections, default, dbPc, dbOp, clock, dbLocks, tokens, granted,
    texts, fileCall, truth, overlapped,
    defined, held, step, log, revealed, opened,
    today, orders, files, server, job, live,
    flags, blocks, at, serveStage, sockets, failed

memory == <<mode, table, mem, counter, pc, unsaved, call, fresh, known, gone, given>>
progress == <<taskMode, rows, task, taskPc, saved, left, wanted, finished, torn, taskCalls>>
speculation == <<env, contexts, active, branches, writes, stacked, applied>>
recovery == <<error, offer, context, attempts, calls, errorStage, outcome, human, decisionLog,
              disk, handled>>
daemon == <<procs, pidFile, meta, cmd, commandsOverlapped>>
scheduler == <<jobs, jobTable>>
humans == <<handler, asked, pending, responses, stage, question, late, told, notifying, answers>>
llm == <<config, provider, llmStage, llmOp, attempt, feedback, reply, result>>
database == <<connections, default, dbPc, dbOp, clock, dbLocks, tokens, granted>>
filesystem == <<texts, fileCall, truth, overlapped>>
secrets == <<defined, held, step, log, revealed, opened>>
https == <<today, orders, files, server, job, live>>
deploy == <<flags, blocks, at, serveStage, sockets, failed>>

Memory == INSTANCE MemoryStore WITH Modes <- Commands
Progress == INSTANCE ProgressStore WITH mode <- taskMode, pc <- taskPc, calls <- taskCalls
Speculate == INSTANCE Speculation
Recover == INSTANCE Recovery WITH tried <- attempts, stage <- errorStage, log <- decisionLog
Daemons == INSTANCE Daemon WITH
    Programs <- DaemonPrograms, Commands <- Shells, overlapped <- commandsOverlapped
Jobs == INSTANCE Scheduler WITH table <- jobTable
Humans == INSTANCE HumanQueue WITH
    Callers <- Askers, counter <- asked, answer <- told, given <- answers
Llms == INSTANCE Llm WITH stage <- llmStage, op <- llmOp
Bases == INSTANCE Database WITH
    Allowed <- DbAllowed, pc <- dbPc, op <- dbOp, locks <- dbLocks
Disk == INSTANCE Files WITH
    Callers <- FileCallers, Allowed <- FilesAllowed, call <- fileCall
Vault == INSTANCE Secrets WITH
    Names <- SecretNames, Callers <- SecretCallers, MaxEntries <- MaxLogged, told <- revealed
Https == INSTANCE Certificates
Up == INSTANCE Deploy WITH Programs <- ServePrograms, stage <- serveStage

ASSUME ServicesAssumption ==
    /\ MaxEntries \in Nat /\ Commands \subseteq {"serve", "run"}
    \* One process at a time has the state file, and `run' is not killed.
    /\ \A p, q \in Procs : p = q
    /\ "run" \notin Crashing
    \* A plan names a step once; under `run' they are all about the same steps.
    /\ DOMAIN Plans \subseteq {"serve", "run"}
    /\ \A m \in DOMAIN Plans : \A p, q \in Plans[m] :
           /\ p \in Seq(Progress!Names) /\ Progress!IsInjective(p)
           /\ m = "run" => Progress!ToSet(p) = Progress!ToSet(q)
    /\ RevealGrants \subseteq SecretNames \cup {"sealed", "bearer"}
    /\ Lifetime \in Nat /\ RenewBefore \in Nat
    /\ \A b \in ServePrograms : b \in Seq(Up!Block)
    /\ CommandLines \subseteq Up!CommandLine /\ HttpPort \in Nat
    /\ "none" \notin Targets /\ TTL \in Nat
    /\ Retries \in Nat
    \* The questions to one queue are numbered by one manager.
    /\ \A c, d \in Askers : ManagerOf[c] = ManagerOf[d]
    /\ MaxQuestions \in Nat /\ MaxRetries \in Nat
    /\ "absent" \notin Pieces /\ (\A e \in Edits : e[2] # "absent") /\ MaxLength \in Nat

Services == {"lock", "memory", "progress", "speculation", "recovery", "daemon", "scheduler",
             "human", "llm", "database", "files", "secrets", "https", "deploy"}
Unconfigured == CHOOSE c \in Llms!Sources : TRUE

ServicesInit ==
    /\ which \in Services
    /\ which # "memory" => mode = CHOOSE m \in Commands : TRUE
    /\ which # "progress" => taskMode = CHOOSE m \in DOMAIN Plans : TRUE
    /\ which # "recovery" => human = FALSE
    /\ which # "human" => handler = "queue"
    /\ which # "llm" => config = [environ |-> Unconfigured, dotenv |-> Unconfigured]
    /\ which # "secrets" => defined = {}
    /\ which # "deploy" => /\ flags = CHOOSE f \in CommandLines : TRUE
                           /\ blocks = CHOOSE p \in ServePrograms : TRUE
    /\ Init /\ Memory!Init /\ Progress!Init /\ Speculate!Init /\ Recover!Init /\ Daemons!Init
    /\ Jobs!Init /\ Humans!Init /\ Llms!Init /\ Bases!Init /\ Disk!Init /\ Vault!Init
    /\ Https!Init /\ Up!Init

ServicesNext ==
    /\ UNCHANGED which
    /\ IF which = "lock" THEN Next ELSE UNCHANGED vars
    /\ IF which = "progress" THEN Progress!Next ELSE UNCHANGED progress
    /\ IF which = "speculation" THEN Speculate!Next ELSE UNCHANGED speculation
    /\ IF which = "scheduler" THEN Jobs!Next ELSE UNCHANGED scheduler
    /\ IF which = "human" THEN Humans!Next ELSE UNCHANGED humans
    /\ IF which = "llm" THEN Llms!Next ELSE UNCHANGED llm
    /\ IF which = "database" THEN Bases!Next ELSE UNCHANGED database
    /\ IF which = "secrets" THEN Vault!Next ELSE UNCHANGED secrets
    /\ IF which = "https" THEN Https!Next ELSE UNCHANGED https
    /\ IF which = "deploy" THEN Up!Next ELSE UNCHANGED deploy
    /\ IF which = "recovery" THEN Recover!Next ELSE UNCHANGED recovery
    /\ IF which = "files" THEN Disk!Next ELSE UNCHANGED filesystem
    /\ IF which = "memory" THEN Memory!Next ELSE UNCHANGED memory
    /\ IF which = "daemon" THEN Daemons!Next ELSE UNCHANGED daemon

servicesVars == <<which, vars, memory, progress, speculation, recovery, daemon, scheduler,
                  humans, llm, database, filesystem, secrets, https, deploy>>
ServicesSpec == ServicesInit /\ [][ServicesNext]_servicesVars
-----------------------------------------------------------------------------
\* What remember acknowledged is recalled by whatever process runs, after any
\* crash, until it is forgotten, and what was forgotten never comes back.
MemoryIsKept ==
    which = "memory" => Memory!KnowledgeRetained /\ Memory!ForgottenStaysForgotten

\* The next process resumes a task where the last call, or program, left it, and
\* a complete task has had every step of its plan completed.
TaskIsResumed == which = "progress" => Progress!ResumesThere /\ Progress!NoStepSkipped

\* A speculation that is rolled back leaves nothing behind, nested or not.
SpeculationUndone == which = "speculation" => Speculate!SpeculationUndone

\* An error is handled with the strategies in their order, each within its bounds.
RecoveryInOrder == which = "recovery" => Recover!RecoveryInOrder

\* A daemon that was not told to end is the one its pid file names.
DaemonIsKnown == which = "daemon" => Daemons!DaemonIsKnown

\* A job that is cancelled runs at most the once it was about to, and one that
\* may still start can be cancelled.
CancelStops == [][which = "scheduler" => Jobs!CancelStep]_servicesVars

\* Whoever asked a human gets the answer to its own question, and what a decision
\* is taken for was named by the reply of the model that was asked.
AnswersAreTheirs ==
    /\ [][which = "human" => Humans!AnswerStep]_servicesVars
    /\ [](which = "llm" => Llms!DecisionIsNamed)

\* The default is an open connection that the program may use, and a redis lock
\* has one holder.
ConnectionsAndLocks == which = "database" => Bases!ConnectionsAndLocks

\* Whoever reads a file finds it as a call left it, and ranges of lines join.
FilesAreWhole == which = "files" => Disk!FilesAreWhole

\* No secret is in a text but through a reveal that is in the log.
SecretsAreRecorded == which = "secrets" => Vault!SecretsAreRecorded

\* What serves is what was asked for, with a certificate and its own key, and what
\* failed serves nothing.
DeployedAsAsked == /\ which = "deploy" => Up!DeployedAsAsked
                   /\ which = "https" => Https!CertificateIsWhole
=============================================================================
