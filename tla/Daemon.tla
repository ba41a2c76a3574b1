------------------------------- MODULE Daemon -------------------------------
(***************************************************************************)
(* The daemon manager: start, stop and restart of background processes,    *)
(* known by a pid file per name (synsema-runtime/src/daemon.rs).  Commands *)
(* take several steps, between which a daemon may die; a process that was  *)
(* told to end may need some time.                                         *)
(***************************************************************************)
EXTENDS Naturals, Sequences, FiniteSets

CONSTANTS
    Programs,    \* paths of programs
    NameOf,      \* [Programs -> names]: the stem of the path
    MaxPid,      \* bounds the processes of a behaviour
    Commands     \* commands that run at the same time: command line processes

Names == {NameOf[p] : p \in Programs}
None == 0
Nothing == "none"

VARIABLES
    procs,     \* pid -> [program, state]: "up", "ending" or "gone"
    pidFile,   \* name -> the pid in its file, or None
    meta,      \* name -> the program its meta file tells, or Nothing
    cmd,       \* what each command line process does
    overlapped \* names that two commands were busy with at the same time
vars == <<procs, pidFile, meta, cmd, overlapped>>

Idle == [op |-> "idle", name |-> Nothing, program |-> Nothing, pid |-> None]
Running(pid) == pid \in DOMAIN procs /\ procs[pid].state # "gone"

Init == /\ procs = <<>>
        /\ pidFile = [n \in Names |-> None] /\ meta = [n \in Names |-> Nothing]
        /\ cmd = [c \in Commands |-> Idle] /\ overlapped = {}

At(c, op) == cmd[c].op = op
Goto(c, op) == cmd' = [cmd EXCEPT ![c].op = op]
Ends(c) == cmd' = [cmd EXCEPT ![c] = Idle]
-----------------------------------------------------------------------------
(* daemon_start: the pid file names a process that runs.                   *)
AlreadyRunning(name) == pidFile[name] # None /\ Running(pidFile[name])

StartOf(c, p) == [op |-> "spawn", name |-> NameOf[p], program |-> p, pid |-> None]
Start(c, p) ==
    /\ At(c, "idle")
    /\ cmd' = [cmd EXCEPT ![c] = IF AlreadyRunning(NameOf[p]) THEN Idle ELSE StartOf(c, p)]
    /\ UNCHANGED <<procs, pidFile, meta>>

Spawn(c) ==
    /\ At(c, "spawn") /\ Cardinality(DOMAIN procs) < MaxPid
    /\ LET pid == Cardinality(DOMAIN procs) + 1
       IN  /\ procs' = [i \in 1..pid |-> IF i < pid THEN procs[i]
                                         ELSE [program |-> cmd[c].program, state |-> "up"]]
           /\ cmd' = [cmd EXCEPT ![c].op = "record", ![c].pid = pid]
    /\ UNCHANGED <<pidFile, meta>>
SpawnFails(c) == /\ At(c, "spawn") /\ Ends(c)
                 /\ UNCHANGED <<procs, pidFile, meta>>

Record(c) ==
    /\ At(c, "record")
    /\ pidFile' = [pidFile EXCEPT ![cmd[c].name] = cmd[c].pid]
    /\ meta' = [meta EXCEPT ![cmd[c].name] = cmd[c].program]
    /\ Ends(c)
    /\ UNCHANGED procs

(* daemon_stop, of a name or as the first half of a restart.  A process    *)
(* that is not there any more only loses its file.                         *)
Stop(c, n, restarts) ==
    /\ At(c, "idle")
    /\ cmd' = [cmd EXCEPT ![c] = [op |-> IF restarts THEN "kill again" ELSE "kill", name |-> n,
                                  program |-> meta[n], pid |-> pidFile[n]]]
    /\ UNCHANGED <<procs, pidFile, meta>>
Told(pid) == IF Running(pid) /\ procs[pid].state = "up"
             THEN [procs EXCEPT ![pid].state = "ending"] ELSE procs
(* Fault: the file goes although the process stays.                        *)
ForgetOnly(c) ==
    /\ cmd[c].op \in {"kill", "kill again"}
    /\ Goto(c, IF At(c, "kill") THEN "forget" ELSE "forget again")
    /\ UNCHANGED <<procs, pidFile, meta>>
Kill(c) ==
    /\ cmd[c].op \in {"kill", "kill again"}
    /\ procs' = IF cmd[c].pid = None THEN procs ELSE Told(cmd[c].pid)
    /\ Goto(c, IF At(c, "kill") THEN "forget" ELSE "forget again")
    /\ UNCHANGED <<pidFile, meta>>
Forget(c) ==
    /\ cmd[c].op \in {"forget", "forget again"}
    /\ pidFile' = [pidFile EXCEPT ![cmd[c].name] = None]
    /\ IF At(c, "forget") THEN Ends(c) ELSE Goto(c, "wait")
    /\ UNCHANGED <<procs, meta>>

(* daemon_restart waits half a second, then starts the program that the    *)
(* meta file told.                                                         *)
StartAgain(c) ==
    /\ At(c, "wait")
    /\ IF cmd[c].program = Nothing \/ AlreadyRunning(cmd[c].name) THEN Ends(c)
       ELSE cmd' = [cmd EXCEPT ![c] = StartOf(c, cmd[c].program)]
    /\ UNCHANGED <<procs, pidFile, meta>>

(* A daemon dies by itself, or ends as it was told.                        *)
Die(pid) ==
    /\ Running(pid)
    /\ procs' = [procs EXCEPT ![pid].state = "gone"]
    /\ UNCHANGED <<pidFile, meta, cmd>>

Busy(c) == cmd'[c].op # "idle"
Overlap == overlapped' = overlapped \cup
    {n \in Names : \E c, d \in Commands : /\ c # d /\ Busy(c) /\ Busy(d)
                                        /\ cmd'[c].name = n /\ cmd'[d].name = n}

Next == /\ \/ \E c \in Commands :
                 \/ \E p \in Programs : Start(c, p)
                 \/ Spawn(c) \/ SpawnFails(c) \/ Record(c)
                 \/ \E n \in Names, r \in BOOLEAN : Stop(c, n, r)
                 \/ Kill(c) \/ Forget(c) \/ StartAgain(c)
           \/ \E pid \in DOMAIN procs : Die(pid)
        /\ Overlap
Spec == Init /\ [][Next]_vars
-----------------------------------------------------------------------------
\* A daemon that was not told to end is the one its pid file names, so that it
\* can be stopped and there is no other of its name, whenever no command works
\* on that name: whatever fails or dies in between, and whatever commands do
\* to other names at the same time.  Of two commands on one name at once this
\* is not so: both may find no pid file.
DaemonIsKnown ==
    \A pid \in DOMAIN procs :
        LET n == NameOf[procs[pid].program]
        IN  (/\ procs[pid].state = "up" /\ n \notin overlapped
             /\ \A c \in Commands : At(c, "idle") \/ cmd[c].name # n)
               => pidFile[n] = pid
-----------------------------------------------------------------------------
\* Why: of a name that no two commands were busy with, what runs follows from
\* what the one command that works on it has done.
Command == [op : {"idle", "spawn", "record", "kill", "kill again", "forget", "forget again", "wait"},
            name : Names \cup {Nothing}, program : Programs \cup {Nothing}, pid : Nat]
Works(c, n) == cmd[c].op # "idle" /\ cmd[c].name = n
Up(n) == {pid \in DOMAIN procs : procs[pid].state = "up" /\ NameOf[procs[pid].program] = n}

TypeOK ==
    /\ procs \in Seq([program : Programs, state : {"up", "ending", "gone"}])
    /\ pidFile \in [Names -> Nat] /\ meta \in [Names -> Programs \cup {Nothing}]
    /\ cmd \in [Commands -> Command] /\ overlapped \subseteq Names
Named ==
    /\ \A n \in Names : meta[n] # Nothing => NameOf[meta[n]] = n
    /\ \A c \in Commands :
           /\ cmd[c].op # "idle" => cmd[c].name \in Names
           /\ cmd[c].op \in {"spawn", "record"} => cmd[c].program \in Programs
           /\ cmd[c].op # "idle" /\ cmd[c].program # Nothing =>
                  cmd[c].program \in Programs /\ NameOf[cmd[c].program] = cmd[c].name
           /\ cmd[c].op \in {"spawn", "record"} => NameOf[cmd[c].program] = cmd[c].name
OneWorks ==
    \A n \in Names \ overlapped : \A c, d \in Commands : Works(c, n) /\ Works(d, n) => c = d
Known ==
    \A n \in Names \ overlapped :
        /\ \A c \in Commands : Works(c, n) =>
               /\ cmd[c].op \in {"spawn", "forget", "forget again", "wait"} => Up(n) = {}
               /\ cmd[c].op = "record" => Up(n) \subseteq {cmd[c].pid}
               /\ cmd[c].op \in {"kill", "kill again"} => Up(n) \subseteq {pidFile[n]} /\ cmd[c].pid = pidFile[n]
        /\ (\A c \in Commands : ~Works(c, n)) => Up(n) \subseteq {pidFile[n]}
Inv == TypeOK /\ Named /\ OneWorks /\ Known
=============================================================================
