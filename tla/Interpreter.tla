----------------------------- MODULE Interpreter ----------------------------
(***************************************************************************)
(* The control of a program in synsema-core/src/interpreter.rs and the     *)
(* scopes of capabilities that synsema-runtime/src/engine.rs and serve.rs  *)
(* wire into it.  The Rust call stack is a sequence of frames, one for     *)
(* each open construct; `Result<SynValue, Control>' is the signal that the *)
(* innermost one is handing to the one around it.  Values, names and the   *)
(* constructs that keep no state (when, match, let) are abstracted: at any *)
(* point the program may do whatever a program can.                        *)
(***************************************************************************)
EXTENDS Capabilities, Naturals, Sequences, FiniteSets, SequencesExt

CONSTANTS
    MaxRecursion,   \* MAX_RECURSION: calls open at a time
    MaxFrames,      \* bound: constructs open at a time
    Modules,        \* the files that `use' names
    NoModule,
    AutoGrants,     \* granted without a `require' outside of secure mode
    Requirable,     \* the capabilities that `require' names
    Declarations,   \* the sets that tasks declare with `require'
    Ceilings        \* what --sandbox and --cap-set may be

ASSUME InterpreterAssumption ==
    /\ MaxRecursion \in Nat /\ MaxFrames \in Nat
    /\ NoModule \notin Modules
    /\ AutoGrants \subseteq Cap /\ Requirable \subseteq Cap
    /\ Declarations \subseteq SUBSET Cap /\ Ceilings \subseteq SUBSET Cap

Blocks == {"loop", "try", "recover", "sandbox", "task", "module"}
Calls == {"task", "builtin", "assert", "tool"}
Signals == {"none", "ok", "error", "give", "stop"}
Frame == [kind : Blocks \cup Calls, mod : Modules \cup {NoModule}, decl : SUBSET Cap]

(* A program is what `run' executes, an agent, or an item of parallel_map. *)
Modes == {"program", "test", "serve"}

VARIABLES
    mode, phase,           \* the command, and how far it is
    frames,                \* the open constructs, outermost first
    signal,                \* how the innermost one ended, if it has
    depth,                 \* recursion_depth
    sandboxDepth,          \* sandbox_depth
    toolDepth,             \* tool_scope_depth
    granted,               \* CapabilitySet.granted
    saved, savedTool,      \* the stacks of the sandbox hook and of the tool hook
    ceiling,               \* CapabilitySet.ceiling
    base,                  \* the grants of a fresh interpreter of a server
    loading, cached,       \* loading_modules, module_cache
    collectors,            \* the frames of exports_collector over the first
    dirty                  \* whether output, agent definitions or a stream are left

scoping == <<sandboxDepth, toolDepth, granted, saved, savedTool>>
importing == <<loading, cached, collectors>>
host == <<mode, ceiling, base>>
vars == <<mode, phase, frames, signal, depth, sandboxDepth, toolDepth, granted,
          saved, savedTool, ceiling, base, loading, cached, collectors, dirty>>

(* Fault: the automatic grants come before the ceiling.                  *)
WiredUnfiltered(auto, given) ==
    /\ granted = auto \cup GrantAll({}, ceiling, given)
    /\ mode = "test" => auto = AutoGrants /\ given = {}
    /\ mode = "serve" => ceiling = Cap

(* run_inner and setup_swarm_interpreter give nothing but the automatic     *)
(* grants, build_worker_interp and build_base_interp those of the program  *)
(* too; tests and agents are never secure; requests have no ceiling.       *)
Wired(auto, given) ==
    /\ granted = GrantAll({}, ceiling, auto \cup given)
    /\ mode = "test" => auto = AutoGrants /\ given = {}
    /\ mode = "serve" => ceiling = Cap

Init ==
    /\ mode \in Modes
    /\ ceiling \in Ceilings \cup {Cap}
    /\ \E auto \in {{}, AutoGrants}, given \in SUBSET Requirable : Wired(auto, given)
    /\ base = IF mode = "serve" THEN granted ELSE {}
    /\ phase = CASE mode = "program" -> "unit"
                 [] mode = "test"    -> "setup"
                 [] mode = "serve"   -> "idle"
    /\ frames = <<>> /\ signal = "none" /\ depth = 0
    /\ sandboxDepth = 0 /\ toolDepth = 0 /\ saved = <<>> /\ savedTool = <<>>
    /\ loading = {} /\ cached = {} /\ collectors = 0
    /\ dirty = FALSE
-----------------------------------------------------------------------------
(* Statements of a block.                                                  *)

Inside(kinds) == frames # <<>> /\ Last(frames).kind \in kinds
Running == signal = "none" /\ phase \in {"setup", "unit"}
Executing == Running /\ (frames = <<>> \/ Inside(Blocks))

Signalled(s) == /\ signal' = s
                /\ UNCHANGED <<host, phase, frames, depth, scoping, importing, dirty>>

(* Fault: only tools make `require' a no-op.                             *)
GrantableOutOfTool == toolDepth = 0

(* `require' is a no-op in a sandbox and in a tool.                        *)
Grantable == sandboxDepth = 0 /\ toolDepth = 0

Require(c) ==
    /\ Executing
    /\ granted' = IF Grantable THEN Grant(granted, ceiling, c) ELSE granted
    /\ UNCHANGED <<host, phase, frames, signal, depth, sandboxDepth, toolDepth,
                   saved, savedTool, importing, dirty>>

(* An expression, a check or a builtin fails; a module is not found, does  *)
(* not parse, or has a `serve' or a `require' at its top.                  *)
Raise == /\ Executing \/ (Running /\ Inside({"builtin", "tool"}))
         /\ Signalled("error")

Stop == Executing /\ Signalled("stop")

Give == Executing /\ Signalled("give")

(* The last statement of the block, or the builtin, is done.               *)
EndOfBlock == /\ Executing \/ (Running /\ Inside({"builtin"}))
              /\ Signalled("ok")

(* print, log and `agent' definitions, in a request.                       *)
Emit ==
    /\ Executing /\ mode = "serve"
    /\ dirty' = TRUE
    /\ UNCHANGED <<host, phase, frames, signal, depth, scoping, importing>>
-----------------------------------------------------------------------------
(* Opening a construct.                                                    *)

(* The bound leaves room for the call that assert_error and call_tool make. *)
Room(kind) == IF kind \in {"assert", "tool"} THEN 2 ELSE 1

Open(kind, m, d) ==
    /\ Len(frames) + Room(kind) <= MaxFrames
    /\ frames' = Append(frames, [kind |-> kind, mod |-> m, decl |-> d])
    /\ UNCHANGED <<host, phase, signal, dirty>>

EnterBlock(kind) ==
    /\ Executing
    /\ Open(kind, NoModule, {})
    /\ UNCHANGED <<depth, scoping, importing>>

EnterSandbox ==
    /\ Executing
    /\ Open("sandbox", NoModule, {})
    /\ sandboxDepth' = sandboxDepth + 1
    /\ saved' = Append(saved, granted)
    /\ granted' = {}
    /\ UNCHANGED <<depth, toolDepth, savedTool, importing>>

(* A task or a builtin is called: by the program, by a builtin that takes  *)
(* a task (apply, where, sort_by, ...), by assert_error or by call_tool.   *)
Call(kind) ==
    /\ Running
    /\ depth < MaxRecursion
    /\ Open(kind, NoModule, {})
    /\ depth' = depth + 1
    /\ UNCHANGED <<scoping, importing>>

TooDeep == Running /\ depth = MaxRecursion /\ Signalled("error")

(* Fault: what the tool declares is added to what it finds.              *)
ToolInherits(d) == granted \cup {c \in d : Check(granted, ceiling, c)}

(* What the tool declares of what is allowed where it is called.           *)
ToolGrants(d) == {c \in d : Check(granted, ceiling, c)}

CallTool(d) ==
    /\ Executing
    /\ depth < MaxRecursion
    /\ Open("tool", NoModule, d)
    /\ depth' = depth + 1
    /\ toolDepth' = toolDepth + 1
    /\ savedTool' = Append(savedTool, granted)
    /\ granted' = ToolGrants(d)
    /\ UNCHANGED <<sandboxDepth, saved, importing>>

(* A module that is cached is not run again.                               *)
Import(m) ==
    /\ Executing
    /\ m \notin loading \cup cached
    /\ Open("module", m, {})
    /\ loading' = loading \cup {m}
    /\ collectors' = collectors + 1
    /\ UNCHANGED <<depth, scoping, cached>>

CircularImport == Executing /\ loading # {} /\ Signalled("error")
-----------------------------------------------------------------------------
(* The innermost construct ends and hands a signal to the one around it.   *)

Outcome(kind, s) ==
    CASE kind = "loop" /\ s = "stop"    -> "ok"
      [] kind = "task" /\ s = "give"    -> "ok"
      [] kind = "assert" /\ s = "error" -> "ok"
      [] kind = "assert" /\ s = "ok"    -> "error"
      [] OTHER                          -> s

(* A block goes on after a construct that ended well; assert_error and     *)
(* call_tool end with their only call.                                     *)
Close(s) ==
    /\ frames' = Front(frames)
    /\ signal' = IF s = "ok" /\ ~(Len(frames) > 1 /\ frames[Len(frames) - 1].kind \in {"assert", "tool"})
                 THEN "none" ELSE s
    /\ UNCHANGED <<host, phase, dirty>>

Ended(kinds) == signal # "none" /\ Inside(kinds)
Handed == Outcome(Last(frames).kind, signal)

(* `each' and `while' go on with the next turn.                            *)
NextTurn == Ended({"loop"}) /\ signal = "ok" /\ Signalled("none")

LeaveBlock ==
    /\ Ended({"loop", "try", "recover"})
    /\ ~(Inside({"try"}) /\ signal = "error")
    /\ Close(Handed)
    /\ UNCHANGED <<depth, scoping, importing>>

(* A `while' reaches its million turns.                                    *)
TooManyTurns ==
    /\ Ended({"loop"})
    /\ signal = "ok"
    /\ Close("error")
    /\ UNCHANGED <<depth, scoping, importing>>

(* Only errors are recovered; `give' and `stop' pass.                      *)
Recover ==
    /\ Ended({"try"})
    /\ signal = "error"
    /\ frames' = Append(Front(frames), [Last(frames) EXCEPT !.kind = "recover"])
    /\ signal' = "none"
    /\ UNCHANGED <<host, phase, depth, scoping, importing, dirty>>

(* Fault: an error leaves without bringing back the grants.              *)
LeaveSandboxUnlessError ==
    /\ Ended({"sandbox"})
    /\ Close(signal)
    /\ sandboxDepth' = sandboxDepth - 1
    /\ saved' = Front(saved)
    /\ granted' = IF signal = "error" THEN granted ELSE Last(saved)
    /\ UNCHANGED <<depth, toolDepth, savedTool, importing>>

LeaveSandbox ==
    /\ Ended({"sandbox"})
    /\ Close(signal)
    /\ granted' = Last(saved)
    /\ saved' = Front(saved)
    /\ sandboxDepth' = sandboxDepth - 1
    /\ UNCHANGED <<depth, toolDepth, savedTool, importing>>

LeaveCall ==
    /\ Ended({"task", "builtin", "assert"})
    /\ Close(Handed)
    /\ depth' = depth - 1
    /\ UNCHANGED <<scoping, importing>>

LeaveTool ==
    /\ Ended({"tool"})
    /\ Close(signal)
    /\ depth' = depth - 1
    /\ toolDepth' = toolDepth - 1
    /\ granted' = Last(savedTool)
    /\ savedTool' = Front(savedTool)
    /\ UNCHANGED <<sandboxDepth, saved, importing>>

(* Fault: a module that failed stays among those that are loading.       *)
LeaveModuleOnceLoaded ==
    /\ Ended({"module"})
    /\ Close(signal)
    /\ collectors' = collectors - 1
    /\ loading' = IF signal = "ok" THEN loading \ {Last(frames).mod} ELSE loading
    /\ cached' = IF signal = "ok" THEN cached \cup {Last(frames).mod} ELSE cached
    /\ UNCHANGED <<depth, scoping>>

LeaveModule ==
    /\ Ended({"module"})
    /\ Close(signal)
    /\ collectors' = collectors - 1
    /\ loading' = loading \ {Last(frames).mod}
    /\ cached' = IF signal = "ok" THEN cached \cup {Last(frames).mod} ELSE cached
    /\ UNCHANGED <<depth, scoping>>
-----------------------------------------------------------------------------
(* Programs, tests and requests.                                           *)

AtEnd == frames = <<>> /\ signal # "none"

Phase(p) == /\ phase' = p
            /\ signal' = "none"
            /\ UNCHANGED <<host, frames, depth, scoping, importing, dirty>>

(* A program, an agent or an item of parallel_map is over.                 *)
EndOfProgram == AtEnd /\ mode = "program" /\ Phase("over")

(* The tests run if the set-up did not fail, and none stops the others.    *)
EndOfSetup ==
    /\ AtEnd /\ mode = "test" /\ phase = "setup"
    /\ Phase(IF signal = "ok" THEN "idle" ELSE "over")

StartTest == mode = "test" /\ phase = "idle" /\ Phase("unit")

EndOfTest == AtEnd /\ mode = "test" /\ phase = "unit" /\ Phase("idle")

EndOfTests == mode = "test" /\ phase = "idle" /\ Phase("over")

StartRequest(streams) ==
    /\ mode = "serve" /\ phase = "idle"
    /\ phase' = "unit"
    /\ dirty' = (dirty \/ streams)
    /\ UNCHANGED <<host, frames, signal, depth, scoping, importing>>

(* with_serve_interp: reset_for_request, and the grants of the preamble.   *)
EndOfRequest ==
    /\ AtEnd /\ mode = "serve"
    /\ phase' = "idle" /\ signal' = "none"
    /\ dirty' = FALSE /\ depth' = 0
    /\ granted' = base
    /\ UNCHANGED <<host, frames, sandboxDepth, toolDepth, saved, savedTool, importing>>

(* Fault: the interpreter whose request panicked is used again.          *)
PanicAndKeep ==
    /\ Running /\ mode = "serve"
    /\ phase' = "idle" /\ frames' = <<>>
    /\ dirty' = FALSE /\ depth' = 0
    /\ granted' = base
    /\ UNCHANGED <<host, signal, sandboxDepth, toolDepth, saved, savedTool, importing>>

(* A builtin panics: the interpreter is dropped, the next request builds   *)
(* another.                                                                *)
Panic ==
    /\ Running /\ mode = "serve"
    /\ phase' = "idle" /\ frames' = <<>> /\ signal' = "none"
    /\ dirty' = FALSE /\ depth' = 0
    /\ granted' = base
    /\ sandboxDepth' = 0 /\ toolDepth' = 0 /\ saved' = <<>> /\ savedTool' = <<>>
    /\ loading' = {} /\ cached' = {} /\ collectors' = 0
    /\ UNCHANGED host

Terminated == phase = "over" /\ UNCHANGED vars
-----------------------------------------------------------------------------
Statement == \/ \E c \in Requirable : Require(c)
             \/ Emit \/ Raise \/ Stop \/ Give \/ EndOfBlock

Enter == \/ \E kind \in {"loop", "try"} : EnterBlock(kind)
         \/ \E kind \in {"task", "builtin", "assert"} : Call(kind)
         \/ \E d \in Declarations : CallTool(d)
         \/ \E m \in Modules : Import(m)
         \/ EnterSandbox \/ TooDeep \/ CircularImport

Leave == \/ NextTurn \/ LeaveBlock \/ TooManyTurns \/ Recover
         \/ LeaveSandbox \/ LeaveCall \/ LeaveTool \/ LeaveModule

Unit == \/ EndOfProgram \/ EndOfSetup \/ StartTest \/ EndOfTest \/ EndOfTests
        \/ \E streams \in BOOLEAN : StartRequest(streams)
        \/ EndOfRequest \/ Panic

Next == Statement \/ Enter \/ Leave \/ Unit \/ Terminated

Spec == Init /\ [][Next]_vars
-----------------------------------------------------------------------------
TypeOK ==
    /\ mode \in Modes /\ phase \in {"setup", "idle", "unit", "over"}
    /\ frames \in Seq(Frame) /\ Len(frames) <= MaxFrames
    /\ signal \in Signals
    /\ depth \in 0..MaxRecursion
    /\ sandboxDepth \in Nat /\ toolDepth \in Nat /\ collectors \in Nat
    /\ granted \subseteq Cap /\ ceiling \subseteq Cap /\ base \subseteq Cap
    /\ saved \in Seq(SUBSET Cap) /\ savedTool \in Seq(SUBSET Cap)
    /\ loading \subseteq Modules /\ cached \subseteq Modules
    /\ dirty \in BOOLEAN

At(fs, kinds) == {i \in DOMAIN fs : fs[i].kind \in kinds}
Positions(kinds) == At(frames, kinds)

(* Every counter and stack that a construct raises is as high as the       *)
(* number of such constructs that are open, however the others were left.  *)
Balanced ==
    /\ depth = Cardinality(Positions(Calls))
    /\ sandboxDepth = Cardinality(Positions({"sandbox"})) /\ Len(saved) = sandboxDepth
    /\ toolDepth = Cardinality(Positions({"tool"})) /\ Len(savedTool) = toolDepth
    /\ collectors = Cardinality(Positions({"module"}))
    /\ loading = {frames[i].mod : i \in Positions({"module"})}

(* Nothing is allowed while a sandbox is open, whatever the code in it     *)
(* calls, requires, imports or recovers from.                              *)
SandboxIsolates == Positions({"sandbox"}) # {} => granted = {}

(* A tool, and all it calls, is allowed only what it declared.             *)
ToolLeastPrivilege ==
    \A i \in Positions({"tool"}), c \in Cap :
        Allows(granted, c) => Allows(frames[i].decl, c)

(* No set, current or to be brought back, has a capability over the        *)
(* ceiling of the host: not in agents and workers either.                  *)
Sets == {granted, base} \cup Range(saved) \cup Range(savedTool)
CeilingHolds == \A set \in Sets : \A c \in set : Within(ceiling, c)

(* A request finds the interpreter as a new one would be, but for the      *)
(* modules it has cached.                                                  *)
FreshRequest ==
    mode = "serve" /\ phase = "idle" =>
        /\ frames = <<>> /\ depth = 0 /\ sandboxDepth = 0 /\ toolDepth = 0
        /\ saved = <<>> /\ savedTool = <<>> /\ granted = base
        /\ loading = {} /\ collectors = 0 /\ ~dirty

(* A module is never run again while it runs or once it has loaded.        *)
ModulesRunOnce ==
    \A i, j \in Positions({"module"}) :
        frames[i].mod \notin cached /\ (frames[i].mod = frames[j].mod => i = j)

(* The scopes that are open, with what is to be brought back after each.   *)
Scope == {"sandbox", "tool"}
Below(i, kind) == Cardinality({j \in Positions({kind}) : j <= i})
Before(i) == IF frames[i].kind = "sandbox" THEN saved[Below(i, "sandbox")]
                                           ELSE savedTool[Below(i, "tool")]
Rank(i) == Cardinality({j \in Positions(Scope) : j <= i})
OpenScope(n) == CHOOSE i \in {j \in Positions(Scope) : Rank(j) = n} : TRUE
ScopesOpen == Cardinality(Positions(Scope))

(* The last set is the one that counts.                                    *)
ScopeSets == [n \in 1..(ScopesOpen + 1) |->
                 IF n <= ScopesOpen THEN Before(OpenScope(n)) ELSE granted]
Monitor == INSTANCE CapMonitor WITH scopes <- ScopeSets, top <- ceiling
ImplementsMonitor == Monitor!MonitorSpec
=============================================================================
