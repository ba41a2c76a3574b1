---------------------------- MODULE MemoryStore -----------------------------
(***************************************************************************)
(* The agent memory and its table: synsema-agents/src/memory.rs and        *)
(* synsema-runtime/src/persistence.rs, as `synsema run' (saved once, when  *)
(* the program ends) and `synsema serve' (saved by every remember and      *)
(* forget_memory, under the memory's lock) use them.                       *)
(*                                                                         *)
(* A save is a sequence of INSERT OR REPLACE statements, one per entry in  *)
(* memory, each committed on its own: a crash can fall between two.        *)
(***************************************************************************)
EXTENDS Integers

CONSTANTS
    Procs,        \* processes that share one state file
    Modes,        \* the commands considered: "serve", "run"
    Crashing,     \* the commands under which a process may crash
    MaxEntries    \* bound: calls to remember in a behaviour

Contents == 1..MaxEntries            \* the n-th thing ever remembered
Ids == 1..MaxEntries                 \* mem_<n>
None == [content |-> 0, active |-> FALSE]
Rows == [Ids -> [content: Contents, active: BOOLEAN] \cup {None}]

VARIABLES
    mode,       \* the command the processes run
    table,      \* the table `memory': id -> row, or None
    mem,        \* process -> AgentMemory.entries
    counter,    \* process -> AgentMemory.counter
    pc,         \* process -> "down", "up" or "saving"
    unsaved,    \* process -> the entries its save has still to write
    call,       \* process -> the call it will return from: [op, id, content]
    fresh,      \* the next thing to remember
    known,      \* contents whose remember has returned and nobody forgot
    gone,       \* contents whose forget_memory has returned
    given       \* <<id, content>> for every id that remember returned

ghosts == <<known, gone, given>>
vars == <<mode, table, mem, counter, pc, unsaved, call, fresh, known, gone, given>>

NoCall == [op |-> "none", id |-> 0, content |-> 0]
IdsOf(rows) == {i \in Ids : rows[i] # None}
Recalled(rows) == {rows[i].content : i \in {j \in Ids : rows[j].active}}

Init ==
    /\ mode \in Modes
    /\ table = [i \in Ids |-> None]
    /\ mem = [p \in Procs |-> [i \in Ids |-> None]]
    /\ counter = [p \in Procs |-> 0]
    /\ pc = [p \in Procs |-> "down"]
    /\ unsaved = [p \in Procs |-> {}]
    /\ call = [p \in Procs |-> NoCall]
    /\ fresh = 1 /\ known = {} /\ gone = {} /\ given = {}
-----------------------------------------------------------------------------
Highest(ids) == IF ids = {} THEN 0 ELSE CHOOSE i \in ids : \A j \in ids : j <= i

(* Fault: the counter is not raised over the ids that are loaded.          *)
BootLow(p) ==
    /\ pc[p] = "down"
    /\ mem' = [mem EXCEPT ![p] = [i \in Ids |-> IF table[i].active THEN table[i] ELSE None]]
    /\ counter' = [counter EXCEPT ![p] = 0]
    /\ pc' = [pc EXCEPT ![p] = "up"]
    /\ UNCHANGED <<mode, table, unsaved, call, fresh, ghosts>>

(* load_memory: the active rows, and the counter over their ids.           *)
Boot(p) ==
    LET rows == [i \in Ids |-> IF table[i].active THEN table[i] ELSE None] IN
    /\ pc[p] = "down"
    /\ mem' = [mem EXCEPT ![p] = rows]
    /\ counter' = [counter EXCEPT ![p] = Highest(IdsOf(rows))]
    /\ pc' = [pc EXCEPT ![p] = "up"]
    /\ UNCHANGED <<mode, table, unsaved, call, fresh, ghosts>>

(* The ghosts learn of a call when it returns to the program.              *)
Returned(c) ==
    \/ /\ c.op = "remember"
       /\ known' = known \cup {c.content}
       /\ given' = given \cup {<<c.id, c.content>>}
       /\ UNCHANGED gone
    \/ /\ c.op = "forget"
       /\ known' = known \ {c.content}
       /\ gone' = gone \cup {c.content}
       /\ UNCHANGED given
    \/ c.op = "none" /\ UNCHANGED ghosts

(* After a change of the memory: `serve' saves before it returns.          *)
Changed(p, c) ==
    IF mode = "serve"
    THEN /\ pc' = [pc EXCEPT ![p] = "saving"]
         /\ unsaved' = [unsaved EXCEPT ![p] = IdsOf(mem'[p])]
         /\ call' = [call EXCEPT ![p] = c]
         /\ known' = known \ {c.content} /\ UNCHANGED <<gone, given>>
    ELSE /\ UNCHANGED <<pc, unsaved, call>>
         /\ Returned(c)

Remember(p) ==
    LET id == counter[p] + 1 IN
    /\ pc[p] = "up" /\ id \in Ids /\ fresh \in Contents
    /\ counter' = [counter EXCEPT ![p] = id]
    /\ mem' = [mem EXCEPT ![p][id] = [content |-> fresh, active |-> TRUE]]
    /\ Changed(p, [op |-> "remember", id |-> id, content |-> fresh])
    /\ fresh' = fresh + 1
    /\ UNCHANGED <<mode, table>>

ForgetCall(p, id) ==
    IF mem[p][id] = None THEN NoCall
    ELSE [op |-> "forget", id |-> id, content |-> mem[p][id].content]

(* forget_memory; `serve' saves even if the id is nobody's.                *)
Forget(p, id) ==
    /\ pc[p] = "up"
    /\ mem' = [mem EXCEPT ![p][id].active = FALSE]
    /\ Changed(p, ForgetCall(p, id))
    /\ UNCHANGED <<mode, table, counter, fresh>>

(* One statement of save_memory, in any order of the entries.              *)
WriteRow(p, id) ==
    /\ pc[p] = "saving" /\ id \in unsaved[p]
    /\ table' = [table EXCEPT ![id] = mem[p][id]]
    /\ unsaved' = [unsaved EXCEPT ![p] = @ \ {id}]
    /\ UNCHANGED <<mode, mem, counter, pc, call, fresh, ghosts>>

(* The save is over: the call returns, or the program that ended is gone.  *)
Saved(p) ==
    /\ pc[p] = "saving" /\ unsaved[p] = {}
    /\ pc' = [pc EXCEPT ![p] = IF mode = "serve" THEN "up" ELSE "down"]
    /\ Returned(call[p])
    /\ call' = [call EXCEPT ![p] = NoCall]
    /\ UNCHANGED <<mode, table, mem, counter, unsaved, fresh>>

(* The end of a program under `run'.                                       *)
Ends(p) ==
    /\ mode = "run" /\ pc[p] = "up"
    /\ pc' = [pc EXCEPT ![p] = "saving"]
    /\ unsaved' = [unsaved EXCEPT ![p] = IdsOf(mem[p])]
    /\ UNCHANGED <<mode, table, mem, counter, call, fresh, ghosts>>

(* A crash or a kill, with the memory and a save half done.                *)
Crash(p) ==
    /\ mode \in Crashing /\ pc[p] # "down"
    /\ pc' = [pc EXCEPT ![p] = "down"]
    /\ unsaved' = [unsaved EXCEPT ![p] = {}]
    /\ call' = [call EXCEPT ![p] = NoCall]
    /\ UNCHANGED <<mode, table, mem, counter, fresh, ghosts>>
-----------------------------------------------------------------------------
Next == \E p \in Procs :
           \/ Boot(p) \/ Remember(p) \/ Saved(p) \/ Ends(p) \/ Crash(p)
           \/ \E id \in Ids : Forget(p, id) \/ WriteRow(p, id)

Spec == Init /\ [][Next]_vars
-----------------------------------------------------------------------------
TypeOK ==
    /\ mode \in Modes
    /\ table \in Rows /\ mem \in [Procs -> Rows]
    /\ counter \in [Procs -> 0..MaxEntries]
    /\ pc \in [Procs -> {"down", "up", "saving"}]
    /\ unsaved \in [Procs -> SUBSET Ids]
    /\ call \in [Procs -> [op: {"none", "remember", "forget"},
                           id: 0..MaxEntries, content: 0..MaxEntries]]
    /\ fresh \in 1..(MaxEntries + 1)
    /\ known \subseteq Contents /\ gone \subseteq Contents
    /\ given \subseteq Ids \X Contents

(* "If a daemon crashes and restarts, it retains all its knowledge": what  *)
(* remember acknowledged is recalled by whatever process runs, until it is *)
(* forgotten.                                                              *)
KnowledgeRetained ==
    \A p \in Procs : pc[p] = "up" => known \subseteq Recalled(mem[p])

(* What forget_memory acknowledged never comes back.                       *)
ForgottenStaysForgotten ==
    \A p \in Procs : pc[p] # "down" => gone \cap Recalled(mem[p]) = {}

(* "Sube el piso del contador (tras cargar estado persistido, para no      *)
(* reusar ids)": an id names one memory for ever.                          *)
IdsNotReused == \A x, y \in given : x[1] = y[1] => x[2] = y[2]
-----------------------------------------------------------------------------
(* Why what is remembered is kept, when one process at a time has the file *)
(* and a program under `run' is not killed: the inductive invariant.       *)

(* Nothing is remembered under two ids, and what comes next is new.        *)
Placed ==
    /\ \A i, j \in Ids : table[i] # None /\ table[i].content = table[j].content => i = j
    /\ \A p \in Procs : \A i, j \in Ids :
          mem[p][i] # None /\ mem[p][i].content \in {mem[p][j].content, table[j].content} => i = j
    /\ \A i \in Ids : table[i].content < fresh /\ \A p \in Procs : mem[p][i].content < fresh
    /\ \A c \in known \cup gone : c < fresh

(* Ids over the counter are free, and a row that is active is in memory.   *)
Loaded == \A p \in Procs : pc[p] # "down" => \A i \in Ids :
              /\ i > counter[p] => mem[p][i] = None
              /\ table[i].active => mem[p][i] # None

(* What a save has written is as in memory; so is under `serve' all but    *)
(* the entry of the call under way.                                        *)
Written == \A p \in Procs : pc[p] # "down" => \A i \in IdsOf(mem[p]) :
              (pc[p] = "saving" /\ i \notin unsaved[p]) \/ (mode = "serve" /\ i # call[p].id)
                  => table[i] = mem[p][i]

(* The call that a save is part of: what it is about is not known now.     *)
Calling == \A p \in Procs :
              IF call[p].op = "none" THEN call[p] = NoCall
              ELSE /\ pc[p] = "saving" /\ mode = "serve" /\ call[p].id \in Ids
                   /\ mem[p][call[p].id] = [content |-> call[p].content,
                                            active |-> call[p].op = "remember"]
                   /\ call[p].content \in Contents \ known

(* What the file has, when it may be read again, and what memory has.      *)
Readable == mode = "serve" \/ \A p \in Procs : pc[p] = "down"
Retained == /\ Readable => known \subseteq Recalled(table) /\ gone \cap Recalled(table) = {}
            /\ \A p \in Procs : pc[p] # "down" =>
                  known \subseteq Recalled(mem[p]) /\ gone \cap Recalled(mem[p]) = {}

Inv == TypeOK /\ Placed /\ Loaded /\ Written /\ Calling /\ Retained
=============================================================================
