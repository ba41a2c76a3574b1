------------------------------ MODULE Database ------------------------------
(***************************************************************************)
(* The connections of a program (synsema-stdlib/src/database.rs): opened   *)
(* and closed by any request, one of them the default that every operation *)
(* uses.  An operation looks at the default to check its capability and    *)
(* takes it again to run, in two turns of the lock.  The lock over a redis *)
(* key is the operation that is followed to the data.                      *)
(***************************************************************************)
EXTENDS Naturals, Sequences, FiniteSets, SequencesExt

CONSTANTS
    Requests,    \* threads that share the connections (one under `run')
    Targets,     \* what db_open is given
    BackendOf,   \* [Targets -> {"sql", "mongo", "redis"}], by the scheme
    Allowed,     \* the targets whose scope the program has required
    TTL,         \* the time a redis lock is kept
    MaxTime,     \* bounds the clock
    MaxLocks     \* bounds the locks that are given

None == "none"
Memory == ":memory:"
NoToken == 0

VARIABLES
    connections, \* keys of the open connections, in the order of opening
    default,     \* default_db
    pc,          \* request -> "idle", "use" or "paged"
    op,          \* request -> the operation under way
    clock,
    locks,       \* redis connection -> [token, until]
    tokens,      \* request -> the token of its lock, with the place and the time
    granted      \* tokens given so far
vars == <<connections, default, pc, op, clock, locks, tokens, granted>>

Keys == Targets \cup {Memory}
Operations == {"sql", "paged", "mongo", "redis", "redis_lock", "redis_unlock"}
Backend(key) == IF key = Memory THEN "sql" ELSE BackendOf[key]
Needs(o) == CASE o \in {"sql", "paged"} -> "sql"
              [] o = "mongo" -> "mongo"
              [] o \in {"redis", "redis_lock", "redis_unlock"} -> "redis"
Free == [token |-> NoToken, until |-> 0]
NoHold == [token |-> NoToken, at |-> None, until |-> 0]

Init == /\ connections = <<>> /\ default = None
        /\ pc = [r \in Requests |-> "idle"]
        /\ op = [r \in Requests |-> "sql"] /\ clock = 0
        /\ locks = [k \in Targets |-> Free]
        /\ tokens = [r \in Requests |-> NoHold] /\ granted = 0

Data == <<clock, locks, tokens, granted>>
-----------------------------------------------------------------------------
(* db_scope_for: the key of a target, whatever the mode, but for a         *)
(* database in memory.                                                     *)
db_scope_for(target, mode) == IF mode = "memory" /\ BackendOf[target] = "sql" THEN Memory ELSE target

require_db(key) == key = Memory \/ key \in Allowed

(* db_open, and DatabaseManager::open: a key that is open stays as it is,  *)
(* and the first to be opened is the default.                              *)
Open(r, target, mode, connects) ==
    LET key == db_scope_for(target, mode)
    IN  /\ pc[r] = "idle" /\ require_db(key)
        /\ IF key \in Range(connections) \/ ~connects THEN UNCHANGED <<connections, default>>
           ELSE /\ connections' = Append(connections, key)
                /\ default' = IF default = None THEN key ELSE default
        /\ UNCHANGED <<pc, op, Data>>

(* DatabaseManager::close: shift_remove takes the entry of a key out, and  *)
(* the default moves to the first that is left.                            *)
shift_remove(key) ==
    RemoveAt(connections, CHOOSE i \in DOMAIN connections : connections[i] = key)
NextDefault(key) ==
    LET left == shift_remove(key)
    IN  IF key # default THEN default
        ELSE IF left = <<>> THEN None ELSE left[1]
Close(r, path) ==
    LET key == IF path = None THEN default ELSE path
    IN  /\ pc[r] = "idle" /\ key \in Range(connections)
        /\ connections' = shift_remove(key)
        /\ default' = NextDefault(key)
        /\ UNCHANGED <<pc, op, Data>>
CloseAll ==
    /\ connections' = <<>> /\ default' = None
    /\ UNCHANGED <<pc, op, Data>>
-----------------------------------------------------------------------------
(* An operation begins: the capability is that of the default there is.    *)
Check(r, o) ==
    /\ pc[r] = "idle"
    /\ default # None => require_db(default)
    /\ op' = [op EXCEPT ![r] = o]
    /\ pc' = [pc EXCEPT ![r] = "use"]
    /\ UNCHANGED <<connections, default, Data>>

(* conn_mut, mongo_coll and redis_conn: the default now, of the kind that  *)
(* the operation needs.                                                    *)
Finds(r) == default # None /\ Backend(default) = Needs(op[r])
Using(r, o) == pc[r] = "use" /\ op[r] = o
Ends(r) == /\ pc' = [pc EXCEPT ![r] = "idle"] /\ op' = [op EXCEPT ![r] = "sql"]
           /\ UNCHANGED <<connections, default>>

Fails(r) ==    \* no connection, or one of another kind
    pc[r] = "use" /\ ~Finds(r) /\ Ends(r) /\ UNCHANGED Data
Query(r) ==    \* a batch may also fail at a row, and leaves those before it
    pc[r] = "use" /\ op[r] \in {"sql", "mongo", "redis"} /\ Finds(r) /\ Ends(r) /\ UNCHANGED Data

(* paged: serve fetches later, and as often as it likes.                   *)
Paged(r) ==
    /\ Using(r, "paged")
    /\ pc' = [pc EXCEPT ![r] = "paged"]
    /\ UNCHANGED <<connections, default, op, Data>>
EndPaged(r) == pc[r] = "paged" /\ Ends(r) /\ UNCHANGED Data
-----------------------------------------------------------------------------
(* redis_lock: SET key token NX PX ttl.  A token that was given is new.    *)
Lock(r) ==
    /\ Using(r, "redis_lock") /\ Finds(r)
    /\ locks[default].until > clock \/ granted < MaxLocks
    /\ IF locks[default].until > clock THEN UNCHANGED <<locks, tokens, granted>>
       ELSE /\ granted' = granted + 1
            /\ locks' = [locks EXCEPT ![default] = [token |-> granted', until |-> clock + TTL]]
            /\ tokens' = [tokens EXCEPT ![r] = [token |-> granted', at |-> default, until |-> clock + TTL]]
    /\ Ends(r) /\ UNCHANGED clock

(* Fault: the key is deleted whoever has it.                               *)
ReleasedByAnybody(r) == [locks EXCEPT ![default] = Free]

(* redis_unlock: one script compares the token and deletes the key.        *)
Released(r) ==
    IF locks[default].until > clock /\ locks[default].token = tokens[r].token
    THEN [locks EXCEPT ![default] = Free] ELSE locks
Unlock(r) ==
    /\ Using(r, "redis_unlock") /\ Finds(r) /\ tokens[r].token # NoToken
    /\ locks' = Released(r)
    /\ tokens' = [tokens EXCEPT ![r] = NoHold]
    /\ Ends(r) /\ UNCHANGED <<clock, granted>>

Tick == /\ clock < MaxTime /\ clock' = clock + 1
        /\ UNCHANGED <<connections, default, pc, op, locks, tokens, granted>>

Next == \/ \E r \in Requests :
              \/ \E t \in Targets, m \in {"readwrite", "memory"}, c \in BOOLEAN : Open(r, t, m, c)
              \/ \E p \in Keys \cup {None} : Close(r, p)
              \/ \E o \in Operations : Check(r, o)
              \/ Fails(r) \/ Query(r) \/ Paged(r) \/ EndPaged(r)
              \/ Lock(r) \/ Unlock(r)
        \/ CloseAll \/ Tick
Spec == Init /\ [][Next]_vars
-----------------------------------------------------------------------------
Holds(r) == tokens[r].token # NoToken /\ tokens[r].until > clock

\* Whatever requests open and close, the default is one of the connections
\* while there is any, and a connection once, and none that the program may not
\* use: not even after the default was closed between the check of an operation
\* and its run.  Of the requests that took a redis lock on one server and whose
\* time is not over at most one has it, also after a late unlock by one whose
\* time is over.
ConnectionsAndLocks ==
    /\ (default = None <=> connections = <<>>)
    /\ default # None => default \in Range(connections)
    /\ IsInjective(connections)
    /\ \A k \in Range(connections) : require_db(k)
    /\ \A r, s \in Requests : Holds(r) /\ Holds(s) /\ tokens[r].at = tokens[s].at => r = s
-----------------------------------------------------------------------------
\* Why: the token of a request is its own, and while its time is not over it is
\* the one that is under the key.
TypeOK ==
    /\ connections \in Seq(Keys) /\ default \in Keys \cup {None}
    /\ op \in [Requests -> Operations]
    /\ clock \in Nat /\ granted \in Nat
    /\ locks \in [Targets -> [token : Nat, until : Nat]]
    /\ tokens \in [Requests -> [token : Nat, at : Targets \cup {None}, until : Nat]]
OneDefault ==
    /\ IsInjective(connections)
    /\ default = None <=> connections = <<>>
    /\ default # None => default \in Range(connections)
    /\ \A k \in Range(connections) : require_db(k)
OwnTokens ==
    /\ \A r \in Requests : tokens[r].token <= granted
    /\ \A r, s \in Requests : tokens[r].token = tokens[s].token /\ tokens[r].token # NoToken => r = s
    /\ \A r \in Requests : Holds(r) =>
           /\ tokens[r].at \in Targets
           /\ locks[tokens[r].at] = [token |-> tokens[r].token, until |-> tokens[r].until]
Inv == TypeOK /\ OneDefault /\ OwnTokens
=============================================================================
