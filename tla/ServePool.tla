----------------------------- MODULE ServePool ------------------------------
(***************************************************************************)
(* The threads that answer requests under `serve': handle_request, the     *)
(* bounded InterpreterPool, the dedicated threads of SSE streams and their *)
(* max_streams slots (synsema-stdlib/src/server.rs), with run_stream       *)
(* (synsema-runtime/src/serve.rs).                                         *)
(*                                                                         *)
(* A client sends one request after another.  Kinds of requests:           *)
(*   sized     a route that is not a stream                                *)
(*   stream    a stream, matched by the path itself                        *)
(*   suffixed  a stream that only dispatch reaches: the path ends in .md,  *)
(*             .json or .html and first matches a route that is not one    *)
(*   guarded   a stream whose body sends inside try/recover in a loop      *)
(***************************************************************************)
EXTENDS Naturals, Sequences, FiniteSets

CONSTANTS
    Clients,
    Kinds,        \* the kinds of requests clients send
    Panicky,      \* the kinds whose handler may panic
    Workers,      \* workers of the pool
    MaxStreams,
    ChannelSize   \* frames the body channel holds

ASSUME ServePoolAssumption ==
    /\ Kinds \subseteq {"sized", "stream", "suffixed", "guarded"}
    /\ Panicky \subseteq Kinds
    /\ Workers \in Nat \ {0} /\ MaxStreams \in Nat /\ ChannelSize \in Nat \ {0}

Streaming == {"stream", "suffixed", "guarded"}

VARIABLES
    client,       \* "away", "waiting" for the head, "reading" a stream, "gone"
    kind,         \* of the client's latest request
    job,          \* "none", "queued", "ready" to dispatch, "handler",
                  \* "stream", or "closing": its last event is not sent yet
    queue,        \* the jobs submitted to the pool
    frames,       \* events in the body channel
    slots         \* active_streams

vars == <<client, kind, job, queue, frames, slots>>

Init == /\ client = [c \in Clients |-> "away"]
        /\ kind \in [Clients -> Kinds]
        /\ job = [c \in Clients |-> "none"]
        /\ queue = <<>>
        /\ frames = [c \in Clients |-> 0]
        /\ slots = 0

Running == {c \in Clients : job[c] \in {"ready", "handler", "stream", "closing"}}
Streams == {c \in Clients : job[c] \in {"stream", "closing"}}

(* Fault: every job goes to the pool.                                      *)
AllOnPool(k) == FALSE

(* route_is_streaming: the match of the path as it is.                     *)
Dedicated(k) == k \in {"stream", "guarded"}
OwnThreads == {c \in Running : Dedicated(kind[c])}
OnPool == Running \ OwnThreads
-----------------------------------------------------------------------------
(* handle_request: the job gets a thread of its own or waits for a worker. *)
Request(c, k) ==
    /\ client[c] = "away" /\ job[c] = "none"
    /\ client' = [client EXCEPT ![c] = "waiting"]
    /\ kind' = [kind EXCEPT ![c] = k]
    /\ frames' = [frames EXCEPT ![c] = 0]
    /\ IF Dedicated(k)
       THEN job' = [job EXCEPT ![c] = "ready"] /\ UNCHANGED queue
       ELSE job' = [job EXCEPT ![c] = "queued"] /\ queue' = Append(queue, c)
    /\ UNCHANGED slots

Answered(c) == IF client[c] = "gone" THEN "gone" ELSE "away"

Ends(c) == /\ job' = [job EXCEPT ![c] = "none"]
           /\ client' = [client EXCEPT ![c] = Answered(c)]

(* The system cannot create the thread: the job is dropped, which answers  *)
(* 500.                                                                    *)
SpawnFails(c, k) ==
    /\ client[c] = "away" /\ job[c] = "none" /\ Dedicated(k)
    /\ kind' = [kind EXCEPT ![c] = k]
    /\ UNCHANGED <<client, job, queue, frames, slots>>

(* A free worker takes the next job.                                       *)
Take ==
    /\ queue # <<>> /\ Cardinality(OnPool) < Workers
    /\ queue' = Tail(queue)
    /\ job' = [job EXCEPT ![Head(queue)] = "ready"]
    /\ UNCHANGED <<client, kind, frames, slots>>

(* dispatch answers before it reaches the handler (404, 429, 400, 401).    *)
Refuse(c) == /\ job[c] = "ready"
             /\ Ends(c)
             /\ UNCHANGED <<kind, queue, frames, slots>>

Handle(c) == /\ job[c] = "ready" /\ kind[c] = "sized"
             /\ job' = [job EXCEPT ![c] = "handler"]
             /\ UNCHANGED <<client, kind, queue, frames, slots>>

(* try_acquire_stream succeeds; the head goes out and the body starts.     *)
Open(c) ==
    /\ job[c] = "ready" /\ kind[c] \in Streaming /\ slots < MaxStreams
    /\ slots' = slots + 1
    /\ job' = [job EXCEPT ![c] = "stream"]
    /\ client' = [client EXCEPT ![c] = IF @ = "gone" THEN "gone" ELSE "reading"]
    /\ UNCHANGED <<kind, queue, frames>>

(* 503: too many concurrent streams.                                       *)
TurnAway(c) ==
    /\ job[c] = "ready" /\ kind[c] \in Streaming /\ slots >= MaxStreams
    /\ Ends(c)
    /\ UNCHANGED <<kind, queue, frames, slots>>

Finish(c) == /\ job[c] = "handler"
             /\ Ends(c)
             /\ UNCHANGED <<kind, queue, frames, slots>>

Released == IF slots > 0 THEN slots - 1 ELSE 0

(* `send': blocking_send waits while the channel is full.                  *)
Send(c) ==
    /\ job[c] = "stream" /\ client[c] # "gone" /\ frames[c] < ChannelSize
    /\ frames' = [frames EXCEPT ![c] = @ + 1]
    /\ UNCHANGED <<client, kind, job, queue, slots>>

(* `send' to a client that is gone unwinds the body, unless the body       *)
(* recovers from the error and goes on.                                    *)
SendFails(c) ==
    /\ job[c] = "stream" /\ client[c] = "gone"
    /\ IF kind[c] = "guarded"
       THEN UNCHANGED <<client, job, slots>>
       ELSE Ends(c) /\ slots' = Released
    /\ UNCHANGED <<kind, queue, frames>>

(* The body ends.                                                          *)
Close(c) == /\ job[c] = "stream"
            /\ Ends(c) /\ slots' = Released
            /\ UNCHANGED <<kind, queue, frames>>

(* The body ends with an error: a last event, then the slot.               *)
BodyFails(c) == /\ job[c] = "stream"
                /\ job' = [job EXCEPT ![c] = "closing"]
                /\ UNCHANGED <<client, kind, queue, frames, slots>>

(* Fault: the slot of a stream that failed is not given back.              *)
SendErrorAndKeepSlot(c) ==
    /\ job[c] = "closing" /\ (frames[c] < ChannelSize \/ client[c] = "gone")
    /\ Ends(c)
    /\ UNCHANGED <<kind, queue, frames, slots>>

(* Fault: the last event waits for a client that is gone.                  *)
SendErrorToReader(c) ==
    /\ job[c] = "closing" /\ frames[c] < ChannelSize /\ client[c] # "gone"
    /\ Ends(c) /\ slots' = Released
    /\ UNCHANGED <<kind, queue, frames>>

SendError(c) ==
    /\ job[c] = "closing" /\ (frames[c] < ChannelSize \/ client[c] = "gone")
    /\ Ends(c) /\ slots' = Released
    /\ UNCHANGED <<kind, queue, frames>>

(* A panic unwinds the whole job, release_stream included; the worker      *)
(* catches it, a dedicated thread ends.                                    *)
Panic(c) == /\ job[c] \in {"ready", "handler", "stream"} /\ kind[c] \in Panicky
            /\ Ends(c)
            /\ UNCHANGED <<kind, queue, frames, slots>>

Read(c) == /\ client[c] = "reading" /\ frames[c] > 0
           /\ frames' = [frames EXCEPT ![c] = @ - 1]
           /\ UNCHANGED <<client, kind, job, queue, slots>>

Disconnect(c) == /\ client[c] \in {"waiting", "reading"}
                 /\ client' = [client EXCEPT ![c] = "gone"]
                 /\ UNCHANGED <<kind, job, queue, frames, slots>>

(* The client comes back with a connection of its own.                     *)
Return(c) == /\ client[c] = "gone" /\ job[c] = "none"
             /\ client' = [client EXCEPT ![c] = "away"]
             /\ UNCHANGED <<kind, job, queue, frames, slots>>
-----------------------------------------------------------------------------
Step(c) == \/ Refuse(c) \/ Handle(c) \/ Open(c) \/ TurnAway(c) \/ Finish(c)
           \/ Send(c) \/ SendFails(c) \/ Close(c) \/ BodyFails(c) \/ SendError(c)
           \/ Panic(c) \/ Read(c) \/ Disconnect(c) \/ Return(c)

Next == \/ Take
        \/ \E c \in Clients : Step(c) \/ \E k \in Kinds : Request(c, k) \/ SpawnFails(c, k)

Spec == Init /\ [][Next]_vars

(* Threads run and sized handlers end; a stream need not end, but it goes  *)
(* on sending, and a client need not read.                                 *)
Fairness ==
    /\ WF_vars(Take)
    /\ \A c \in Clients :
          /\ WF_vars(Refuse(c) \/ Handle(c) \/ Open(c) \/ TurnAway(c))
          /\ WF_vars(Finish(c)) /\ WF_vars(SendFails(c)) /\ WF_vars(SendError(c))

FairSpec == Spec /\ Fairness
-----------------------------------------------------------------------------
TypeOK ==
    /\ client \in [Clients -> {"away", "waiting", "reading", "gone"}]
    /\ kind \in [Clients -> Kinds]
    /\ job \in [Clients -> {"none", "queued", "ready", "handler", "stream", "closing"}]
    /\ queue \in Seq(Clients)
    /\ frames \in [Clients -> 0..ChannelSize]
    /\ slots \in 0..MaxStreams

(* Every slot is held by a stream that is open, and every open stream      *)
(* holds one, whichever way its body, its client or its thread end.        *)
SlotsAreHeld == slots = Cardinality(Streams)

(* A request to a sized route is answered, unless its client leaves, while *)
(* streams stay open for ever and their clients stop reading.              *)
SizedAnswered ==
    \A c \in Clients :
        client[c] = "waiting" /\ kind[c] = "sized" ~> client[c] # "waiting"

(* "if the client goes away mid-stream, the next `send` unwinds the        *)
(* handler cleanly [...], frees the thread": the job of a client that is   *)
(* gone ends, unless its body recovers from the error of `send'.           *)
DisconnectEndsJob ==
    \A c \in Clients :
        client[c] = "gone" /\ kind[c] # "guarded" ~> job[c] = "none"

(* "Streams (SSE) NO usan este pool".                                      *)
StreamsOffPool == \A c \in Streams : c \notin OnPool
-----------------------------------------------------------------------------
(* Why slots are held: the inductive invariant.                            *)

(* The pool's queue has each waiting job once.                             *)
QueuedOnce ==
    /\ \A i \in 1..Len(queue) : job[queue[i]] = "queued"
    /\ \A i, j \in 1..Len(queue) : queue[i] = queue[j] => i = j

(* Only streams hold slots, and each slot was free when it was given.      *)
SlotsCover ==
    /\ \A c \in Streams : kind[c] \in Streaming
    /\ IsFiniteSet(Streams) /\ Cardinality(Streams) <= slots

PoolInv == TypeOK /\ QueuedOnce /\ SlotsCover
=============================================================================
