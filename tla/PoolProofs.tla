----------------------------- MODULE PoolProofs -----------------------------
(***************************************************************************)
(* The slots of the streams that ServePool models, for any clients, any    *)
(* pool and any max_streams.                                               *)
(***************************************************************************)
EXTENDS ServePool, FiniteSetTheorems, TLAPS

LEMMA PoolStarts == Init => PoolInv /\ SlotsAreHeld
<1> SUFFICES ASSUME Init PROVE PoolInv /\ SlotsAreHeld
  OBVIOUS
<1>1. Streams = {} /\ Cardinality({}) = 0 /\ IsFiniteSet({})
  BY FS_EmptySet DEF Init, Streams
<1>2. TypeOK
  BY ServePoolAssumption DEF Init, TypeOK
<1>3. QueuedOnce
  BY DEF Init, QueuedOnce
<1> QED
  BY <1>1, <1>2, <1>3 DEF Init, PoolInv, SlotsCover, SlotsAreHeld

(* The client whose job a worker takes was waiting in the queue once.      *)
LEMMA TakeKeepsQueue == ASSUME PoolInv, Take PROVE TypeOK' /\ QueuedOnce' /\ Streams' = Streams
<1>1. TypeOK /\ QueuedOnce
  BY DEF PoolInv
<1>2. /\ queue # <<>> /\ queue' = Tail(queue)
      /\ job' = [job EXCEPT ![Head(queue)] = "ready"]
      /\ UNCHANGED <<client, kind, frames, slots>>
  BY DEF Take
<1>3. queue \in Seq(Clients) /\ Len(queue) \in Nat \ {0} /\ queue[1] = Head(queue)
  BY <1>1, <1>2 DEF TypeOK
<1>4. /\ queue' \in Seq(Clients) /\ Len(queue') = Len(queue) - 1
      /\ \A i \in 1..Len(queue') : queue'[i] = queue[i + 1] /\ i + 1 \in 1..Len(queue)
  BY <1>2, <1>3
<1>5. job[Head(queue)] = "queued" /\ Head(queue) \in Clients
  BY <1>1, <1>3 DEF QueuedOnce
<1>6. TypeOK'
  BY <1>1, <1>2, <1>4 DEF TypeOK
<1>7. \A i \in 1..Len(queue') : queue'[i] # Head(queue) /\ queue'[i] \in Clients
  BY <1>1, <1>3, <1>4 DEF QueuedOnce
<1>8. QueuedOnce'
  <2>1. \A i \in 1..Len(queue') : job'[queue'[i]] = "queued"
    BY <1>1, <1>2, <1>4, <1>7 DEF QueuedOnce, TypeOK
  <2>2. \A i, j \in 1..Len(queue') : queue'[i] = queue'[j] => i = j
    BY <1>1, <1>3, <1>4 DEF QueuedOnce
  <2> QED
    BY <2>1, <2>2 DEF QueuedOnce
<1>9. Streams' = Streams
  BY <1>1, <1>2, <1>5 DEF Streams, TypeOK
<1> QED
  BY <1>6, <1>8, <1>9

LEMMA RequestKeepsQueue ==
    ASSUME PoolInv, NEW c \in Clients, NEW k \in Kinds, Request(c, k)
    PROVE  TypeOK' /\ QueuedOnce' /\ Streams' = Streams
<1>1. TypeOK /\ QueuedOnce
  BY DEF PoolInv
<1>2. /\ client[c] = "away" /\ job[c] = "none"
      /\ client' = [client EXCEPT ![c] = "waiting"]
      /\ kind' = [kind EXCEPT ![c] = k]
      /\ frames' = [frames EXCEPT ![c] = 0] /\ slots' = slots
      /\ \/ job' = [job EXCEPT ![c] = "ready"] /\ queue' = queue
         \/ job' = [job EXCEPT ![c] = "queued"] /\ queue' = Append(queue, c)
  BY DEF Request
<1>3. queue \in Seq(Clients) /\ Len(queue) \in Nat
  BY <1>1 DEF TypeOK
<1>4. \A i \in 1..Len(queue) : queue[i] # c /\ queue[i] \in Clients
  BY <1>1, <1>2, <1>3 DEF QueuedOnce
<1>5. TypeOK'
  <2>1. queue' \in Seq(Clients)
    BY <1>2, <1>3
  <2>2. job' \in [Clients -> {"none", "queued", "ready", "handler", "stream", "closing"}]
    BY <1>1, <1>2 DEF TypeOK
  <2>3. frames' \in [Clients -> 0..ChannelSize]
    BY <1>1, <1>2, ServePoolAssumption DEF TypeOK
  <2> QED
    BY <1>1, <1>2, <2>1, <2>2, <2>3 DEF TypeOK
<1>6. QueuedOnce'
  <2>1. CASE queue' = queue
    BY <1>1, <1>2, <1>4, <2>1 DEF QueuedOnce, TypeOK
  <2>2. CASE job' = [job EXCEPT ![c] = "queued"] /\ queue' = Append(queue, c)
    <3>1. /\ Len(queue') = Len(queue) + 1 /\ queue'[Len(queue) + 1] = c
          /\ \A i \in 1..Len(queue) : queue'[i] = queue[i]
          /\ \A i \in 1..Len(queue') : i \in 1..Len(queue) \/ i = Len(queue) + 1
      BY <1>3, <2>2
    <3>2. \A i \in 1..Len(queue') : job'[queue'[i]] = "queued"
      BY <1>1, <1>4, <2>2, <3>1 DEF QueuedOnce, TypeOK
    <3>3. \A i, j \in 1..Len(queue') : queue'[i] = queue'[j] => i = j
      BY <1>1, <1>4, <3>1 DEF QueuedOnce
    <3> QED
      BY <3>2, <3>3 DEF QueuedOnce
  <2> QED
    BY <1>2, <2>1, <2>2
<1>7. Streams' = Streams
  BY <1>1, <1>2 DEF Streams, TypeOK
<1> QED
  BY <1>5, <1>6, <1>7

(* Any other step leaves the queue, and a job that waits in it, alone.     *)
LEMMA StepKeepsQueue == ASSUME PoolInv, NEW c \in Clients, Step(c) PROVE TypeOK' /\ QueuedOnce'
<1>1. TypeOK /\ QueuedOnce
  BY DEF PoolInv
<1> USE DEF Step, Refuse, Handle, Open, TurnAway, Finish, Send, SendFails, Close, BodyFails,
            SendError, Panic, Read, Disconnect, Return, Ends, Answered, Released
<1>2. /\ queue' = queue /\ kind' = kind
      /\ \/ job' = job
         \/ /\ job[c] # "queued"
            /\ \E s \in {"none", "handler", "stream", "closing"} : job' = [job EXCEPT ![c] = s]
  OBVIOUS
<1>3. \/ client' = client
      \/ \E s \in {"away", "waiting", "reading", "gone"} : client' = [client EXCEPT ![c] = s]
  <2>1. Answered(c) \in {"away", "gone"}
    OBVIOUS
  <2> QED
    BY <1>1, <2>1 DEF TypeOK
<1>4. \/ frames' = frames
      \/ \E n \in 0..ChannelSize : frames' = [frames EXCEPT ![c] = n]
  BY <1>1, ServePoolAssumption DEF TypeOK
<1>5. slots' \in 0..MaxStreams
  BY <1>1, ServePoolAssumption DEF TypeOK
<1>6. TypeOK'
  BY <1>1, <1>2, <1>3, <1>4, <1>5 DEF TypeOK
<1>7. QueuedOnce'
  BY <1>1, <1>2 DEF QueuedOnce, TypeOK
<1> QED
  BY <1>6, <1>7

(* What a step does to the streams and to their slots: nothing, or one     *)
(* stream takes a free slot, gives its slot back, or ends in a panic.      *)
LEMMA StepMovesOneSlot ==
    ASSUME PoolInv, NEW c \in Clients, Step(c)
    PROVE  /\ kind' = kind
           /\ \/ Streams' = Streams /\ slots' = slots
              \/ /\ c \notin Streams /\ Streams' = Streams \cup {c} /\ kind[c] \in Streaming
                 /\ slots < MaxStreams /\ slots' = slots + 1
              \/ c \in Streams /\ Streams' = Streams \ {c} /\ slots' = Released
              \/ c \in Streams /\ kind[c] \in Panicky /\ Streams' = Streams \ {c} /\ slots' = slots
<1>1. TypeOK
  BY DEF PoolInv
<1> USE <1>1 DEF TypeOK, Streams
<1>2. CASE Refuse(c) \/ Handle(c) \/ TurnAway(c) \/ Finish(c) \/ Send(c) \/ BodyFails(c) \/ Read(c)
           \/ Disconnect(c) \/ Return(c)
  BY <1>2 DEF Refuse, Handle, TurnAway, Finish, Send, BodyFails, Read, Disconnect, Return, Ends
<1>3. CASE Open(c)
  BY <1>3 DEF Open
<1>4. CASE SendFails(c) \/ Close(c) \/ SendError(c)
  BY <1>4 DEF SendFails, Close, SendError, Ends
<1>5. CASE Panic(c)
  BY <1>5 DEF Panic, Ends
<1> QED
  BY <1>2, <1>3, <1>4, <1>5 DEF Step

LEMMA PoolKeeps == PoolInv /\ [Next]_vars => PoolInv'
<1> SUFFICES ASSUME PoolInv, [Next]_vars PROVE PoolInv'
  OBVIOUS
<1>1. /\ \A c \in Streams : kind[c] \in Streaming
      /\ IsFiniteSet(Streams) /\ Cardinality(Streams) <= slots
      /\ Streams \subseteq Clients /\ slots \in Nat /\ Cardinality(Streams) \in Nat
      /\ kind \in [Clients -> Kinds]
  BY FS_CardinalityType, ServePoolAssumption DEF PoolInv, SlotsCover, TypeOK, Streams
<1>2. CASE UNCHANGED vars
  BY <1>2 DEF vars, PoolInv, TypeOK, QueuedOnce, SlotsCover, Streams
<1>3. CASE Take
  BY <1>1, <1>3, TakeKeepsQueue DEF PoolInv, SlotsCover, Take
<1>4. ASSUME NEW c \in Clients, NEW k \in Kinds, Request(c, k) PROVE PoolInv'
  <2>1. TypeOK' /\ QueuedOnce' /\ Streams' = Streams
    BY <1>4, RequestKeepsQueue
  <2>2. c \notin Streams /\ slots' = slots /\ kind' = [kind EXCEPT ![c] = k]
    BY <1>4 DEF Request, Streams
  <2> QED
    BY <1>1, <2>1, <2>2 DEF PoolInv, SlotsCover
<1>5. ASSUME NEW c \in Clients, NEW k \in Kinds, SpawnFails(c, k) PROVE PoolInv'
  <2>1. /\ UNCHANGED <<client, job, queue, frames, slots>>
        /\ c \notin Streams /\ kind' = [kind EXCEPT ![c] = k]
    BY <1>5 DEF SpawnFails, Streams
  <2>2. TypeOK' /\ QueuedOnce' /\ Streams' = Streams
    BY <2>1 DEF PoolInv, TypeOK, QueuedOnce, Streams
  <2> QED
    BY <1>1, <2>1, <2>2 DEF PoolInv, SlotsCover
<1>6. ASSUME NEW c \in Clients, Step(c) PROVE PoolInv'
  <2>1. TypeOK' /\ QueuedOnce' /\ kind' = kind
    BY <1>6, StepKeepsQueue, StepMovesOneSlot
  <2>2. CASE Streams' = Streams /\ slots' = slots
    BY <1>1, <2>1, <2>2 DEF PoolInv, SlotsCover
  <2>3. CASE c \notin Streams /\ Streams' = Streams \cup {c} /\ kind[c] \in Streaming /\ slots' = slots + 1
    <3>1. IsFiniteSet(Streams') /\ Cardinality(Streams') = Cardinality(Streams) + 1
      BY <1>1, <2>3, FS_AddElement
    <3> QED
      BY <1>1, <2>1, <2>3, <3>1 DEF PoolInv, SlotsCover
  <2>4. CASE c \in Streams /\ Streams' = Streams \ {c} /\ slots' \in {Released, slots}
    <3>1. IsFiniteSet(Streams') /\ Cardinality(Streams') = Cardinality(Streams) - 1
      BY <1>1, <2>4, FS_RemoveElement
    <3> QED
      BY <1>1, <2>1, <2>4, <3>1 DEF PoolInv, SlotsCover, Released
  <2> QED
    BY <1>6, <2>2, <2>3, <2>4, StepMovesOneSlot
<1> QED
  BY <1>2, <1>3, <1>4, <1>5, <1>6 DEF Next

(* There are never more open streams than max_streams, whatever panics: a  *)
(* slot may be lost but is never given twice.                              *)
THEOREM StreamsBounded == Spec => [](Cardinality(Streams) <= slots /\ slots <= MaxStreams)
<1>1. PoolInv => Cardinality(Streams) <= slots /\ slots <= MaxStreams
  BY ServePoolAssumption DEF PoolInv, SlotsCover, TypeOK
<1> QED
  BY PoolStarts, PoolKeeps, <1>1, PTL DEF Spec

LEMMA SlotsKept ==
    ASSUME Panicky \cap Streaming = {}
    PROVE  PoolInv /\ SlotsAreHeld /\ [Next]_vars => SlotsAreHeld'
<1> SUFFICES ASSUME PoolInv, SlotsAreHeld, [Next]_vars PROVE SlotsAreHeld'
  OBVIOUS
<1>1. /\ \A c \in Streams : kind[c] \in Streaming
      /\ IsFiniteSet(Streams) /\ Cardinality(Streams) = slots /\ slots \in Nat
  BY ServePoolAssumption DEF PoolInv, SlotsCover, TypeOK, SlotsAreHeld
<1>2. CASE Streams' = Streams /\ slots' = slots
  BY <1>2 DEF SlotsAreHeld
<1>3. CASE \E c \in Clients : Step(c)
  <2>1. PICK c \in Clients : Step(c)
    BY <1>3
  <2>2. CASE c \notin Streams /\ Streams' = Streams \cup {c} /\ slots' = slots + 1
    BY <1>1, <2>2, FS_AddElement DEF SlotsAreHeld
  <2>3. CASE c \in Streams /\ Streams' = Streams \ {c} /\ slots' = Released
    <3>1. Cardinality(Streams') = Cardinality(Streams) - 1 /\ Cardinality(Streams') \in Nat
      BY <1>1, <2>3, FS_RemoveElement, FS_CardinalityType
    <3> QED
      BY <1>1, <2>3, <3>1 DEF SlotsAreHeld, Released
  <2>4. ~(c \in Streams /\ kind[c] \in Panicky)
    BY <1>1
  <2> QED
    BY <1>2, <2>1, <2>2, <2>3, <2>4, StepMovesOneSlot
<1>4. CASE Take
  BY <1>2, <1>4, TakeKeepsQueue DEF Take
<1>5. CASE \E c \in Clients, k \in Kinds : Request(c, k)
  BY <1>2, <1>5, RequestKeepsQueue DEF Request
<1>6. CASE \E c \in Clients, k \in Kinds : SpawnFails(c, k)
  BY <1>2, <1>6 DEF SpawnFails, Streams
<1>7. CASE UNCHANGED vars
  BY <1>2, <1>7 DEF vars, Streams
<1> QED
  BY <1>3, <1>4, <1>5, <1>6, <1>7 DEF Next

(* When the handlers of streams do not panic, every slot is held by an     *)
(* open stream and every open stream holds one.                            *)
THEOREM SlotsHeld ==
    ASSUME Panicky \cap Streaming = {}
    PROVE  Spec => []SlotsAreHeld
  BY PoolStarts, PoolKeeps, SlotsKept, PTL DEF Spec
=============================================================================
