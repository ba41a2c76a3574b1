---------------------------- MODULE AgentProofs -----------------------------
(***************************************************************************)
(* Proofs about what an agent is told and what it keeps: the entries of    *)
(* its memory and the table of them, its tasks and their rows, the answers *)
(* of humans to its questions, and the replies of a model to its           *)
(* operations, each for any constants that ServicesAssumption allows.      *)
(***************************************************************************)
EXTENDS ServicesMC, WellFoundedInduction, SequenceTheorems, TLAPS

-----------------------------------------------------------------------------
(***************************************************************************)
(* Memory: entries by id, the table of them, and the counter of ids.       *)
(***************************************************************************)
LEMMA LeastNatural ==
    ASSUME NEW T, T \subseteq Nat, T # {}
    PROVE  \E n \in T : \A m \in T : n <= m
<1> DEFINE R == {p \in Nat \X Nat : p[1] < p[2]}
<1>1. IsWellFoundedOn(R, Nat)
  BY NatLessThanWellFounded DEF OpToRel
<1>2. \E n \in T : \A m \in T : ~(<<m, n>> \in R)
  <2> HIDE DEF R
  <2> QED
    BY <1>1, WFMin
<1>3. PICK n \in T : \A m \in T : ~(<<m, n>> \in R)
  BY <1>2
<1>4. ASSUME NEW m \in T PROVE n <= m
  <2>1. ~(<<m, n>> \in R) /\ m \in Nat /\ n \in Nat
    BY <1>3
  <2> QED
    BY <2>1
<1> QED
  BY <1>4

LEMMA GreatestNatural ==
    ASSUME NEW T, NEW N \in Nat, T \subseteq 0..N, T # {}
    PROVE  \E n \in T : \A m \in T : m <= n
<1> DEFINE U == {u \in Nat : \E t \in T : u = N - t}
<1>1. PICK t \in T : TRUE
  OBVIOUS
<1>2. N - t \in U
  OBVIOUS
<1>3. PICK u \in U : \A v \in U : u <= v
  <2>1. U \subseteq Nat /\ U # {}
    BY <1>2
  <2> HIDE DEF U
  <2> QED
    BY <2>1, LeastNatural
<1>4. PICK n \in T : u = N - n
  BY <1>3
<1>5. ASSUME NEW m \in T PROVE m <= n
  <2>1. N - m \in U
    OBVIOUS
  <2> QED
    BY <2>1, <1>3, <1>4
<1> QED
  BY <1>5

-----------------------------------------------------------------------------
LEMMA MemoryRow ==
    ASSUME NEW r \in [content : Memory!Contents, active : BOOLEAN] \cup {Memory!None}
    PROVE  /\ r.content \in 0..MaxEntries /\ r.active \in BOOLEAN
           /\ r = Memory!None <=> r.content = 0
           /\ r.active => r # Memory!None
<1>1. CASE r = Memory!None
  BY <1>1, ServicesAssumption DEF Memory!None
<1>2. CASE r # Memory!None
  <2>1. r \in [content : Memory!Contents, active : BOOLEAN]
    BY <1>2
  <2>2. r.content \in Memory!Contents /\ r.active \in BOOLEAN
    BY <2>1
  <2> QED
    BY <2>2, <1>2, ServicesAssumption DEF Memory!Contents
<1> QED
  BY <1>1, <1>2

LEMMA MemoryRows ==
    ASSUME Memory!TypeOK
    PROVE  /\ \A i \in Memory!Ids :
                 table[i] \in [content : Memory!Contents, active : BOOLEAN] \cup {Memory!None}
           /\ \A p \in Procs, i \in Memory!Ids :
                 mem[p][i] \in [content : Memory!Contents, active : BOOLEAN] \cup {Memory!None}
  BY DEF Memory!TypeOK, Memory!Rows

LEMMA HighestId ==
    ASSUME NEW ids, ids \subseteq Memory!Ids
    PROVE  /\ Memory!Highest(ids) \in 0..MaxEntries
           /\ \A i \in ids : i <= Memory!Highest(ids)
<1>1. CASE ids = {}
  BY <1>1, ServicesAssumption DEF Memory!Highest
<1>2. CASE ids # {}
  <2>1. ids \subseteq 0..MaxEntries /\ MaxEntries \in Nat
    BY ServicesAssumption DEF Memory!Ids
  <2>2. \E i \in ids : \A j \in ids : j <= i
    BY <1>2, <2>1, GreatestNatural
  <2>3. Memory!Highest(ids) = CHOOSE i \in ids : \A j \in ids : j <= i
    BY <1>2 DEF Memory!Highest
  <2>4. Memory!Highest(ids) \in ids /\ \A j \in ids : j <= Memory!Highest(ids)
    BY <2>2, <2>3, Zenon
  <2> QED
    BY <2>1, <2>4
<1> QED
  BY <1>1, <1>2

LEMMA MemoryStarts == Memory!Init => Memory!Inv
  BY ServicesAssumption DEF Memory!Init, Memory!Inv, Memory!TypeOK, Memory!Placed, Memory!Loaded,
     Memory!Written, Memory!Calling, Memory!Retained, Memory!Readable, Memory!Rows, Memory!None, Memory!NoCall,
     Memory!Contents, Memory!Ids, Memory!Recalled

LEMMA MemoryBoot == ASSUME Memory!Inv, NEW p \in Procs, Memory!Boot(p) PROVE Memory!Inv'
<1> USE DEF Memory!Inv
<1> DEFINE loaded == [i \in Memory!Ids |-> IF table[i].active THEN table[i] ELSE Memory!None]
<1>1. /\ \A q \in Procs : q = p
      /\ pc[p] = "down" /\ pc' = [pc EXCEPT ![p] = "up"]
      /\ mem' = [mem EXCEPT ![p] = loaded]
      /\ counter' = [counter EXCEPT ![p] = Memory!Highest(Memory!IdsOf(loaded))]
      /\ UNCHANGED <<mode, table, unsaved, call, fresh, known, gone, given>>
  BY ServicesAssumption DEF Memory!Boot, Memory!ghosts
<1>2. loaded \in Memory!Rows
  BY MemoryRows DEF Memory!Rows
<1>3. /\ Memory!Highest(Memory!IdsOf(loaded)) \in 0..MaxEntries
      /\ \A i \in Memory!Ids : i > Memory!Highest(Memory!IdsOf(loaded)) => loaded[i] = Memory!None
  <2> HIDE DEF loaded
  <2>1. Memory!IdsOf(loaded) \subseteq Memory!Ids
    BY DEF Memory!IdsOf
  <2> DEFINE h == Memory!Highest(Memory!IdsOf(loaded))
  <2>2. h \in 0..MaxEntries /\ \A i \in Memory!IdsOf(loaded) : i <= h
    BY <2>1, HighestId
  <2> HIDE DEF h
  <2>3. h \in 0..MaxEntries /\ \A i \in Memory!Ids : i > h => loaded[i] = Memory!None
    BY <2>2, ServicesAssumption DEF Memory!IdsOf, Memory!Ids
  <2> QED
    BY <2>3 DEF h
<1>4. Memory!TypeOK'
  BY <1>1, <1>2, <1>3 DEF Memory!TypeOK
<1>5. mem'[p] = loaded /\ pc'[p] = "up" /\ counter'[p] = Memory!Highest(Memory!IdsOf(loaded))
  BY <1>1 DEF Memory!TypeOK
<1>6. \A i \in Memory!Ids :
         /\ loaded[i] = IF table[i].active THEN table[i] ELSE Memory!None
         /\ table[i].content \in Nat /\ (table[i] = Memory!None <=> table[i].content = 0)
         /\ table[i].active => table[i] # Memory!None
  BY MemoryRows, MemoryRow, ServicesAssumption
<1>7. Memory!None.content = 0 /\ Memory!None.active = FALSE
  BY DEF Memory!None
<1> HIDE DEF loaded
<1>8. Memory!Placed'
  <2>1. fresh \in Nat \ {0}
    BY ServicesAssumption DEF Memory!TypeOK
  <2> QED
    BY <1>1, <1>5, <1>6, <1>7, <2>1 DEF Memory!Placed
<1>9. Memory!Loaded'
  BY <1>1, <1>3, <1>5, <1>6 DEF Memory!Loaded
<1>10. Memory!Written'
  BY <1>1, <1>5, <1>6 DEF Memory!Written, Memory!IdsOf
<1>11. Memory!Calling'
  BY <1>1 DEF Memory!Calling, Memory!TypeOK
<1>12. Memory!Retained'
  BY <1>1, <1>5, <1>6, <1>7 DEF Memory!Retained, Memory!Readable, Memory!Recalled
<1> QED
  BY <1>4, <1>8, <1>9, <1>10, <1>11, <1>12

(* What a row of the table, or an entry of the memory, is.                 *)
Whole(r) == /\ r.content \in Nat /\ r.active \in BOOLEAN
            /\ r = Memory!None <=> r.content = 0
            /\ r.active => r # Memory!None

LEMMA MemoryEntries ==
    ASSUME Memory!Inv, NEW p \in Procs
    PROVE  /\ \A q \in Procs : q = p
           /\ fresh \in Nat \ {0}
           /\ Whole(Memory!None) /\ \A i \in Memory!Ids : Whole(table[i]) /\ Whole(mem[p][i])
<1>1. Memory!TypeOK
  BY DEF Memory!Inv
<1>2. fresh \in Nat \ {0} /\ MaxEntries \in Nat /\ \A q \in Procs : q = p
  BY <1>1, ServicesAssumption DEF Memory!TypeOK
<1>3. Whole(Memory!None)
  BY DEF Whole, Memory!None
<1> QED
  BY <1>1, <1>2, <1>3, MemoryRow, MemoryRows DEF Whole

LEMMA MemoryForgotten ==
    ASSUME NEW r \in [content : Memory!Contents, active : BOOLEAN] \cup {Memory!None}
    PROVE  /\ [r EXCEPT !.active = FALSE].content = r.content
           /\ [r EXCEPT !.active = FALSE].active = FALSE
           /\ [r EXCEPT !.active = FALSE]
                 \in [content : Memory!Contents, active : BOOLEAN] \cup {Memory!None}
           /\ r = Memory!None => [r EXCEPT !.active = FALSE] = r
           /\ r # Memory!None => /\ [r EXCEPT !.active = FALSE] = [content |-> r.content, active |-> FALSE]
                                /\ r.content \in Memory!Contents
<1>1. r \in [content : Memory!Contents \cup {0}, active : BOOLEAN]
  <2>1. Memory!None \in [content : Memory!Contents \cup {0}, active : BOOLEAN]
    BY DEF Memory!None
  <2>2. CASE r \in [content : Memory!Contents, active : BOOLEAN]
    BY <2>2
  <2> QED
    BY <2>1, <2>2
<1>2. /\ [r EXCEPT !.active = FALSE] \in [content : Memory!Contents \cup {0}, active : BOOLEAN]
      /\ [r EXCEPT !.active = FALSE].content = r.content
      /\ [r EXCEPT !.active = FALSE].active = FALSE
      /\ [content |-> r.content, active |-> FALSE]
            \in [content : Memory!Contents \cup {0}, active : BOOLEAN]
  BY <1>1
<1>3. \A s, t \in [content : Memory!Contents \cup {0}, active : BOOLEAN] :
         s.content = t.content /\ s.active = t.active => s = t
  OBVIOUS
<1>4. [r EXCEPT !.active = FALSE] = [content |-> r.content, active |-> FALSE]
  BY <1>2, <1>3
<1>5. CASE r = Memory!None
  BY <1>2, <1>4, <1>5 DEF Memory!None
<1>6. CASE r # Memory!None
  <2>1. r \in [content : Memory!Contents, active : BOOLEAN]
    BY <1>6
  <2>2. r.content \in Memory!Contents
    BY <2>1
  <2>3. [content |-> r.content, active |-> FALSE] \in [content : Memory!Contents, active : BOOLEAN]
    BY <2>2
  <2> QED
    BY <1>2, <1>4, <1>6, <2>2, <2>3
<1> QED
  BY <1>5, <1>6

LEMMA MemoryRemember == ASSUME Memory!Inv, NEW p \in Procs, Memory!Remember(p) PROVE Memory!Inv'
<1> DEFINE id == counter[p] + 1
           new == [content |-> fresh, active |-> TRUE]
           c == [op |-> "remember", id |-> id, content |-> fresh]
<1>e. /\ \A q \in Procs : q = p
      /\ fresh \in Nat \ {0}
      /\ Whole(Memory!None) /\ \A i \in Memory!Ids : Whole(table[i]) /\ Whole(mem[p][i])
  BY MemoryEntries
<1> USE DEF Whole
<1>i. /\ Memory!TypeOK /\ Memory!Placed /\ Memory!Loaded /\ Memory!Written /\ Memory!Calling
      /\ Memory!Retained
  BY DEF Memory!Inv
<1> USE <1>i
<1>1. /\ pc[p] = "up" /\ id \in Memory!Ids /\ fresh \in Memory!Contents
      /\ mem' = [mem EXCEPT ![p][id] = new]
      /\ counter' = [counter EXCEPT ![p] = id]
      /\ fresh' = fresh + 1
      /\ mode' = mode /\ table' = table
  BY DEF Memory!Remember
<1>n. MaxEntries \in Nat
  BY ServicesAssumption
<1>2. \/ /\ mode = "serve" /\ pc' = [pc EXCEPT ![p] = "saving"]
         /\ unsaved' = [unsaved EXCEPT ![p] = Memory!IdsOf(mem'[p])]
         /\ call' = [call EXCEPT ![p] = c]
         /\ known' = known \ {fresh} /\ gone' = gone /\ given' = given
      \/ /\ mode # "serve" /\ UNCHANGED <<pc, unsaved, call, gone>>
         /\ known' = known \cup {fresh} /\ given' = given \cup {<<id, fresh>>}
  BY DEF Memory!Remember, Memory!Changed, Memory!Returned
<1>3. /\ new.content = fresh /\ new.active = TRUE
      /\ new \in [content : Memory!Contents, active : BOOLEAN] \cup {Memory!None}
      /\ c.op = "remember" /\ c.id = id /\ c.content = fresh
      /\ c \in [op : {"none", "remember", "forget"}, id : 0..MaxEntries, content : 0..MaxEntries]
  BY <1>1, ServicesAssumption DEF Memory!Ids, Memory!Contents
<1>6. mem[p][id] = Memory!None
  BY <1>1, ServicesAssumption DEF Memory!Loaded, Memory!TypeOK, Memory!Ids
<1>g. \A i \in Memory!Ids : i > id => i > counter[p] /\ i # id
  BY ServicesAssumption DEF Memory!TypeOK, Memory!Ids
<1> HIDE DEF new, c, id
<1>m. /\ \A i \in Memory!Ids : mem'[p][i] = IF i = id THEN new ELSE mem[p][i]
      /\ mem' \in [Procs -> Memory!Rows]
  BY <1>1, <1>3 DEF Memory!TypeOK, Memory!Rows
<1>5. Memory!TypeOK'
  <2>1. fresh' \in 1..(MaxEntries + 1)
    BY <1>1, <1>n DEF Memory!Contents
  <2>2. counter' \in [Procs -> 0..MaxEntries]
    <3>1. id \in 0..MaxEntries
      BY <1>1, <1>n DEF Memory!Ids
    <3> QED
      BY <1>1, <3>1 DEF Memory!TypeOK
  <2>3. Memory!IdsOf(mem'[p]) \in SUBSET Memory!Ids
    BY DEF Memory!IdsOf
  <2>4. /\ pc' \in [Procs -> {"down", "up", "saving"}]
        /\ unsaved' \in [Procs -> SUBSET Memory!Ids]
    BY <1>2, <2>3 DEF Memory!TypeOK
  <2>7. call' \in [Procs -> [op : {"none", "remember", "forget"}, id : 0..MaxEntries,
                             content : 0..MaxEntries]]
    BY <1>2, <1>3 DEF Memory!TypeOK
  <2>5. known' \subseteq Memory!Contents /\ gone' \subseteq Memory!Contents
    BY <1>1, <1>2 DEF Memory!TypeOK
  <2>6. given' \subseteq Memory!Ids \X Memory!Contents
    <3>1. given \subseteq Memory!Ids \X Memory!Contents
      BY DEF Memory!TypeOK
    <3>2. <<id, fresh>> \in Memory!Ids \X Memory!Contents
      BY <1>1
    <3>3. given' \subseteq given \cup {<<id, fresh>>}
      BY <1>2
    <3> QED
      BY <3>1, <3>2, <3>3, Zenon
  <2> QED
    BY <1>1, <1>m, <2>1, <2>2, <2>4, <2>5, <2>6, <2>7 DEF Memory!TypeOK
<1>7. Memory!Placed'
  <2>1. \A i \in Memory!Ids : table[i].content < fresh /\ mem[p][i].content < fresh
    BY DEF Memory!Placed
  <2>7. \A d \in known \cup gone : d < fresh /\ d \in Nat
    BY <1>n DEF Memory!Placed, Memory!TypeOK, Memory!Contents
  <2>2. \A i \in Memory!Ids : mem'[p][i].content = IF i = id THEN fresh ELSE mem[p][i].content
    BY <1>m, <1>3
  <2>3. \A i \in Memory!Ids : mem'[p][i] = Memory!None => i # id /\ mem[p][i] = Memory!None
    BY <1>m, <1>3, <1>e
  <2>4. \A i, j \in Memory!Ids :
           mem'[p][i] # Memory!None /\ mem'[p][i].content \in {mem'[p][j].content, table[j].content} => i = j
    BY <1>m, <1>3, <1>e, <2>1, <2>2 DEF Memory!Placed
  <2>5. \A i \in Memory!Ids : table[i].content < fresh' /\ mem'[p][i].content < fresh'
    BY <1>1, <1>e, <2>1, <2>2
  <2>6. \A d \in known' \cup gone' : d < fresh'
    BY <1>1, <1>2, <1>e, <2>7
  <2> QED
    BY <1>1, <1>e, <2>4, <2>5, <2>6 DEF Memory!Placed
<1>8. Memory!Loaded'
  <2>1. counter'[p] = id /\ pc[p] # "down"
    BY <1>1 DEF Memory!TypeOK
  <2>2. \A i \in Memory!Ids : i > id => mem'[p][i] = Memory!None
    BY <1>1, <1>m, <1>g, <2>1 DEF Memory!Loaded
  <2>3. \A i \in Memory!Ids : table[i].active => mem'[p][i] # Memory!None
    BY <1>1, <1>m, <1>e, <1>3, <2>1 DEF Memory!Loaded
  <2> QED
    BY <1>1, <1>e, <2>1, <2>2, <2>3 DEF Memory!Loaded
<1>9. Memory!Written'
  <2>1. mode = "serve" => pc'[p] = "saving" /\ unsaved'[p] = Memory!IdsOf(mem'[p]) /\ call'[p].id = id
    BY <1>2, <1>3 DEF Memory!TypeOK
  <2>2. mode # "serve" => pc'[p] = "up"
    BY <1>1, <1>2
  <2>3. \A i \in Memory!Ids : i # id /\ mode = "serve" /\ mem[p][i] # Memory!None => table[i] = mem[p][i]
    <3>1. call[p] = Memory!NoCall
      BY <1>1 DEF Memory!Calling
    <3>2. call[p].id = 0
      BY <3>1 DEF Memory!NoCall
    <3>3. \A i \in Memory!Ids : i # call[p].id
      BY <3>2 DEF Memory!Ids
    <3> QED
      BY <1>1, <3>3 DEF Memory!Written, Memory!IdsOf
  <2>4. ASSUME NEW i \in Memory!IdsOf(mem'[p]),
               \/ pc'[p] = "saving" /\ i \notin unsaved'[p]
               \/ mode = "serve" /\ i # call'[p].id
        PROVE  table[i] = mem'[p][i]
    <3>1. mode = "serve" /\ i # id
      BY <2>1, <2>2, <2>4, <1>e
    <3>2. i \in Memory!Ids /\ mem'[p][i] # Memory!None
      BY <2>4 DEF Memory!IdsOf
    <3> QED
      BY <1>m, <2>3, <3>1, <3>2
  <2> QED
    BY <1>1, <1>e, <2>4 DEF Memory!Written
<1>10. Memory!Calling'
  <2>1. call[p] = Memory!NoCall
    BY <1>1 DEF Memory!Calling
  <2>2. CASE mode = "serve"
    <3>1. /\ call'[p] = c /\ pc'[p] = "saving" /\ known' = known \ {fresh}
          /\ mem'[p][id] = new
      BY <1>1, <1>2, <1>m, <2>2 DEF Memory!TypeOK
    <3>2. new = [content |-> c.content, active |-> c.op = "remember"]
      BY <1>3 DEF new
    <3>3. ASSUME NEW q \in Procs
          PROVE  IF call'[q].op = "none" THEN call'[q] = Memory!NoCall
                 ELSE /\ pc'[q] = "saving" /\ mode' = "serve" /\ call'[q].id \in Memory!Ids
                      /\ mem'[q][call'[q].id] = [content |-> call'[q].content,
                                               active |-> call'[q].op = "remember"]
                      /\ call'[q].content \in Memory!Contents \ known'
      <4>1. q = p
        BY <1>e
      <4>2. c.op # "none" /\ c.id = id /\ c.content = fresh
        BY <1>3
      <4> QED
        BY <4>1, <4>2, <1>1, <2>2, <3>1, <3>2
    <3> QED
      BY <3>3 DEF Memory!Calling
  <2>3. CASE mode # "serve"
    <3>1. call'[p] = Memory!NoCall /\ Memory!NoCall.op = "none"
      BY <1>2, <2>1, <2>3 DEF Memory!NoCall
    <3> QED
      BY <3>1, <1>e DEF Memory!Calling
  <2> QED
    BY <2>2, <2>3
<1>11. Memory!Retained'
  <2>1. Memory!Readable' => Memory!Readable /\ mode = "serve" /\ known' \subseteq known
    BY <1>1, <1>2 DEF Memory!Readable, Memory!TypeOK
  <2>2. Memory!Recalled(mem'[p]) = Memory!Recalled(mem[p]) \cup {fresh}
    <3>1. \A i \in Memory!Ids : mem'[p][i].active <=> i = id \/ mem[p][i].active
      BY <1>m, <1>3
    <3>2. \A i \in Memory!Ids : mem'[p][i].content = IF i = id THEN fresh ELSE mem[p][i].content
      BY <1>m, <1>3
    <3>3. ~mem[p][id].active
      BY <1>6, <1>e
    <3> QED
      BY <1>1, <3>1, <3>2, <3>3 DEF Memory!Recalled
  <2>3. known' \subseteq known \cup {fresh} /\ gone' = gone
    BY <1>2
  <2>4. fresh \notin gone
    BY <1>e DEF Memory!Placed
  <2>5. pc[p] # "down"
    BY <1>1
  <2>6. known \subseteq Memory!Recalled(mem[p]) /\ gone \cap Memory!Recalled(mem[p]) = {}
    BY <2>5 DEF Memory!Retained
  <2>7. known' \subseteq Memory!Recalled(mem'[p]) /\ gone' \cap Memory!Recalled(mem'[p]) = {}
    BY <2>2, <2>3, <2>4, <2>6
  <2>8. Memory!Readable' => known' \subseteq Memory!Recalled(table') /\ gone' \cap Memory!Recalled(table') = {}
    BY <1>1, <2>1, <2>3 DEF Memory!Retained
  <2> QED
    BY <1>e, <2>7, <2>8 DEF Memory!Retained
<1> QED
  BY <1>5, <1>7, <1>8, <1>9, <1>10, <1>11 DEF Memory!Inv

LEMMA MemoryForget ==
    ASSUME Memory!Inv, NEW p \in Procs, NEW id \in Memory!Ids, Memory!Forget(p, id)
    PROVE  Memory!Inv'
<1> DEFINE row == mem[p][id]
           c == Memory!ForgetCall(p, id)
<1>0. \A q \in Procs : q = p
  BY ServicesAssumption
<1>e. Whole(Memory!None) /\ \A i \in Memory!Ids : Whole(table[i]) /\ Whole(mem[p][i])
  BY MemoryEntries
<1> USE DEF Whole
<1>1. /\ Memory!TypeOK /\ Memory!Placed /\ Memory!Loaded /\ Memory!Written /\ Memory!Calling
      /\ Memory!Retained
  BY DEF Memory!Inv
<1>2. /\ pc[p] = "up"
      /\ mem' = [mem EXCEPT ![p][id].active = FALSE]
      /\ UNCHANGED <<mode, table, counter, fresh>>
  BY DEF Memory!Forget
<1>3. \/ /\ mode = "serve" /\ pc' = [pc EXCEPT ![p] = "saving"]
         /\ unsaved' = [unsaved EXCEPT ![p] = Memory!IdsOf(mem'[p])]
         /\ call' = [call EXCEPT ![p] = c]
         /\ known' = known \ {c.content} /\ gone' = gone /\ given' = given
      \/ /\ mode # "serve" /\ UNCHANGED <<pc, unsaved, call, given>> /\ c.op # "none"
         /\ known' = known \ {c.content} /\ gone' = gone \cup {c.content}
      \/ /\ mode # "serve" /\ UNCHANGED <<pc, unsaved, call, given, known, gone>> /\ c.op = "none"
  BY DEF Memory!Forget, Memory!Changed, Memory!Returned, Memory!ForgetCall, Memory!NoCall, Memory!ghosts
<1>4. IF row = Memory!None
      THEN c = Memory!NoCall /\ c.op = "none" /\ c.id = 0 /\ c.content = 0
      ELSE c.op = "forget" /\ c.id = id /\ c.content = row.content
  BY DEF Memory!ForgetCall, Memory!NoCall
<1>5. row \in [content : Memory!Contents, active : BOOLEAN] \cup {Memory!None}
  BY <1>1 DEF Memory!TypeOK, Memory!Rows
<1>6. /\ [row EXCEPT !.active = FALSE].content = row.content
      /\ [row EXCEPT !.active = FALSE].active = FALSE
      /\ row # Memory!None => [row EXCEPT !.active = FALSE] = [content |-> row.content, active |-> FALSE]
      /\ row = Memory!None => [row EXCEPT !.active = FALSE] = row
      /\ row # Memory!None => row.content \in Memory!Contents
      /\ [row EXCEPT !.active = FALSE] \in [content : Memory!Contents, active : BOOLEAN] \cup {Memory!None}
  <2> HIDE DEF row
  <2> QED
    BY <1>5, MemoryForgotten
<1>15. /\ \A i \in Memory!Ids : mem'[p][i] = IF i = id THEN [row EXCEPT !.active = FALSE] ELSE mem[p][i]
       /\ mem' \in [Procs -> [Memory!Ids -> [content : Memory!Contents, active : BOOLEAN] \cup {Memory!None}]]
  <2>1. mem \in [Procs -> [Memory!Ids -> [content : Memory!Contents, active : BOOLEAN] \cup {Memory!None}]]
    BY <1>1 DEF Memory!TypeOK, Memory!Rows
  <2> QED
    BY <1>2, <2>1, <1>6
<1> HIDE DEF c
<1>7. \A i \in Memory!Ids :
         /\ mem'[p][i].content = mem[p][i].content
         /\ mem'[p][i].active <=> i # id /\ mem[p][i].active
         /\ mem'[p][i] = Memory!None <=> mem[p][i] = Memory!None
         /\ i # id => mem'[p][i] = mem[p][i]
  <2>1. row = Memory!None <=> row.content = 0
    BY <1>e
  <2>2. Memory!None.content = 0
    BY DEF Memory!None
  <2>3. [row EXCEPT !.active = FALSE] = Memory!None <=> row = Memory!None
    BY <2>1, <2>2, <1>6
  <2> QED
    BY <1>15, <1>6, <2>3
<1> HIDE DEF row
<1>8. call[p] = Memory!NoCall /\ call[p].id = 0 /\ call[p].op = "none"
  <2>1. call[p] = Memory!NoCall
    BY <1>1, <1>2 DEF Memory!Calling
  <2> QED
    BY <2>1 DEF Memory!NoCall
<1>9. Memory!TypeOK'
  <2>1. c \in [op : {"none", "remember", "forget"}, id : 0..MaxEntries, content : 0..MaxEntries]
    BY <1>6, ServicesAssumption DEF c, row, Memory!ForgetCall, Memory!NoCall, Memory!Ids, Memory!Contents
  <2>2. Memory!IdsOf(mem'[p]) \in SUBSET Memory!Ids
    BY DEF Memory!IdsOf
  <2>3. /\ pc' \in [Procs -> {"down", "up", "saving"}]
        /\ unsaved' \in [Procs -> SUBSET Memory!Ids]
    BY <1>1, <1>3, <2>2 DEF Memory!TypeOK
  <2>4. call' \in [Procs -> [op : {"none", "remember", "forget"}, id : 0..MaxEntries,
                             content : 0..MaxEntries]]
    BY <1>1, <1>3, <2>1 DEF Memory!TypeOK
  <2>5. known' \subseteq Memory!Contents /\ gone' \subseteq Memory!Contents /\ given' = given
    BY <1>1, <1>3, <1>4, <1>6 DEF Memory!TypeOK
  <2> QED
    BY <1>1, <1>2, <1>15, <2>3, <2>4, <2>5 DEF Memory!TypeOK, Memory!Rows
<1>10. Memory!Placed'
  <2>1. \A d \in known' \cup gone' : d < fresh
    <3>1. row.content < fresh /\ \A d \in known \cup gone : d < fresh
      BY <1>1 DEF Memory!Placed, row
    <3>2. known' \subseteq known /\ gone' \subseteq gone \cup {row.content}
      BY <1>3, <1>4
    <3> QED
      BY <3>1, <3>2
  <2>2. \A i, j \in Memory!Ids :
           mem'[p][i] # Memory!None /\ mem'[p][i].content \in {mem'[p][j].content, table[j].content}
              => i = j
    BY <1>1, <1>7 DEF Memory!Placed
  <2>3. \A i \in Memory!Ids : table[i].content < fresh /\ mem'[p][i].content < fresh
    BY <1>1, <1>7 DEF Memory!Placed
  <2>4. \A i, j \in Memory!Ids : table[i] # Memory!None /\ table[i].content = table[j].content => i = j
    BY <1>1 DEF Memory!Placed
  <2> QED
    BY <1>2, <2>1, <2>2, <2>3, <2>4, <1>0 DEF Memory!Placed
<1>11. Memory!Loaded'
  <2>1. \A i \in Memory!Ids : /\ i > counter[p] => mem[p][i] = Memory!None
                              /\ table[i].active => mem[p][i] # Memory!None
    BY <1>1, <1>2 DEF Memory!Loaded
  <2> QED
    BY <1>2, <1>7, <2>1, <1>0 DEF Memory!Loaded
<1>12. Memory!Written'
  <2>1. \A i \in Memory!Ids : mem[p][i] # Memory!None /\ mode = "serve" => table[i] = mem[p][i]
    <3>1. \A i \in Memory!Ids : i # call[p].id
      BY <1>8 DEF Memory!Ids
    <3> QED
      BY <1>1, <1>2, <3>1 DEF Memory!Written, Memory!IdsOf
  <2>2. mode = "serve" => unsaved'[p] = Memory!IdsOf(mem'[p]) /\ call'[p] = c
    BY <1>1, <1>3 DEF Memory!TypeOK
  <2>3. mode # "serve" => pc'[p] = "up"
    BY <1>2, <1>3
  <2>4. ASSUME NEW i \in Memory!IdsOf(mem'[p]),
               \/ pc'[p] = "saving" /\ i \notin unsaved'[p]
               \/ mode = "serve" /\ i # call'[p].id
        PROVE  table[i] = mem'[p][i]
    <3>1. i \in Memory!Ids /\ mem[p][i] # Memory!None
      BY <1>7, <2>4 DEF Memory!IdsOf
    <3>2. mode = "serve" /\ i # c.id
      BY <2>2, <2>3, <2>4
    <3>3. i # id
      BY <1>4, <3>1, <3>2 DEF row
    <3> QED
      BY <1>7, <2>1, <3>1, <3>2, <3>3
  <2> QED
    BY <1>2, <2>4, <1>0 DEF Memory!Written
<1>13. Memory!Calling'
  <2>1. CASE call'[p] = Memory!NoCall
    <3>1. Memory!NoCall.op = "none"
      BY DEF Memory!NoCall
    <3> QED
      BY <2>1, <3>1, <1>0 DEF Memory!Calling
  <2>2. CASE call'[p] # Memory!NoCall
    <3>1. mode = "serve" /\ call'[p] = c /\ pc'[p] = "saving" /\ known' = known \ {c.content}
      BY <1>1, <1>3, <1>8, <2>2 DEF Memory!TypeOK
    <3>2. row # Memory!None
      BY <1>4, <2>2, <3>1
    <3>3. mem'[p][id] = [content |-> c.content, active |-> c.op = "remember"]
      BY <1>4, <1>15, <1>6, <3>2 DEF row
    <3>4. c.op = "forget" /\ c.id = id /\ c.content \in Memory!Contents
      BY <1>4, <1>6, <3>2
    <3>5. ASSUME NEW q \in Procs
          PROVE  IF call'[q].op = "none" THEN call'[q] = Memory!NoCall
                 ELSE /\ pc'[q] = "saving" /\ mode' = "serve" /\ call'[q].id \in Memory!Ids
                      /\ mem'[q][call'[q].id] = [content |-> call'[q].content,
                                               active |-> call'[q].op = "remember"]
                      /\ call'[q].content \in Memory!Contents \ known'
      <4>1. q = p
        BY <1>0
      <4> QED
        BY <4>1, <1>2, <3>1, <3>3, <3>4
    <3> QED
      BY <3>5 DEF Memory!Calling
  <2> QED
    BY <2>1, <2>2
<1>14. Memory!Retained'
  <2>1. known \subseteq Memory!Recalled(mem[p]) /\ gone \cap Memory!Recalled(mem[p]) = {}
    BY <1>1, <1>2 DEF Memory!Retained
  <2>2. Memory!Recalled(mem'[p]) \subseteq Memory!Recalled(mem[p])
    BY <1>7 DEF Memory!Recalled
  <2>3. row # Memory!None => row.content \notin Memory!Recalled(mem'[p])
    BY <1>1, <1>7 DEF Memory!Placed, Memory!Recalled, row
  <2>4. Memory!Recalled(mem[p]) \subseteq Memory!Recalled(mem'[p]) \cup {row.content}
    BY <1>7 DEF Memory!Recalled, row
  <2>5. row = Memory!None => Memory!Recalled(mem[p]) \subseteq Memory!Recalled(mem'[p])
    <3>1. row = Memory!None => ~mem[p][id].active
      BY <1>e DEF row
    <3> QED
      BY <1>7, <3>1 DEF Memory!Recalled
  <2>6. /\ known' \subseteq known /\ (row # Memory!None => row.content \notin known')
        /\ gone' \subseteq gone \cup {row.content} /\ (row = Memory!None => gone' = gone)
    BY <1>3, <1>4
  <2>7. known' \subseteq Memory!Recalled(mem'[p]) /\ gone' \cap Memory!Recalled(mem'[p]) = {}
    <3>1. CASE row = Memory!None
      BY <2>1, <2>2, <2>5, <2>6, <3>1
    <3>2. CASE row # Memory!None
      BY <2>1, <2>2, <2>3, <2>4, <2>6, <3>2
    <3> QED
      BY <3>1, <3>2
  <2>8. Memory!Readable' => Memory!Readable /\ gone' = gone
    BY <1>2, <1>3 DEF Memory!Readable
  <2>9. Memory!Readable' => known' \subseteq Memory!Recalled(table') /\ gone' \cap Memory!Recalled(table') = {}
    <3>1. Memory!Readable => known \subseteq Memory!Recalled(table) /\ gone \cap Memory!Recalled(table) = {}
      BY <1>1 DEF Memory!Retained
    <3>2. table' = table
      BY <1>2
    <3> QED
      BY <2>6, <2>8, <3>1, <3>2
  <2> QED
    BY <2>7, <2>9, <1>0 DEF Memory!Retained
<1> QED
  BY <1>9, <1>10, <1>11, <1>12, <1>13, <1>14 DEF Memory!Inv

LEMMA MemoryWriteRow ==
    ASSUME Memory!Inv, NEW p \in Procs, NEW id \in Memory!Ids, Memory!WriteRow(p, id)
    PROVE  Memory!Inv'
<1>0. \A q \in Procs : q = p
  BY ServicesAssumption
<1>e. Whole(Memory!None) /\ \A i \in Memory!Ids : Whole(table[i]) /\ Whole(mem[p][i])
  BY MemoryEntries
<1> USE DEF Whole
<1>1. /\ Memory!TypeOK /\ Memory!Placed /\ Memory!Loaded /\ Memory!Written /\ Memory!Calling
      /\ Memory!Retained
  BY DEF Memory!Inv
<1>2. /\ pc[p] = "saving"
      /\ table' = [table EXCEPT ![id] = mem[p][id]]
      /\ unsaved' = [unsaved EXCEPT ![p] = unsaved[p] \ {id}]
      /\ UNCHANGED <<mode, mem, counter, pc, call, fresh, known, gone, given>>
  BY DEF Memory!WriteRow, Memory!ghosts
<1>3. /\ \A i \in Memory!Ids : table'[i] = IF i = id THEN mem[p][id] ELSE table[i]
      /\ unsaved'[p] = unsaved[p] \ {id}
  BY <1>1, <1>2 DEF Memory!TypeOK, Memory!Rows
<1>4. Memory!TypeOK'
  BY <1>1, <1>2 DEF Memory!TypeOK, Memory!Rows
<1>5. \A i, j \in Memory!Ids :
         /\ table[i] # Memory!None /\ table[i].content = table[j].content => i = j
         /\ mem[p][i] # Memory!None
            /\ mem[p][i].content \in {mem[p][j].content, table[j].content} => i = j
  BY <1>1 DEF Memory!Placed
<1>6. Memory!Placed'
  <2>1. \A i, j \in Memory!Ids : table'[i] # Memory!None /\ table'[i].content = table'[j].content => i = j
    <3>1. \A i \in Memory!Ids : table[i] # Memory!None /\ table[i].content = mem[p][id].content => i = id
      BY <1>5, <1>e
    <3> QED
      BY <1>3, <1>5, <3>1
  <2>2. \A i, j \in Memory!Ids :
           mem[p][i] # Memory!None
           /\ mem[p][i].content \in {mem[p][j].content, table'[j].content} => i = j
    BY <1>3, <1>5
  <2>3. \A i \in Memory!Ids : table'[i].content < fresh /\ mem[p][i].content < fresh
    BY <1>1, <1>3 DEF Memory!Placed
  <2>4. \A d \in known \cup gone : d < fresh
    BY <1>1 DEF Memory!Placed
  <2> QED
    BY <1>2, <2>1, <2>2, <2>3, <2>4, <1>0 DEF Memory!Placed
<1>7. Memory!Loaded'
  <2>1. \A i \in Memory!Ids : /\ i > counter[p] => mem[p][i] = Memory!None
                              /\ table[i].active => mem[p][i] # Memory!None
    BY <1>1, <1>2 DEF Memory!Loaded
  <2>2. \A i \in Memory!Ids : table'[i].active => mem[p][i] # Memory!None
    BY <1>3, <2>1, <1>e
  <2> QED
    BY <1>2, <2>1, <2>2, <1>0 DEF Memory!Loaded
<1>8. Memory!Written'
  <2>1. ASSUME NEW i \in Memory!IdsOf(mem[p]),
               (pc[p] = "saving" /\ i \notin unsaved'[p]) \/ (mode = "serve" /\ i # call[p].id)
        PROVE  table'[i] = mem[p][i]
    <3>1. i \in Memory!Ids
      BY DEF Memory!IdsOf
    <3>2. i # id => table[i] = mem[p][i]
      BY <1>1, <1>2, <1>3, <2>1 DEF Memory!Written
    <3> QED
      BY <1>3, <3>1, <3>2
  <2> QED
    BY <1>2, <2>1, <1>0 DEF Memory!Written
<1>9. Memory!Calling'
  BY <1>1, <1>2 DEF Memory!Calling
<1>10. Memory!Retained'
  <2>1. known \subseteq Memory!Recalled(mem[p]) /\ gone \cap Memory!Recalled(mem[p]) = {}
    BY <1>1, <1>2 DEF Memory!Retained
  <2>2. Memory!Readable' => known \subseteq Memory!Recalled(table) /\ gone \cap Memory!Recalled(table) = {}
    BY <1>1, <1>2 DEF Memory!Retained, Memory!Readable
  <2>3. Memory!Recalled(table') \subseteq Memory!Recalled(table) \cup Memory!Recalled(mem[p])
    BY <1>3 DEF Memory!Recalled
  <2>4. ASSUME NEW d \in known, d \in Memory!Recalled(table) PROVE d \in Memory!Recalled(table')
    <3>1. PICK i \in Memory!Ids : table[i].active /\ table[i].content = d
      BY <2>4 DEF Memory!Recalled
    <3>2. PICK j \in Memory!Ids : mem[p][j].active /\ mem[p][j].content = d
      BY <2>1 DEF Memory!Recalled
    <3>3. j = i
      BY <1>5, <3>1, <3>2, <1>e
    <3>4. table'[i].active /\ table'[i].content = d
      BY <1>3, <3>1, <3>2, <3>3
    <3> QED
      BY <3>4 DEF Memory!Recalled
  <2>5. Memory!Readable' => known \subseteq Memory!Recalled(table') /\ gone \cap Memory!Recalled(table') = {}
    BY <2>1, <2>2, <2>3, <2>4
  <2> QED
    BY <1>2, <2>1, <2>5, <1>0 DEF Memory!Retained
<1> QED
  BY <1>4, <1>6, <1>7, <1>8, <1>9, <1>10 DEF Memory!Inv

LEMMA MemorySaved == ASSUME Memory!Inv, NEW p \in Procs, Memory!Saved(p) PROVE Memory!Inv'
<1> DEFINE c == call[p]
<1>0. \A q \in Procs : q = p
  BY ServicesAssumption
<1>e. Whole(Memory!None) /\ \A i \in Memory!Ids : Whole(table[i]) /\ Whole(mem[p][i])
  BY MemoryEntries
<1> USE DEF Whole
<1>1. /\ Memory!TypeOK /\ Memory!Placed /\ Memory!Loaded /\ Memory!Written /\ Memory!Calling
      /\ Memory!Retained
  BY DEF Memory!Inv
<1>2. /\ pc[p] = "saving" /\ unsaved[p] = {}
      /\ pc' = [pc EXCEPT ![p] = IF mode = "serve" THEN "up" ELSE "down"]
      /\ call' = [call EXCEPT ![p] = Memory!NoCall]
      /\ UNCHANGED <<mode, table, mem, counter, unsaved, fresh>>
  BY DEF Memory!Saved
<1>3. \/ /\ c.op = "remember" /\ gone' = gone
         /\ known' = known \cup {c.content} /\ given' = given \cup {<<c.id, c.content>>}
      \/ /\ c.op = "forget" /\ given' = given
         /\ known' = known \ {c.content} /\ gone' = gone \cup {c.content}
      \/ c.op = "none" /\ UNCHANGED <<known, gone, given>>
  BY DEF Memory!Saved, Memory!Returned, Memory!ghosts
<1>4. c.op # "none" => /\ c.id \in Memory!Ids /\ c.content \in Memory!Contents
                       /\ mem[p][c.id].content = c.content
                       /\ mem[p][c.id].active <=> c.op = "remember"
  <2>1. c.op # "none" =>
           /\ c.id \in Memory!Ids /\ c.content \in Memory!Contents
           /\ mem[p][c.id] = [content |-> c.content, active |-> c.op = "remember"]
    BY <1>1 DEF Memory!Calling
  <2> HIDE DEF c
  <2>2. CASE c.op = "remember"
    <3>1. mem[p][c.id] = [content |-> c.content, active |-> TRUE]
      BY <2>1, <2>2
    <3> QED
      BY <2>1, <2>2, <3>1
  <2>3. CASE c.op # "remember" /\ c.op # "none"
    <3>1. mem[p][c.id] = [content |-> c.content, active |-> FALSE]
      BY <2>1, <2>3
    <3> QED
      BY <2>1, <2>3, <3>1
  <2> QED
    BY <2>2, <2>3
<1> HIDE DEF c
<1>5. Memory!TypeOK'
  <2>1. Memory!NoCall \in [op : {"none", "remember", "forget"}, id : 0..MaxEntries, content : 0..MaxEntries]
    BY ServicesAssumption DEF Memory!NoCall
  <2>2. call' \in [Procs -> [op : {"none", "remember", "forget"}, id : 0..MaxEntries,
                             content : 0..MaxEntries]]
    BY <1>1, <1>2, <2>1 DEF Memory!TypeOK
  <2>3. pc' \in [Procs -> {"down", "up", "saving"}]
    BY <1>1, <1>2 DEF Memory!TypeOK
  <2>4. known' \subseteq Memory!Contents /\ gone' \subseteq Memory!Contents
    BY <1>1, <1>3, <1>4 DEF Memory!TypeOK
  <2>5. given' \subseteq Memory!Ids \X Memory!Contents
    <3>1. given \subseteq Memory!Ids \X Memory!Contents
      BY <1>1 DEF Memory!TypeOK
    <3>2. CASE c.op = "remember"
      <4>1. <<c.id, c.content>> \in Memory!Ids \X Memory!Contents
        BY <1>4, <3>2
      <4>2. given' = given \cup {<<c.id, c.content>>}
        BY <1>3, <3>2
      <4> QED
        BY <3>1, <4>1, <4>2, Zenon
    <3>3. CASE c.op # "remember"
      BY <1>3, <3>1, <3>3
    <3> QED
      BY <3>2, <3>3
  <2> QED
    BY <1>1, <1>2, <2>2, <2>3, <2>4, <2>5 DEF Memory!TypeOK
<1>6. Memory!Placed'
  <2>1. \A d \in known' \cup gone' : d < fresh
    <3>1. \A d \in known \cup gone : d < fresh
      BY <1>1 DEF Memory!Placed
    <3>2. c.op # "none" => c.content < fresh
      BY <1>1, <1>4 DEF Memory!Placed
    <3> QED
      BY <1>3, <3>1, <3>2
  <2> QED
    BY <1>1, <1>2, <2>1 DEF Memory!Placed
<1>7. Memory!Loaded'
  BY <1>0, <1>1, <1>2 DEF Memory!Loaded
<1>8. \A i \in Memory!Ids : mem[p][i] # Memory!None => table[i] = mem[p][i]
  BY <1>1, <1>2 DEF Memory!Written, Memory!IdsOf
<1>9. Memory!Written'
  BY <1>0, <1>2, <1>8 DEF Memory!Written, Memory!IdsOf
<1>10. Memory!Calling'
  <2>1. call'[p] = Memory!NoCall /\ Memory!NoCall.op = "none"
    BY <1>1, <1>2 DEF Memory!TypeOK, Memory!NoCall
  <2> QED
    BY <1>0, <2>1 DEF Memory!Calling
<1>11. Memory!Retained'
  <2>1. Memory!Recalled(table) = Memory!Recalled(mem[p])
    <3>1. \A i \in Memory!Ids : table[i].active => mem[p][i] # Memory!None
      BY <1>1, <1>2 DEF Memory!Loaded
    <3>2. \A i \in Memory!Ids : (table[i].active <=> mem[p][i].active)
                                /\ (table[i].active => table[i].content = mem[p][i].content)
      BY <1>8, <1>e, <3>1
    <3> QED
      BY <3>2 DEF Memory!Recalled
  <2>2. known \subseteq Memory!Recalled(mem[p]) /\ gone \cap Memory!Recalled(mem[p]) = {}
    BY <1>1, <1>2 DEF Memory!Retained
  <2>3. c.op = "remember" => c.content \in Memory!Recalled(mem[p])
    BY <1>4 DEF Memory!Recalled
  <2>4. c.op = "forget" => c.content \notin Memory!Recalled(mem[p])
    <3>1. ASSUME c.op = "forget", NEW i \in Memory!Ids, mem[p][i].active, mem[p][i].content = c.content
          PROVE  FALSE
      <4>1. i = c.id
        BY <1>1, <1>4, <1>e, <3>1 DEF Memory!Placed
      <4> QED
        BY <1>4, <3>1, <4>1
    <3> QED
      BY <3>1 DEF Memory!Recalled
  <2>5. known' \subseteq Memory!Recalled(mem[p]) /\ gone' \cap Memory!Recalled(mem[p]) = {}
    BY <1>3, <2>2, <2>3, <2>4
  <2> QED
    BY <1>0, <1>2, <2>1, <2>5 DEF Memory!Retained
<1> QED
  BY <1>5, <1>6, <1>7, <1>9, <1>10, <1>11 DEF Memory!Inv

LEMMA MemoryEnds == ASSUME Memory!Inv, NEW p \in Procs, Memory!Ends(p) PROVE Memory!Inv'
<1>0. \A q \in Procs : q = p
  BY ServicesAssumption
<1>1. /\ Memory!TypeOK /\ Memory!Placed /\ Memory!Loaded /\ Memory!Written /\ Memory!Calling
      /\ Memory!Retained
  BY DEF Memory!Inv
<1>2. /\ mode = "run" /\ pc[p] = "up"
      /\ pc' = [pc EXCEPT ![p] = "saving"]
      /\ unsaved' = [unsaved EXCEPT ![p] = Memory!IdsOf(mem[p])]
      /\ UNCHANGED <<mode, table, mem, counter, call, fresh, known, gone, given>>
  BY DEF Memory!Ends, Memory!ghosts
<1>3. Memory!IdsOf(mem[p]) \subseteq Memory!Ids
  BY DEF Memory!IdsOf
<1>4. pc'[p] = "saving" /\ unsaved'[p] = Memory!IdsOf(mem[p])
  BY <1>1, <1>2 DEF Memory!TypeOK
<1>5. Memory!TypeOK'
  BY <1>1, <1>2, <1>3 DEF Memory!TypeOK
<1>6. Memory!Placed'
  BY <1>1, <1>2 DEF Memory!Placed
<1>7. Memory!Loaded'
  BY <1>0, <1>1, <1>2 DEF Memory!Loaded
<1>8. Memory!Written'
  BY <1>0, <1>2, <1>4 DEF Memory!Written
<1>9. Memory!Calling'
  BY <1>0, <1>1, <1>2 DEF Memory!Calling
<1>10. Memory!Retained'
  BY <1>0, <1>1, <1>2, <1>4 DEF Memory!Retained, Memory!Readable
<1> QED
  BY <1>5, <1>6, <1>7, <1>8, <1>9, <1>10 DEF Memory!Inv

LEMMA MemoryCrash == ASSUME Memory!Inv, NEW p \in Procs, Memory!Crash(p) PROVE Memory!Inv'
<1>0. \A q \in Procs : q = p
  BY ServicesAssumption
<1>1. /\ Memory!TypeOK /\ Memory!Placed /\ Memory!Loaded /\ Memory!Written /\ Memory!Calling
      /\ Memory!Retained
  BY DEF Memory!Inv
<1>2. /\ mode = "serve"
      /\ pc' = [pc EXCEPT ![p] = "down"]
      /\ unsaved' = [unsaved EXCEPT ![p] = {}]
      /\ call' = [call EXCEPT ![p] = Memory!NoCall]
      /\ UNCHANGED <<mode, table, mem, counter, fresh, known, gone, given>>
  BY <1>1, ServicesAssumption DEF Memory!Crash, Memory!ghosts, Memory!TypeOK
<1>3. pc'[p] = "down" /\ call'[p] = Memory!NoCall /\ Memory!NoCall.op = "none"
  BY <1>1, <1>2 DEF Memory!TypeOK, Memory!NoCall
<1>4. Memory!TypeOK'
  <2>1. Memory!NoCall \in [op : {"none", "remember", "forget"}, id : 0..MaxEntries, content : 0..MaxEntries]
    BY ServicesAssumption DEF Memory!NoCall
  <2> QED
    BY <1>1, <1>2, <2>1 DEF Memory!TypeOK
<1>5. Memory!Placed'
  BY <1>1, <1>2 DEF Memory!Placed
<1>6. Memory!Loaded' /\ Memory!Written' /\ Memory!Calling'
  BY <1>0, <1>3 DEF Memory!Loaded, Memory!Written, Memory!Calling
<1>7. Memory!Retained'
  BY <1>0, <1>1, <1>2, <1>3 DEF Memory!Retained, Memory!Readable
<1> QED
  BY <1>4, <1>5, <1>6, <1>7 DEF Memory!Inv

LEMMA MemoryKeeps == Memory!Inv /\ [Memory!Next]_memory => Memory!Inv'
<1> SUFFICES ASSUME Memory!Inv, [Memory!Next]_memory PROVE Memory!Inv'
  OBVIOUS
<1>1. CASE UNCHANGED memory
  BY <1>1 DEF memory, Memory!Inv, Memory!TypeOK, Memory!Placed, Memory!Loaded, Memory!Written,
     Memory!Calling, Memory!Retained, Memory!Readable
<1>2. CASE Memory!Next
  <2>1. PICK p \in Procs :
           \/ Memory!Boot(p) \/ Memory!Remember(p) \/ Memory!Saved(p) \/ Memory!Ends(p) \/ Memory!Crash(p)
           \/ \E id \in Memory!Ids : Memory!Forget(p, id) \/ Memory!WriteRow(p, id)
    BY <1>2 DEF Memory!Next
  <2> QED
    BY <2>1, MemoryBoot, MemoryRemember, MemorySaved, MemoryEnds, MemoryCrash, MemoryForget,
       MemoryWriteRow
<1> QED
  BY <1>1, <1>2

(* What an agent was told to remember and did not forget is in the table   *)
(* and is found again, however often `serve' is killed and whichever       *)
(* command runs next; and what it forgot does not come back (AgentMemory,  *)
(* save_memory, load_memory).                                              *)
THEOREM MemoryKept == ServicesSpec => []MemoryIsKept
<1>1. ServicesInit => Memory!Inv
  BY MemoryStarts DEF ServicesInit
<1>2. Memory!Inv /\ [ServicesNext]_servicesVars => Memory!Inv'
  <2>1. [ServicesNext]_servicesVars => [Memory!Next]_memory
    BY DEF ServicesNext, servicesVars
  <2> QED
    BY <2>1, MemoryKeeps
<1>3. Memory!Inv => MemoryIsKept
  BY DEF Memory!Inv, Memory!Retained, MemoryIsKept, Memory!KnowledgeRetained,
     Memory!ForgottenStaysForgotten
<1> QED
  BY <1>1, <1>2, <1>3, PTL DEF ServicesSpec

-----------------------------------------------------------------------------
(***************************************************************************)
(* Tasks: the steps of a plan, their rows, and where a task resumes.       *)
(***************************************************************************)
LEMMA FirstIs ==
    ASSUME NEW steps, Len(steps) \in Nat, NEW S,
           NEW n \in 0..Len(steps), n # 0 => steps[n].status \in S,
           \A m \in 1..Len(steps) : (n = 0 \/ m < n) => steps[m].status \notin S
    PROVE  Progress!First(steps, S) = n
<1> DEFINE I == {i \in 1..Len(steps) : steps[i].status \in S}
<1>1. Progress!First(steps, S) = IF I # {} THEN Progress!Min(I) ELSE 0
  BY DEF Progress!First, Progress!SelectInSeq
<1>2. CASE n = 0
  BY <1>1, <1>2
<1>3. CASE n # 0
  <2>1. n \in I /\ \A i \in I : n <= i
    BY <1>3
  <2>2. Progress!Min(I) \in I /\ \A i \in I : Progress!Min(I) <= i
    BY <2>1 DEF Progress!Min
  <2>3. Progress!Min(I) = n
    <3>1. n <= Progress!Min(I) /\ Progress!Min(I) <= n
      BY <2>1, <2>2
    <3>2. Progress!Min(I) \in Nat /\ n \in Nat
      BY <2>2
    <3> QED
      BY <3>1, <3>2
  <2> QED
    BY <1>1, <2>1, <2>3
<1> QED
  BY <1>2, <1>3

LEMMA FirstExists ==
    ASSUME NEW steps, Len(steps) \in Nat, NEW S
    PROVE  \E n \in 0..Len(steps) :
              /\ n # 0 => steps[n].status \in S
              /\ \A m \in 1..Len(steps) : (n = 0 \/ m < n) => steps[m].status \notin S
<1> DEFINE I == {i \in 1..Len(steps) : steps[i].status \in S}
<1>1. CASE I = {}
  BY <1>1
<1>2. CASE I # {}
  <2>1. PICK n \in I : \A m \in I : n <= m
    <3>1. I \subseteq Nat
      OBVIOUS
    <3> HIDE DEF I
    <3> QED
      BY <1>2, <3>1, LeastNatural
  <2>2. n \in 1..Len(steps) /\ steps[n].status \in S
    BY <2>1
  <2>3. ASSUME NEW m \in 1..Len(steps), m < n PROVE steps[m].status \notin S
    BY <2>1, <2>3
  <2> QED
    BY <2>2, <2>3
<1> QED
  BY <1>1, <1>2

LEMMA ResumeIs ==
    ASSUME NEW steps, NEW r \in Nat, NEW p \in Nat,
           Progress!First(steps, {"in_progress", "failed"}) = r,
           Progress!First(steps, {"pending"}) = p
    PROVE  Progress!ResumePoint(steps) =
              IF r # 0 THEN steps[r].name ELSE IF p # 0 THEN steps[p].name ELSE ""
<1>1. CASE r # 0
  <2>1. r > 0
    BY <1>1
  <2> QED
    BY <1>1, <2>1 DEF Progress!ResumePoint
<1>2. CASE r = 0 /\ p # 0
  <2>1. p > 0 /\ ~(r > 0)
    BY <1>2
  <2> QED
    BY <1>2, <2>1 DEF Progress!ResumePoint
<1>3. CASE r = 0 /\ p = 0
  <2>1. ~(p > 0) /\ ~(r > 0)
    BY <1>3
  <2> QED
    BY <1>3, <2>1 DEF Progress!ResumePoint
<1> QED
  BY <1>1, <1>2, <1>3

(* Steps that are done, put before others, change no place to resume at.   *)
LEMMA ResumeSame ==
    ASSUME NEW old, NEW steps, NEW k \in Nat, Len(steps) \in Nat, Len(old) = k + Len(steps),
           \A i \in 1..k : old[i].status = "done",
           \A i \in 1..Len(steps) : old[k + i] = steps[i]
    PROVE  Progress!ResumePoint(old) = Progress!ResumePoint(steps)
<1>1. ASSUME NEW S, "done" \notin S
      PROVE  \E n \in 0..Len(steps) :
                /\ Progress!First(steps, S) = n
                /\ Progress!First(old, S) = IF n = 0 THEN 0 ELSE k + n
  <2>1. PICK n \in 0..Len(steps) :
              /\ n # 0 => steps[n].status \in S
              /\ \A m \in 1..Len(steps) : (n = 0 \/ m < n) => steps[m].status \notin S
    BY FirstExists
  <2>2. Progress!First(steps, S) = n
    BY <2>1, FirstIs
  <2>3. PICK N \in 0..Len(old) : N = IF n = 0 THEN 0 ELSE k + n
    OBVIOUS
  <2>4. N # 0 => old[N].status \in S
    BY <2>1, <2>3
  <2>5. ASSUME NEW m \in 1..Len(old), N = 0 \/ m < N PROVE old[m].status \notin S
    <3>1. CASE m <= k
      BY <1>1, <3>1
    <3>2. CASE m > k
      <4>1. PICK i \in 1..Len(steps) : m = k + i
        <5>1. m - k \in 1..Len(steps) /\ m = k + (m - k)
          BY <3>2
        <5> QED
          BY <5>1
      <4>2. n = 0 \/ i < n
        BY <2>3, <2>5, <4>1
      <4> QED
        BY <2>1, <4>1, <4>2
    <3> QED
      BY <3>1, <3>2
  <2>6. Progress!First(old, S) = N
    <3>1. Len(old) \in Nat
      OBVIOUS
    <3> QED
      BY <2>4, <2>5, <3>1, FirstIs
  <2> QED
    BY <2>2, <2>3, <2>6
<1>2. PICK r \in 0..Len(steps) :
         /\ Progress!First(steps, {"in_progress", "failed"}) = r
         /\ Progress!First(old, {"in_progress", "failed"}) = IF r = 0 THEN 0 ELSE k + r
  BY <1>1
<1>3. PICK p \in 0..Len(steps) :
         /\ Progress!First(steps, {"pending"}) = p
         /\ Progress!First(old, {"pending"}) = IF p = 0 THEN 0 ELSE k + p
  BY <1>1
<1>4. r # 0 => old[k + r] = steps[r]
  OBVIOUS
<1>5. p # 0 => old[k + p] = steps[p]
  OBVIOUS
<1>6. Progress!ResumePoint(steps) =
         IF r # 0 THEN steps[r].name ELSE IF p # 0 THEN steps[p].name ELSE ""
  <2>1. r \in Nat /\ p \in Nat
    OBVIOUS
  <2> QED
    BY <1>2, <1>3, <2>1, ResumeIs
<1>7. PICK R \in Nat : R = IF r = 0 THEN 0 ELSE k + r
  OBVIOUS
<1>8. PICK P \in Nat : P = IF p = 0 THEN 0 ELSE k + p
  OBVIOUS
<1>9. Progress!ResumePoint(old) =
         IF R # 0 THEN old[R].name ELSE IF P # 0 THEN old[P].name ELSE ""
  BY <1>2, <1>3, <1>7, <1>8, ResumeIs
<1>10. (R # 0 <=> r # 0) /\ (P # 0 <=> p # 0)
  BY <1>7, <1>8
<1>11. CASE r # 0
  <2>1. R = k + r
    BY <1>7, <1>11
  <2> QED
    BY <2>1, <1>4, <1>6, <1>9, <1>10, <1>11
<1>12. CASE r = 0 /\ p # 0
  <2>1. P = k + p
    BY <1>8, <1>12
  <2> QED
    BY <2>1, <1>5, <1>6, <1>9, <1>10, <1>12
<1>13. CASE r = 0 /\ p = 0
  BY <1>6, <1>9, <1>10, <1>13
<1> QED
  BY <1>11, <1>12, <1>13

LastDiffer(steps, n, x) == \A i \in 1..n : steps[Len(steps) - n + i].name # x.name
Replaced(steps, n, x, r) ==
    /\ Progress!Distinct(r) /\ Len(r) > n /\ r[Len(r)] = x
    /\ \A i \in 1..(Len(r) - 1) : \E j \in 1..Len(steps) : r[i] = steps[j]
    /\ \A i \in 1..n : r[Len(r) - 1 - n + i] = steps[Len(steps) - n + i]

(* INSERT OR REPLACE: the row is the last, and the others keep their order. *)
LEMMA RowReplaced ==
    ASSUME NEW steps \in Seq(Progress!Step), NEW x \in Progress!Step, Progress!Distinct(steps),
           NEW n \in 0..Len(steps), LastDiffer(steps, n, x)
    PROVE  \E r \in Seq(Progress!Step) :
              Progress!InsertOrReplace(steps, x) = r /\ Replaced(steps, n, x, r)
<1> DEFINE rest == Progress!RemoveFirstMatch(steps, LAMBDA s : s.name = x.name)
           I == {i \in 1..Len(steps) : steps[i].name = x.name}
<1>1. Len(steps) \in Nat /\ DOMAIN steps = 1..Len(steps)
  BY LenProperties
<1>2. PICK q : /\ q \in Seq(Progress!Step) /\ q = rest /\ Len(q) >= n
               /\ \A i \in 1..Len(q) : q[i].name # x.name
               /\ \A i \in 1..Len(q) : \E j \in 1..Len(steps) : q[i] = steps[j]
               /\ \A i, j \in 1..Len(q) : q[i].name = q[j].name => i = j
               /\ \A i \in 1..n : q[Len(q) - n + i] = steps[Len(steps) - n + i]
  <2>1. CASE I = {}
    <3>1. rest = steps
      BY <2>1 DEF Progress!RemoveFirstMatch
    <3>2. \A i, j \in 1..Len(steps) : steps[i].name = steps[j].name => i = j
      BY <1>1 DEF Progress!Distinct
    <3>3. \A i \in 1..Len(steps) : steps[i].name # x.name
      BY <2>1
    <3> HIDE DEF rest
    <3> QED
      BY <1>1, <3>1, <3>2, <3>3
  <2>2. CASE I # {}
    <3>1. PICK p \in 1..Len(steps) : steps[p].name = x.name
      BY <2>2
    <3>2. \A i \in 1..Len(steps) : steps[i].name = x.name => i = p
      BY <1>1, <3>1 DEF Progress!Distinct
    <3>3. I = {p}
      BY <3>1, <3>2
    <3>4. Progress!Min(I) = p
      BY <3>3 DEF Progress!Min
    <3>5. rest = Progress!RemoveAt(steps, p)
      BY <2>2, <3>1, <3>4 DEF Progress!RemoveFirstMatch, Progress!SelectInSeq
    <3>6. PICK a : a = SubSeq(steps, 1, p - 1)
      OBVIOUS
    <3>7. PICK b : b = SubSeq(steps, p + 1, Len(steps))
      OBVIOUS
    <3>8. a \in Seq(Progress!Step) /\ Len(a) = p - 1 /\ \A i \in 1..(p - 1) : a[i] = steps[i]
      <4>1. \A i \in 1..(p - 1) : i \in 1..Len(steps)
        BY <1>1
      <4> QED
        BY <1>1, <3>6, <4>1, SubSeqProperties
    <3>9. /\ b \in Seq(Progress!Step) /\ Len(b) = Len(steps) - p
          /\ \A i \in 1..(Len(steps) - p) : b[i] = steps[p + i]
      <4>1. \A i \in (p + 1)..Len(steps) : i \in 1..Len(steps)
        BY <1>1
      <4> QED
        <5>1. p + 1 \in Int /\ Len(steps) \in Int /\ \A i \in (p + 1)..Len(steps) : steps[i] \in Progress!Step
          BY <1>1, <4>1, ElementOfSeq
        <5>2. /\ b \in Seq(Progress!Step)
              /\ Len(b) = IF p + 1 <= Len(steps) THEN Len(steps) - (p + 1) + 1 ELSE 0
              /\ \A i \in 1..(Len(steps) - (p + 1) + 1) : b[i] = steps[(p + 1) + i - 1]
          BY <3>7, <5>1, SubSeqProperties
        <5>3. Len(steps) - (p + 1) + 1 = Len(steps) - p /\ p <= Len(steps)
          BY <1>1
        <5>4. Len(b) = Len(steps) - p
          <6>1. CASE p = Len(steps)
            <7>1. ~(p + 1 <= Len(steps)) /\ Len(steps) - p = 0
              BY <1>1, <6>1
            <7> QED
              BY <5>2, <7>1
          <6>2. CASE p # Len(steps)
            <7>1. p + 1 <= Len(steps)
              <8>1. p <= Len(steps) /\ p \in Nat /\ Len(steps) \in Nat
                BY <1>1
              <8>2. \A L \in Nat : p <= L /\ p # L => p + 1 <= L
                BY <8>1
              <8> QED
                BY <6>2, <8>1, <8>2
            <7> QED
              BY <5>2, <5>3, <7>1
          <6> QED
            BY <6>1, <6>2
        <5>5. ASSUME NEW i \in 1..(Len(steps) - p) PROVE b[i] = steps[p + i]
          <6>1. (p + 1) + i - 1 = p + i
            OBVIOUS
          <6> QED
            BY <5>2, <5>3, <6>1
        <5> QED
          BY <5>2, <5>4, <5>5
    <3>10. PICK q : q = a \o b
      OBVIOUS
    <3>11. /\ q \in Seq(Progress!Step) /\ Len(q) = Len(steps) - 1
           /\ \A i \in 1..(p - 1) : q[i] = steps[i]
           /\ \A i \in p..(Len(steps) - 1) : q[i] = steps[i + 1]
      <4>1. /\ q \in Seq(Progress!Step) /\ Len(q) = Len(a) + Len(b)
            /\ \A i \in 1..(Len(a) + Len(b)) : q[i] = IF i <= Len(a) THEN a[i] ELSE b[i - Len(a)]
        BY <3>8, <3>9, <3>10, ConcatProperties
      <4>2. ASSUME NEW i \in p..(Len(steps) - 1) PROVE q[i] = steps[i + 1]
        <5>1. i \in 1..(Len(a) + Len(b)) /\ ~(i <= Len(a)) /\ i - Len(a) \in 1..(Len(steps) - p)
              /\ p + (i - Len(a)) = i + 1
          BY <1>1, <3>8, <3>9
        <5> QED
          BY <4>1, <5>1, <3>9
      <4>3. ASSUME NEW i \in 1..(p - 1) PROVE q[i] = steps[i]
        <5>1. i \in 1..(Len(a) + Len(b)) /\ i <= Len(a)
          BY <1>1, <3>8, <3>9
        <5> QED
          BY <4>1, <5>1, <3>8
      <4> QED
        BY <1>1, <4>1, <4>2, <4>3, <3>8, <3>9
    <3>12. \A i \in 1..Len(q) :
              \E j \in 1..Len(steps) : q[i] = steps[j] /\ j # p /\ j = IF i < p THEN i ELSE i + 1
      <4> SUFFICES ASSUME NEW i \in 1..Len(q)
                   PROVE  \E j \in 1..Len(steps) :
                             q[i] = steps[j] /\ j # p /\ j = IF i < p THEN i ELSE i + 1
        OBVIOUS
      <4>1. CASE i < p
        <5>1. i \in 1..(p - 1) /\ i \in 1..Len(steps) /\ i # p
          BY <1>1, <4>1
        <5> QED
          BY <3>11, <4>1, <5>1
      <4>2. CASE ~(i < p)
        <5>1. i \in p..(Len(steps) - 1) /\ i + 1 \in 1..Len(steps) /\ i + 1 # p
          BY <1>1, <3>11, <4>2
        <5> QED
          BY <3>11, <4>2, <5>1
      <4> QED
        BY <4>1, <4>2
    <3>13. p <= Len(steps) - n
      <4>1. CASE p > Len(steps) - n
        <5>1. p - (Len(steps) - n) \in 1..n /\ Len(steps) - n + (p - (Len(steps) - n)) = p
          BY <1>1, <4>1
        <5> QED
          BY <3>1, <5>1 DEF LastDiffer
      <4> QED
        BY <1>1, <4>1
    <3>14. \A i \in 1..n : q[Len(q) - n + i] = steps[Len(steps) - n + i]
      <4> SUFFICES ASSUME NEW i \in 1..n PROVE q[Len(q) - n + i] = steps[Len(steps) - n + i]
        OBVIOUS
      <4>1. Len(q) - n + i \in p..(Len(steps) - 1) /\ (Len(q) - n + i) + 1 = Len(steps) - n + i
        BY <1>1, <3>11, <3>13
      <4> QED
        BY <3>11, <4>1
    <3>15. \A i \in 1..Len(q) : q[i].name # x.name
      BY <3>12, <3>2
    <3>16. ASSUME NEW i \in 1..Len(q), NEW j \in 1..Len(q), q[i].name = q[j].name PROVE i = j
      <4>1. PICK k \in 1..Len(steps) : q[i] = steps[k] /\ k = IF i < p THEN i ELSE i + 1
        BY <3>12
      <4>2. PICK l \in 1..Len(steps) : q[j] = steps[l] /\ l = IF j < p THEN j ELSE j + 1
        BY <3>12
      <4>3. k = l
        BY <1>1, <3>16, <4>1, <4>2 DEF Progress!Distinct
      <4>4. i \in Nat /\ j \in Nat
        BY <1>1, <3>11
      <4> QED
        BY <4>1, <4>2, <4>3, <4>4
    <3>17. q = rest
      BY <3>5, <3>6, <3>7, <3>10 DEF Progress!RemoveAt
    <3>18. Len(q) >= n
      BY <1>1, <3>11, <3>13
    <3>19. \A i \in 1..Len(q) : \E j \in 1..Len(steps) : q[i] = steps[j]
      BY <3>12
    <3>20. q \in Seq(Progress!Step)
      BY <3>11
    <3> HIDE DEF rest, I
    <3> QED
      BY <3>14, <3>15, <3>16, <3>17, <3>18, <3>19, <3>20
  <2> QED
    BY <2>1, <2>2
<1>3. PICK r : r = Append(q, x)
  OBVIOUS
<1>4. /\ r \in Seq(Progress!Step) /\ Len(r) = Len(q) + 1 /\ r[Len(q) + 1] = x /\ Len(q) \in Nat
      /\ DOMAIN r = 1..(Len(q) + 1)
      /\ \A i \in 1..Len(q) : r[i] = q[i]
  BY <1>2, <1>3, AppendProperties, LenProperties
<1>5. Progress!InsertOrReplace(steps, x) = r
  <2> HIDE DEF rest
  <2> QED
    BY <1>2, <1>3 DEF rest, Progress!InsertOrReplace
<1>6. Progress!Distinct(r)
  <2> SUFFICES ASSUME NEW i \in 1..(Len(q) + 1), NEW j \in 1..(Len(q) + 1), r[i].name = r[j].name
               PROVE  i = j
    BY <1>4 DEF Progress!Distinct
  <2>1. (i \in 1..Len(q) \/ i = Len(q) + 1) /\ (j \in 1..Len(q) \/ j = Len(q) + 1)
    BY <1>4
  <2>2. ASSUME NEW m \in 1..Len(q) PROVE r[m].name # r[Len(q) + 1].name
    BY <1>2, <1>4
  <2>3. CASE i \in 1..Len(q) /\ j \in 1..Len(q)
    BY <1>2, <1>4, <2>3
  <2>4. CASE i \in 1..Len(q) /\ j = Len(q) + 1
    BY <2>2, <2>4
  <2>5. CASE j \in 1..Len(q) /\ i = Len(q) + 1
    BY <2>2, <2>5
  <2> QED
    BY <2>1, <2>3, <2>4, <2>5
<1>7. \A i \in 1..n : r[Len(r) - 1 - n + i] = steps[Len(steps) - n + i]
  <2> SUFFICES ASSUME NEW i \in 1..n PROVE r[Len(r) - 1 - n + i] = steps[Len(steps) - n + i]
    OBVIOUS
  <2>1. Len(r) - 1 - n + i = Len(q) - n + i /\ Len(q) - n + i \in 1..Len(q)
    BY <1>1, <1>2, <1>4
  <2> QED
    BY <2>1, <1>2, <1>4
<1>8. \A i \in 1..(Len(r) - 1) : \E j \in 1..Len(steps) : r[i] = steps[j]
  <2> SUFFICES ASSUME NEW i \in 1..(Len(r) - 1) PROVE \E j \in 1..Len(steps) : r[i] = steps[j]
    OBVIOUS
  <2>1. i \in 1..Len(q)
    BY <1>4
  <2>2. r[i] = q[i]
    BY <2>1, <1>4
  <2>3. PICK j \in 1..Len(steps) : q[i] = steps[j]
    BY <2>1, <1>2
  <2> QED
    BY <2>2, <2>3
<1>9. Len(r) > n /\ r[Len(r)] = x
  BY <1>2, <1>4
<1> QED
  <2> HIDE DEF rest
  <2> QED
    BY <1>4, <1>5, <1>6, <1>7, <1>8, <1>9 DEF Replaced

-----------------------------------------------------------------------------
LEMMA PlanNames ==
    ASSUME Progress!TypeOK, NEW plan \in Plans[taskMode]
    PROVE  /\ Progress!Fresh(plan) \in Seq(Progress!Step)
           /\ DOMAIN Progress!Fresh(plan) = DOMAIN plan
           /\ \A i \in DOMAIN plan :
                 Progress!Fresh(plan)[i] = [name |-> plan[i], status |-> "pending"]
           /\ Progress!Distinct(Progress!Fresh(plan))
           /\ \A i \in DOMAIN plan : plan[i] \in Progress!NamesOf(taskMode)
           /\ \A name \in Progress!ToSet(plan) : Progress!Has(Progress!Fresh(plan), name)
           /\ taskMode # "serve" =>
                 \A name \in Progress!NamesOf(taskMode) : Progress!Has(Progress!Fresh(plan), name)
<1>1. /\ taskMode \in DOMAIN Plans /\ DOMAIN Plans \subseteq {"serve", "run"}
      /\ plan \in Seq(Progress!Names)
      /\ \A i, j \in DOMAIN plan : plan[i] = plan[j] => i = j
      /\ \A q \in Plans[taskMode] : taskMode = "run" => Progress!ToSet(q) = Progress!ToSet(plan)
  BY ServicesAssumption DEF Progress!TypeOK, Progress!Modes, Progress!IsInjective
<1>2. PICK f : f = [i \in DOMAIN plan |-> [name |-> plan[i], status |-> "pending"]]
  OBVIOUS
<1>3. Progress!Fresh(plan) = f
  BY <1>2 DEF Progress!Fresh
<1>4. DOMAIN plan = 1..Len(plan) /\ Len(plan) \in Nat /\ \A i \in 1..Len(plan) : plan[i] \in Progress!Names
  BY <1>1, LenProperties, ElementOfSeq
<1>5. f \in Seq(Progress!Step)
  <2>1. f \in [1..Len(plan) -> Progress!Step]
    BY <1>2, <1>4 DEF Progress!Step, Progress!Statuses
  <2> QED
    BY <1>4, <2>1, SeqDef
<1>6. DOMAIN f = DOMAIN plan /\ \A i \in DOMAIN plan : f[i] = [name |-> plan[i], status |-> "pending"]
  BY <1>2
<1>7. \A i \in DOMAIN plan : f[i].name = plan[i]
  BY <1>6
<1>8. Progress!Distinct(f)
  BY <1>1, <1>6, <1>7 DEF Progress!Distinct
<1>9. Progress!ToSet(plan) = {plan[i] : i \in DOMAIN plan}
  BY DEF Progress!ToSet, Progress!Range
<1>10. \A name \in Progress!ToSet(plan) : Progress!Has(f, name)
  BY <1>6, <1>7, <1>9 DEF Progress!Has
<1>11. \A i \in DOMAIN plan : plan[i] \in Progress!NamesOf(taskMode)
  BY <1>9 DEF Progress!NamesOf
<1>12. taskMode # "serve" => \A name \in Progress!NamesOf(taskMode) : Progress!Has(f, name)
  BY <1>1, <1>10 DEF Progress!NamesOf
<1> QED
  BY <1>3, <1>5, <1>6, <1>8, <1>10, <1>11, <1>12

LEMMA TaskStarts == Progress!Init => Progress!Inv
<1> SUFFICES ASSUME Progress!Init PROVE Progress!Inv
  OBVIOUS
<1>1. /\ rows = <<>> /\ task = <<>> /\ taskPc = "down" /\ saved = 0 /\ left = "" /\ wanted = {}
      /\ taskMode \in Progress!Modes /\ torn = FALSE
  BY DEF Progress!Init, Progress!NoTask
<1>2. DOMAIN rows = {} /\ Len(rows) = 0 /\ DOMAIN task = {}
      /\ rows \in Seq(Progress!Step) /\ task \in Seq(Progress!Step)
  <2>1. PICK e \in Seq(Progress!Step) : e = <<>> /\ Len(e) = 0
    BY EmptySeq
  <2>2. DOMAIN e = 1..0
    BY <2>1, LenProperties
  <2>3. 1..0 = {}
    OBVIOUS
  <2>4. rows = e /\ task = e
    BY <1>1, <2>1
  <2> QED
    BY <2>1, <2>2, <2>3, <2>4
<1>3. Progress!ResumePoint(rows) = left
  <2>1. \A S : Progress!First(rows, S) = 0
    <3> TAKE S
    <3>1. Len(rows) \in Nat /\ 0 \in 0..Len(rows) /\ 1..Len(rows) = {}
      BY <1>2
    <3> QED
      BY <3>1, FirstIs
  <2> QED
    BY <1>1, <2>1, ResumeIs
<1>4. Progress!TypeOK
  BY <1>1, <1>2 DEF Progress!TypeOK, Progress!Distinct
<1>5. Progress!InOrder /\ Progress!OthersOver
  BY <1>1 DEF Progress!InOrder, Progress!OthersOver
<1>6. Progress!StepsKept
  BY <1>1, <1>2 DEF Progress!StepsKept, Progress!Completed
<1> QED
  BY <1>1, <1>3, <1>4, <1>5, <1>6 DEF Progress!Inv, Progress!ResumesThere

(* The rows of a task in memory that is in order are where it resumes.     *)
LEMMA RowsResume ==
    ASSUME Progress!Inv, taskPc # "down", Progress!LastAre(task, Len(task))
    PROVE  Progress!ResumePoint(rows) = Progress!ResumePoint(task)
<1>1. /\ rows \in Seq(Progress!Step) /\ task \in Seq(Progress!Step) /\ Progress!Distinct(rows)
      /\ \A i \in DOMAIN rows : rows[i].status = "done" \/ Progress!Has(task, rows[i].name)
  BY DEF Progress!Inv, Progress!TypeOK, Progress!OthersOver
<1>2. /\ Len(rows) \in Nat /\ Len(task) \in Nat /\ DOMAIN rows = 1..Len(rows)
      /\ DOMAIN task = 1..Len(task)
  BY <1>1, LenProperties
<1>3. PICK k \in Nat : Len(rows) = k + Len(task)
  <2>1. Len(task) <= Len(rows)
    BY DEF Progress!LastAre
  <2>2. Len(rows) - Len(task) \in Nat /\ Len(rows) = (Len(rows) - Len(task)) + Len(task)
    BY <1>2, <2>1
  <2> QED
    BY <2>2
<1>4. \A i \in 1..Len(task) : rows[k + i] = task[i]
  <2>1. Len(rows) - Len(task) = k
    BY <1>2, <1>3
  <2> QED
    BY <2>1 DEF Progress!LastAre
<1>5. ASSUME NEW i \in 1..k PROVE rows[i].status = "done"
  <2>1. i \in DOMAIN rows
    BY <1>2, <1>3
  <2>2. ASSUME Progress!Has(task, rows[i].name) PROVE FALSE
    <3>1. PICK j \in 1..Len(task) : task[j].name = rows[i].name
      BY <1>2, <2>2 DEF Progress!Has
    <3>2. rows[k + j].name = rows[i].name /\ k + j \in DOMAIN rows /\ k + j # i
      BY <1>2, <1>3, <1>4, <3>1
    <3> QED
      BY <1>1, <2>1, <3>2 DEF Progress!Distinct
  <2> QED
    BY <1>1, <2>1, <2>2
<1> QED
  BY <1>2, <1>3, <1>4, <1>5, ResumeSame

LEMMA TaskBoot == ASSUME Progress!Inv, Progress!Boot PROVE Progress!Inv'
<1>1. /\ taskPc = "down" /\ task' = rows /\ taskPc' = "up" /\ taskMode' = taskMode /\ rows' = rows
      /\ saved' = saved /\ left' = left /\ wanted' = wanted /\ finished' = finished /\ torn' = torn
  BY DEF Progress!Boot
<1>2. /\ rows \in Seq(Progress!Step) /\ Len(rows) \in Nat /\ DOMAIN rows = 1..Len(rows)
  BY LenProperties DEF Progress!Inv, Progress!TypeOK
<1>3. Progress!TypeOK'
  BY <1>1 DEF Progress!Inv, Progress!TypeOK
<1>4. Progress!InOrder'
  <2>1. \A i \in 1..Len(rows) : Len(rows) - Len(rows) + i = i
    BY <1>2
  <2> QED
    BY <1>1, <1>2, <2>1 DEF Progress!InOrder, Progress!LastAre
<1>5. Progress!OthersOver'
  BY <1>1 DEF Progress!OthersOver, Progress!Has
<1>6. Progress!StepsKept'
  BY <1>1 DEF Progress!Inv, Progress!StepsKept, Progress!Completed
<1>7. Progress!ResumesThere'
  <2>1. Progress!ResumePoint(rows)' = Progress!ResumePoint(rows)
    BY <1>1
  <2> QED
    BY <1>1, <2>1 DEF Progress!Inv, Progress!ResumesThere
<1> QED
  BY <1>3, <1>4, <1>5, <1>6, <1>7 DEF Progress!Inv

PlanFits(steps) ==
    /\ steps \in Seq(Progress!Step) /\ Progress!Distinct(steps)
    /\ \A i \in DOMAIN steps : steps[i].name \in Progress!NamesOf(taskMode)
    /\ \A i \in DOMAIN rows :
          /\ rows[i].status = "done" \/ Progress!Has(steps, rows[i].name)
          /\ taskMode = "run" => Progress!Has(steps, rows[i].name)
PlanKept(steps, w, d) ==
    taskMode = "serve" /\ ~torn =>
       /\ \A name \in w : Progress!Has(steps, name)
       /\ \A i \in DOMAIN steps :
             steps[i].name \in w /\ steps[i].status = "done" => steps[i].name \in d

(* A call that changes the plan in memory and none of its rows.            *)
LEMMA TaskChanges ==
    ASSUME Progress!Inv, taskPc = "up", Progress!Changed, UNCHANGED <<taskMode, rows, left, torn>>,
           NEW steps, task' = steps, PlanFits(steps),
           NEW w, NEW d, wanted' = w, finished' = d, PlanKept(steps, w, d)
    PROVE  Progress!Inv'
<1>1. /\ taskMode' = taskMode /\ rows' = rows /\ left' = left /\ torn' = torn
      /\ taskMode \in {"serve", "run"} /\ Len(rows) \in Nat /\ Len(steps) \in Nat
  BY ServicesAssumption, LenProperties DEF PlanFits, Progress!Inv, Progress!TypeOK, Progress!Modes
<1>2. \/ taskMode = "serve" /\ taskPc' = "saving" /\ saved' = 0
      \/ taskMode # "serve" /\ taskPc' = "up" /\ saved' = saved
  BY DEF Progress!Changed, Progress!Save
<1>3. Progress!TypeOK'
  BY <1>1, <1>2 DEF PlanFits, Progress!Inv, Progress!TypeOK
<1>4. Progress!InOrder'
  BY <1>1, <1>2 DEF Progress!InOrder, Progress!LastAre
<1>5. Progress!OthersOver'
  BY <1>1 DEF PlanFits, Progress!OthersOver
<1>6. Progress!StepsKept'
  BY <1>1, <1>2 DEF PlanKept, Progress!StepsKept, Progress!Completed
<1>7. Progress!ResumesThere'
  <2>1. Progress!ResumePoint(rows)' = Progress!ResumePoint(rows)
    BY <1>1
  <2> QED
    BY <1>1, <1>2, <2>1 DEF Progress!Inv, Progress!ResumesThere
<1> QED
  BY <1>3, <1>4, <1>5, <1>6, <1>7 DEF Progress!Inv


LEMMA TaskCreate ==
    ASSUME Progress!Inv, NEW plan \in Plans[taskMode], Progress!Create(plan) PROVE Progress!Inv'
<1>1. /\ taskPc = "up" /\ Progress!Changed /\ UNCHANGED <<taskMode, rows, left, torn>>
      /\ taskMode \in {"serve", "run"} /\ task \in Seq(Progress!Step)
      /\ rows \in Seq(Progress!Step) /\ Progress!Distinct(rows) /\ Progress!Distinct(task)
      /\ \A i \in DOMAIN task : task[i].name \in Progress!NamesOf(taskMode)
      /\ \A i \in DOMAIN rows : rows[i].name \in Progress!NamesOf(taskMode)
  BY ServicesAssumption DEF Progress!Create, Progress!Call, Progress!Inv, Progress!TypeOK, Progress!Modes
<1>2. \A i \in DOMAIN rows :
         /\ rows[i].status = "done" \/ Progress!Has(task, rows[i].name)
         /\ taskMode = "run" => Progress!Has(task, rows[i].name)
  BY <1>1 DEF Progress!Inv, Progress!OthersOver
<1>3. taskMode = "serve" /\ ~torn =>
         /\ \A name \in wanted : Progress!Has(task, name)
         /\ \A i \in DOMAIN task :
               task[i].name \in wanted /\ task[i].status = "done" => task[i].name \in finished
  BY <1>1 DEF Progress!Inv, Progress!StepsKept, Progress!Completed
<1>4. CASE task # Progress!NoTask /\ ~Progress!IsComplete(task)
  <2>1. task' = task /\ wanted' = wanted /\ finished' = finished
    BY <1>4 DEF Progress!Create
  <2>2. PlanFits(task) /\ PlanKept(task, wanted, finished)
    BY <1>1, <1>2, <1>3 DEF PlanFits, PlanKept
  <2> QED
    BY <1>1, <2>1, <2>2, TaskChanges
<1>5. CASE ~(task # Progress!NoTask /\ ~Progress!IsComplete(task))
  <2>1. PICK steps : steps = Progress!Fresh(plan)
    OBVIOUS
  <2>2. task' = steps /\ wanted' = Progress!ToSet(plan) /\ finished' = {}
    BY <1>5, <2>1 DEF Progress!Create
  <2>3. /\ steps \in Seq(Progress!Step) /\ DOMAIN steps = DOMAIN plan
        /\ \A i \in DOMAIN plan : steps[i] = [name |-> plan[i], status |-> "pending"]
        /\ Progress!Distinct(steps)
        /\ \A i \in DOMAIN plan : plan[i] \in Progress!NamesOf(taskMode)
        /\ \A name \in Progress!ToSet(plan) : Progress!Has(steps, name)
        /\ taskMode # "serve" =>
              \A name \in Progress!NamesOf(taskMode) : Progress!Has(steps, name)
    BY <2>1, PlanNames DEF Progress!Inv
  <2>4. \A i \in DOMAIN steps : steps[i].name = plan[i] /\ steps[i].status = "pending"
    BY <2>3
  <2>5. ASSUME NEW i \in DOMAIN rows, taskMode = "serve" PROVE rows[i].status = "done"
    <3>1. CASE Progress!Has(task, rows[i].name)
      <4>1. PICK j \in DOMAIN task : task[j].name = rows[i].name
        BY <3>1 DEF Progress!Has
      <4>2. /\ Len(rows) \in Nat /\ Len(task) \in Nat /\ DOMAIN rows = 1..Len(rows)
            /\ DOMAIN task = 1..Len(task)
        BY <1>1, LenProperties
      <4>3. Progress!LastAre(task, Len(task))
        BY <1>1, <2>5 DEF Progress!Inv, Progress!InOrder
      <4>4. rows[Len(rows) - Len(task) + j] = task[j] /\ Len(rows) - Len(task) + j \in DOMAIN rows
        <5>1. Len(task) <= Len(rows)
          BY <4>3 DEF Progress!LastAre
        <5> QED
          BY <4>2, <4>3, <5>1 DEF Progress!LastAre
      <4>5. rows[i] = task[j]
        BY <1>1, <4>1, <4>4 DEF Progress!Distinct
      <4>6. task # <<>>
        <5>1. <<>> \in Seq(Progress!Step) /\ Len(<<>>) = 0
          BY EmptySeq
        <5> QED
          BY <4>2, <5>1
      <4>7. Progress!IsComplete(task)
        BY <1>5, <4>6 DEF Progress!NoTask
      <4>8. task[j].status \in {"done", "skipped"}
        BY <4>7 DEF Progress!IsComplete, Progress!Over
      <4>9. task[j].status \in Progress!Statuses
        <5>1. task[j] \in Progress!Step
          BY <1>1, <4>1, <4>2, ElementOfSeq
        <5> QED
          BY <5>1 DEF Progress!Step
      <4> QED
        BY <4>5, <4>8, <4>9 DEF Progress!Statuses
    <3> QED
      BY <1>2, <3>1
  <2>6. \A i \in DOMAIN rows :
           /\ rows[i].status = "done" \/ Progress!Has(steps, rows[i].name)
           /\ taskMode = "run" => Progress!Has(steps, rows[i].name)
    BY <1>1, <2>3, <2>5
  <2>7. \A i \in DOMAIN steps : steps[i].name \in Progress!NamesOf(taskMode)
    BY <2>3, <2>4
  <2>8. \A i \in DOMAIN steps : steps[i].status # "done"
    BY <2>4
  <2>9. PlanFits(steps) /\ PlanKept(steps, Progress!ToSet(plan), {})
    BY <2>3, <2>6, <2>7, <2>8 DEF PlanFits, PlanKept
  <2> QED
    BY <1>1, <2>2, <2>9, TaskChanges
<1> QED
  BY <1>4, <1>5

LEMMA TaskSetStatus ==
    ASSUME Progress!Inv, NEW name \in Progress!Names, NEW status \in Progress!Statuses \ {"pending"},
           Progress!SetStatus(name, status)
    PROVE  Progress!Inv'
<1>1. /\ taskPc = "up" /\ Progress!Changed /\ UNCHANGED <<taskMode, rows, left, torn>>
      /\ wanted' = wanted /\ task \in Seq(Progress!Step) /\ Progress!Distinct(task)
      /\ \A i \in DOMAIN task : task[i].name \in Progress!NamesOf(taskMode)
  BY DEF Progress!SetStatus, Progress!Call, Progress!Inv, Progress!TypeOK
<1>2. PICK k \in DOMAIN task : task[k].name = name /\ task' = [task EXCEPT ![k].status = status]
  BY DEF Progress!SetStatus
<1>3. Len(task) \in Nat /\ DOMAIN task = 1..Len(task) /\ \A i \in DOMAIN task : task[i] \in Progress!Step
  BY <1>1, LenProperties, ElementOfSeq
<1>4. PICK s \in Progress!Step : s = [task[k] EXCEPT !.status = status]
  BY <1>3 DEF Progress!Step
<1>5. s.name = name /\ s.status = status
  BY <1>2, <1>3, <1>4 DEF Progress!Step
<1>6. PICK steps \in Seq(Progress!Step) : steps = [task EXCEPT ![k] = s]
  BY <1>1, <1>3, ExceptSeq
<1>7. /\ task' = steps /\ DOMAIN steps = DOMAIN task
      /\ \A i \in DOMAIN task : steps[i] = IF i = k THEN s ELSE task[i]
  BY <1>1, <1>2, <1>3, <1>4, <1>6
<1>8. \A i \in DOMAIN task : steps[i].name = task[i].name
  BY <1>2, <1>5, <1>7
<1>9. Progress!Distinct(steps)
  BY <1>1, <1>7, <1>8 DEF Progress!Distinct
<1>10. \A n : Progress!Has(task, n) <=> Progress!Has(steps, n)
  BY <1>7, <1>8 DEF Progress!Has
<1>11. \A i \in DOMAIN steps : steps[i].name \in Progress!NamesOf(taskMode)
  BY <1>1, <1>7, <1>8
<1>12. \A i \in DOMAIN rows :
          /\ rows[i].status = "done" \/ Progress!Has(steps, rows[i].name)
          /\ taskMode = "run" => Progress!Has(steps, rows[i].name)
  BY <1>1, <1>10 DEF Progress!Inv, Progress!OthersOver
<1>13. PICK d : /\ finished' = d
                /\ d = IF status = "done" THEN finished \cup {name} ELSE finished \ {name}
  BY DEF Progress!SetStatus
<1>14. ASSUME taskMode = "serve", ~torn
       PROVE  /\ \A n \in wanted : Progress!Has(steps, n)
              /\ \A i \in DOMAIN steps :
                    steps[i].name \in wanted /\ steps[i].status = "done" => steps[i].name \in d
  <2>1. /\ \A n \in wanted : Progress!Has(task, n)
        /\ \A i \in DOMAIN task :
              task[i].name \in wanted /\ task[i].status = "done" => task[i].name \in finished
    BY <1>1, <1>14 DEF Progress!Inv, Progress!StepsKept, Progress!Completed
  <2>2. ASSUME NEW i \in DOMAIN task, steps[i].name \in wanted, steps[i].status = "done"
        PROVE  steps[i].name \in d
    <3>1. CASE i = k
      BY <1>5, <1>7, <1>13, <2>2, <3>1
    <3>2. CASE i # k
      <4>1. task[i].name # name /\ steps[i] = task[i]
        BY <1>1, <1>2, <1>7, <3>2 DEF Progress!Distinct
      <4> QED
        BY <1>13, <2>1, <2>2, <4>1
    <3> QED
      BY <3>1, <3>2
  <2> QED
    BY <1>7, <1>10, <2>1, <2>2
<1>15. PlanFits(steps)
  BY <1>6, <1>9, <1>11, <1>12 DEF PlanFits
<1>16. PlanKept(steps, wanted, d)
  BY <1>14 DEF PlanKept
<1> QED
  BY <1>1, <1>7, <1>13, <1>15, <1>16, TaskChanges

LEMMA TaskWriteRow == ASSUME Progress!Inv, Progress!WriteRow PROVE Progress!Inv'
<1>1. /\ taskPc = "saving" /\ saved < Len(task) /\ saved' = saved + 1
      /\ rows' = Progress!InsertOrReplace(rows, task[saved + 1])
      /\ taskMode' = taskMode /\ task' = task /\ taskPc' = taskPc /\ left' = left
      /\ wanted' = wanted /\ finished' = finished /\ torn' = torn
  BY DEF Progress!WriteRow
<1>2. /\ rows \in Seq(Progress!Step) /\ task \in Seq(Progress!Step) /\ saved \in Nat
      /\ Progress!Distinct(rows) /\ Progress!Distinct(task) /\ Progress!LastAre(task, saved)
      /\ \A i \in DOMAIN rows : rows[i].name \in Progress!NamesOf(taskMode)
      /\ \A i \in DOMAIN task : task[i].name \in Progress!NamesOf(taskMode)
  BY <1>1 DEF Progress!Inv, Progress!TypeOK, Progress!InOrder
<1>3. /\ Len(rows) \in Nat /\ Len(task) \in Nat /\ DOMAIN rows = 1..Len(rows)
      /\ DOMAIN task = 1..Len(task) /\ \A i \in DOMAIN task : task[i] \in Progress!Step
  BY <1>2, LenProperties, ElementOfSeq
<1>4. PICK x \in Progress!Step : x = task[saved + 1]
  BY <1>1, <1>2, <1>3
<1>5. PICK n \in 0..Len(rows) : n = saved /\ n < Len(task) /\ saved + 1 \in DOMAIN task
  BY <1>1, <1>2, <1>3 DEF Progress!LastAre
<1>6. \A i \in 1..n : rows[Len(rows) - n + i] = task[i]
  BY <1>2, <1>5 DEF Progress!LastAre
<1>7. LastDiffer(rows, n, x)
  <2> SUFFICES ASSUME NEW i \in 1..n PROVE task[i].name # x.name
    BY <1>6 DEF LastDiffer
  <2>1. i \in DOMAIN task /\ i # saved + 1
    BY <1>3, <1>5
  <2> QED
    BY <1>2, <1>4, <1>5, <2>1 DEF Progress!Distinct
<1>8. PICK r \in Seq(Progress!Step) :
         /\ Progress!InsertOrReplace(rows, x) = r
         /\ Progress!Distinct(r) /\ Len(r) > n /\ r[Len(r)] = x
         /\ \A i \in 1..(Len(r) - 1) : \E j \in 1..Len(rows) : r[i] = rows[j]
         /\ \A i \in 1..n : r[Len(r) - 1 - n + i] = rows[Len(rows) - n + i]
  <2>1. PICK r \in Seq(Progress!Step) :
           Progress!InsertOrReplace(rows, x) = r /\ Replaced(rows, n, x, r)
    BY <1>2, <1>7, RowReplaced
  <2> QED
    BY <2>1 DEF Replaced
<1>9. rows' = r /\ DOMAIN r = 1..Len(r) /\ Len(r) \in Nat
  BY <1>1, <1>4, <1>8, LenProperties
<1>10. \A i \in DOMAIN r : r[i] = x \/ \E j \in DOMAIN rows : r[i] = rows[j]
  <2> SUFFICES ASSUME NEW i \in DOMAIN r PROVE r[i] = x \/ \E j \in DOMAIN rows : r[i] = rows[j]
    OBVIOUS
  <2>1. i = Len(r) \/ i \in 1..(Len(r) - 1)
    BY <1>9
  <2> QED
    BY <1>3, <1>8, <2>1
<1>11. x.name \in Progress!NamesOf(taskMode) /\ Progress!Has(task, x.name)
  BY <1>2, <1>4, <1>5 DEF Progress!Has
<1>12. Progress!TypeOK'
  <2>1. \A i \in DOMAIN r : r[i].name \in Progress!NamesOf(taskMode)
    BY <1>2, <1>10, <1>11
  <2>2. saved' \in Nat
    BY <1>1, <1>2
  <2> QED
    BY <1>1, <1>8, <1>9, <2>1, <2>2 DEF Progress!Inv, Progress!TypeOK
<1>13. Progress!InOrder'
  <2>1. PICK m \in Nat : m = n + 1 /\ m = saved'
    BY <1>1, <1>5
  <2>2. m <= Len(r) /\ m <= Len(task)
    BY <1>3, <1>5, <1>8, <1>9, <2>1
  <2>3. ASSUME NEW i \in 1..m PROVE r[Len(r) - m + i] = task[i]
    <3>1. CASE i = m
      <4>1. Len(r) - m + i = Len(r) /\ i = saved + 1
        BY <1>5, <1>9, <2>1, <3>1
      <4> QED
        BY <1>4, <1>8, <4>1
    <3>2. CASE i # m
      <4>1. i \in 1..n /\ Len(r) - m + i = Len(r) - 1 - n + i
        BY <1>9, <2>1, <3>2
      <4> QED
        BY <1>6, <1>8, <4>1
    <3> QED
      BY <3>1, <3>2
  <2>4. Progress!LastAre(task, saved)'
    BY <1>1, <1>9, <2>1, <2>2, <2>3 DEF Progress!LastAre
  <2> QED
    BY <1>1, <2>4 DEF Progress!InOrder
<1>14. Progress!OthersOver'
  <2>1. \A i \in DOMAIN r : /\ r[i].status = "done" \/ Progress!Has(task, r[i].name)
                            /\ taskMode = "run" => Progress!Has(task, r[i].name)
    BY <1>1, <1>10, <1>11 DEF Progress!Inv, Progress!OthersOver
  <2> QED
    BY <1>1, <1>9, <2>1 DEF Progress!OthersOver
<1>15. Progress!StepsKept'
  BY <1>1 DEF Progress!Inv, Progress!StepsKept, Progress!Completed
<1>16. Progress!ResumesThere'
  BY <1>1 DEF Progress!ResumesThere
<1> QED
  BY <1>12, <1>13, <1>14, <1>15, <1>16 DEF Progress!Inv

LEMMA TaskSaved == ASSUME Progress!Inv, Progress!Saved PROVE Progress!Inv'
<1>1. /\ taskPc = "saving" /\ saved = Len(task) /\ left' = Progress!ResumePoint(task) /\ saved' = 0
      /\ rows' = rows /\ taskMode' = taskMode /\ wanted' = wanted /\ finished' = finished
      /\ torn' = torn
      /\ \/ taskMode = "serve" /\ taskPc' = "up" /\ task' = task
         \/ taskMode # "serve" /\ taskPc' = "down" /\ task' = <<>>
  BY DEF Progress!Saved, Progress!NoTask
<1>2. Progress!LastAre(task, Len(task)) /\ Progress!ResumePoint(rows) = Progress!ResumePoint(task)
  <2>1. Progress!LastAre(task, Len(task))
    BY <1>1 DEF Progress!Inv, Progress!InOrder
  <2> QED
    BY <1>1, <2>1, RowsResume
<1>3. Progress!TypeOK'
  <2>1. <<>> \in Seq(Progress!Step) /\ DOMAIN <<>> = {}
    BY EmptySeq
  <2>2. Progress!Distinct(<<>>)
    BY <2>1 DEF Progress!Distinct
  <2> QED
    BY <1>1, <2>1, <2>2 DEF Progress!Inv, Progress!TypeOK
<1>4. Progress!InOrder'
  BY <1>1, <1>2 DEF Progress!InOrder, Progress!LastAre
<1>5. Progress!OthersOver'
  BY <1>1 DEF Progress!Inv, Progress!OthersOver
<1>6. Progress!StepsKept'
  BY <1>1 DEF Progress!Inv, Progress!StepsKept, Progress!Completed
<1>7. Progress!ResumesThere'
  <2>1. Progress!ResumePoint(rows)' = Progress!ResumePoint(rows)
    BY <1>1
  <2> QED
    BY <1>1, <1>2, <2>1 DEF Progress!ResumesThere
<1> QED
  BY <1>3, <1>4, <1>5, <1>6, <1>7 DEF Progress!Inv

LEMMA TaskEnds == ASSUME Progress!Inv, Progress!Ends PROVE Progress!Inv'
<1>1. /\ taskMode = "run" /\ taskPc = "up" /\ taskPc' = "saving" /\ saved' = 0
      /\ UNCHANGED <<taskMode, rows, task, left, wanted, finished, torn>>
  BY DEF Progress!Ends, Progress!Save
<1>2. Len(rows) \in Nat /\ Len(task) \in Nat
  BY LenProperties DEF Progress!Inv, Progress!TypeOK
<1>3. Progress!TypeOK'
  BY <1>1 DEF Progress!Inv, Progress!TypeOK
<1>4. Progress!InOrder'
  BY <1>1, <1>2 DEF Progress!InOrder, Progress!LastAre
<1>5. Progress!OthersOver'
  BY <1>1 DEF Progress!Inv, Progress!OthersOver
<1>6. Progress!StepsKept' /\ Progress!ResumesThere'
  BY <1>1 DEF Progress!StepsKept, Progress!ResumesThere
<1> QED
  BY <1>3, <1>4, <1>5, <1>6 DEF Progress!Inv

LEMMA TaskCrash == ASSUME Progress!Inv, Progress!Crash PROVE Progress!Inv'
<1>1. /\ taskPc \in {"up", "saving"} /\ taskPc' = "down" /\ task' = <<>> /\ saved' = 0
      /\ left' = IF taskPc = "saving" THEN Progress!ResumePoint(rows) ELSE left
      /\ torn' = (torn \/ taskPc = "saving")
      /\ taskMode' = taskMode /\ rows' = rows /\ wanted' = wanted /\ finished' = finished
  BY DEF Progress!Crash, Progress!NoTask
<1>2. /\ rows \in Seq(Progress!Step) /\ task \in Seq(Progress!Step) /\ Progress!Distinct(rows)
      /\ Len(rows) \in Nat /\ Len(task) \in Nat /\ DOMAIN rows = 1..Len(rows)
      /\ DOMAIN task = 1..Len(task)
  BY LenProperties DEF Progress!Inv, Progress!TypeOK
<1>3. Progress!TypeOK'
  <2>1. <<>> \in Seq(Progress!Step) /\ DOMAIN <<>> = {}
    BY EmptySeq
  <2>2. Progress!Distinct(<<>>)
    BY <2>1 DEF Progress!Distinct
  <2> QED
    BY <1>1, <2>1, <2>2 DEF Progress!Inv, Progress!TypeOK
<1>4. Progress!InOrder' /\ Progress!OthersOver'
  BY <1>1 DEF Progress!InOrder, Progress!OthersOver
<1>5. ASSUME taskMode = "serve", ~torn, taskPc = "up" PROVE Progress!Completed(rows)
  <2>1. /\ \A name \in wanted : Progress!Has(task, name)
        /\ \A i \in DOMAIN task :
              task[i].name \in wanted /\ task[i].status = "done" => task[i].name \in finished
    BY <1>5 DEF Progress!Inv, Progress!StepsKept, Progress!Completed
  <2>2. /\ Len(task) <= Len(rows)
        /\ \A j \in DOMAIN task : rows[Len(rows) - Len(task) + j] = task[j]
    BY <1>2, <1>5 DEF Progress!Inv, Progress!InOrder, Progress!LastAre
  <2>3. \A j \in DOMAIN task : Len(rows) - Len(task) + j \in DOMAIN rows
    BY <1>2, <2>2
  <2>4. \A name \in wanted : Progress!Has(rows, name)
    <3> SUFFICES ASSUME NEW name \in wanted PROVE \E i \in DOMAIN rows : rows[i].name = name
      BY DEF Progress!Has
    <3>1. PICK j \in DOMAIN task : task[j].name = name
      BY <2>1 DEF Progress!Has
    <3> QED
      BY <2>2, <2>3, <3>1
  <2>5. ASSUME NEW i \in DOMAIN rows, rows[i].name \in wanted, rows[i].status = "done"
        PROVE  rows[i].name \in finished
    <3>1. PICK j \in DOMAIN task : task[j].name = rows[i].name
      BY <2>1, <2>5 DEF Progress!Has
    <3>2. rows[i] = task[j]
      BY <1>2, <2>2, <2>3, <3>1 DEF Progress!Distinct
    <3> QED
      BY <2>1, <2>5, <3>2
  <2> QED
    BY <2>4, <2>5 DEF Progress!Completed
<1>6. Progress!StepsKept'
  BY <1>1, <1>5 DEF Progress!StepsKept, Progress!Completed
<1>7. Progress!ResumesThere'
  <2>1. Progress!ResumePoint(rows)' = Progress!ResumePoint(rows)
    BY <1>1
  <2>2. taskPc # "saving" => Progress!ResumePoint(rows) = left
    BY DEF Progress!Inv, Progress!ResumesThere
  <2> QED
    BY <1>1, <2>1, <2>2 DEF Progress!ResumesThere
<1> QED
  BY <1>3, <1>4, <1>6, <1>7 DEF Progress!Inv

LEMMA TaskSteps == Progress!Inv /\ [Progress!Next]_progress => Progress!Inv'
<1> SUFFICES ASSUME Progress!Inv, [Progress!Next]_progress PROVE Progress!Inv'
  OBVIOUS
<1>1. CASE UNCHANGED progress
  <2>1. /\ taskMode' = taskMode /\ rows' = rows /\ task' = task /\ taskPc' = taskPc /\ saved' = saved
        /\ left' = left /\ wanted' = wanted /\ finished' = finished /\ torn' = torn
    BY <1>1 DEF progress
  <2>2. Progress!ResumePoint(rows)' = Progress!ResumePoint(rows)
    BY <2>1
  <2> QED
    BY <2>1, <2>2 DEF Progress!Inv, Progress!TypeOK, Progress!InOrder, Progress!LastAre,
       Progress!OthersOver, Progress!StepsKept, Progress!Completed, Progress!ResumesThere
<1>2. CASE Progress!Next
  BY <1>2, TaskBoot, TaskWriteRow, TaskSaved, TaskEnds, TaskCrash, TaskCreate, TaskSetStatus
     DEF Progress!Next
<1> QED
  BY <1>1, <1>2

(* A task resumes where the last call, or the last program, left it, and a *)
(* task that is complete under `serve' has had every step of its plan      *)
(* done: the rows of the plans it replaced are over and stand before its   *)
(* own, which a save puts last in their order (create, save_progress,      *)
(* load_progress, resume_point).                                           *)
THEOREM TasksResume == ServicesSpec => []TaskIsResumed
<1>1. ServicesInit => Progress!Inv
  BY TaskStarts DEF ServicesInit
<1>2. Progress!Inv /\ [ServicesNext]_servicesVars => Progress!Inv'
  <2>1. [ServicesNext]_servicesVars => [Progress!Next]_progress
    BY DEF ServicesNext, servicesVars
  <2> QED
    BY <2>1, TaskSteps
<1>3. Progress!Inv => TaskIsResumed
  <2> SUFFICES ASSUME Progress!Inv, taskMode = "serve", ~torn, taskPc = "up",
                      Progress!IsComplete(task), NEW name \in wanted
               PROVE  name \in finished
    BY DEF Progress!Inv, TaskIsResumed, Progress!NoStepSkipped, Progress!NoTask
  <2>1. PICK i \in DOMAIN task : task[i].name = name
    BY DEF Progress!Inv, Progress!StepsKept, Progress!Completed, Progress!Has
  <2>2. task[i].status \in Progress!Statuses
    <3>1. task \in Seq(Progress!Step) /\ i \in 1..Len(task)
      BY <2>1, LenProperties DEF Progress!Inv, Progress!TypeOK
    <3>2. task[i] \in Progress!Step
      BY <3>1, ElementOfSeq
    <3> QED
      BY <3>2 DEF Progress!Step
  <2>3. task[i].status = "done"
    BY <2>2 DEF Progress!IsComplete, Progress!Over, Progress!Statuses
  <2> QED
    BY <2>1, <2>3 DEF Progress!Inv, Progress!StepsKept, Progress!Completed
<1> QED
  BY <1>1, <1>2, <1>3, PTL DEF ServicesSpec

-----------------------------------------------------------------------------
(***************************************************************************)
(* Questions: humans answer them by number, late, twice or never.          *)
(***************************************************************************)
LEMMA HumanShape ==
    /\ \A m, n \in Humans!Managers : m = n
    /\ \A c \in Askers : ManagerOf[c] \in Humans!Managers
    /\ Humans!NoAnswer \notin Humans!Responses
    /\ \A s \in Seq(Humans!Responses) : \A r \in Humans!Responses :
          /\ Append(s, r) \in Seq(Humans!Responses) /\ Append(s, r) # <<>>
          /\ Humans!Last(Append(s, r)) = r
          /\ s # <<>> => Humans!Last(s) \in Humans!Responses
<1>1. \A m, n \in Humans!Managers : m = n
  BY ServicesAssumption DEF Humans!Managers
<1>2. \A c \in Askers : ManagerOf[c] \in Humans!Managers
  BY DEF Humans!Managers
<1>3. Humans!NoAnswer \notin Humans!Responses
  BY DEF Humans!NoAnswer, Humans!Responses
<1>4. ASSUME NEW s \in Seq(Humans!Responses), NEW r \in Humans!Responses
      PROVE  /\ Append(s, r) \in Seq(Humans!Responses) /\ Append(s, r) # <<>>
             /\ Humans!Last(Append(s, r)) = r
             /\ s # <<>> => Humans!Last(s) \in Humans!Responses
  <2> DEFINE R == Humans!Responses
  <2> HIDE DEF R
  <2>1. s \in Seq(R) /\ r \in R
    BY <1>4 DEF R
  <2>2. Append(s, r) \in Seq(R) /\ Append(s, r)[Len(Append(s, r))] = r /\ Len(Append(s, r)) = Len(s) + 1
        /\ Len(s) \in Nat
    BY <2>1
  <2>3. Append(s, r) # <<>>
    BY <2>2
  <2>4. s # <<>> => s[Len(s)] \in R
    BY <2>1
  <2> QED
    BY <2>2, <2>3, <2>4 DEF Humans!Last, R
<1> QED
  BY <1>1, <1>2, <1>3, <1>4

LEMMA HumanStarts == Humans!Init => Humans!Inv
<1> SUFFICES ASSUME Humans!Init PROVE Humans!Inv
  OBVIOUS
<1>0. MaxQuestions \in Nat
  BY ServicesAssumption
<1>1. <<>> \in Seq(Humans!Responses) /\ 0 \in 0..MaxQuestions
  BY <1>0
<1>2. Humans!TypeOK
  <2>1. /\ asked \in [Humans!Managers -> 0..MaxQuestions] /\ answers \in [Humans!Ids -> Seq(Humans!Responses)]
        /\ responses \in [Humans!Ids -> Humans!Responses \cup {Humans!NoAnswer}]
    BY <1>1 DEF Humans!Init
  <2>2. question \in [Askers -> [id: 0..MaxQuestions, action: Humans!Actions]]
    BY <1>1 DEF Humans!Init, Humans!Actions
  <2>3. told = [c \in Askers |-> told[c]]
    BY DEF Humans!Init
  <2> QED
    BY <2>1, <2>2, <2>3 DEF Humans!Init, Humans!TypeOK
<1> QED
  BY <1>2 DEF Humans!Init, Humans!Inv, Humans!Numbered, Humans!Unasked, Humans!UnderWay, Humans!Asleep

(* A question under way: its number is taken.                              *)
LEMMA HumanUnderWay ==
    ASSUME Humans!Inv, NEW c \in Askers, stage[c] # "idle"
    PROVE  /\ question[c].id \in Humans!Ids /\ question[c].id \in Nat
           /\ \A m \in Humans!Managers : question[c].id <= asked[m]
<1>1. question[c].id \in 1..asked[ManagerOf[c]] /\ asked \in [Humans!Managers -> 0..MaxQuestions]
  BY DEF Humans!Inv, Humans!Numbered, Humans!TypeOK
<1>2. \A m \in Humans!Managers : m = ManagerOf[c] /\ asked[m] \in 0..MaxQuestions
  BY <1>1, HumanShape
<1> QED
  BY <1>1, <1>2, HumanShape, ServicesAssumption DEF Humans!Ids

LEMMA HumanAsks ==
    ASSUME Humans!Inv, NEW c \in Askers, NEW a \in Humans!Actions, Humans!Ask(c, a)
    PROVE  Humans!Inv'
<1> DEFINE m == ManagerOf[c]
<1>0. PICK id : id = asked[m] + 1
  OBVIOUS
<1>1. /\ m \in Humans!Managers /\ asked[m] \in Nat /\ id \in 1..MaxQuestions /\ id \in Humans!Ids
      /\ \A n \in Humans!Managers : n = m
  BY <1>0, HumanShape, ServicesAssumption DEF Humans!Inv, Humans!TypeOK, Humans!Ask, Humans!Ids
<1>2. /\ asked' = [asked EXCEPT ![m] = id] /\ question' = [question EXCEPT ![c] = [id |-> id, action |-> a]]
      /\ UNCHANGED <<handler, pending, responses, late, notifying, answers>>
      /\ stage[c] = "idle"
      /\ stage' = stage \/ stage' = [stage EXCEPT ![c] = "asked"]
      /\ told' = told \/ \E x : told' = [told EXCEPT ![c] = x]
  BY <1>0 DEF Humans!Ask
<1>3. Humans!TypeOK'
  BY <1>1, <1>2 DEF Humans!Inv, Humans!TypeOK
<1>4. \A d \in Askers : stage[d] # "idle" => question[d].id \in 1..asked[m] /\ question[d].id # id /\ d # c
  BY <1>0, <1>1, <1>2, HumanShape DEF Humans!Inv, Humans!Numbered
<1>5. \A d \in Askers : d # c => stage'[d] = stage[d] /\ question'[d] = question[d]
  BY <1>2 DEF Humans!Inv, Humans!TypeOK
<1>6. question'[c].id = id /\ asked'[m] = id /\ asked'[m] = asked[m] + 1
  BY <1>0, <1>1, <1>2 DEF Humans!Inv, Humans!TypeOK
<1>7. Humans!Numbered'
  <2>1. \A d \in Askers : stage'[d] # "idle" => question'[d].id \in 1..asked'[m]
    BY <1>1, <1>4, <1>5, <1>6
  <2>2. \A d \in Askers : ManagerOf[d] = m
    BY <1>1, HumanShape
  <2>3. \A d, e \in Askers : stage'[d] # "idle" /\ stage'[e] # "idle" /\ d # e => question'[d].id # question'[e].id
    <3> SUFFICES ASSUME NEW d \in Askers, NEW e \in Askers, stage'[d] # "idle", stage'[e] # "idle", d # e
                 PROVE  question'[d].id # question'[e].id
      OBVIOUS
    <3>1. CASE d = c
      BY <3>1, <1>4, <1>5, <1>6
    <3>2. CASE e = c
      BY <3>2, <1>4, <1>5, <1>6
    <3>3. CASE d # c /\ e # c
      BY <3>3, <1>5 DEF Humans!Inv, Humans!Numbered
    <3> QED
      BY <3>1, <3>2, <3>3
  <2> QED
    BY <2>1, <2>2, <2>3 DEF Humans!Numbered
<1>8. answers[id] = <<>> /\ responses[id] = Humans!NoAnswer
  <2>1. \A n \in Humans!Managers : asked[n] < id
    BY <1>0, <1>1
  <2> QED
    BY <1>1, <2>1 DEF Humans!Inv, Humans!Unasked
<1>9. Humans!Unasked'
  <2> SUFFICES ASSUME NEW i \in Humans!Ids, \A n \in Humans!Managers : asked'[n] < i
               PROVE  answers[i] = <<>> /\ responses[i] = Humans!NoAnswer
    BY <1>2 DEF Humans!Unasked
  <2>1. \A n \in Humans!Managers : asked[n] < i
    BY <1>1, <1>6 DEF Humans!Ids
  <2> QED
    BY <2>1 DEF Humans!Inv, Humans!Unasked
<1>10. Humans!UnderWay'
  <2> SUFFICES ASSUME NEW d \in Askers, stage'[d] # "idle"
               PROVE  responses[question'[d].id] = IF answers[question'[d].id] = <<>> THEN Humans!NoAnswer
                                                   ELSE Humans!Last(answers[question'[d].id])
    BY <1>2 DEF Humans!UnderWay
  <2>1. CASE d = c
    BY <2>1, <1>6, <1>8
  <2>2. CASE d # c
    BY <2>2, <1>5 DEF Humans!Inv, Humans!UnderWay
  <2> QED
    BY <2>1, <2>2
<1>11. Humans!Asleep'
  <2>1. \A d \in Askers : stage'[d] = "asleep" => d # c
    BY <1>2 DEF Humans!Inv, Humans!TypeOK
  <2> QED
    BY <2>1, <1>2, <1>5 DEF Humans!Inv, Humans!Asleep
<1> QED
  BY <1>3, <1>7, <1>9, <1>10, <1>11 DEF Humans!Inv

(* A caller that comes back takes no number of another one with it.        *)
LEMMA HumanReturns ==
    ASSUME Humans!Inv, NEW c \in Askers, NEW response, Humans!Returns(c, response), Humans!Looking(c),
           responses' = responses \/ responses' = [responses EXCEPT ![question[c].id] = Humans!NoAnswer],
           UNCHANGED <<handler, asked, question, notifying, answers>>
    PROVE  Humans!Inv'
<1>0. PICK id : id = question[c].id
  OBVIOUS
<1>1. /\ stage[c] # "idle" /\ stage' = [stage EXCEPT ![c] = "idle"] /\ late' \subseteq late
      /\ pending' = pending \ {id} /\ \E x : told' = [told EXCEPT ![c] = x]
      /\ responses' = responses \/ responses' = [responses EXCEPT ![id] = Humans!NoAnswer]
  BY <1>0 DEF Humans!Returns, Humans!Looking
<1>2. id \in Humans!Ids /\ \A m \in Humans!Managers : id <= asked[m]
  BY <1>0, <1>1, HumanUnderWay
<1>3. Humans!TypeOK'
  BY <1>1, <1>2 DEF Humans!Inv, Humans!TypeOK
<1>4. \A d \in Askers : stage'[d] # "idle" =>
         /\ d # c /\ stage[d] = stage'[d] /\ question[d].id # id
         /\ question'[d] = question[d]
         /\ question[d].id \in Humans!Ids
  <2> SUFFICES ASSUME NEW d \in Askers, stage'[d] # "idle"
               PROVE  /\ d # c /\ stage[d] = stage'[d] /\ question[d].id # id
                      /\ question'[d] = question[d] /\ question[d].id \in Humans!Ids
    OBVIOUS
  <2>1. d # c /\ stage[d] = stage'[d]
    BY <1>1 DEF Humans!Inv, Humans!TypeOK
  <2>2. question[d].id # id
    BY <2>1, <1>0, <1>1 DEF Humans!Inv, Humans!Numbered
  <2> QED
    BY <2>1, <2>2, HumanUnderWay
<1>5. \A i \in Humans!Ids : i # id => responses'[i] = responses[i]
  BY <1>1 DEF Humans!Inv, Humans!TypeOK
<1>6. Humans!Numbered'
  BY <1>4 DEF Humans!Inv, Humans!Numbered
<1>7. Humans!Unasked'
  <2> SUFFICES ASSUME NEW i \in Humans!Ids, \A m \in Humans!Managers : asked[m] < i
               PROVE  answers[i] = <<>> /\ responses'[i] = Humans!NoAnswer
    BY DEF Humans!Unasked
  <2>0. PICK m \in Humans!Managers : m = ManagerOf[c]
    BY HumanShape
  <2>1. asked[m] \in Nat /\ id <= asked[m] /\ asked[m] < i /\ id \in Nat /\ i \in Nat
    BY <1>2, ServicesAssumption DEF Humans!Ids, Humans!Inv, Humans!TypeOK
  <2>2. i # id
    BY <2>1
  <2> QED
    BY <2>2, <1>5 DEF Humans!Inv, Humans!Unasked
<1>8. Humans!UnderWay'
  <2> SUFFICES ASSUME NEW d \in Askers, stage'[d] # "idle"
               PROVE  responses'[question[d].id] = IF answers[question[d].id] = <<>> THEN Humans!NoAnswer
                                                   ELSE Humans!Last(answers[question[d].id])
    BY DEF Humans!UnderWay
  <2> QED
    BY <1>4, <1>5 DEF Humans!Inv, Humans!UnderWay
<1>9. Humans!Asleep'
  <2> SUFFICES ASSUME NEW d \in Askers, stage'[d] = "asleep"
               PROVE  /\ question[d].id \in pending'
                      /\ responses'[question[d].id] # Humans!NoAnswer => notifying
    BY DEF Humans!Asleep
  <2> QED
    BY <1>1, <1>4, <1>5 DEF Humans!Inv, Humans!Asleep
<1> QED
  BY <1>3, <1>6, <1>7, <1>8, <1>9 DEF Humans!Inv

(* Who looks, sleeps and wakes up changes no number and no answer.         *)
LEMMA HumanWaits ==
    ASSUME Humans!Inv, stage' \in [Askers -> {"idle", "asked", "asleep", "awake"}],
           \A c \in Askers : stage'[c] = "idle" <=> stage[c] = "idle",
           \A c \in Askers : stage'[c] = "asleep" =>
               /\ question[c].id \in pending'
               /\ responses[question[c].id] # Humans!NoAnswer => notifying',
           pending' \subseteq Nat, late' \subseteq Askers, notifying' \in BOOLEAN,
           UNCHANGED <<handler, asked, responses, question, told, answers>>
    PROVE  Humans!Inv'
<1>1. Humans!TypeOK'
  BY DEF Humans!Inv, Humans!TypeOK
<1>2. Humans!Numbered'
  BY DEF Humans!Inv, Humans!Numbered
<1>3. Humans!Unasked'
  BY DEF Humans!Inv, Humans!Unasked
<1>4. Humans!UnderWay'
  BY DEF Humans!Inv, Humans!UnderWay
<1>5. Humans!Asleep'
  BY DEF Humans!Inv, Humans!Asleep
<1> QED
  BY <1>1, <1>2, <1>3, <1>4, <1>5 DEF Humans!Inv

LEMMA HumanResponds ==
    ASSUME Humans!Inv, NEW id \in Humans!Ids, NEW r \in Humans!Responses, Humans!Respond(id, r)
    PROVE  Humans!Inv'
<1>1. /\ responses' = [responses EXCEPT ![id] = r] /\ answers' = [answers EXCEPT ![id] = Append(answers[id], r)]
      /\ notifying' = TRUE /\ UNCHANGED <<handler, asked, pending, stage, question, late, told>>
      /\ \E m \in Humans!Managers : id <= asked[m]
  BY DEF Humans!Respond
<1>2. answers[id] \in Seq(Humans!Responses)
  BY DEF Humans!Inv, Humans!TypeOK
<1> DEFINE more == Append(answers[id], r)
<1>3. more \in Seq(Humans!Responses) /\ more # <<>> /\ Humans!Last(more) = r
  BY <1>2, HumanShape
<1> HIDE DEF more
<1>4. /\ answers' = [answers EXCEPT ![id] = more]
      /\ answers'[id] = more /\ responses'[id] = r
      /\ \A i \in Humans!Ids : i # id => answers'[i] = answers[i] /\ responses'[i] = responses[i]
  BY <1>1 DEF more, Humans!Inv, Humans!TypeOK
<1>5. Humans!TypeOK'
  BY <1>1, <1>3, <1>4 DEF Humans!Inv, Humans!TypeOK
<1>6. Humans!Numbered'
  BY <1>1 DEF Humans!Inv, Humans!Numbered
<1>7. Humans!Unasked'
  <2> SUFFICES ASSUME NEW i \in Humans!Ids, \A m \in Humans!Managers : asked[m] < i
               PROVE  answers'[i] = <<>> /\ responses'[i] = Humans!NoAnswer
    BY <1>1 DEF Humans!Unasked
  <2>1. i # id
    BY <1>1, ServicesAssumption DEF Humans!Ids, Humans!Inv, Humans!TypeOK
  <2> QED
    BY <2>1, <1>4 DEF Humans!Inv, Humans!Unasked
<1>8. Humans!UnderWay'
  <2> SUFFICES ASSUME NEW d \in Askers, stage[d] # "idle"
               PROVE  responses'[question[d].id] = IF answers'[question[d].id] = <<>> THEN Humans!NoAnswer
                                                   ELSE Humans!Last(answers'[question[d].id])
    BY <1>1 DEF Humans!UnderWay
  <2>1. question[d].id \in Humans!Ids
    BY HumanUnderWay
  <2> QED
    BY <2>1, <1>3, <1>4 DEF Humans!Inv, Humans!UnderWay
<1>9. Humans!Asleep'
  BY <1>1 DEF Humans!Inv, Humans!Asleep
<1> QED
  BY <1>5, <1>6, <1>7, <1>8, <1>9 DEF Humans!Inv

LEMMA HumanSteps == Humans!Inv /\ [Humans!Next]_humans => Humans!Inv'
<1> SUFFICES ASSUME Humans!Inv, [Humans!Next]_humans PROVE Humans!Inv'
  OBVIOUS
<1>0. /\ stage \in [Askers -> {"idle", "asked", "asleep", "awake"}] /\ pending \subseteq Nat
      /\ late \subseteq Askers /\ notifying \in BOOLEAN
      /\ \A c \in Askers : stage[c] = "asleep" =>
             /\ question[c].id \in pending
             /\ responses[question[c].id] # Humans!NoAnswer => notifying
  BY DEF Humans!Inv, Humans!TypeOK, Humans!Asleep
<1>1. CASE UNCHANGED humans
  BY <1>0, <1>1, HumanWaits DEF humans
<1>2. ASSUME NEW c \in Askers, Humans!Take(c) PROVE Humans!Inv'
  BY <1>2, HumanReturns DEF Humans!Take
<1>3. ASSUME NEW c \in Askers, Humans!GiveUp(c) PROVE Humans!Inv'
  BY <1>3, HumanReturns DEF Humans!GiveUp
<1>4. ASSUME NEW c \in Askers, Humans!Sleep(c) PROVE Humans!Inv'
  <2>1. /\ stage[c] # "idle" /\ stage' = [stage EXCEPT ![c] = "asleep"]
        /\ pending' = pending \cup {question[c].id} /\ responses[question[c].id] = Humans!NoAnswer
        /\ UNCHANGED <<handler, asked, responses, question, late, told, notifying, answers>>
    BY <1>4 DEF Humans!Sleep, Humans!Looking
  <2>2. question[c].id \in Nat
    BY <2>1, HumanUnderWay
  <2>3. stage' \in [Askers -> {"idle", "asked", "asleep", "awake"}] /\ stage'[c] = "asleep"
        /\ \A d \in Askers : d # c => stage'[d] = stage[d]
    BY <1>0, <2>1
  <2> QED
    BY <1>0, <2>1, <2>2, <2>3, HumanWaits
<1>5. ASSUME NEW c \in Askers, Humans!Expire(c) \/ Humans!Spurious(c) PROVE Humans!Inv'
  <2>1. /\ stage[c] # "idle" /\ pending' = pending /\ late' \subseteq late \cup {c} /\ notifying' = notifying
        /\ stage' = [stage EXCEPT ![c] = IF stage[c] = "asleep" THEN "awake" ELSE stage[c]]
        /\ UNCHANGED <<handler, asked, responses, question, told, answers>>
    BY <1>5 DEF Humans!Expire, Humans!Spurious
  <2>2. stage' \in [Askers -> {"idle", "asked", "asleep", "awake"}]
        /\ \A d \in Askers : stage'[d] = stage[d] \/ (stage'[d] = "awake" /\ stage[d] = "asleep")
    BY <1>0, <2>1
  <2> QED
    BY <1>0, <2>1, <2>2, HumanWaits
<1>6. CASE Humans!Notify
  <2>1. /\ stage' = [c \in Askers |-> IF stage[c] = "asleep" THEN "awake" ELSE stage[c]]
        /\ notifying' = FALSE /\ pending' = pending /\ late' = late
        /\ UNCHANGED <<handler, asked, responses, question, told, answers>>
    BY <1>6 DEF Humans!Notify
  <2>2. stage' \in [Askers -> {"idle", "asked", "asleep", "awake"}]
        /\ \A d \in Askers : stage'[d] # "asleep" /\ (stage'[d] = "idle" <=> stage[d] = "idle")
    BY <1>0, <2>1
  <2> QED
    BY <1>0, <2>1, <2>2, HumanWaits
<1> QED
  BY <1>1, <1>2, <1>3, <1>4, <1>5, <1>6, HumanAsks, HumanResponds DEF Humans!Next

(* Who comes back, comes back with the latest answer to its question.      *)
LEMMA HumanAnswers == Humans!Inv /\ Humans!Inv' /\ [Humans!Next]_humans => Humans!AnswerStep
<1> SUFFICES ASSUME Humans!Inv, Humans!Inv', [Humans!Next]_humans, NEW c \in Askers
             PROVE  /\ stage[c] # "idle" /\ stage'[c] = "idle" =>
                          told'[c] = Humans!Told(question[c].action,
                                                 IF answers[question[c].id] = <<>> THEN Humans!Timeout
                                                 ELSE Humans!Last(answers[question[c].id]))
                    /\ stage'[c] = "asleep" =>
                          /\ question'[c].id \in pending'
                          /\ responses'[question'[c].id] # Humans!NoAnswer => notifying'
  BY DEF Humans!AnswerStep
<1>1. stage'[c] = "asleep" => /\ question'[c].id \in pending'
                              /\ responses'[question'[c].id] # Humans!NoAnswer => notifying'
  BY DEF Humans!Inv, Humans!Asleep
<1>2. ASSUME stage[c] # "idle", stage'[c] = "idle"
      PROVE  Humans!Take(c) \/ Humans!GiveUp(c)
  <2>0. stage \in [Askers -> {"idle", "asked", "asleep", "awake"}]
    BY DEF Humans!Inv, Humans!TypeOK
  <2>1. ~UNCHANGED humans
    BY <1>2 DEF humans
  <2>2. ASSUME NEW d \in Askers, NEW a \in Humans!Actions, Humans!Ask(d, a) PROVE FALSE
    BY <1>2, <2>0, <2>2 DEF Humans!Ask
  <2>3. ASSUME NEW d \in Askers, Humans!Take(d) \/ Humans!GiveUp(d) PROVE d = c
    BY <1>2, <2>0, <2>3 DEF Humans!Take, Humans!GiveUp, Humans!Returns
  <2>4. ASSUME NEW d \in Askers, Humans!Sleep(d) \/ Humans!Expire(d) \/ Humans!Spurious(d) PROVE FALSE
    BY <1>2, <2>0, <2>4 DEF Humans!Sleep, Humans!Expire, Humans!Spurious
  <2>5. ASSUME NEW i, NEW r, Humans!Respond(i, r) PROVE FALSE
    BY <1>2, <2>5 DEF Humans!Respond
  <2>6. ~Humans!Notify
    BY <1>2, <2>0 DEF Humans!Notify
  <2> QED
    BY <2>1, <2>2, <2>3, <2>4, <2>5, <2>6 DEF Humans!Next
<1>3. ASSUME stage[c] # "idle", stage'[c] = "idle"
      PROVE  told'[c] = Humans!Told(question[c].action,
                                    IF answers[question[c].id] = <<>> THEN Humans!Timeout
                                    ELSE Humans!Last(answers[question[c].id]))
  <2>0. PICK id : id = question[c].id
    OBVIOUS
  <2>1. /\ id \in Humans!Ids /\ answers[id] \in Seq(Humans!Responses)
        /\ responses[id] = IF answers[id] = <<>> THEN Humans!NoAnswer ELSE Humans!Last(answers[id])
        /\ told = [d \in Askers |-> told[d]]
    BY <1>3, <2>0, HumanUnderWay DEF Humans!Inv, Humans!TypeOK, Humans!UnderWay
  <2>2. answers[id] # <<>> => Humans!Last(answers[id]) # Humans!NoAnswer
    <3>1. [status |-> "approved", value |-> "text"] \in Humans!Responses
      BY DEF Humans!Responses
    <3> QED
      BY <2>1, <3>1, HumanShape
  <2>3. CASE Humans!Take(c)
    <3>1. responses[id] # Humans!NoAnswer
          /\ told' = [told EXCEPT ![c] = Humans!Told(question[c].action, responses[id])]
      BY <2>0, <2>3 DEF Humans!Take, Humans!Returns
    <3>2. told'[c] = Humans!Told(question[c].action, responses[id])
      BY <2>1, <3>1
    <3>3. responses[id] = IF answers[id] = <<>> THEN Humans!Timeout ELSE Humans!Last(answers[id])
      BY <2>1, <3>1
    <3> QED
      BY <2>0, <3>2, <3>3
  <2>4. CASE Humans!GiveUp(c)
    <3>1. responses[id] = Humans!NoAnswer
          /\ told' = [told EXCEPT ![c] = Humans!Told(question[c].action, Humans!Timeout)]
      BY <2>0, <2>4 DEF Humans!GiveUp, Humans!Returns
    <3>2. told'[c] = Humans!Told(question[c].action, Humans!Timeout)
      BY <2>1, <3>1
    <3>3. answers[id] = <<>>
      BY <2>1, <2>2, <3>1
    <3> QED
      BY <2>0, <3>2, <3>3
  <2> QED
    BY <1>2, <1>3, <2>3, <2>4
<1> QED
  BY <1>1, <1>3

-----------------------------------------------------------------------------
(***************************************************************************)
(* Operations on a model, and the validator of its replies.                *)
(***************************************************************************)
(* The key that is configured is that of the provider.                     *)
LEMMA LlmKnobs ==
    ASSUME NEW s \in Llms!Sources, NEW p \in Llms!Range(Llms!Providers)
    PROVE  s[p] \in {Llms!Absent, Llms!Blank, Llms!KeyOf(p)}
<1>1. Llms!Range(Llms!Providers) = {"anthropic", "openai", "minimax", "deepseek"}
  <2>1. /\ DOMAIN Llms!Providers = 1..4 /\ Llms!Providers[1] = "anthropic" /\ Llms!Providers[2] = "openai"
        /\ Llms!Providers[3] = "minimax" /\ Llms!Providers[4] = "deepseek"
    BY DEF Llms!Providers
  <2>2. 1..4 = {1, 2, 3, 4}
    OBVIOUS
  <2> QED
    BY <2>1, <2>2 DEF Llms!Range
<1>2. PICK pr \in {Llms!Absent, "claude", "deepseek", "unknown"}, a \in {Llms!Blank, Llms!KeyOf("anthropic")},
           d \in {Llms!Absent, Llms!KeyOf("deepseek")}, t \in {Llms!Absent, "0"} :
           s = [Llms!Unset EXCEPT !["PROVIDER"] = pr, !["anthropic"] = a, !["deepseek"] = d, !["MAX_TOKENS"] = t]
  BY DEF Llms!Sources
<1>3. \A k \in {"anthropic", "openai", "minimax", "deepseek"} :
         k \in Llms!Knobs /\ Llms!Unset[k] = Llms!Absent
  BY <1>1 DEF Llms!Knobs, Llms!Unset
<1>4. DOMAIN Llms!Unset = Llms!Knobs
  BY DEF Llms!Unset
<1>5. s["anthropic"] = a /\ s["deepseek"] = d /\ s["openai"] = Llms!Absent /\ s["minimax"] = Llms!Absent
  BY <1>2, <1>3, <1>4
<1> QED
  BY <1>1, <1>2, <1>5

LEMMA LlmKey ==
    ASSUME NEW c \in [environ: Llms!Sources, dotenv: Llms!Sources],
           Llms!provider_from_config(c) # Llms!Offline
    PROVE  Llms!provider_from_config(c).key = Llms!KeyOf(Llms!provider_from_config(c).name)
<1>1. ASSUME NEW p \in Llms!Range(Llms!Providers), Llms!resolve_knob(c, p) # Llms!Absent
      PROVE  Llms!resolve_knob(c, p) = Llms!KeyOf(p)
  <2>1. /\ c.environ[p] \in {Llms!Absent, Llms!Blank, Llms!KeyOf(p)}
        /\ c.dotenv[p] \in {Llms!Absent, Llms!Blank, Llms!KeyOf(p)}
    BY LlmKnobs
  <2> QED
    BY <1>1, <2>1 DEF Llms!resolve_knob
<1>2. \E p, model, cap, base :
         /\ p \in Llms!Range(Llms!Providers) /\ Llms!resolve_knob(c, p) # Llms!Absent
         /\ Llms!provider_from_config(c) =
               [name |-> p, protocol |-> Llms!build_provider(p), key |-> Llms!resolve_knob(c, p),
                model |-> model, tokens |-> cap, base |-> base]
  BY DEF Llms!provider_from_config
<1> QED
  BY <1>1, <1>2

(* What a reply says is about the options there are.                       *)
LEMMA LlmSays ==
    ASSUME NEW a, NEW options, NEW content \in Llms!Contents(a, options)
    PROVE  /\ content.says.exact \in {0} \cup 1..Len(options)
           /\ content.says.mentions \subseteq 1..Len(options)
<1>1. ASSUME NEW s \in Llms!Sayings(options)
      PROVE  s.exact \in {0} \cup 1..Len(options) /\ s.mentions \subseteq 1..Len(options)
  <2>1. Llms!Empties(options) \subseteq 1..Len(options)
    BY DEF Llms!Empties
  <2>2. s \in Llms!Exactly(options) => s.exact \in 1..Len(options) /\ s.mentions \subseteq 1..Len(options)
    BY DEF Llms!Exactly
  <2>3. s \in Llms!ByNumber(options) => s.exact = 0 /\ s.mentions = Llms!Empties(options)
    BY DEF Llms!ByNumber
  <2>4. s \in Llms!InWords(options) => s.exact = 0 /\ s.mentions \subseteq 1..Len(options)
    BY DEF Llms!InWords
  <2> QED
    BY <1>1, <2>1, <2>2, <2>3, <2>4 DEF Llms!Sayings
<1>2. CASE Llms!parse_text(a) = "empty"
  <2> DEFINE empty == Llms!Empties(options)
             x == IF empty = {} THEN 0 ELSE CHOOSE i \in empty : TRUE
  <2>1. content = Llms!Content("empty", Llms!Says(x, 0, 0, empty))
    BY <1>2 DEF Llms!Contents
  <2>2. empty \subseteq 1..Len(options) /\ x \in {0} \cup 1..Len(options)
    BY DEF Llms!Empties
  <2> QED
    BY <2>1, <2>2 DEF Llms!Content, Llms!Says
<1>3. CASE Llms!parse_text(a) = "text"
  BY <1>1, <1>3 DEF Llms!Contents, Llms!Content
<1>4. CASE Llms!parse_text(a) = "error"
  BY <1>1, <1>4 DEF Llms!Contents, Llms!Content
<1> QED
  BY <1>2, <1>3, <1>4 DEF Llms!parse_text

LEMMA LlmDecides ==
    ASSUME NEW a, NEW options, NEW content \in Llms!Contents(a, options), options # <<>>,
           Llms!validate_decide(content, options).valid
    PROVE  LET v == Llms!validate_decide(content, options).value
               says == content.says
           IN  /\ v \in 1..Len(options) /\ v \in Llms!NamedBy(says)
               /\ v \in {says.exact, says.number, says.ordinal} \/ says.mentions = {v}
<1>1. /\ content.says.exact \in {0} \cup 1..Len(options)
      /\ content.says.mentions \subseteq 1..Len(options)
  BY LlmSays
<1>2. PICK says : says = content.says
  OBVIOUS
<1>3. PICK r : r = Llms!validate_decide(content, options)
  OBVIOUS
<1>4. \/ r = Llms!Valid(says.exact) /\ says.exact # 0
      \/ r = Llms!Valid(says.number) /\ says.number \in 1..Len(options)
      \/ r = Llms!Valid(says.ordinal) /\ says.ordinal \in 1..Len(options)
      \/ \E i \in says.mentions : says.mentions = {i} /\ r = Llms!Valid(i)
      \/ r = Llms!Invalid
  BY <1>2, <1>3 DEF Llms!validate_decide
<1>5. r # Llms!Invalid
  BY <1>3 DEF Llms!Invalid
<1> QED
  BY <1>1, <1>2, <1>3, <1>4, <1>5 DEF Llms!Valid, Llms!NamedBy

LEMMA LlmValid ==
    ASSUME NEW o, NEW content
    PROVE  /\ Llms!validate(o, content).valid \in BOOLEAN
           /\ o.kind # "decide" /\ Llms!validate(o, content).valid => content.kind = "text"
<1>1. /\ \A x : Llms!Valid(x).valid = TRUE
      /\ Llms!Invalid.valid = FALSE
  BY DEF Llms!Valid, Llms!Invalid
<1>2. Llms!validate_decide(content, o.options).valid \in BOOLEAN
  BY <1>1 DEF Llms!validate_decide
<1> QED
  BY <1>1, <1>2 DEF Llms!validate, Llms!validate_text_response

LEMMA LlmStarts == Llms!Init => Llms!Inv
<1> SUFFICES ASSUME Llms!Init PROVE Llms!Inv
  OBVIOUS
<1>1. llmOp = Llms!Operation("reason", <<>>, FALSE)
  BY DEF Llms!Init
<1>2. llmOp.kind = "reason" /\ llmOp.options = <<>> /\ llmOp.validated = FALSE
  BY <1>1 DEF Llms!Operation
<1>3. Llms!TypeOK
  BY <1>1, <1>2 DEF Llms!Init, Llms!TypeOK
<1>4. Llms!BeforeWiring /\ Llms!Asking
  BY <1>2 DEF Llms!Init, Llms!BeforeWiring, Llms!Asking
<1>5. Llms!DecisionIsNamed
  BY <1>2 DEF Llms!Init, Llms!DecisionIsNamed
<1> QED
  BY <1>3, <1>4, <1>5 DEF Llms!Inv

LEMMA LlmBegins ==
    ASSUME Llms!Inv, NEW o \in Llms!Operations, Llms!Begin(o)
    PROVE  Llms!Inv'
<1>0. MaxRetries \in Nat
  BY ServicesAssumption
<1>1. /\ o = Llms!Operation(o.kind, o.options, o.validated) /\ o.validated \in BOOLEAN
      /\ o.kind \in {"decide", "reason"}
  BY DEF Llms!Operations, Llms!Operation
<1>2. /\ llmOp' = o /\ attempt' = 0 /\ feedback' = "none" /\ UNCHANGED <<config, provider>>
      /\ \/ /\ provider = Llms!Offline \/ (o.validated /\ MaxRetries = 0)
            /\ llmStage' = "done" /\ result' = [valid |-> ~o.validated, value |-> Llms!Raw]
         \/ /\ ~(provider = Llms!Offline \/ (o.validated /\ MaxRetries = 0))
            /\ llmStage' = "asking" /\ result' = result
  BY DEF Llms!Begin
<1>3. llmStage' \in {"done", "asking"} /\ llmStage \in {"idle", "done"}
  BY <1>2 DEF Llms!Begin
<1>4. Llms!TypeOK'
  BY <1>1, <1>2, <1>3 DEF Llms!TypeOK
<1>5. Llms!BeforeWiring' /\ Llms!Asking'
  BY <1>0, <1>2, <1>3 DEF Llms!BeforeWiring, Llms!Asking
<1>6. Llms!DecisionIsNamed'
  <2>1. llmStage' = "done" /\ llmOp'.validated => ~result'.valid
    <3>1. llmStage' = "done" => result' = [valid |-> ~o.validated, value |-> Llms!Raw]
      BY <1>2
    <3>2. ASSUME llmStage' = "done", o.validated PROVE ~result'.valid
      <4>1. (~o.validated) = FALSE
        BY <1>1, <3>2
      <4>2. result' = [valid |-> FALSE, value |-> Llms!Raw]
        BY <3>1, <3>2, <4>1
      <4> QED
        BY <4>2
    <3>3. llmOp' = o
      BY <1>2
    <3> QED
      BY <3>2, <3>3
  <2>2. llmOp'.validated => attempt' <= MaxRetries
    BY <1>0, <1>2
  <2>3. llmStage' = "done" /\ llmOp'.validated /\ provider' # Llms!Offline => attempt' = MaxRetries
    BY <1>2
  <2>4. llmStage' = "asking" => feedback' # "final" /\ ~(attempt' > 0)
    BY <1>2
  <2>5. provider' # Llms!Offline => provider'.key = Llms!KeyOf(provider'.name)
    BY <1>2 DEF Llms!Inv, Llms!DecisionIsNamed
  <2> QED
    BY <2>1, <2>2, <2>3, <2>4, <2>5 DEF Llms!DecisionIsNamed
<1> QED
  BY <1>4, <1>5, <1>6 DEF Llms!Inv

LEMMA LlmReplies ==
    ASSUME Llms!Inv, NEW a \in Llms!Answers, Llms!Reply(a)
    PROVE  Llms!Inv'
<1>0. MaxRetries \in Nat /\ attempt \in Nat /\ llmOp.validated \in BOOLEAN
      /\ llmOp.kind \in {"decide", "reason"} /\ llmStage = "asking"
  BY ServicesAssumption DEF Llms!Inv, Llms!TypeOK, Llms!Reply
<1>1. PICK content \in Llms!Contents(a, llmOp.options) :
         LET judged == IF llmOp.validated THEN Llms!validate(llmOp, content) ELSE Llms!Valid(Llms!Raw)
             over == judged.valid \/ attempt + 1 = MaxRetries
         IN  /\ attempt' = attempt + 1 /\ reply' = content
             /\ llmStage' = IF over THEN "done" ELSE "asking"
             /\ result' = judged
             /\ feedback' = IF over THEN feedback ELSE IF attempt + 2 = MaxRetries THEN "final" ELSE "again"
  BY DEF Llms!Reply
<1>2. UNCHANGED <<config, provider, llmOp>>
  BY DEF Llms!Reply
<1>3. result'.valid \in BOOLEAN /\ (~llmOp.validated => result'.valid)
      /\ (llmOp.validated => result' = Llms!validate(llmOp, content))
  BY <1>0, <1>1, LlmValid DEF Llms!Valid
<1>4. /\ attempt' = attempt + 1 /\ reply' = content
      /\ llmStage' = IF result'.valid \/ attempt + 1 = MaxRetries THEN "done" ELSE "asking"
      /\ llmStage' = "asking" => feedback' = IF attempt + 2 = MaxRetries THEN "final" ELSE "again"
  BY <1>1
<1>5. llmOp.validated => attempt < MaxRetries
  BY <1>0 DEF Llms!Inv, Llms!Asking
<1>6. Llms!TypeOK'
  BY <1>0, <1>2, <1>4 DEF Llms!Inv, Llms!TypeOK
<1>7. Llms!BeforeWiring'
  BY <1>4 DEF Llms!BeforeWiring
<1>8. Llms!Asking'
  BY <1>0, <1>2, <1>3, <1>4, <1>5 DEF Llms!Asking
<1>9. Llms!DecisionIsNamed'
  <2>1. ASSUME llmOp.validated, result'.valid, llmOp.kind = "decide", llmOp.options # <<>>
        PROVE  /\ result'.value \in 1..Len(llmOp.options) /\ result'.value \in Llms!NamedBy(content.says)
               /\ result'.value \in {content.says.exact, content.says.number, content.says.ordinal}
                    \/ content.says.mentions = {result'.value}
    <3>1. result' = Llms!validate_decide(content, llmOp.options)
      BY <1>3, <2>1 DEF Llms!validate
    <3> QED
      BY <2>1, <3>1, LlmDecides
  <2>2. llmOp.validated /\ result'.valid /\ llmOp.kind = "reason" => content.kind = "text"
    BY <1>3, LlmValid
  <2>3. llmOp.validated => attempt' <= MaxRetries
    BY <1>0, <1>4, <1>5
  <2>4. llmStage' = "done" /\ ~result'.valid => attempt' = MaxRetries
    BY <1>4
  <2>5. llmStage' = "asking" => (feedback' = "final" <=> attempt' > 0 /\ attempt' + 1 = MaxRetries)
    BY <1>0, <1>4
  <2>6. provider # Llms!Offline => provider.key = Llms!KeyOf(provider.name)
    BY DEF Llms!Inv, Llms!DecisionIsNamed
  <2> QED
    BY <1>2, <1>4, <2>1, <2>2, <2>3, <2>4, <2>5, <2>6 DEF Llms!DecisionIsNamed
<1> QED
  BY <1>6, <1>7, <1>8, <1>9 DEF Llms!Inv

LEMMA LlmWires ==
    ASSUME Llms!Inv, Llms!Wire
    PROVE  Llms!Inv'
<1>1. /\ llmStage = "wiring" /\ llmStage' = "idle" /\ provider' = Llms!provider_from_config(config)
      /\ UNCHANGED <<llmOp, attempt, feedback, reply, result>>
      /\ config \in [environ: Llms!Sources, dotenv: Llms!Sources] /\ ~llmOp.validated
  BY DEF Llms!Wire, Llms!Inv, Llms!BeforeWiring
<1>2. provider' # Llms!Offline => provider'.key = Llms!KeyOf(provider'.name)
  <2>1. PICK c \in [environ: Llms!Sources, dotenv: Llms!Sources] : c = config
    BY <1>1
  <2> QED
    BY <1>1, <2>1, LlmKey
<1>3. Llms!TypeOK' /\ Llms!BeforeWiring' /\ Llms!Asking'
  BY <1>1 DEF Llms!Inv, Llms!TypeOK, Llms!BeforeWiring, Llms!Asking
<1>4. Llms!DecisionIsNamed'
  BY <1>1, <1>2 DEF Llms!DecisionIsNamed
<1> QED
  BY <1>3, <1>4 DEF Llms!Inv

LEMMA LlmGoesOn ==
    ASSUME Llms!Inv, NEW a \in Llms!Answers, Llms!Step(a)
    PROVE  Llms!Inv'
<1>1. /\ llmStage' = "done" /\ attempt' = 1 /\ UNCHANGED <<config, provider>>
      /\ llmOp' = Llms!Operation(Llms!parse_step(a).kind, <<>>, FALSE)
  BY DEF Llms!Step
<1>2. Llms!parse_step(a).kind \in {"tool", "final"}
  BY DEF Llms!parse_step
<1>3. llmOp'.kind \in {"tool", "final"} /\ llmOp'.validated = FALSE
      /\ llmOp' = Llms!Operation(llmOp'.kind, llmOp'.options, llmOp'.validated)
  BY <1>1, <1>2 DEF Llms!Operation
<1>4. Llms!TypeOK' /\ Llms!BeforeWiring' /\ Llms!Asking'
  BY <1>1, <1>3 DEF Llms!TypeOK, Llms!BeforeWiring, Llms!Asking
<1>5. Llms!DecisionIsNamed'
  BY <1>1, <1>3 DEF Llms!Inv, Llms!DecisionIsNamed
<1> QED
  BY <1>4, <1>5 DEF Llms!Inv

LEMMA LlmSteps == Llms!Inv /\ [Llms!Next]_llm => Llms!Inv'
<1> SUFFICES ASSUME Llms!Inv, [Llms!Next]_llm PROVE Llms!Inv'
  OBVIOUS
<1>1. CASE UNCHANGED llm
  BY <1>1 DEF llm, Llms!Inv, Llms!TypeOK, Llms!BeforeWiring, Llms!Asking, Llms!DecisionIsNamed
<1> QED
  BY <1>1, LlmWires, LlmBegins, LlmReplies, LlmGoesOn DEF Llms!Next

(* Whoever asked a human is told the latest answer to its own question, or *)
(* that there was none in time (submit_and_wait, respond); and what the    *)
(* validator of a decision lets through is an option that the reply points *)
(* to, within the calls it may make (call_validated, validate_decide).     *)
THEOREM AnswersAsked == ServicesSpec => AnswersAreTheirs
<1>1. ServicesInit => Humans!Inv /\ Llms!Inv
  BY HumanStarts, LlmStarts DEF ServicesInit
<1>2. Humans!Inv /\ [ServicesNext]_servicesVars => Humans!Inv'
  <2>1. [ServicesNext]_servicesVars => [Humans!Next]_humans
    BY DEF ServicesNext, servicesVars
  <2> QED
    BY <2>1, HumanSteps
<1>3. Llms!Inv /\ [ServicesNext]_servicesVars => Llms!Inv'
  <2>1. [ServicesNext]_servicesVars => [Llms!Next]_llm
    BY DEF ServicesNext, servicesVars
  <2> QED
    BY <2>1, LlmSteps
<1>4. Humans!Inv /\ Humans!Inv' /\ [ServicesNext]_servicesVars
         => [which = "human" => Humans!AnswerStep]_servicesVars
  <2>1. ServicesNext => [Humans!Next]_humans
    BY DEF ServicesNext, servicesVars
  <2> QED
    BY <2>1, HumanAnswers
<1>5. Llms!Inv => (which = "llm" => Llms!DecisionIsNamed)
  BY DEF Llms!Inv
<1> QED
  BY <1>1, <1>2, <1>3, <1>4, <1>5, PTL DEF ServicesSpec, AnswersAreTheirs
=============================================================================
