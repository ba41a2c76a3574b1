-------------------------- MODULE InterpreterProofs -------------------------
(***************************************************************************)
(* Theorems about Interpreter, for every value of its constants.           *)
(***************************************************************************)
EXTENDS Interpreter, FiniteSetTheorems, SequenceTheorems, TLAPS

-----------------------------------------------------------------------------
(* A sequence without its last element.                                    *)

LEMMA SubSeqFacts ==
    ASSUME NEW S, NEW s \in Seq(S), NEW n \in Nat, n <= Len(s)
    PROVE  /\ SubSeq(s, 1, n) \in Seq(S)
           /\ Len(SubSeq(s, 1, n)) = n
           /\ \A i \in 1..n : SubSeq(s, 1, n)[i] = s[i]
<1>1. SubSeq(s, 1, n) \in Seq(S)
  OBVIOUS
<1>2. Len(SubSeq(s, 1, n)) = n
  OBVIOUS
<1>3. \A i \in 1..n : SubSeq(s, 1, n)[i] = s[i]
  OBVIOUS
<1> QED
  BY <1>1, <1>2, <1>3

LEMMA FrontFacts ==
    ASSUME NEW S, NEW s \in Seq(S), s # <<>>
    PROVE  /\ Len(s) \in Nat \ {0}
           /\ Last(s) \in S /\ Last(s) = s[Len(s)]
           /\ Front(s) \in Seq(S) /\ Len(Front(s)) = Len(s) - 1
           /\ \A i \in 1..(Len(s) - 1) : Front(s)[i] = s[i]
<1>1. Len(s) \in Nat \ {0}
  BY EmptySeq
<1>2. PICK n \in Nat : n = Len(s) - 1
  BY <1>1
<1>3. Front(s) = SubSeq(s, 1, n)
  BY <1>2 DEF Front
<1>4. /\ SubSeq(s, 1, n) \in Seq(S)
      /\ Len(SubSeq(s, 1, n)) = n
      /\ \A i \in 1..n : SubSeq(s, 1, n)[i] = s[i]
  BY <1>1, <1>2, SubSeqFacts
<1>5. Last(s) = s[Len(s)] /\ Last(s) \in S
  BY <1>1 DEF Last
<1> QED
  BY <1>1, <1>2, <1>3, <1>4, <1>5

LEMMA AppendFacts ==
    ASSUME NEW S, NEW s \in Seq(S), NEW e \in S
    PROVE  /\ Append(s, e) \in Seq(S) /\ Len(Append(s, e)) = Len(s) + 1
           /\ \A i \in 1..Len(s) : Append(s, e)[i] = s[i]
           /\ Append(s, e)[Len(s) + 1] = e
  OBVIOUS

-----------------------------------------------------------------------------
(* Open constructs of some kinds, when one is opened or closed.            *)

LEMMA AtIsFinite ==
    ASSUME NEW fs \in Seq(Frame), NEW K
    PROVE  /\ At(fs, K) \subseteq 1..Len(fs)
           /\ IsFiniteSet(At(fs, K))
           /\ Cardinality(At(fs, K)) \in Nat
<1>1. At(fs, K) \subseteq 1..Len(fs)
  BY DEF At
<1>2. IsFiniteSet(1..Len(fs))
  BY FS_Interval
<1>3. IsFiniteSet(At(fs, K))
  BY <1>1, <1>2, FS_Subset
<1> QED
  BY <1>1, <1>3, FS_CardinalityType

LEMMA AtEmpty == \A K : At(<<>>, K) = {} /\ Cardinality(At(<<>>, K)) = 0
  BY FS_EmptySet DEF At

LEMMA AtPush ==
    ASSUME NEW fs \in Seq(Frame), NEW f \in Frame, NEW K
    PROVE  /\ f.kind \in K => /\ At(Append(fs, f), K) = At(fs, K) \cup {Len(fs) + 1}
                              /\ Cardinality(At(Append(fs, f), K)) = Cardinality(At(fs, K)) + 1
           /\ f.kind \notin K => At(Append(fs, f), K) = At(fs, K)
<1>1. /\ Len(Append(fs, f)) = Len(fs) + 1
      /\ \A i \in 1..Len(fs) : Append(fs, f)[i] = fs[i]
      /\ Append(fs, f)[Len(fs) + 1] = f
  OBVIOUS
<1>2. f.kind \in K => At(Append(fs, f), K) = At(fs, K) \cup {Len(fs) + 1}
  BY <1>1 DEF At
<1>3. f.kind \notin K => At(Append(fs, f), K) = At(fs, K)
  BY <1>1 DEF At
<1>4. Len(fs) + 1 \notin At(fs, K)
  BY AtIsFinite
<1>5. Cardinality(At(fs, K) \cup {Len(fs) + 1}) = Cardinality(At(fs, K)) + 1
  BY <1>4, AtIsFinite, FS_AddElement
<1> QED
  BY <1>2, <1>3, <1>5

LEMMA AtFront ==
    ASSUME NEW fs \in Seq(Frame), fs # <<>>, NEW K
    PROVE  /\ Front(fs) \in Seq(Frame) /\ Len(Front(fs)) = Len(fs) - 1
           /\ \A i \in 1..(Len(fs) - 1) : Front(fs)[i] = fs[i]
           /\ Last(fs) \in Frame /\ Len(fs) \in Nat \ {0}
           /\ At(Front(fs), K) = At(fs, K) \ {Len(fs)}
           /\ Last(fs).kind \in K => /\ Len(fs) \in At(fs, K)
                                     /\ Cardinality(At(Front(fs), K)) = Cardinality(At(fs, K)) - 1
           /\ Last(fs).kind \notin K => At(Front(fs), K) = At(fs, K)
<1>1. Len(fs) \in Nat \ {0}
  BY FrontFacts
<1>2. /\ Front(fs) \in Seq(Frame) /\ Len(Front(fs)) = Len(fs) - 1
      /\ \A i \in 1..(Len(fs) - 1) : Front(fs)[i] = fs[i]
  BY FrontFacts
<1>3. Last(fs) = fs[Len(fs)] /\ Last(fs) \in Frame
  BY FrontFacts
<1>4. At(Front(fs), K) = At(fs, K) \ {Len(fs)}
  BY <1>1, <1>2 DEF At
<1>5. Last(fs).kind \in K <=> Len(fs) \in At(fs, K)
  BY <1>1, <1>3 DEF At
<1>6. Len(fs) \in At(fs, K) =>
        Cardinality(At(fs, K) \ {Len(fs)}) = Cardinality(At(fs, K)) - 1
  BY AtIsFinite, FS_RemoveElement
<1> QED
  BY <1>1, <1>2, <1>3, <1>4, <1>5, <1>6
-----------------------------------------------------------------------------
(* The inductive invariant, and what opening and closing do to it.         *)

Inv == TypeOK /\ Balanced /\ ModulesRunOnce

LEMMA OpenFacts ==
    ASSUME TypeOK, NEW kind \in Blocks \cup Calls, NEW m \in Modules \cup {NoModule},
           NEW d \in SUBSET Cap, Open(kind, m, d)
    PROVE  /\ frames' \in Seq(Frame) /\ Len(frames') = Len(frames) + 1
           /\ Len(frames) \in Nat /\ Len(frames') <= MaxFrames
           /\ \A i \in 1..Len(frames) : frames'[i] = frames[i]
           /\ frames'[Len(frames) + 1] = [kind |-> kind, mod |-> m, decl |-> d]
           /\ \A K : kind \in K =>
                  /\ Positions(K)' = Positions(K) \cup {Len(frames) + 1}
                  /\ Cardinality(Positions(K)') = Cardinality(Positions(K)) + 1
           /\ \A K : kind \notin K => Positions(K)' = Positions(K)
           /\ \A K : Positions(K) \subseteq 1..Len(frames)
<1> DEFINE f == [kind |-> kind, mod |-> m, decl |-> d]
<1>1. frames \in Seq(Frame) /\ frames' = Append(frames, f) /\ f \in Frame /\ f.kind = kind
  BY DEF Open, TypeOK, Frame
<1>2. Len(frames) + 1 <= MaxFrames /\ MaxFrames \in Nat
  BY <1>1, InterpreterAssumption DEF Open, Room
<1> HIDE DEF f
<1>3. /\ frames' \in Seq(Frame) /\ Len(frames') = Len(frames) + 1 /\ Len(frames) \in Nat
      /\ \A i \in 1..Len(frames) : frames'[i] = frames[i]
      /\ frames'[Len(frames) + 1] = f
  BY <1>1, AppendFacts
<1>4. ASSUME NEW K PROVE
        /\ kind \in K => /\ Positions(K)' = Positions(K) \cup {Len(frames) + 1}
                         /\ Cardinality(Positions(K)') = Cardinality(Positions(K)) + 1
        /\ kind \notin K => Positions(K)' = Positions(K)
        /\ Positions(K) \subseteq 1..Len(frames)
  BY <1>1, AtPush, AtIsFinite DEF Positions
<1> QED
  BY <1>2, <1>3, <1>4 DEF f

LEMMA CloseFacts ==
    ASSUME TypeOK, frames # <<>>, frames' = Front(frames)
    PROVE  /\ frames' \in Seq(Frame) /\ Len(frames') = Len(frames) - 1
           /\ Len(frames) \in Nat \ {0} /\ Len(frames') <= MaxFrames
           /\ \A i \in 1..(Len(frames) - 1) : frames'[i] = frames[i]
           /\ Last(frames) \in Frame /\ Last(frames) = frames[Len(frames)]
           /\ \A K : Positions(K)' = Positions(K) \ {Len(frames)}
           /\ \A K : Last(frames).kind \in K =>
                  /\ Len(frames) \in Positions(K)
                  /\ Cardinality(Positions(K)') = Cardinality(Positions(K)) - 1
           /\ \A K : Last(frames).kind \notin K => Positions(K)' = Positions(K)
           /\ \A K : Positions(K) \subseteq 1..Len(frames)
<1>1. frames \in Seq(Frame) /\ Len(frames) <= MaxFrames /\ MaxFrames \in Nat
  BY InterpreterAssumption DEF TypeOK
<1>2. /\ frames' \in Seq(Frame) /\ Len(frames') = Len(frames) - 1
      /\ Len(frames) \in Nat \ {0}
      /\ \A i \in 1..(Len(frames) - 1) : frames'[i] = frames[i]
      /\ Last(frames) \in Frame /\ Last(frames) = frames[Len(frames)]
  BY <1>1, FrontFacts
<1>3. ASSUME NEW K PROVE
        /\ Positions(K)' = Positions(K) \ {Len(frames)}
        /\ Last(frames).kind \in K =>
              /\ Len(frames) \in Positions(K)
              /\ Cardinality(Positions(K)') = Cardinality(Positions(K)) - 1
        /\ Last(frames).kind \notin K => Positions(K)' = Positions(K)
        /\ Positions(K) \subseteq 1..Len(frames)
  BY <1>1, AtFront, AtIsFinite DEF Positions
<1> QED
  BY <1>1, <1>2, <1>3

LEMMA CountsAreNat ==
    ASSUME TypeOK
    PROVE  \A K : Cardinality(Positions(K)) \in Nat
  BY AtIsFinite DEF TypeOK, Positions

(* Steps that open and close nothing.                                      *)
LEMMA SameConstructs ==
    ASSUME Balanced, ModulesRunOnce,
           UNCHANGED <<frames, depth, sandboxDepth, toolDepth, saved, savedTool,
                       loading, cached, collectors>>
    PROVE  Balanced' /\ ModulesRunOnce'
<1>1. \A K : Positions(K)' = Positions(K)
  BY DEF Positions
<1> QED
  BY <1>1 DEF Balanced, ModulesRunOnce

(* What Balanced says of modules.                                          *)
Imports == /\ collectors = Cardinality(Positions({"module"}))
           /\ loading = {frames[i].mod : i \in Positions({"module"})}

LEMMA OpenOther ==
    ASSUME Inv, NEW kind \in (Blocks \cup Calls) \ {"module"}, NEW d \in SUBSET Cap,
           Open(kind, NoModule, d), UNCHANGED importing
    PROVE  Imports' /\ ModulesRunOnce'
<1>1. /\ Positions({"module"})' = Positions({"module"})
      /\ \A i \in Positions({"module"}) : frames'[i] = frames[i]
  BY OpenFacts DEF Inv
<1>2. Imports /\ ModulesRunOnce /\ UNCHANGED <<loading, cached, collectors>>
  BY DEF Inv, Balanced, Imports, importing
<1> QED
  BY <1>1, <1>2 DEF Imports, ModulesRunOnce

LEMMA CloseOther ==
    ASSUME Inv, frames # <<>>, Last(frames).kind # "module", frames' = Front(frames),
           UNCHANGED importing
    PROVE  Imports' /\ ModulesRunOnce'
<1>1. /\ Positions({"module"})' = Positions({"module"})
      /\ Positions({"module"})' = Positions({"module"}) \ {Len(frames)}
      /\ Positions({"module"}) \subseteq 1..Len(frames)
      /\ \A i \in 1..(Len(frames) - 1) : frames'[i] = frames[i]
      /\ Len(frames) \in Nat
  BY CloseFacts DEF Inv
<1>2. \A i \in Positions({"module"}) : frames'[i] = frames[i]
  BY <1>1
<1>3. Imports /\ ModulesRunOnce /\ UNCHANGED <<loading, cached, collectors>>
  BY DEF Inv, Balanced, Imports, importing
<1> QED
  BY <1>1, <1>2, <1>3 DEF Imports, ModulesRunOnce

LEMMA SignalledStep ==
    ASSUME Inv, NEW s \in Signals, Signalled(s)
    PROVE  Inv'
<1>1. TypeOK'
  BY DEF Inv, Signalled, TypeOK, host, scoping, importing
<1> QED
  BY <1>1, SameConstructs DEF Inv, Signalled, scoping, importing

LEMMA StatementStep ==
    ASSUME Inv, Statement
    PROVE  Inv'
<1>1. ASSUME NEW c \in Requirable, Require(c) PROVE Inv'
  <2>1. granted' \subseteq Cap
    BY <1>1, InterpreterAssumption DEF Inv, TypeOK, Require, Grant
  <2>2. TypeOK'
    BY <1>1, <2>1 DEF Inv, TypeOK, Require, host, importing
  <2> QED
    BY <1>1, <2>2, SameConstructs DEF Inv, Require, importing
<1>2. ASSUME Emit PROVE Inv'
  <2>1. TypeOK'
    BY <1>2 DEF Inv, TypeOK, Emit, host, scoping, importing
  <2> QED
    BY <1>2, <2>1, SameConstructs DEF Inv, Emit, scoping, importing
<1>3. ASSUME Raise \/ Stop \/ Give \/ EndOfBlock PROVE Inv'
  BY <1>3, SignalledStep DEF Raise, Stop, Give, EndOfBlock, Signals
<1> QED
  BY <1>1, <1>2, <1>3 DEF Statement

LEMMA EnterStep ==
    ASSUME Inv, Enter
    PROVE  Inv'
<1>1. ASSUME NEW kind \in {"loop", "try"}, EnterBlock(kind) PROVE Inv'
  <2>1. /\ kind \in (Blocks \cup Calls) \ {"module"} /\ {} \in SUBSET Cap
        /\ NoModule \in Modules \cup {NoModule}
        /\ Open(kind, NoModule, {}) /\ UNCHANGED <<depth, scoping, importing>>
    BY <1>1 DEF EnterBlock, Blocks
  <2>2. Imports' /\ ModulesRunOnce'
    BY <2>1, OpenOther
  <2>3. TypeOK'
    BY <2>1, OpenFacts DEF Inv, TypeOK, Open, host, scoping, importing
  <2>4. \A K \in {Calls, {"sandbox"}, {"tool"}} : Positions(K)' = Positions(K)
    BY <1>1, <2>1, OpenFacts DEF Inv, Calls
  <2> QED
    BY <2>1, <2>2, <2>3, <2>4 DEF Inv, Balanced, Imports, scoping
<1>2. ASSUME NEW kind \in {"task", "builtin", "assert"}, Call(kind) PROVE Inv'
  <2>1. /\ kind \in (Blocks \cup Calls) \ {"module"} /\ {} \in SUBSET Cap
        /\ NoModule \in Modules \cup {NoModule} /\ kind \in Calls
        /\ Open(kind, NoModule, {}) /\ UNCHANGED <<scoping, importing>>
        /\ depth < MaxRecursion /\ depth' = depth + 1
    BY <1>2 DEF Call, Blocks, Calls
  <2>2. Imports' /\ ModulesRunOnce'
    BY <2>1, OpenOther
  <2>3. depth' \in 0..MaxRecursion
    BY <2>1, InterpreterAssumption DEF Inv, TypeOK
  <2>4. TypeOK'
    BY <2>1, <2>3, OpenFacts DEF Inv, TypeOK, Open, host, scoping, importing
  <2>5. /\ \A K \in {{"sandbox"}, {"tool"}} : Positions(K)' = Positions(K)
        /\ Cardinality(Positions(Calls)') = Cardinality(Positions(Calls)) + 1
    BY <1>2, <2>1, OpenFacts DEF Inv
  <2> QED
    BY <2>1, <2>2, <2>4, <2>5 DEF Inv, Balanced, Imports, scoping
<1>3. ASSUME NEW d \in Declarations, CallTool(d) PROVE Inv'
  <2>1. /\ "tool" \in (Blocks \cup Calls) \ {"module"} /\ d \in SUBSET Cap
        /\ NoModule \in Modules \cup {NoModule} /\ "tool" \in Calls
        /\ Open("tool", NoModule, d) /\ UNCHANGED <<sandboxDepth, saved, importing>>
        /\ depth < MaxRecursion /\ depth' = depth + 1 /\ toolDepth' = toolDepth + 1
        /\ savedTool' = Append(savedTool, granted) /\ granted' = ToolGrants(d)
    BY <1>3, InterpreterAssumption DEF CallTool, Calls
  <2>2. Imports' /\ ModulesRunOnce'
    BY <2>1, OpenOther
  <2>3. /\ depth' \in 0..MaxRecursion /\ toolDepth' \in Nat
        /\ granted' \subseteq Cap
        /\ savedTool' \in Seq(SUBSET Cap) /\ Len(savedTool') = Len(savedTool) + 1
    BY <2>1, InterpreterAssumption DEF Inv, TypeOK, ToolGrants
  <2>4. TypeOK'
    BY <2>1, <2>3, OpenFacts DEF Inv, TypeOK, Open, host, importing
  <2>5. /\ Positions({"sandbox"})' = Positions({"sandbox"})
        /\ \A K \in {Calls, {"tool"}} :
              Cardinality(Positions(K)') = Cardinality(Positions(K)) + 1
    BY <2>1, OpenFacts DEF Inv
  <2> QED
    BY <2>1, <2>2, <2>3, <2>4, <2>5 DEF Inv, Balanced, Imports
<1>4. ASSUME NEW m \in Modules, Import(m) PROVE Inv'
  <2>1. /\ "module" \in Blocks \cup Calls /\ {} \in SUBSET Cap /\ m \in Modules \cup {NoModule}
        /\ Open("module", m, {}) /\ UNCHANGED <<depth, scoping, cached>>
        /\ m \notin loading \cup cached
        /\ loading' = loading \cup {m} /\ collectors' = collectors + 1
    BY <1>4 DEF Import, Blocks
  <2>a. collectors' \in Nat /\ loading' \subseteq Modules /\ TypeOK
    BY <2>1 DEF Inv, TypeOK
  <2>b. frames' \in Seq(Frame) /\ Len(frames') <= MaxFrames
    BY <2>1, <2>a, OpenFacts
  <2>2. TypeOK'
    BY <2>1, <2>a, <2>b DEF TypeOK, Open, host, scoping
  <2> DEFINE P == Positions({"module"})
             n == Len(frames) + 1
  <2>c. frames'[n] = [kind |-> "module", mod |-> m, decl |-> {}]
    BY <2>1, <2>a, OpenFacts
  <2>d. /\ Positions({"module"})' = Positions({"module"}) \cup {Len(frames) + 1}
        /\ Cardinality(Positions({"module"})') = Cardinality(Positions({"module"})) + 1
    BY <2>1, <2>a, OpenFacts
  <2>e. /\ Positions({"module"}) \subseteq 1..Len(frames) /\ Len(frames) \in Nat
        /\ \A i \in 1..Len(frames) : frames'[i] = frames[i]
    BY <2>1, <2>a, OpenFacts
  <2>3. /\ P' = P \cup {n} /\ Cardinality(P') = Cardinality(P) + 1
        /\ P \subseteq 1..Len(frames) /\ Len(frames) \in Nat
        /\ \A i \in P : frames'[i] = frames[i]
        /\ frames'[n].mod = m
    BY <2>c, <2>d, <2>e
  <2>4. Imports /\ ModulesRunOnce
    BY DEF Inv, Balanced, Imports
  <2> HIDE DEF n
  <2>5. Imports'
    BY <2>1, <2>3, <2>4 DEF Imports
  <2>6. \A i \in P : frames[i].mod \in loading
    BY <2>4 DEF Imports
  <2>7. ModulesRunOnce'
    BY <2>1, <2>3, <2>4, <2>6 DEF ModulesRunOnce
  <2>8. \A K \in {Calls, {"sandbox"}, {"tool"}} : Positions(K)' = Positions(K)
    BY <2>1, OpenFacts DEF Inv, Calls
  <2> QED
    BY <2>1, <2>2, <2>5, <2>7, <2>8 DEF Inv, Balanced, Imports, scoping
<1>5. ASSUME EnterSandbox PROVE Inv'
  <2>1. /\ "sandbox" \in (Blocks \cup Calls) \ {"module"} /\ {} \in SUBSET Cap
        /\ NoModule \in Modules \cup {NoModule} /\ "sandbox" \notin Calls
        /\ Open("sandbox", NoModule, {})
        /\ UNCHANGED <<depth, toolDepth, savedTool, importing>>
        /\ sandboxDepth' = sandboxDepth + 1
        /\ saved' = Append(saved, granted) /\ granted' = {}
    BY <1>5 DEF EnterSandbox, Blocks, Calls
  <2>2. Imports' /\ ModulesRunOnce'
    BY <2>1, OpenOther
  <2>3. /\ sandboxDepth' \in Nat /\ granted' \subseteq Cap
        /\ saved' \in Seq(SUBSET Cap) /\ Len(saved') = Len(saved) + 1
    BY <2>1 DEF Inv, TypeOK
  <2>4. TypeOK'
    BY <2>1, <2>3, OpenFacts DEF Inv, TypeOK, Open, host, importing
  <2>5. /\ \A K \in {Calls, {"tool"}} : Positions(K)' = Positions(K)
        /\ Cardinality(Positions({"sandbox"})') = Cardinality(Positions({"sandbox"})) + 1
    BY <2>1, OpenFacts DEF Inv
  <2> QED
    BY <2>1, <2>2, <2>3, <2>4, <2>5 DEF Inv, Balanced, Imports
<1>6. ASSUME TooDeep \/ CircularImport PROVE Inv'
  BY <1>6, SignalledStep DEF TooDeep, CircularImport, Signals
<1> QED
  BY <1>1, <1>2, <1>3, <1>4, <1>5, <1>6 DEF Enter

LEMMA HandedIsSignal ==
    ASSUME TypeOK, signal # "none"
    PROVE  /\ Handed \in Signals
           /\ \A s \in Signals : Close(s) => signal' \in Signals
<1>1. Handed \in Signals
  BY DEF TypeOK, Handed, Outcome, Signals
<1>2. \A s \in Signals : Close(s) => signal' \in Signals
  BY DEF Close, Signals
<1> QED
  BY <1>1, <1>2

LEMMA LeaveStep ==
    ASSUME Inv, Leave
    PROVE  Inv'
<1>a. TypeOK /\ Balanced /\ ModulesRunOnce
  BY DEF Inv
<1>b. ASSUME NEW kinds, NEW s \in Signals, Ended(kinds), Close(s)
      PROVE  /\ frames # <<>> /\ frames' = Front(frames) /\ Last(frames).kind \in kinds
             /\ signal' \in Signals /\ UNCHANGED <<host, phase, dirty>>
             /\ frames' \in Seq(Frame) /\ Len(frames') <= MaxFrames
  <2>1. frames # <<>> /\ frames' = Front(frames) /\ Last(frames).kind \in kinds
    BY <1>b DEF Ended, Inside, Close
  <2>2. signal' \in Signals
    BY <1>a, <1>b, HandedIsSignal DEF Ended
  <2> QED
    BY <1>a, <1>b, <2>1, <2>2, CloseFacts DEF Close
<1>c. signal \in Signals
  BY <1>a DEF TypeOK
<1>1. ASSUME NextTurn PROVE Inv'
  BY <1>1, SignalledStep DEF NextTurn, Signals
<1>2. ASSUME LeaveBlock \/ TooManyTurns PROVE Inv'
  <2>1. PICK s \in Signals : /\ Ended({"loop", "try", "recover"}) /\ Close(s)
                             /\ UNCHANGED <<depth, scoping, importing>>
    <3>1. CASE LeaveBlock
      BY <1>a, <3>1, HandedIsSignal DEF LeaveBlock, Ended
    <3>2. CASE TooManyTurns
      BY <3>2 DEF TooManyTurns, Ended, Inside, Signals
    <3> QED
      BY <1>2, <3>1, <3>2
  <2>2. /\ frames # <<>> /\ frames' = Front(frames)
        /\ Last(frames).kind \in {"loop", "try", "recover"}
    BY <1>b, <2>1
  <2>3. Imports' /\ ModulesRunOnce'
    BY <2>1, <2>2, CloseOther
  <2>4. TypeOK'
    BY <1>a, <1>b, <2>1 DEF TypeOK, host, scoping, importing
  <2>5. \A K \in {Calls, {"sandbox"}, {"tool"}} : Last(frames).kind \notin K
    BY <2>2 DEF Calls
  <2>6. \A K \in {Calls, {"sandbox"}, {"tool"}} : Positions(K)' = Positions(K)
    BY <1>a, <2>2, <2>5, CloseFacts
  <2> QED
    BY <1>a, <2>1, <2>3, <2>4, <2>6 DEF Inv, Balanced, Imports, scoping
<1>3. ASSUME Recover PROVE Inv'
  <2> DEFINE f == [Last(frames) EXCEPT !.kind = "recover"]
  <2>1. /\ frames # <<>> /\ Last(frames).kind = "try" /\ signal' = "none"
        /\ frames' = Append(Front(frames), f)
        /\ UNCHANGED <<host, phase, depth, scoping, importing, dirty>>
    BY <1>3 DEF Recover, Ended, Inside
  <2>2. /\ frames \in Seq(Frame) /\ Front(frames) \in Seq(Frame) /\ Last(frames) \in Frame
        /\ Len(frames) \in Nat \ {0} /\ Len(Front(frames)) = Len(frames) - 1
        /\ \A i \in 1..(Len(frames) - 1) : Front(frames)[i] = frames[i]
    BY <1>a, <2>1, FrontFacts DEF TypeOK
  <2>3. f \in Frame /\ f.kind = "recover"
    BY <2>2 DEF Frame, Blocks
  <2> HIDE DEF f
  <2>4. /\ frames' \in Seq(Frame) /\ Len(frames') = Len(frames)
        /\ \A i \in 1..(Len(frames) - 1) : frames'[i] = frames[i]
    BY <2>1, <2>2, <2>3, AppendFacts
  <2>5. ASSUME NEW K \in {Calls, {"sandbox"}, {"tool"}, {"module"}}
        PROVE  Positions(K)' = Positions(K) /\ Positions(K) \subseteq 1..(Len(frames) - 1)
    <3>1. "try" \notin K /\ "recover" \notin K
      BY DEF Calls
    <3>2. At(Front(frames), K) = At(frames, K)
      BY <2>1, <2>2, <3>1, AtFront
    <3>3. At(frames', K) = At(Front(frames), K)
      BY <2>1, <2>2, <2>3, <3>1, AtPush
    <3>4. At(Front(frames), K) \subseteq 1..(Len(frames) - 1)
      BY <2>2, AtIsFinite
    <3> QED
      BY <3>2, <3>3, <3>4 DEF Positions
  <2>6. TypeOK'
    BY <1>a, <2>1, <2>4 DEF TypeOK, host, scoping, importing, Signals
  <2>7. \A i \in Positions({"module"}) : frames'[i] = frames[i]
    BY <2>4, <2>5
  <2>8. Balanced'
    BY <1>a, <2>1, <2>5, <2>7 DEF Balanced, scoping, importing
  <2>9. ModulesRunOnce'
    BY <1>a, <2>1, <2>5, <2>7 DEF ModulesRunOnce, importing
  <2> QED
    BY <2>6, <2>8, <2>9 DEF Inv
<1>4. ASSUME LeaveSandbox PROVE Inv'
  <2>1. /\ Ended({"sandbox"}) /\ Close(signal)
        /\ granted' = Last(saved) /\ saved' = Front(saved) /\ sandboxDepth' = sandboxDepth - 1
        /\ UNCHANGED <<depth, toolDepth, savedTool, importing>>
    BY <1>4 DEF LeaveSandbox
  <2>2. /\ frames # <<>> /\ frames' = Front(frames) /\ Last(frames).kind = "sandbox"
    BY <1>b, <1>c, <2>1
  <2>3. Imports' /\ ModulesRunOnce'
    BY <2>1, <2>2, CloseOther
  <2>4. /\ \A K \in {Calls, {"tool"}} : Positions(K)' = Positions(K)
        /\ Cardinality(Positions({"sandbox"})') = Cardinality(Positions({"sandbox"})) - 1
    BY <1>a, <2>2, CloseFacts DEF Calls
  <2>5. Len(saved) > 0 /\ saved \in Seq(SUBSET Cap)
    <3>1. Positions({"sandbox"})' = At(frames', {"sandbox"}) /\ frames' \in Seq(Frame)
      BY <1>a, <2>2, CloseFacts DEF Positions
    <3>2. Cardinality(Positions({"sandbox"})') \in Nat
      BY <3>1, AtIsFinite
    <3> QED
      BY <1>a, <2>4, <3>2, CountsAreNat DEF Balanced, TypeOK
  <2>6. /\ granted' \subseteq Cap /\ saved' \in Seq(SUBSET Cap)
        /\ Len(saved') = Len(saved) - 1 /\ sandboxDepth' \in Nat
    BY <1>a, <2>1, <2>5, FrontFacts, EmptySeq DEF Balanced
  <2>7. TypeOK'
    BY <1>a, <1>b, <1>c, <2>1, <2>6 DEF TypeOK, host, importing
  <2> QED
    BY <1>a, <2>1, <2>3, <2>4, <2>6, <2>7 DEF Inv, Balanced, Imports
<1>5. ASSUME LeaveCall PROVE Inv'
  <2>1. /\ Ended({"task", "builtin", "assert"}) /\ Close(Handed) /\ Handed \in Signals
        /\ depth' = depth - 1 /\ UNCHANGED <<scoping, importing>>
    BY <1>a, <1>5, HandedIsSignal DEF LeaveCall, Ended
  <2>2. /\ frames # <<>> /\ frames' = Front(frames)
        /\ Last(frames).kind \in {"task", "builtin", "assert"}
    BY <1>b, <2>1
  <2>3. Imports' /\ ModulesRunOnce'
    BY <2>1, <2>2, CloseOther
  <2>4. /\ \A K \in {{"sandbox"}, {"tool"}} : Positions(K)' = Positions(K)
        /\ Cardinality(Positions(Calls)') = Cardinality(Positions(Calls)) - 1
    BY <1>a, <2>2, CloseFacts DEF Calls
  <2>5. depth' \in 0..MaxRecursion
    <3>1. Positions(Calls)' = At(frames', Calls) /\ frames' \in Seq(Frame)
      BY <1>a, <2>2, CloseFacts DEF Positions
    <3>2. Cardinality(Positions(Calls)') \in Nat
      BY <3>1, AtIsFinite
    <3> QED
      BY <1>a, <2>1, <2>4, <3>2, CountsAreNat, InterpreterAssumption DEF Balanced, TypeOK
  <2>6. TypeOK'
    BY <1>a, <1>b, <2>1, <2>5 DEF TypeOK, host, scoping, importing
  <2> QED
    BY <1>a, <2>1, <2>3, <2>4, <2>6 DEF Inv, Balanced, Imports, scoping
<1>6. ASSUME LeaveTool PROVE Inv'
  <2>1. /\ Ended({"tool"}) /\ Close(signal)
        /\ depth' = depth - 1 /\ toolDepth' = toolDepth - 1
        /\ granted' = Last(savedTool) /\ savedTool' = Front(savedTool)
        /\ UNCHANGED <<sandboxDepth, saved, importing>>
    BY <1>6 DEF LeaveTool
  <2>2. /\ frames # <<>> /\ frames' = Front(frames) /\ Last(frames).kind = "tool"
    BY <1>b, <1>c, <2>1
  <2>3. Imports' /\ ModulesRunOnce'
    BY <2>1, <2>2, CloseOther
  <2>4. /\ Positions({"sandbox"})' = Positions({"sandbox"})
        /\ \A K \in {Calls, {"tool"}} :
              Cardinality(Positions(K)') = Cardinality(Positions(K)) - 1
    BY <1>a, <2>2, CloseFacts DEF Calls
  <2>5. /\ Len(savedTool) > 0 /\ savedTool \in Seq(SUBSET Cap)
        /\ depth' \in 0..MaxRecursion
    <3>1. /\ Positions({"tool"})' = At(frames', {"tool"}) /\ frames' \in Seq(Frame)
          /\ Positions(Calls)' = At(frames', Calls)
      BY <1>a, <2>2, CloseFacts DEF Positions
    <3>2. /\ Cardinality(Positions({"tool"})') \in Nat
          /\ Cardinality(Positions(Calls)') \in Nat
      BY <3>1, AtIsFinite
    <3> QED
      BY <1>a, <2>1, <2>4, <3>2, CountsAreNat, InterpreterAssumption DEF Balanced, TypeOK
  <2>6. /\ granted' \subseteq Cap /\ savedTool' \in Seq(SUBSET Cap)
        /\ Len(savedTool') = Len(savedTool) - 1 /\ toolDepth' \in Nat
    BY <1>a, <2>1, <2>5, FrontFacts, EmptySeq DEF Balanced
  <2>7. TypeOK'
    BY <1>a, <1>b, <1>c, <2>1, <2>5, <2>6 DEF TypeOK, host, importing
  <2> QED
    BY <1>a, <2>1, <2>3, <2>4, <2>6, <2>7 DEF Inv, Balanced, Imports
<1>7. ASSUME LeaveModule PROVE Inv'
  <2> DEFINE P == Positions({"module"})
             n == Len(frames)
             m == Last(frames).mod
  <2>1. /\ Ended({"module"}) /\ Close(signal)
        /\ collectors' = collectors - 1
        /\ loading' = loading \ {m}
        /\ cached' \subseteq cached \cup {m}
        /\ UNCHANGED <<depth, scoping>>
    BY <1>7 DEF LeaveModule
  <2>2. /\ frames # <<>> /\ frames' = Front(frames) /\ Last(frames).kind = "module"
    BY <1>b, <1>c, <2>1
  <2>3. /\ Positions({"module"})' = Positions({"module"}) \ {n}
        /\ Cardinality(Positions({"module"})') = Cardinality(Positions({"module"})) - 1
        /\ n \in Positions({"module"}) /\ m = frames[n].mod
        /\ Positions({"module"}) \subseteq 1..n /\ n \in Nat
        /\ \A i \in 1..(n - 1) : frames'[i] = frames[i]
    BY <1>a, <2>2, CloseFacts
  <2>4. \A K \in {Calls, {"sandbox"}, {"tool"}} : Positions(K)' = Positions(K)
    BY <1>a, <2>2, CloseFacts DEF Calls
  <2>5. \A i \in P \ {n} : frames'[i] = frames[i] /\ frames[i].mod # m
    BY <1>a, <2>3 DEF ModulesRunOnce
  <2>6. /\ collectors = Cardinality(P) /\ loading = {frames[i].mod : i \in P}
    BY <1>a DEF Balanced
  <2>7. m \in loading /\ m \in Modules
    BY <1>a, <2>3, <2>6 DEF TypeOK
  <2>8. Cardinality(Positions({"module"})') \in Nat
    <3>1. Positions({"module"})' = At(frames', {"module"}) /\ frames' \in Seq(Frame)
      BY <1>a, <2>2, CloseFacts DEF Positions
    <3> QED
      BY <3>1, AtIsFinite
  <2>9. collectors' \in Nat
    BY <2>1, <2>3, <2>6, <2>8
  <2>10. loading' \subseteq Modules /\ cached' \subseteq Modules
    BY <1>a, <2>1, <2>7 DEF TypeOK
  <2>11. TypeOK'
    BY <1>a, <1>b, <1>c, <2>1, <2>9, <2>10 DEF TypeOK, host, scoping
  <2>12. Imports'
    BY <2>1, <2>3, <2>5, <2>6 DEF Imports
  <2>13. ModulesRunOnce'
    BY <1>a, <2>1, <2>3, <2>5 DEF ModulesRunOnce
  <2> QED
    BY <1>a, <2>1, <2>4, <2>11, <2>12, <2>13 DEF Inv, Balanced, Imports, scoping
<1> QED
  BY <1>1, <1>2, <1>3, <1>4, <1>5, <1>6, <1>7 DEF Leave

(* No construct is open, and none of the counters is raised.               *)
Fresh == /\ frames = <<>> /\ depth = 0 /\ sandboxDepth = 0 /\ toolDepth = 0
         /\ saved = <<>> /\ savedTool = <<>> /\ loading = {} /\ collectors = 0

LEMMA FreshIsBalanced == Fresh => Balanced /\ ModulesRunOnce
<1>1. ASSUME Fresh PROVE \A K : Positions(K) = {} /\ Cardinality(Positions(K)) = 0
  BY <1>1, AtEmpty DEF Fresh, Positions
<1>2. ASSUME Fresh PROVE Balanced
  <2>1. Len(saved) = 0 /\ Len(savedTool) = 0
    BY <1>2 DEF Fresh
  <2>2. {frames[i].mod : i \in Positions({"module"})} = {}
    BY <1>1, <1>2
  <2> QED
    BY <1>1, <1>2, <2>1, <2>2 DEF Fresh, Balanced
<1>3. ASSUME Fresh PROVE ModulesRunOnce
  BY <1>1, <1>3 DEF ModulesRunOnce
<1> QED
  BY <1>2, <1>3

LEMMA BalancedIsFresh ==
    ASSUME TypeOK, Balanced, frames = <<>>
    PROVE  Fresh
<1>1. \A K : Positions(K) = {} /\ Cardinality(Positions(K)) = 0
  BY AtEmpty DEF Positions
<1>2. depth = 0 /\ sandboxDepth = 0 /\ toolDepth = 0 /\ collectors = 0 /\ loading = {}
  BY <1>1 DEF Balanced
<1>3. saved = <<>> /\ savedTool = <<>>
  BY <1>2, EmptySeq DEF Balanced, TypeOK
<1> QED
  BY <1>2, <1>3 DEF Fresh

LEMMA UnitStep ==
    ASSUME Inv, Unit
    PROVE  Inv'
<1>a. TypeOK /\ Balanced /\ ModulesRunOnce
  BY DEF Inv
<1>1. ASSUME NEW p \in {"setup", "idle", "unit", "over"}, Phase(p) PROVE Inv'
  <2>1. TypeOK'
    BY <1>a, <1>1 DEF TypeOK, Phase, host, scoping, importing, Signals
  <2> QED
    BY <1>a, <1>1, <2>1, SameConstructs DEF Inv, Phase, scoping, importing
<1>2. ASSUME EndOfProgram \/ EndOfSetup \/ StartTest \/ EndOfTest \/ EndOfTests PROVE Inv'
  BY <1>1, <1>2 DEF EndOfProgram, EndOfSetup, StartTest, EndOfTest, EndOfTests
<1>3. ASSUME NEW streams \in BOOLEAN, StartRequest(streams) PROVE Inv'
  <2>1. TypeOK'
    BY <1>a, <1>3 DEF TypeOK, StartRequest, host, scoping, importing
  <2> QED
    BY <1>a, <1>3, <2>1, SameConstructs DEF Inv, StartRequest, scoping, importing
<1>4. ASSUME EndOfRequest PROVE Inv'
  <2>1. Fresh
    BY <1>a, <1>4, BalancedIsFresh DEF EndOfRequest, AtEnd
  <2>2. TypeOK'
    <3>1. 0 \in 0..MaxRecursion
      BY InterpreterAssumption
    <3>2. /\ UNCHANGED <<host, frames, sandboxDepth, toolDepth, saved, savedTool, importing>>
          /\ phase' = "idle" /\ signal' = "none" /\ dirty' = FALSE /\ depth' = 0
          /\ granted' = base
      BY <1>4 DEF EndOfRequest
    <3> QED
      BY <1>a, <3>1, <3>2 DEF TypeOK, host, importing, Signals
  <2>3. Fresh'
    BY <1>4, <2>1 DEF Fresh, EndOfRequest, importing
  <2>4. Balanced' /\ ModulesRunOnce'
    <3>1. UNCHANGED <<frames, depth, sandboxDepth, toolDepth, saved, savedTool,
                      loading, cached, collectors>>
      BY <1>4, <2>1, <2>3 DEF Fresh, EndOfRequest, importing
    <3> QED
      BY <1>a, <3>1, SameConstructs
  <2> QED
    BY <2>2, <2>4 DEF Inv
<1>5. ASSUME Panic PROVE Inv'
  <2>1. TypeOK'
    <3>1. 0 \in 0..MaxRecursion /\ Len(<<>>) = 0 /\ 0 <= MaxFrames
      BY InterpreterAssumption
    <3>2. <<>> \in Seq(Frame) /\ <<>> \in Seq(SUBSET Cap)
      OBVIOUS
    <3>3. /\ phase' = "idle" /\ frames' = <<>> /\ signal' = "none" /\ dirty' = FALSE
          /\ depth' = 0 /\ granted' = base /\ sandboxDepth' = 0 /\ toolDepth' = 0
          /\ saved' = <<>> /\ savedTool' = <<>>
          /\ loading' = {} /\ cached' = {} /\ collectors' = 0
          /\ mode' = mode /\ ceiling' = ceiling /\ base' = base
      BY <1>5 DEF Panic, host
    <3>4. /\ mode' \in Modes /\ ceiling' \subseteq Cap /\ base' \subseteq Cap
          /\ granted' \subseteq Cap
      BY <1>a, <3>3 DEF TypeOK
    <3>5. /\ frames' \in Seq(Frame) /\ Len(frames') <= MaxFrames
          /\ saved' \in Seq(SUBSET Cap) /\ savedTool' \in Seq(SUBSET Cap)
          /\ depth' \in 0..MaxRecursion
      BY <3>1, <3>2, <3>3
    <3>6. /\ phase' \in {"setup", "idle", "unit", "over"} /\ signal' \in Signals
          /\ sandboxDepth' \in Nat /\ toolDepth' \in Nat /\ collectors' \in Nat
          /\ loading' \subseteq Modules /\ cached' \subseteq Modules /\ dirty' \in BOOLEAN
      BY <3>3 DEF Signals
    <3> QED
      BY <3>4, <3>5, <3>6 DEF TypeOK
  <2>2. Fresh'
    BY <1>5 DEF Panic, Fresh
  <2>3. Balanced' /\ ModulesRunOnce'
    BY <2>2, FreshIsBalanced, PTL
  <2> QED
    BY <2>1, <2>3 DEF Inv
<1> QED
  BY <1>2, <1>3, <1>4, <1>5 DEF Unit

LEMMA InvInit == Init => Inv
<1> SUFFICES ASSUME Init PROVE Inv
  OBVIOUS
<1>1. Fresh
  BY DEF Init, Fresh
<1>2. ceiling \subseteq Cap
  BY InterpreterAssumption DEF Init
<1>3. granted \subseteq Cap
  BY InterpreterAssumption DEF Init, Wired, GrantAll
<1>4. base \subseteq Cap
  BY <1>3 DEF Init
<1>5. mode \in Modes /\ phase \in {"setup", "idle", "unit", "over"}
  BY DEF Init, Modes
<1>6. frames \in Seq(Frame) /\ Len(frames) <= MaxFrames /\ signal \in Signals
  <2>1. frames = <<>> /\ signal = "none"
    BY DEF Init
  <2>2. <<>> \in Seq(Frame) /\ Len(<<>>) = 0 /\ 0 <= MaxFrames
    BY InterpreterAssumption
  <2> QED
    BY <2>1, <2>2 DEF Signals
<1>7. depth \in 0..MaxRecursion /\ sandboxDepth \in Nat /\ toolDepth \in Nat /\ collectors \in Nat
  BY <1>1, InterpreterAssumption DEF Fresh
<1>8. /\ saved \in Seq(SUBSET Cap) /\ savedTool \in Seq(SUBSET Cap)
      /\ loading \subseteq Modules /\ cached \subseteq Modules /\ dirty \in BOOLEAN
  <2>1. <<>> \in Seq(SUBSET Cap)
    OBVIOUS
  <2>2. saved = <<>> /\ savedTool = <<>> /\ loading = {} /\ cached = {} /\ dirty = FALSE
    BY DEF Init
  <2> QED
    BY <2>1, <2>2
<1>9. TypeOK
  BY <1>2, <1>3, <1>4, <1>5, <1>6, <1>7, <1>8 DEF TypeOK
<1> QED
  BY <1>1, <1>9, FreshIsBalanced DEF Inv

LEMMA InvStep == Inv /\ [Next]_vars => Inv'
<1> SUFFICES ASSUME Inv, [Next]_vars PROVE Inv'
  OBVIOUS
<1>1. CASE UNCHANGED vars
  <2>1. TypeOK'
    BY <1>1 DEF Inv, TypeOK, vars
  <2> QED
    BY <1>1, <2>1, SameConstructs DEF Inv, vars
<1>2. CASE Next
  BY <1>1, <1>2, StatementStep, EnterStep, LeaveStep, UnitStep DEF Next, Terminated
<1> QED
  BY <1>1, <1>2

LEMMA InvHolds == Spec => []Inv
  BY InvInit, InvStep, PTL DEF Spec
-----------------------------------------------------------------------------
(* Every variable of the interpreter keeps its type: the recursion depth   *)
(* stays within MAX_RECURSION and no restoring stack is popped when empty. *)
THEOREM InterpreterTypes == Spec => []TypeOK
  BY InvHolds, PTL DEF Inv

(* However a construct is left (its end, an error, `give', `stop', a       *)
(* recovered error, a panic of a request), the counters and the stacks     *)
(* that it raised come back to the number of constructs that are open.     *)
THEOREM ConstructsBalanced == Spec => []Balanced
  BY InvHolds, PTL DEF Inv

(* load_module runs a module at most once at a time, and not again once it *)
(* is cached, whatever imports fail in between.                            *)
THEOREM ModulesLoadOnce == Spec => []ModulesRunOnce
  BY InvHolds, PTL DEF Inv
-----------------------------------------------------------------------------
(* Between requests.                                                       *)

(* No step of a program happens while a server waits for a request.        *)
Waiting == mode = "serve" /\ phase = "idle" =>
              frames = <<>> /\ signal = "none" /\ granted = base /\ ~dirty

LEMMA WaitingStep == Waiting /\ [Next]_vars => Waiting'
<1> SUFFICES ASSUME Waiting, [Next]_vars PROVE Waiting'
  OBVIOUS
<1>1. CASE UNCHANGED vars
  BY <1>1 DEF Waiting, vars
<1>2. CASE Statement \/ Enter
  <2>1. Running /\ mode' = mode /\ phase' = phase
    BY <1>2 DEF Statement, Enter, Require, Emit, Raise, Stop, Give, EndOfBlock, EnterBlock,
                Call, CallTool, Import, EnterSandbox, TooDeep, CircularImport,
                Executing, Signalled, Open, host
  <2> QED
    BY <2>1 DEF Waiting, Running
<1>3. CASE Leave
  <2>1. signal # "none" /\ mode' = mode /\ phase' = phase
    BY <1>3 DEF Leave, NextTurn, LeaveBlock, TooManyTurns, Recover, LeaveSandbox, LeaveCall,
                LeaveTool, LeaveModule, Ended, Signalled, Close, host
  <2> QED
    BY <2>1 DEF Waiting
<1>4. CASE Unit
  <2>1. CASE EndOfProgram \/ EndOfSetup \/ StartTest \/ EndOfTest \/ EndOfTests
    BY <2>1 DEF EndOfProgram, EndOfSetup, StartTest, EndOfTest, EndOfTests, Phase, Waiting, host
  <2>2. CASE \E streams \in BOOLEAN : StartRequest(streams)
    BY <2>2 DEF StartRequest, Waiting
  <2>3. CASE EndOfRequest
    BY <2>3 DEF EndOfRequest, AtEnd, Waiting, host
  <2>4. CASE Panic
    BY <2>4 DEF Panic, Waiting, host
  <2> QED
    BY <1>4, <2>1, <2>2, <2>3, <2>4 DEF Unit
<1> QED
  BY <1>1, <1>2, <1>3, <1>4 DEF Next, Terminated

(* What with_serve_interp hands to a request is as build_base_interp made  *)
(* it, after any number of requests, failures and panics.                  *)
THEOREM RequestsStartFresh == Spec => []FreshRequest
<1>1. Init => Waiting
  BY DEF Init, Waiting
<1>2. Inv /\ Waiting => FreshRequest
  BY BalancedIsFresh DEF Inv, Waiting, FreshRequest, Fresh
<1> QED
  BY <1>1, <1>2, InvHolds, WaitingStep, PTL DEF Spec
-----------------------------------------------------------------------------
(* The ceiling.                                                            *)

Under(set) == \A c \in set : Within(ceiling, c)

(* CeilingHolds, set by set.                                               *)
Ceiled == /\ Under(granted) /\ Under(base)
          /\ \A i \in 1..Len(saved) : Under(saved[i])
          /\ \A i \in 1..Len(savedTool) : Under(savedTool[i])

LEMMA CeilingParts == TypeOK => (CeilingHolds <=> Ceiled)
<1> SUFFICES ASSUME TypeOK PROVE CeilingHolds <=> Ceiled
  OBVIOUS
<1>1. /\ DOMAIN saved = 1..Len(saved) /\ DOMAIN savedTool = 1..Len(savedTool)
  BY DEF TypeOK
<1> QED
  BY <1>1 DEF CeilingHolds, Ceiled, Sets, Under, Range

(* The steps that bring back grants find some to bring back.               *)
LEMMA StacksAreNotEmpty ==
    ASSUME Inv
    PROVE  /\ Ended({"sandbox"}) => saved # <<>>
           /\ Ended({"tool"}) => savedTool # <<>>
<1>1. ASSUME NEW kind \in {"sandbox", "tool"}, Ended({kind})
      PROVE  Cardinality(Positions({kind})) # 0
  <2>1. frames # <<>> /\ Last(frames).kind = kind /\ frames \in Seq(Frame)
    BY <1>1 DEF Ended, Inside, Inv, TypeOK
  <2>2. Len(frames) \in Positions({kind})
    BY <2>1, AtFront DEF Positions
  <2> QED
    BY <2>1, <2>2, AtIsFinite, FS_EmptySet DEF Positions
<1>2. Len(<<>>) = 0
  OBVIOUS
<1> QED
  BY <1>1, <1>2 DEF Inv, Balanced

LEMMA CeiledStep ==
    ASSUME Inv, Ceiled, [Next]_vars
    PROVE  Ceiled'
<1>a. /\ saved \in Seq(SUBSET Cap) /\ savedTool \in Seq(SUBSET Cap)
      /\ granted \in SUBSET Cap
  BY DEF Inv, TypeOK
<1>1. ASSUME UNCHANGED <<granted, base, saved, savedTool, ceiling>> PROVE Ceiled'
  BY <1>1 DEF Ceiled, Under
<1>2. ASSUME NEW c \in Requirable, Require(c) PROVE Ceiled'
  BY <1>2 DEF Require, Grant, Ceiled, Under, host
<1>3. ASSUME EnterSandbox PROVE Ceiled'
  <2>1. /\ saved' = Append(saved, granted) /\ granted' = {}
        /\ UNCHANGED <<base, ceiling, savedTool>>
    BY <1>3 DEF EnterSandbox, Open, host
  <2>2. /\ Len(saved') = Len(saved) + 1 /\ Len(saved) \in Nat
        /\ \A i \in 1..Len(saved) : saved'[i] = saved[i]
        /\ saved'[Len(saved) + 1] = granted
    BY <1>a, <2>1, AppendFacts
  <2>3. \A i \in 1..Len(saved') : Under(saved'[i])
    BY <2>2 DEF Ceiled
  <2> QED
    BY <2>1, <2>3 DEF Ceiled, Under
<1>4. ASSUME NEW d \in Declarations, CallTool(d) PROVE Ceiled'
  <2>1. /\ savedTool' = Append(savedTool, granted) /\ granted' = ToolGrants(d)
        /\ UNCHANGED <<base, ceiling, saved>>
    BY <1>4 DEF CallTool, Open, host
  <2>2. /\ Len(savedTool') = Len(savedTool) + 1 /\ Len(savedTool) \in Nat
        /\ \A i \in 1..Len(savedTool) : savedTool'[i] = savedTool[i]
        /\ savedTool'[Len(savedTool) + 1] = granted
    BY <1>a, <2>1, AppendFacts
  <2>3. \A i \in 1..Len(savedTool') : Under(savedTool'[i])
    BY <2>2 DEF Ceiled
  <2>4. Under(granted')
    BY <2>1 DEF ToolGrants, Check, Under
  <2> QED
    BY <2>1, <2>3, <2>4 DEF Ceiled, Under
<1>5. ASSUME LeaveSandbox PROVE Ceiled'
  <2>1. /\ saved' = Front(saved) /\ granted' = Last(saved)
        /\ UNCHANGED <<base, ceiling, savedTool>> /\ saved # <<>>
    BY <1>5, StacksAreNotEmpty DEF LeaveSandbox, Close, host
  <2>2. /\ Len(saved') = Len(saved) - 1 /\ Len(saved) \in Nat \ {0}
        /\ \A i \in 1..(Len(saved) - 1) : saved'[i] = saved[i]
        /\ granted' = saved[Len(saved)]
    BY <1>a, <2>1, FrontFacts
  <2>3. (\A i \in 1..Len(saved') : Under(saved'[i])) /\ Under(granted')
    BY <2>2 DEF Ceiled
  <2> QED
    BY <2>1, <2>3 DEF Ceiled, Under
<1>6. ASSUME LeaveTool PROVE Ceiled'
  <2>1. /\ savedTool' = Front(savedTool) /\ granted' = Last(savedTool)
        /\ UNCHANGED <<base, ceiling, saved>> /\ savedTool # <<>>
    BY <1>6, StacksAreNotEmpty DEF LeaveTool, Close, host
  <2>2. /\ Len(savedTool') = Len(savedTool) - 1 /\ Len(savedTool) \in Nat \ {0}
        /\ \A i \in 1..(Len(savedTool) - 1) : savedTool'[i] = savedTool[i]
        /\ granted' = savedTool[Len(savedTool)]
    BY <1>a, <2>1, FrontFacts
  <2>3. (\A i \in 1..Len(savedTool') : Under(savedTool'[i])) /\ Under(granted')
    BY <2>2 DEF Ceiled
  <2> QED
    BY <2>1, <2>3 DEF Ceiled, Under
<1>7. ASSUME EndOfRequest PROVE Ceiled'
  BY <1>7 DEF EndOfRequest, Ceiled, Under, host
<1>8. ASSUME Panic PROVE Ceiled'
  BY <1>8 DEF Panic, Ceiled, Under, host
<1>9. CASE UNCHANGED vars
  BY <1>1, <1>9 DEF vars
<1>10. CASE Statement
  BY <1>1, <1>2, <1>10
     DEF Statement, Emit, Raise, Stop, Give, EndOfBlock, Signalled, host, scoping
<1>11. CASE Enter
  BY <1>1, <1>3, <1>4, <1>11
     DEF Enter, EnterBlock, Call, Import, TooDeep, CircularImport, Open, Signalled, host, scoping
<1>12. CASE Leave
  BY <1>1, <1>5, <1>6, <1>12
     DEF Leave, NextTurn, LeaveBlock, TooManyTurns, Recover, LeaveCall, LeaveModule,
         Close, Signalled, host, scoping
<1>13. CASE Unit
  BY <1>1, <1>7, <1>8, <1>13
     DEF Unit, EndOfProgram, EndOfSetup, StartTest, EndOfTest, EndOfTests, Phase, StartRequest,
         host, scoping
<1> QED
  BY <1>9, <1>10, <1>11, <1>12, <1>13 DEF Next, Terminated

LEMMA CeiledInit == Init => Ceiled
<1> SUFFICES ASSUME Init PROVE Ceiled
  OBVIOUS
<1>1. Under(granted)
  BY DEF Init, Wired, GrantAll, Under
<1>2. Under(base)
  BY <1>1 DEF Init, Under
<1>3. saved = <<>> /\ savedTool = <<>>
  BY DEF Init
<1> QED
  BY <1>1, <1>2, <1>3 DEF Ceiled

(* No step of a program, of a request or of what calls them brings a       *)
(* capability over the ceiling of the host, into the set in use or into    *)
(* one that a scope will bring back.                                       *)
THEOREM CeilingIsKept == Spec => []CeilingHolds
<1>1. Init => Ceiled
  BY CeiledInit
<1>2. Inv /\ Ceiled => CeilingHolds
  BY CeilingParts DEF Inv
<1>3. Inv /\ Ceiled /\ [Next]_vars => Ceiled'
  BY CeiledStep
<1> QED
  BY <1>1, <1>2, <1>3, InvHolds, PTL DEF Spec
-----------------------------------------------------------------------------
(* The scopes of sandboxes and of tools.                                   *)

Bounded(i, set) == \A c \in Cap : Allows(set, c) => Allows(frames[i].decl, c)

(* What is allowed in a scope is allowed by what each scope around it      *)
(* declares, which is nothing when it is a sandbox; and so is what will be *)
(* brought back while that one is still open.                              *)
Nested == /\ \A i \in Positions({"sandbox"}) : frames[i].decl = {}
          /\ \A i \in Positions(Scope) : Bounded(i, granted)
          /\ \A i, k \in Positions(Scope) : i < k => Bounded(i, Before(k))

LEMMA CoversIsPartial ==
    /\ \A c \in Cap : Covers(c, c)
    /\ \A b, c, d \in Cap : Covers(b, c) /\ Covers(c, d) => Covers(b, d)
<1>1. \A c \in Cap : Covers(c, c)
  BY ScopeAssumption DEF Covers, TypeCovers, ScopeCovers, Cap
<1>2. ASSUME NEW b \in Cap, NEW c \in Cap, NEW d \in Cap, Covers(b, c), Covers(c, d)
      PROVE  Covers(b, d)
  <2>1. TypeCovers(b.ty, d.ty)
    BY <1>2 DEF Covers, TypeCovers
  <2>2. ScopeCovers(b.scope, d.scope)
    <3>1. /\ b.scope \in Scopes \cup {All} /\ c.scope \in Scopes \cup {All}
          /\ d.scope \in Scopes \cup {All}
      BY DEF Cap
    <3> QED
      BY <1>2, <3>1, ScopeAssumption DEF Covers, ScopeCovers
  <2> QED
    BY <2>1, <2>2 DEF Covers
<1> QED
  BY <1>1, <1>2

(* What a tool is granted is allowed where it is called, and declared.     *)
LEMMA ToolGrantsLess ==
    ASSUME TypeOK, NEW d \in SUBSET Cap, NEW c \in Cap, Allows(ToolGrants(d), c)
    PROVE  Allows(granted, c) /\ Allows(d, c)
<1>1. PICK b \in ToolGrants(d) : Covers(b, c)
  BY DEF Allows
<1>2. b \in d /\ b \in Cap /\ Allows(granted, b)
  BY <1>1 DEF ToolGrants, Check
<1>3. PICK a \in granted : Covers(a, b)
  BY <1>2 DEF Allows
<1>4. a \in Cap
  BY <1>3 DEF TypeOK
<1> QED
  BY <1>1, <1>2, <1>3, <1>4, CoversIsPartial DEF Allows

LEMMA CountUpTo ==
    ASSUME NEW n \in Nat, NEW P \in SUBSET (1..n), NEW i \in P, NEW B \in SUBSET P,
           \A j \in P : j \in B <=> j <= i
    PROVE  /\ Cardinality(B) \in 1..Cardinality(P)
           /\ i < n /\ n \in P => Cardinality(B) < Cardinality(P)
           /\ i = n => Cardinality(B) = Cardinality(P)
<1>1. IsFiniteSet(1..n)
  BY FS_Interval
<1>2. IsFiniteSet(P)
  BY <1>1, FS_Subset
<1>3. Cardinality(P) \in Nat
  BY <1>2, FS_CardinalityType
<1>4. B \subseteq P /\ i \in B
  OBVIOUS
<1>5. IsFiniteSet(B) /\ Cardinality(B) <= Cardinality(P)
  BY <1>2, <1>4, FS_Subset
<1>6. Cardinality(B) \in Nat
  BY <1>5, FS_CardinalityType
<1>7. Cardinality(B) # 0
  BY <1>4, <1>5, FS_EmptySet
<1>8. ASSUME i < n, n \in P PROVE Cardinality(B) < Cardinality(P)
  <2>1. B \subseteq P \ {n}
    BY <1>8
  <2>2. Cardinality(P \ {n}) = Cardinality(P) - 1 /\ IsFiniteSet(P \ {n})
    BY <1>2, <1>8, FS_RemoveElement
  <2>3. Cardinality(B) <= Cardinality(P \ {n})
    BY <2>1, <2>2, FS_Subset
  <2> QED
    BY <1>3, <1>6, <2>2, <2>3
<1>9. ASSUME i = n PROVE B = P
  <2>1. \A j \in P : j <= n
    OBVIOUS
  <2> QED
    BY <1>9, <2>1
<1> QED
  BY <1>3, <1>5, <1>6, <1>7, <1>8, <1>9

LEMMA BelowFacts ==
    ASSUME Inv, NEW kind \in Scope, NEW i \in Positions({kind})
    PROVE  /\ Below(i, kind) \in 1..Cardinality(Positions({kind}))
           /\ i < Len(frames) /\ Len(frames) \in Positions({kind}) =>
                 Below(i, kind) < Cardinality(Positions({kind}))
           /\ i = Len(frames) => Below(i, kind) = Cardinality(Positions({kind}))
<1>1. Positions({kind}) \subseteq 1..Len(frames) /\ Len(frames) \in Nat
  BY AtIsFinite DEF Inv, TypeOK, Positions
<1>2. PICK n \in Nat : n = Len(frames)
  BY <1>1
<1>3. PICK P \in SUBSET (1..n) : P = Positions({kind})
  BY <1>1, <1>2
<1>4. PICK B \in SUBSET P : B = {j \in P : j <= i}
  OBVIOUS
<1>5. Below(i, kind) = Cardinality(B)
  BY <1>3, <1>4 DEF Below
<1>6. i \in P /\ \A j \in P : j \in B <=> j <= i
  BY <1>3, <1>4
<1>a. n \in Nat /\ P \in SUBSET (1..n) /\ B \in SUBSET P
  BY <1>2, <1>3, <1>4
<1>7. /\ Cardinality(B) \in 1..Cardinality(P)
      /\ i < n /\ n \in P => Cardinality(B) < Cardinality(P)
      /\ i = n => Cardinality(B) = Cardinality(P)
  BY <1>6, <1>a, CountUpTo, ZenonT(60)
<1> QED
  BY <1>2, <1>3, <1>5, <1>7

LEMMA ScopePositions ==
    ASSUME TypeOK
    PROVE  /\ Positions(Scope) = Positions({"sandbox"}) \cup Positions({"tool"})
           /\ \A i \in Positions(Scope) : frames[i].kind \in Scope
           /\ \A kind \in Scope, i \in Positions(Scope) :
                 frames[i].kind = kind <=> i \in Positions({kind})
           /\ Positions(Scope) \subseteq 1..Len(frames)
<1>1. \A K : Positions(K) \subseteq 1..Len(frames)
  BY AtIsFinite DEF TypeOK, Positions
<1> QED
  BY <1>1 DEF Positions, At, Scope

(* A step that opens and closes no scope, and what it keeps.               *)
Alone == /\ UNCHANGED <<saved, savedTool>>
         /\ \A K \in {{"sandbox"}, {"tool"}, Scope} : Positions(K)' = Positions(K)
         /\ \A i \in Positions(Scope) : frames'[i] = frames[i]

LEMMA AloneKeeps ==
    ASSUME Alone
    PROVE  \A i \in Positions(Scope) : Before(i)' = Before(i)
<1>1. /\ Positions({"sandbox"})' = Positions({"sandbox"})
      /\ Positions({"tool"})' = Positions({"tool"})
  BY DEF Alone
<1> QED
  BY <1>1 DEF Before, Below, Alone

(* Steps that keep the scopes, and allow nothing new while one is open.    *)
LEMMA NestedKept ==
    ASSUME Inv, Nested, Alone,
           Positions(Scope) # {} => \A c \in Cap : Allows(granted', c) => Allows(granted, c)
    PROVE  Nested'
<1>1. /\ Positions({"sandbox"})' = Positions({"sandbox"})
      /\ Positions(Scope)' = Positions(Scope)
  BY DEF Alone
<1>2. Positions({"sandbox"}) \subseteq Positions(Scope)
  BY ScopePositions DEF Inv
<1>3. \A i \in Positions(Scope) : Before(i)' = Before(i) /\ frames'[i] = frames[i]
  BY AloneKeeps DEF Alone
<1>4. \A i \in Positions({"sandbox"})' : frames'[i].decl = {}
  BY <1>1, <1>2, <1>3 DEF Nested
<1>5. ASSUME NEW i \in Positions(Scope)' PROVE Bounded(i, granted)'
  BY <1>1, <1>3, <1>5 DEF Nested, Bounded
<1>6. ASSUME NEW i \in Positions(Scope)', NEW k \in Positions(Scope)', i < k
      PROVE  Bounded(i, Before(k))'
  BY <1>1, <1>3, <1>6 DEF Nested, Bounded
<1> QED
  BY <1>4, <1>5, <1>6 DEF Nested

(* A scope that opens keeps what is to be brought back after the others.   *)
LEMMA OpenedBefore ==
    ASSUME Inv, NEW kind \in Scope, NEW d \in SUBSET Cap, NEW n \in Nat,
           n = Len(frames) + 1, Open(kind, NoModule, d),
           kind = "sandbox" => saved' = Append(saved, granted) /\ savedTool' = savedTool,
           kind = "tool" => savedTool' = Append(savedTool, granted) /\ saved' = saved
    PROVE  /\ \A i \in Positions(Scope) : Before(i)' = Before(i)
           /\ Before(n)' = granted
<1>p. Len(frames) \in Nat
  BY DEF Inv, TypeOK
<1>n. n = Len(frames) + 1
  OBVIOUS
<1>a. /\ TypeOK /\ kind \in Blocks \cup Calls /\ NoModule \in Modules \cup {NoModule}
      /\ saved \in Seq(SUBSET Cap) /\ savedTool \in Seq(SUBSET Cap) /\ granted \in SUBSET Cap
  BY DEF Inv, TypeOK, Scope, Blocks, Calls
<1>b. /\ Len(frames) \in Nat /\ frames'[n] = [kind |-> kind, mod |-> NoModule, decl |-> d]
      /\ \A i \in 1..Len(frames) : frames'[i] = frames[i]
  BY <1>a, <1>n, OpenFacts
<1>c. /\ \A K : kind \in K => Positions(K)' = Positions(K) \cup {n}
      /\ \A K : kind \notin K => Positions(K)' = Positions(K)
      /\ \A K : Positions(K) \subseteq 1..Len(frames)
  BY <1>a, <1>n, OpenFacts
<1>d. /\ Positions(Scope)' = Positions(Scope) \cup {n}
      /\ Positions(Scope) \subseteq 1..Len(frames)
      /\ \A k \in Scope : Positions({k})' \in {Positions({k}), Positions({k}) \cup {n}}
  BY <1>c
<1>1. ASSUME NEW i \in Positions(Scope) PROVE Before(i)' = Before(i)
  <2>1. i \in 1..Len(frames) /\ frames'[i] = frames[i] /\ frames[i].kind \in Scope
    BY <1>a, <1>b, <1>d, ScopePositions
  <2>k. PICK k \in Scope : k = frames[i].kind
    BY <2>1
  <2>2. i \in Positions({k})
    BY <1>a, <2>k, ScopePositions
  <2>3. {j \in Positions({k})' : j <= i} = {j \in Positions({k}) : j <= i}
    BY <1>b, <1>d, <1>n, <2>1, <2>k
  <2>4. Cardinality({j \in Positions({k})' : j <= i}) = Below(i, k)
    BY <2>3 DEF Below
  <2>5. Below(i, k) \in 1..Cardinality(Positions({k}))
    BY <2>k, <2>2, BelowFacts
  <2>6. CASE k = "sandbox"
    <3>1. Below(i, "sandbox") \in 1..Len(saved)
      BY <2>5, <2>6 DEF Inv, Balanced
    <3>2. saved'[Below(i, "sandbox")] = saved[Below(i, "sandbox")]
      BY <1>a, <3>1, AppendFacts DEF Scope
    <3>3. Below(i, "sandbox")' = Below(i, "sandbox")
      BY <2>4, <2>6 DEF Below
    <3> QED
      BY <2>1, <2>k, <2>6, <3>2, <3>3 DEF Before
  <2>7. CASE k = "tool"
    <3>1. Below(i, "tool") \in 1..Len(savedTool)
      BY <2>5, <2>7 DEF Inv, Balanced
    <3>2. savedTool'[Below(i, "tool")] = savedTool[Below(i, "tool")]
      BY <1>a, <3>1, AppendFacts DEF Scope
    <3>3. Below(i, "tool")' = Below(i, "tool")
      BY <2>4, <2>7 DEF Below
    <3> QED
      BY <2>1, <2>k, <2>7, <3>2, <3>3 DEF Before
  <2> QED
    BY <2>k, <2>6, <2>7 DEF Scope
<1>2. Before(n)' = granted
  <2>1. /\ Positions({kind})' = Positions({kind}) \cup {n}
        /\ Positions({kind}) \subseteq 1..Len(frames)
        /\ Cardinality(Positions({kind})') = Cardinality(Positions({kind})) + 1
    BY <1>a, <1>n, OpenFacts
  <2>2. {j \in Positions({kind})' : j <= n} = Positions({kind})'
    <3>1. \A j \in Positions({kind}) \cup {n} : j <= n
      BY <1>b, <1>n, <2>1
    <3>2. \A j \in Positions({kind})' : j <= n
      BY <2>1, <3>1
    <3> QED
      BY <3>2
  <2>3. Below(n, kind)' = Cardinality(Positions({kind})) + 1
    <3>1. Below(n, kind)' = Cardinality({j \in Positions({kind})' : j <= n})
      BY DEF Below
    <3> QED
      BY <2>1, <2>2, <3>1
  <2>4. CASE kind = "sandbox"
    <3>1. Below(n, "sandbox")' = Len(saved) + 1
      BY <2>3, <2>4 DEF Inv, Balanced
    <3>2. saved'[Len(saved) + 1] = granted
      BY <1>a, <2>4, AppendFacts
    <3> QED
      BY <1>b, <1>n, <2>4, <3>1, <3>2 DEF Before
  <2>5. CASE kind = "tool"
    <3>1. Below(n, "tool")' = Len(savedTool) + 1
      BY <2>3, <2>5 DEF Inv, Balanced
    <3>2. savedTool'[Len(savedTool) + 1] = granted
      BY <1>a, <2>5, AppendFacts
    <3> QED
      BY <1>b, <1>n, <2>5, <3>1, <3>2 DEF Before
  <2> QED
    BY <2>4, <2>5 DEF Scope
<1> QED
  BY <1>1, <1>2

LEMMA ScopeOpened ==
    ASSUME Inv, Nested, NEW kind \in Scope, NEW d \in SUBSET Cap, Open(kind, NoModule, d),
           kind = "sandbox" => /\ saved' = Append(saved, granted) /\ savedTool' = savedTool
                               /\ d = {},
           kind = "tool" => savedTool' = Append(savedTool, granted) /\ saved' = saved,
           \A c \in Cap : Allows(granted', c) => Allows(granted, c) /\ Allows(d, c)
    PROVE  Nested'
<1>p. Len(frames) \in Nat
  BY DEF Inv, TypeOK
<1>n. PICK n \in Nat : n = Len(frames) + 1
  BY <1>p
<1>a. /\ TypeOK /\ kind \in Blocks \cup Calls /\ NoModule \in Modules \cup {NoModule}
      /\ saved \in Seq(SUBSET Cap) /\ savedTool \in Seq(SUBSET Cap) /\ granted \in SUBSET Cap
  BY DEF Inv, TypeOK, Scope, Blocks, Calls
<1>b. /\ Len(frames) \in Nat /\ frames'[n] = [kind |-> kind, mod |-> NoModule, decl |-> d]
      /\ \A i \in 1..Len(frames) : frames'[i] = frames[i]
  BY <1>a, <1>n, OpenFacts
<1>c. /\ \A K : kind \in K => Positions(K)' = Positions(K) \cup {n}
      /\ \A K : kind \notin K => Positions(K)' = Positions(K)
      /\ \A K : Positions(K) \subseteq 1..Len(frames)
  BY <1>a, <1>n, OpenFacts
<1>d. /\ Positions(Scope)' = Positions(Scope) \cup {n}
      /\ Positions(Scope) \subseteq 1..Len(frames)
      /\ \A k \in Scope : Positions({k})' \in {Positions({k}), Positions({k}) \cup {n}}
  BY <1>c
<1>1. \A i \in Positions(Scope) : Before(i)' = Before(i)
  BY <1>n, OpenedBefore
<1>2. Before(n)' = granted
  BY <1>n, OpenedBefore
<1>3. ASSUME NEW i \in Positions({"sandbox"})' PROVE frames'[i].decl = {}
  <2>1. CASE i = n
    <3>1. kind = "sandbox"
      BY <1>b, <1>c, <1>n, <1>3, <2>1
    <3> QED
      BY <1>b, <2>1, <3>1
  <2>2. CASE i # n
    <3>1. i \in Positions({"sandbox"})
      BY <1>c, <1>3, <2>2
    <3> QED
      BY <1>b, <1>c, <3>1 DEF Nested
  <2> QED
    BY <2>1, <2>2
<1>4. ASSUME NEW i \in Positions(Scope)' PROVE Bounded(i, granted)'
  <2>1. CASE i = n
    BY <1>b, <2>1 DEF Bounded
  <2>2. CASE i # n
    <3>1. i \in Positions(Scope) /\ frames'[i] = frames[i]
      BY <1>b, <1>d, <1>n, <1>4, <2>2
    <3> QED
      BY <3>1 DEF Nested, Bounded
  <2> QED
    BY <2>1, <2>2
<1>5. ASSUME NEW i \in Positions(Scope)', NEW k \in Positions(Scope)', i < k
      PROVE  Bounded(i, Before(k))'
  <2>1. i \in Positions(Scope) /\ frames'[i] = frames[i]
    BY <1>b, <1>d, <1>n, <1>5
  <2>2. CASE k = n
    BY <1>2, <2>1, <2>2 DEF Nested, Bounded
  <2>3. CASE k # n
    <3>1. k \in Positions(Scope)
      BY <1>d, <1>5, <2>3
    <3> QED
      BY <1>1, <1>5, <2>1, <3>1 DEF Nested, Bounded
  <2> QED
    BY <2>2, <2>3
<1> QED
  BY <1>3, <1>4, <1>5 DEF Nested

LEMMA ClosedBefore ==
    ASSUME Inv, NEW kind \in Scope, frames # <<>>, Last(frames).kind = kind,
           frames' = Front(frames),
           kind = "sandbox" => /\ saved # <<>> /\ granted' = Last(saved)
                               /\ saved' = Front(saved) /\ savedTool' = savedTool,
           kind = "tool" => /\ savedTool # <<>> /\ granted' = Last(savedTool)
                            /\ savedTool' = Front(savedTool) /\ saved' = saved
    PROVE  /\ \A i \in Positions(Scope)' : Before(i)' = Before(i)
           /\ granted' = Before(Len(frames))
<1>p. Len(frames) \in Nat
  BY DEF Inv, TypeOK
<1>n. PICK n \in Nat : n = Len(frames)
  BY <1>p
<1>a. TypeOK /\ saved \in Seq(SUBSET Cap) /\ savedTool \in Seq(SUBSET Cap)
  BY DEF Inv, TypeOK
<1>b. /\ \A i \in 1..(n - 1) : frames'[i] = frames[i]
      /\ frames[n].kind = kind
      /\ \A K : Positions(K)' = Positions(K) \ {n}
      /\ \A K : Positions(K) \subseteq 1..n
  BY <1>a, <1>n, CloseFacts
<1>c. n \in Positions({kind}) /\ n \in Positions(Scope)
  BY <1>a, <1>n, CloseFacts
<1>1. ASSUME NEW i \in Positions(Scope)' PROVE Before(i)' = Before(i)
  <2>1. i \in Positions(Scope) /\ i < n /\ frames'[i] = frames[i] /\ frames[i].kind \in Scope
    BY <1>a, <1>b, <1>n, ScopePositions
  <2>k. PICK k \in Scope : k = frames[i].kind
    BY <2>1
  <2>2. i \in Positions({k})
    BY <1>a, <2>1, <2>k, ScopePositions
  <2>3. {j \in Positions({k})' : j <= i} = {j \in Positions({k}) : j <= i}
    BY <1>b, <1>n, <2>1
  <2>4. Cardinality({j \in Positions({k})' : j <= i}) = Below(i, k)
    BY <2>3 DEF Below
  <2>5. /\ Below(i, k) \in 1..Cardinality(Positions({k}))
        /\ k = kind => Below(i, k) < Cardinality(Positions({k}))
    BY <1>c, <1>n, <2>1, <2>k, <2>2, BelowFacts
  <2>6. CASE k = "sandbox"
    <3>1. Below(i, "sandbox") \in 1..Len(saved)
      BY <2>5, <2>6 DEF Inv, Balanced
    <3>2. saved'[Below(i, "sandbox")] = saved[Below(i, "sandbox")]
      <4>1. CASE kind = "sandbox"
        <5>1. Below(i, "sandbox") \in 1..(Len(saved) - 1)
          BY <2>5, <2>6, <3>1, <4>1 DEF Inv, Balanced
        <5> QED
          BY <1>a, <4>1, <5>1, FrontFacts
      <4>2. CASE kind = "tool"
        BY <4>2
      <4> QED
        BY <4>1, <4>2 DEF Scope
    <3>3. Below(i, "sandbox")' = Below(i, "sandbox")
      BY <2>4, <2>6 DEF Below
    <3> QED
      BY <2>1, <2>k, <2>6, <3>2, <3>3 DEF Before
  <2>7. CASE k = "tool"
    <3>1. Below(i, "tool") \in 1..Len(savedTool)
      BY <2>5, <2>7 DEF Inv, Balanced
    <3>2. savedTool'[Below(i, "tool")] = savedTool[Below(i, "tool")]
      <4>1. CASE kind = "tool"
        <5>1. Below(i, "tool") \in 1..(Len(savedTool) - 1)
          BY <2>5, <2>7, <3>1, <4>1 DEF Inv, Balanced
        <5> QED
          BY <1>a, <4>1, <5>1, FrontFacts
      <4>2. CASE kind = "sandbox"
        BY <4>2
      <4> QED
        BY <4>1, <4>2 DEF Scope
    <3>3. Below(i, "tool")' = Below(i, "tool")
      BY <2>4, <2>7 DEF Below
    <3> QED
      BY <2>1, <2>k, <2>7, <3>2, <3>3 DEF Before
  <2> QED
    BY <2>k, <2>6, <2>7 DEF Scope
<1>2. granted' = Before(n)
  <2>1. Below(n, kind) = Cardinality(Positions({kind}))
    BY <1>c, <1>n, BelowFacts
  <2>2. CASE kind = "sandbox"
    <3>1. Below(n, "sandbox") = Len(saved)
      BY <2>1, <2>2 DEF Inv, Balanced
    <3> QED
      BY <1>a, <1>b, <2>2, <3>1, FrontFacts DEF Before
  <2>3. CASE kind = "tool"
    <3>1. Below(n, "tool") = Len(savedTool)
      BY <2>1, <2>3 DEF Inv, Balanced
    <3> QED
      BY <1>a, <1>b, <2>3, <3>1, FrontFacts DEF Before
  <2> QED
    BY <2>2, <2>3 DEF Scope
<1> QED
  BY <1>1, <1>2, <1>n

LEMMA ScopeClosed ==
    ASSUME Inv, Nested, NEW kind \in Scope, frames # <<>>, Last(frames).kind = kind,
           frames' = Front(frames),
           kind = "sandbox" => /\ saved # <<>> /\ granted' = Last(saved)
                               /\ saved' = Front(saved) /\ savedTool' = savedTool,
           kind = "tool" => /\ savedTool # <<>> /\ granted' = Last(savedTool)
                            /\ savedTool' = Front(savedTool) /\ saved' = saved
    PROVE  Nested'
<1>p. Len(frames) \in Nat
  BY DEF Inv, TypeOK
<1>n. PICK n \in Nat : n = Len(frames)
  BY <1>p
<1>a. TypeOK /\ saved \in Seq(SUBSET Cap) /\ savedTool \in Seq(SUBSET Cap)
  BY DEF Inv, TypeOK
<1>b. /\ \A i \in 1..(n - 1) : frames'[i] = frames[i]
      /\ frames[n].kind = kind
      /\ \A K : Positions(K)' = Positions(K) \ {n}
      /\ \A K : Positions(K) \subseteq 1..n
  BY <1>a, <1>n, CloseFacts
<1>c. n \in Positions({kind}) /\ n \in Positions(Scope)
  BY <1>a, <1>n, CloseFacts
<1>1. \A i \in Positions(Scope)' : Before(i)' = Before(i)
  BY ClosedBefore
<1>2. granted' = Before(n)
  BY <1>n, ClosedBefore
<1>3. ASSUME NEW K, NEW i \in Positions(K)'
      PROVE  i \in Positions(K) /\ i < n /\ frames'[i] = frames[i]
  BY <1>b, <1>n, <1>3
<1>4. ASSUME NEW i \in Positions({"sandbox"})' PROVE frames'[i].decl = {}
  BY <1>3, <1>4 DEF Nested
<1>5. ASSUME NEW i \in Positions(Scope)' PROVE Bounded(i, granted)'
  <2>1. i \in Positions(Scope) /\ i < n /\ frames'[i] = frames[i]
    BY <1>3, <1>5
  <2>2. Bounded(i, Before(n))
    BY <1>c, <2>1 DEF Nested
  <2> QED
    BY <1>2, <2>1, <2>2 DEF Bounded
<1>6. ASSUME NEW i \in Positions(Scope)', NEW k \in Positions(Scope)', i < k
      PROVE  Bounded(i, Before(k))'
  <2>1. /\ i \in Positions(Scope) /\ frames'[i] = frames[i]
        /\ k \in Positions(Scope) /\ Before(k)' = Before(k)
    BY <1>1, <1>3, <1>6
  <2>2. Bounded(i, Before(k))
    BY <1>6, <2>1 DEF Nested
  <2> QED
    BY <2>1, <2>2 DEF Bounded
<1> QED
  BY <1>4, <1>5, <1>6 DEF Nested

(* Steps that open or close a construct that is no scope.                  *)
LEMMA OpenedNoScope ==
    ASSUME Inv, NEW kind \in (Blocks \cup Calls) \ Scope,
           NEW m \in Modules \cup {NoModule}, NEW d \in SUBSET Cap,
           Open(kind, m, d), UNCHANGED scoping
    PROVE  Alone /\ granted' = granted
<1>1. kind \notin {"sandbox"} /\ kind \notin {"tool"} /\ kind \notin Scope
  BY DEF Scope
<1>2. \A K \in {{"sandbox"}, {"tool"}, Scope} : Positions(K)' = Positions(K)
  BY <1>1, OpenFacts DEF Inv
<1>3. \A i \in Positions(Scope) : frames'[i] = frames[i]
  BY OpenFacts DEF Inv
<1> QED
  BY <1>2, <1>3 DEF scoping, Alone

LEMMA ClosedNoScope ==
    ASSUME Inv, frames # <<>>, Last(frames).kind \notin Scope,
           frames' = Front(frames), UNCHANGED scoping
    PROVE  Alone /\ granted' = granted
<1>1. /\ Last(frames).kind \notin {"sandbox"} /\ Last(frames).kind \notin {"tool"}
  BY DEF Scope
<1>2. \A K \in {{"sandbox"}, {"tool"}, Scope} : Positions(K)' = Positions(K)
  BY <1>1, CloseFacts DEF Inv
<1>3. \A i \in Positions(Scope) : frames'[i] = frames[i]
  <2>1. /\ Positions(Scope) \subseteq 1..Len(frames) /\ Len(frames) \in Nat \ {0}
        /\ Positions(Scope)' = Positions(Scope) \ {Len(frames)}
        /\ \A i \in 1..(Len(frames) - 1) : frames'[i] = frames[i]
    BY CloseFacts DEF Inv
  <2> QED
    BY <1>2, <2>1
<1> QED
  BY <1>2, <1>3 DEF scoping, Alone

LEMMA NothingNested == \A K : frames = <<>> => Positions(K) = {}
  BY AtEmpty DEF Positions

(* Only these steps concern the scopes.                                    *)
Scoping == \/ \E c \in Requirable : Require(c)
           \/ EnterSandbox \/ LeaveSandbox
           \/ \E d \in Declarations : CallTool(d)
           \/ LeaveTool \/ EndOfRequest \/ Panic

LEMMA OtherSteps ==
    ASSUME Inv, [Next]_vars, ~Scoping
    PROVE  Alone /\ granted' = granted
<1>a. TypeOK
  BY DEF Inv
<1>1. ASSUME UNCHANGED <<frames, granted, saved, savedTool>> PROVE Alone /\ granted' = granted
  BY <1>1 DEF Positions, Alone
<1>7. CASE UNCHANGED vars
  BY <1>1, <1>7 DEF vars
<1>8. CASE Statement
  BY <1>1, <1>8 DEF Scoping, Statement, Emit, Raise, Stop, Give, EndOfBlock, Signalled, scoping
<1>9. CASE Enter
  <2>1. ASSUME NEW kind \in {"loop", "try"}, EnterBlock(kind) PROVE Alone /\ granted' = granted
    <3>1. /\ kind \in (Blocks \cup Calls) \ Scope /\ Open(kind, NoModule, {})
          /\ {} \in SUBSET Cap /\ NoModule \in Modules \cup {NoModule} /\ UNCHANGED scoping
      BY <2>1 DEF EnterBlock, Blocks, Scope
    <3> QED
      BY <3>1, OpenedNoScope
  <2>2. ASSUME NEW kind \in {"task", "builtin", "assert"}, Call(kind) PROVE Alone /\ granted' = granted
    <3>1. /\ kind \in (Blocks \cup Calls) \ Scope /\ Open(kind, NoModule, {})
          /\ {} \in SUBSET Cap /\ NoModule \in Modules \cup {NoModule} /\ UNCHANGED scoping
      BY <2>2 DEF Call, Calls, Scope
    <3> QED
      BY <3>1, OpenedNoScope
  <2>3. ASSUME NEW m \in Modules, Import(m) PROVE Alone /\ granted' = granted
    <3>1. /\ "module" \in (Blocks \cup Calls) \ Scope /\ Open("module", m, {})
          /\ {} \in SUBSET Cap /\ m \in Modules \cup {NoModule} /\ UNCHANGED scoping
      BY <2>3 DEF Import, Blocks, Scope
    <3> QED
      BY <3>1, OpenedNoScope
  <2>4. ASSUME TooDeep \/ CircularImport PROVE Alone /\ granted' = granted
    BY <1>1, <2>4 DEF TooDeep, CircularImport, Signalled, scoping
  <2> QED
    BY <1>9, <2>1, <2>2, <2>3, <2>4 DEF Enter, Scoping
<1>10. CASE Leave
  <2>1. ASSUME NextTurn PROVE Alone /\ granted' = granted
    BY <1>1, <2>1 DEF NextTurn, Signalled, scoping
  <2>2. ASSUME LeaveBlock \/ TooManyTurns \/ LeaveCall \/ LeaveModule PROVE Alone /\ granted' = granted
    <3>1. /\ frames # <<>> /\ Last(frames).kind \notin Scope /\ frames' = Front(frames)
          /\ UNCHANGED scoping
      BY <2>2 DEF LeaveBlock, TooManyTurns, LeaveCall, LeaveModule, Ended, Inside, Close, Scope
    <3> QED
      BY <3>1, ClosedNoScope
  <2>3. ASSUME Recover PROVE Alone /\ granted' = granted
    <3>1. /\ frames # <<>> /\ Last(frames).kind = "try" /\ UNCHANGED scoping
          /\ frames' = Append(Front(frames), [Last(frames) EXCEPT !.kind = "recover"])
      BY <2>3 DEF Recover, Ended, Inside
    <3>2. /\ frames \in Seq(Frame) /\ Front(frames) \in Seq(Frame) /\ Last(frames) \in Frame
          /\ Len(frames) \in Nat \ {0} /\ Len(Front(frames)) = Len(frames) - 1
          /\ \A i \in 1..(Len(frames) - 1) : Front(frames)[i] = frames[i]
      BY <1>a, <3>1, FrontFacts DEF TypeOK
    <3> DEFINE f == [Last(frames) EXCEPT !.kind = "recover"]
    <3>3. f \in Frame /\ f.kind = "recover" /\ frames' = Append(Front(frames), f)
      BY <3>1, <3>2 DEF Frame, Blocks
    <3> HIDE DEF f
    <3>4. ASSUME NEW K \in {{"sandbox"}, {"tool"}, Scope}
          PROVE  Positions(K)' = Positions(K) /\ Positions(K) \subseteq 1..(Len(frames) - 1)
      <4>1. "try" \notin K /\ "recover" \notin K
        BY DEF Scope
      <4>2. At(Front(frames), K) = At(frames, K)
        BY <3>1, <3>2, <4>1, AtFront
      <4>3. At(frames', K) = At(Front(frames), K)
        BY <3>2, <3>3, <4>1, AtPush
      <4>4. At(Front(frames), K) \subseteq 1..(Len(frames) - 1)
        BY <3>2, AtIsFinite
      <4> QED
        BY <4>2, <4>3, <4>4 DEF Positions
    <3>5. \A i \in 1..(Len(frames) - 1) : frames'[i] = frames[i]
      BY <3>2, <3>3, AppendFacts
    <3>6. \A i \in Positions(Scope) : frames'[i] = frames[i]
      BY <3>4, <3>5
    <3> QED
      BY <3>1, <3>4, <3>6 DEF scoping, Alone
  <2> QED
    BY <1>10, <2>1, <2>2, <2>3 DEF Leave, Scoping
<1>11. CASE Unit
  BY <1>1, <1>11
     DEF Unit, Scoping, EndOfProgram, EndOfSetup, StartTest, EndOfTest, EndOfTests, Phase,
         StartRequest, scoping
<1> QED
  BY <1>7, <1>8, <1>9, <1>10, <1>11 DEF Next, Terminated

(* A `require' that is not a no-op finds no scope open.                    *)
LEMMA GrantableIsAlone ==
    ASSUME Inv, Grantable
    PROVE  Positions(Scope) = {} /\ ScopesOpen = 0
<1>1. /\ Cardinality(Positions({"sandbox"})) = 0 /\ IsFiniteSet(Positions({"sandbox"}))
      /\ Cardinality(Positions({"tool"})) = 0 /\ IsFiniteSet(Positions({"tool"}))
  BY AtIsFinite DEF Grantable, Balanced, TypeOK, Positions, Inv
<1>2. Positions(Scope) = {}
  BY <1>1, FS_EmptySet, ScopePositions DEF Inv
<1> QED
  BY <1>2, FS_EmptySet DEF ScopesOpen

LEMMA RequireIsAlone ==
    ASSUME NEW c, Require(c)
    PROVE  Alone
<1>1. UNCHANGED <<frames, saved, savedTool>>
  BY DEF Require
<1> QED
  BY <1>1 DEF Positions, Alone

LEMMA NestedStep ==
    ASSUME Inv, Nested, [Next]_vars
    PROVE  Nested'
<1>a. TypeOK /\ Balanced
  BY DEF Inv
<1>1. ASSUME frames' = <<>> PROVE Nested'
  <2>1. \A K : Positions(K)' = {}
    BY <1>1, AtEmpty DEF Positions
  <2> QED
    BY <2>1 DEF Nested
<1>2. ASSUME NEW c \in Requirable, Require(c) PROVE Nested'
  <2>1. Alone
    BY <1>2, RequireIsAlone
  <2>2. Positions(Scope) # {} => granted' = granted
    BY <1>2, GrantableIsAlone DEF Require
  <2> QED
    BY <2>1, <2>2, NestedKept
<1>3. ASSUME EnterSandbox PROVE Nested'
  <2>1. /\ "sandbox" \in Scope /\ {} \in SUBSET Cap /\ Open("sandbox", NoModule, {})
        /\ saved' = Append(saved, granted) /\ savedTool' = savedTool /\ granted' = {}
    BY <1>3 DEF EnterSandbox, Scope
  <2>2. \A c \in Cap : ~Allows(granted', c)
    BY <2>1 DEF Allows
  <2> QED
    BY <2>1, <2>2, ScopeOpened
<1>4. ASSUME NEW d \in Declarations, CallTool(d) PROVE Nested'
  <2>1. /\ "tool" \in Scope /\ d \in SUBSET Cap /\ Open("tool", NoModule, d)
        /\ savedTool' = Append(savedTool, granted) /\ saved' = saved
        /\ granted' = ToolGrants(d)
    BY <1>4, InterpreterAssumption DEF CallTool, Scope
  <2>2. \A c \in Cap : Allows(granted', c) => Allows(granted, c) /\ Allows(d, c)
    BY <1>a, <2>1, ToolGrantsLess
  <2> QED
    BY <2>1, <2>2, ScopeOpened
<1>5. ASSUME LeaveSandbox PROVE Nested'
  <2>1. /\ frames # <<>> /\ Last(frames).kind = "sandbox" /\ frames' = Front(frames)
        /\ saved # <<>> /\ granted' = Last(saved) /\ saved' = Front(saved)
        /\ savedTool' = savedTool
    BY <1>5, StacksAreNotEmpty DEF LeaveSandbox, Ended, Inside, Close
  <2> QED
    BY <2>1, ScopeClosed DEF Scope
<1>6. ASSUME LeaveTool PROVE Nested'
  <2>1. /\ frames # <<>> /\ Last(frames).kind = "tool" /\ frames' = Front(frames)
        /\ savedTool # <<>> /\ granted' = Last(savedTool) /\ savedTool' = Front(savedTool)
        /\ saved' = saved
    BY <1>6, StacksAreNotEmpty DEF LeaveTool, Ended, Inside, Close
  <2> QED
    BY <2>1, ScopeClosed DEF Scope
<1>7. ASSUME EndOfRequest \/ Panic PROVE Nested'
  BY <1>1, <1>7 DEF EndOfRequest, AtEnd, Panic
<1>8. ASSUME ~Scoping PROVE Nested'
  BY <1>8, OtherSteps, NestedKept
<1> QED
  BY <1>2, <1>3, <1>4, <1>5, <1>6, <1>7, <1>8 DEF Scoping

LEMMA NestedHolds == Spec => []Nested
<1>1. Init => Nested
  BY NothingNested DEF Init, Nested
<1>2. Inv /\ Nested /\ [Next]_vars => Nested'
  BY NestedStep
<1> QED
  BY <1>1, <1>2, InvHolds, PTL DEF Spec

(* In a sandbox nothing is allowed, through any number of calls, modules,  *)
(* tools and other sandboxes opened, failed or recovered in it.            *)
THEOREM SandboxesIsolate == Spec => []SandboxIsolates
<1>1. Inv /\ Nested => SandboxIsolates
  <2> SUFFICES ASSUME Inv, Nested, NEW i \in Positions({"sandbox"}) PROVE granted = {}
    BY DEF SandboxIsolates
  <2>1. i \in Positions(Scope) /\ granted \subseteq Cap
    BY ScopePositions DEF Inv, TypeOK
  <2>2. \A c \in Cap : ~Allows(granted, c)
    BY <2>1 DEF Nested, Bounded, Allows
  <2>3. \A c \in granted : Allows(granted, c)
    BY <2>1, CoversIsPartial DEF Allows
  <2> QED
    BY <2>1, <2>2, <2>3
<1> QED
  BY <1>1, InvHolds, NestedHolds, PTL

(* A tool, with all that it calls, is allowed only what it declared.       *)
THEOREM ToolsHaveLeastPrivilege == Spec => []ToolLeastPrivilege
<1>1. Inv /\ Nested => ToolLeastPrivilege
  BY ScopePositions DEF Inv, Nested, Bounded, ToolLeastPrivilege
<1> QED
  BY <1>1, InvHolds, NestedHolds, PTL

-----------------------------------------------------------------------------
(* The stack of the monitor: how many scopes are open, and that each       *)
(* height is that of one of them.                                          *)

Ranked == \A n \in 1..ScopesOpen : \E i \in Positions(Scope) : Rank(i) = n

LEMMA RankFacts ==
    ASSUME TypeOK, NEW i \in Positions(Scope)
    PROVE  /\ Rank(i) \in 1..ScopesOpen
           /\ i < Len(frames) /\ Len(frames) \in Positions(Scope) => Rank(i) < ScopesOpen
           /\ i = Len(frames) => Rank(i) = ScopesOpen
<1>1. Positions(Scope) \subseteq 1..Len(frames) /\ Len(frames) \in Nat
  BY AtIsFinite DEF TypeOK, Positions
<1>2. PICK n \in Nat : n = Len(frames)
  BY <1>1
<1>3. PICK P \in SUBSET (1..n) : P = Positions(Scope)
  BY <1>1, <1>2
<1>4. PICK B \in SUBSET P : B = {j \in P : j <= i}
  OBVIOUS
<1>5. Rank(i) = Cardinality(B) /\ ScopesOpen = Cardinality(P)
  BY <1>3, <1>4 DEF Rank, ScopesOpen
<1>6. i \in P /\ \A j \in P : j \in B <=> j <= i
  BY <1>3, <1>4
<1>a. n \in Nat /\ P \in SUBSET (1..n) /\ B \in SUBSET P
  BY <1>2, <1>3, <1>4
<1>7. /\ Cardinality(B) \in 1..Cardinality(P)
      /\ i < n /\ n \in P => Cardinality(B) < Cardinality(P)
      /\ i = n => Cardinality(B) = Cardinality(P)
  BY <1>6, <1>a, CountUpTo, ZenonT(60)
<1> QED
  BY <1>2, <1>3, <1>5, <1>7

LEMMA BeforeIsSet ==
    ASSUME Inv, NEW i \in Positions(Scope)
    PROVE  Before(i) \in SUBSET Cap
<1>k. PICK k \in Scope : k = frames[i].kind /\ i \in Positions({k})
  BY ScopePositions DEF Inv
<1>1. Below(i, k) \in 1..Cardinality(Positions({k}))
  BY <1>k, BelowFacts
<1>2. saved \in Seq(SUBSET Cap) /\ savedTool \in Seq(SUBSET Cap)
  BY DEF Inv, TypeOK
<1>3. ASSUME k = "sandbox" PROVE Before(i) \in SUBSET Cap
  <2>1. Below(i, "sandbox") \in 1..Len(saved)
    BY <1>1, <1>3 DEF Inv, Balanced
  <2>2. saved[Below(i, "sandbox")] \in SUBSET Cap
    BY <1>2, <2>1, ElementOfSeq
  <2> QED
    BY <1>k, <1>3, <2>2 DEF Before
<1>4. ASSUME k = "tool" PROVE Before(i) \in SUBSET Cap
  <2>1. Below(i, "tool") \in 1..Len(savedTool)
    BY <1>1, <1>4 DEF Inv, Balanced
  <2>2. savedTool[Below(i, "tool")] \in SUBSET Cap
    BY <1>2, <2>1, ElementOfSeq
  <2> QED
    BY <1>k, <1>4, <2>2 DEF Before
<1> QED
  BY <1>3, <1>4 DEF Scope

LEMMA OpenScopeIs ==
    ASSUME Ranked, NEW n \in 1..ScopesOpen
    PROVE  OpenScope(n) \in Positions(Scope) /\ Rank(OpenScope(n)) = n
<1>1. \E i \in {j \in Positions(Scope) : Rank(j) = n} : TRUE
  BY DEF Ranked
<1> QED
  BY <1>1 DEF OpenScope

(* The stack holds what is to be brought back, then what is granted.       *)
Stacked ==
    /\ ScopeSets \in Seq(SUBSET Cap) /\ Len(ScopeSets) = ScopesOpen + 1
    /\ ScopesOpen \in Nat
    /\ \A n \in 1..ScopesOpen, i \in Positions(Scope) :
           i = OpenScope(n) => ScopeSets[n] = Before(i)
    /\ ScopeSets[ScopesOpen + 1] = granted

LEMMA StackIs == Inv /\ Ranked => Stacked
<1> SUFFICES ASSUME Inv, Ranked PROVE Stacked
  OBVIOUS
<1>1. ScopesOpen \in Nat
  BY CountsAreNat DEF ScopesOpen, Inv
<1>2. PICK N \in Nat : N = ScopesOpen
  BY <1>1
<1>3. \A n \in 1..N : Before(OpenScope(n)) \in SUBSET Cap
  BY <1>2, OpenScopeIs, BeforeIsSet
<1>4. granted \in SUBSET Cap
  BY DEF Inv, TypeOK
<1>5. ScopeSets = [n \in 1..(N + 1) |-> IF n <= N THEN Before(OpenScope(n)) ELSE granted]
  BY <1>2 DEF ScopeSets
<1>6. ScopeSets \in [1..(N + 1) -> SUBSET Cap]
  BY <1>3, <1>4, <1>5
<1>7. ScopeSets \in Seq(SUBSET Cap) /\ Len(ScopeSets) = N + 1
  BY <1>6
<1>8. /\ \A n \in 1..N : ScopeSets[n] = Before(OpenScope(n))
      /\ ScopeSets[N + 1] = granted
  BY <1>5
<1> QED
  BY <1>2, <1>7, <1>8 DEF Stacked

LEMMA StackIsNext == ASSUME Inv', Ranked' PROVE Stacked'
<1>1. (Inv /\ Ranked => Stacked)'
  BY StackIs, PTL
<1> QED
  BY <1>1

(* A step that leaves the scopes alone leaves the stack alone but for what *)
(* is granted.                                                             *)
LEMMA ScopesKept ==
    ASSUME Inv, Inv', Ranked, Positions(Scope)' = Positions(Scope),
           \A i \in Positions(Scope) : Before(i)' = Before(i)
    PROVE  /\ Ranked' /\ ScopesOpen' = ScopesOpen
           /\ \A n \in 1..ScopesOpen : ScopeSets'[n] = ScopeSets[n]
<1>1. \A i : Rank(i)' = Rank(i)
  BY DEF Rank
<1>2. ScopesOpen' = ScopesOpen
  BY DEF ScopesOpen
<1>3. Ranked'
  BY <1>1, <1>2 DEF Ranked
<1>4. ASSUME NEW n \in 1..ScopesOpen PROVE ScopeSets'[n] = ScopeSets[n]
  <2>1. {j \in Positions(Scope)' : Rank(j)' = n} = {j \in Positions(Scope) : Rank(j) = n}
    BY <1>1
  <2>2. OpenScope(n)' = OpenScope(n)
    BY <2>1 DEF OpenScope
  <2>i. PICK i \in Positions(Scope) : i = OpenScope(n)
    BY OpenScopeIs
  <2>3. ScopeSets[n] = Before(i)
    BY <2>i, StackIs DEF Stacked
  <2>4. ScopeSets'[n] = Before(i)'
    <3>1. Stacked'
      BY <1>3, StackIsNext
    <3>2. n \in 1..ScopesOpen' /\ i \in Positions(Scope)' /\ i = OpenScope(n)'
      BY <1>2, <2>2, <2>i
    <3> QED
      BY <3>1, <3>2 DEF Stacked
  <2> QED
    BY <2>3, <2>4, <2>i
<1> QED
  BY <1>2, <1>3, <1>4

LEMMA StackKept ==
    ASSUME Inv, Inv', Ranked, Alone
    PROVE  /\ Ranked'
           /\ granted' = granted => ScopeSets' = ScopeSets
           /\ ScopesOpen = 0 => ScopeSets = <<granted>> /\ ScopeSets' = <<granted'>>
<1>1. /\ Ranked' /\ ScopesOpen' = ScopesOpen
      /\ \A n \in 1..ScopesOpen : ScopeSets'[n] = ScopeSets[n]
  BY AloneKeeps, ScopesKept DEF Alone
<1>2. Stacked /\ Stacked'
  BY <1>1, StackIs, StackIsNext
<1>s. PICK s \in Seq(SUBSET Cap) : s = ScopeSets
  BY <1>2 DEF Stacked
<1>t. PICK t \in Seq(SUBSET Cap) : t = ScopeSets'
  BY <1>2 DEF Stacked
<1>n. PICK n \in Nat : n = ScopesOpen
  BY <1>2 DEF Stacked
<1>3. /\ Len(s) = n + 1 /\ Len(t) = n + 1 /\ \A m \in 1..n : t[m] = s[m]
      /\ s[n + 1] = granted /\ t[n + 1] = granted'
  BY <1>1, <1>2, <1>s, <1>t, <1>n DEF Stacked
<1>4. ASSUME granted' = granted PROVE t = s
  <2>1. \A m \in 1..Len(t) : t[m] = s[m]
    BY <1>3, <1>4
  <2> QED
    BY <1>3, <2>1, SeqEqual
<1>5. ASSUME n = 0 PROVE s = <<granted>> /\ t = <<granted'>>
  BY <1>3, <1>5
<1> QED
  BY <1>1, <1>4, <1>5, <1>s, <1>t, <1>n

LEMMA NoScopeStack ==
    ASSUME Inv', frames' = <<>>
    PROVE  Ranked' /\ ScopeSets' = <<granted'>>
<1>1. Positions(Scope)' = {} /\ ScopesOpen' = 0
  BY AtEmpty DEF Positions, ScopesOpen
<1>2. Ranked'
  BY <1>1 DEF Ranked
<1>3. Stacked'
  BY <1>2, StackIsNext
<1> QED
  BY <1>1, <1>2, <1>3 DEF Stacked

LEMMA StackOpened ==
    ASSUME Inv, Inv', Ranked, NEW kind \in Scope, NEW d \in SUBSET Cap,
           Open(kind, NoModule, d),
           kind = "sandbox" => saved' = Append(saved, granted) /\ savedTool' = savedTool,
           kind = "tool" => savedTool' = Append(savedTool, granted) /\ saved' = saved
    PROVE  Ranked' /\ ScopeSets' = Append(ScopeSets, granted')
<1>a. TypeOK /\ kind \in Blocks \cup Calls /\ NoModule \in Modules \cup {NoModule}
  BY DEF Inv, Scope, Blocks, Calls
<1>n. PICK n \in Nat : n = Len(frames) + 1
  BY <1>a DEF TypeOK
<1>k. PICK k \in Nat : k = ScopesOpen
  BY <1>a, CountsAreNat DEF ScopesOpen
<1>1a. /\ Positions(Scope)' = Positions(Scope) \cup {Len(frames) + 1}
       /\ Cardinality(Positions(Scope)') = Cardinality(Positions(Scope)) + 1
  BY <1>a, OpenFacts
<1>1b. Positions(Scope) \subseteq 1..Len(frames) /\ Len(frames) \in Nat
  BY <1>a, OpenFacts
<1>1. /\ Positions(Scope)' = Positions(Scope) \cup {n} /\ ScopesOpen' = k + 1
      /\ \A i \in Positions(Scope) : i \in Nat /\ i < n
  BY <1>1a, <1>1b, <1>n, <1>k DEF ScopesOpen
<1>2. ASSUME NEW i \in Positions(Scope) PROVE Rank(i)' = Rank(i) /\ Rank(i) \in 1..k
  <2>1. {j \in Positions(Scope)' : j <= i} = {j \in Positions(Scope) : j <= i}
    BY <1>1
  <2> QED
    BY <1>a, <1>k, <2>1, RankFacts DEF Rank
<1>3. Rank(n)' = k + 1
  <2>1. {j \in Positions(Scope)' : j <= n} = Positions(Scope)'
    BY <1>1
  <2> QED
    BY <1>1, <2>1 DEF Rank, ScopesOpen
<1>4. Ranked'
  <2>1. ASSUME NEW m \in 1..(k + 1) PROVE \E i \in Positions(Scope)' : Rank(i)' = m
    <3>1. CASE m = k + 1
      BY <1>1, <1>3, <3>1
    <3>2. CASE m \in 1..k
      BY <1>1, <1>2, <1>k, <3>2 DEF Ranked
    <3> QED
      BY <3>1, <3>2
  <2> QED
    BY <1>1, <2>1 DEF Ranked
<1>5. Stacked /\ Stacked'
  BY <1>4, StackIs, StackIsNext
<1>6. ASSUME NEW m \in 1..k PROVE ScopeSets'[m] = ScopeSets[m]
  <2>1. {j \in Positions(Scope)' : Rank(j)' = m} = {j \in Positions(Scope) : Rank(j) = m}
    <3>1. \A j \in Positions(Scope) \cup {n} :
             (Rank(j)' = m <=> j \in Positions(Scope) /\ Rank(j) = m)
      BY <1>1, <1>2, <1>3
    <3> QED
      BY <1>1, <3>1
  <2>2. OpenScope(m)' = OpenScope(m)
    BY <2>1 DEF OpenScope
  <2>i. PICK i \in Positions(Scope) : i = OpenScope(m)
    BY <1>k, OpenScopeIs
  <2>3. ScopeSets[m] = Before(i)
    BY <1>5, <1>k, <2>i DEF Stacked
  <2>4. m \in 1..ScopesOpen' /\ i \in Positions(Scope)' /\ i = OpenScope(m)'
    BY <1>1, <2>2, <2>i
  <2>5. ScopeSets'[m] = Before(i)'
    BY <1>5, <2>4 DEF Stacked
  <2>6. Before(i)' = Before(i)
    BY <1>n, OpenedBefore
  <2> QED
    BY <2>3, <2>5, <2>6
<1>7. ScopeSets'[k + 1] = granted
  <2>m. PICK m \in Nat : m = k + 1
    BY <1>k
  <2>1. {j \in Positions(Scope)' : Rank(j)' = m} = {n}
    BY <1>1, <1>2, <1>3, <2>m
  <2>2. OpenScope(m)' = n
    BY <2>1 DEF OpenScope
  <2>3. m \in 1..ScopesOpen' /\ n \in Positions(Scope)'
    BY <1>1, <2>m
  <2>4. ScopeSets'[m] = Before(n)'
    BY <1>5, <2>2, <2>3 DEF Stacked
  <2>5. Before(n)' = granted
    BY <1>n, OpenedBefore
  <2> QED
    BY <2>4, <2>5, <2>m
<1>s. PICK s \in Seq(SUBSET Cap) : s = ScopeSets
  BY <1>5 DEF Stacked
<1>t. PICK t \in Seq(SUBSET Cap) : t = ScopeSets'
  BY <1>5 DEF Stacked
<1>g. PICK g \in SUBSET Cap : g = granted'
  BY DEF Inv, TypeOK
<1>8. /\ Len(s) = k + 1 /\ Len(t) = k + 2 /\ \A m \in 1..k : t[m] = s[m]
      /\ s[k + 1] = granted /\ t[k + 1] = granted /\ t[k + 2] = g
  BY <1>1, <1>5, <1>6, <1>7, <1>s, <1>t, <1>g, <1>k DEF Stacked
<1>9. /\ Append(s, g) \in Seq(SUBSET Cap) /\ Len(Append(s, g)) = k + 2
      /\ \A m \in 1..(k + 1) : Append(s, g)[m] = s[m]
      /\ Append(s, g)[k + 2] = g
  BY <1>8, AppendFacts
<1>10. \A m \in 1..Len(t) : t[m] = Append(s, g)[m]
  BY <1>8, <1>9
<1>11. t = Append(s, g)
  BY <1>8, <1>9, <1>10, SeqEqual
<1> QED
  BY <1>4, <1>11, <1>s, <1>t, <1>g

LEMMA StackClosed ==
    ASSUME Inv, Inv', Ranked, NEW kind \in Scope, frames # <<>>, Last(frames).kind = kind,
           frames' = Front(frames),
           kind = "sandbox" => /\ saved # <<>> /\ granted' = Last(saved)
                               /\ saved' = Front(saved) /\ savedTool' = savedTool,
           kind = "tool" => /\ savedTool # <<>> /\ granted' = Last(savedTool)
                            /\ savedTool' = Front(savedTool) /\ saved' = saved
    PROVE  /\ Ranked' /\ ScopeSets \in Seq(SUBSET Cap) /\ Len(ScopeSets) > 1
           /\ ScopeSets' = Front(ScopeSets)
<1>a. TypeOK
  BY DEF Inv
<1>n. PICK n \in Nat : n = Len(frames)
  BY <1>a DEF TypeOK
<1>k. PICK k \in Nat : k = ScopesOpen
  BY <1>a, CountsAreNat DEF ScopesOpen
<1>1. /\ Positions(Scope)' = Positions(Scope) \ {n} /\ ScopesOpen' = k - 1
      /\ n \in Positions(Scope)
      /\ \A i \in Positions(Scope) : i \in Nat /\ i <= n
  BY <1>a, <1>n, <1>k, CloseFacts DEF ScopesOpen
<1>2. Rank(n) = k /\ k \in 1..k
  BY <1>a, <1>n, <1>k, <1>1, RankFacts
<1>3. ASSUME NEW i \in Positions(Scope), i # n
      PROVE  Rank(i)' = Rank(i) /\ Rank(i) \in 1..(k - 1)
  <2>0. i \in Nat /\ i < n
    BY <1>1, <1>3
  <2>1. {j \in Positions(Scope)' : j <= i} = {j \in Positions(Scope) : j <= i}
    BY <1>1, <2>0
  <2>2. Rank(i) \in 1..k /\ Rank(i) < k
    BY <1>a, <1>n, <1>k, <1>1, <2>0, RankFacts
  <2>3. Rank(i)' = Rank(i)
    BY <2>1 DEF Rank
  <2> QED
    BY <1>k, <2>2, <2>3
<1>4. Ranked'
  <2>1. ASSUME NEW m \in 1..(k - 1) PROVE \E i \in Positions(Scope)' : Rank(i)' = m
    <3>i. PICK i \in Positions(Scope) : Rank(i) = m
      BY <1>k DEF Ranked
    <3> QED
      BY <1>1, <1>2, <1>3, <3>i
  <2> QED
    BY <1>1, <2>1 DEF Ranked
<1>5. Stacked /\ Stacked'
  BY <1>4, StackIs, StackIsNext
<1>6. ASSUME NEW m \in 1..(k - 1) PROVE ScopeSets'[m] = ScopeSets[m]
  <2>1. {j \in Positions(Scope)' : Rank(j)' = m} = {j \in Positions(Scope) : Rank(j) = m}
    <3>1. \A j \in Positions(Scope) :
             (Rank(j) = m <=> j \in Positions(Scope)' /\ Rank(j)' = m)
      BY <1>1, <1>2, <1>3
    <3> QED
      BY <1>1, <3>1
  <2>2. OpenScope(m)' = OpenScope(m)
    BY <2>1 DEF OpenScope
  <2>i. PICK i \in Positions(Scope) : i = OpenScope(m) /\ Rank(i) = m
    BY <1>k, OpenScopeIs
  <2>3. ScopeSets[m] = Before(i)
    BY <1>5, <1>k, <2>i DEF Stacked
  <2>4. m \in 1..ScopesOpen' /\ i \in Positions(Scope)' /\ i = OpenScope(m)'
    BY <1>1, <1>2, <2>2, <2>i
  <2>5. ScopeSets'[m] = Before(i)'
    BY <1>5, <2>4 DEF Stacked
  <2>6. Before(i)' = Before(i)
    BY <2>4, ClosedBefore
  <2> QED
    BY <2>3, <2>5, <2>6
<1>7. ScopeSets[k] = granted'
  <2>1. {j \in Positions(Scope) : Rank(j) = k} = {n}
    <3>1. \A j \in Positions(Scope) : j # n => Rank(j) # k
      BY <1>3, <1>k
    <3> QED
      BY <1>1, <1>2, <3>1
  <2>2. OpenScope(k) = n
    BY <2>1 DEF OpenScope
  <2>3. ScopeSets[k] = Before(n)
    BY <1>1, <1>2, <1>5, <1>k, <2>2 DEF Stacked
  <2>4. granted' = Before(n)
    BY <1>n, ClosedBefore
  <2> QED
    BY <2>3, <2>4
<1>s. PICK s \in Seq(SUBSET Cap) : s = ScopeSets
  BY <1>5 DEF Stacked
<1>t. PICK t \in Seq(SUBSET Cap) : t = ScopeSets'
  BY <1>5 DEF Stacked
<1>8. /\ Len(s) = k + 1 /\ Len(t) = k /\ \A m \in 1..(k - 1) : t[m] = s[m]
      /\ s[k] = granted' /\ t[k] = granted' /\ k >= 1
  BY <1>1, <1>2, <1>5, <1>6, <1>7, <1>s, <1>t, <1>k DEF Stacked
<1>9. /\ Front(s) \in Seq(SUBSET Cap) /\ Len(Front(s)) = k
      /\ \A m \in 1..k : Front(s)[m] = s[m]
  <2>1. s # <<>> /\ Len(s) - 1 = k
    BY <1>8
  <2> QED
    BY <2>1, FrontFacts
<1>10. \A m \in 1..Len(t) : t[m] = Front(s)[m]
  BY <1>8, <1>9
<1>11. t = Front(s)
  BY <1>8, <1>9, <1>10, SeqEqual
<1> QED
  BY <1>4, <1>8, <1>11, <1>s, <1>t

-----------------------------------------------------------------------------
(* The steps of the interpreter are those of the monitor.                  *)

LEMMA MonitorWords ==
    /\ Monitor!Cap = Cap
    /\ \A set, c : Monitor!Allows(set, c) <=> Allows(set, c)
    /\ \A set, c : Monitor!Within(set, c) <=> Within(set, c)
    /\ \A s : Monitor!Last(s) = Last(s) /\ Monitor!Front(s) = Front(s)
<1>1. Monitor!Cap = Cap
  BY DEF Cap, Monitor!Cap
<1>2. \A c, d : Monitor!Covers(c, d) <=> Covers(c, d)
  BY DEF Monitor!Covers, Covers, Monitor!TypeCovers, TypeCovers, Monitor!ScopeCovers,
         ScopeCovers
<1>3. \A set, c : Monitor!Allows(set, c) <=> Allows(set, c)
  BY <1>2 DEF Monitor!Allows, Allows
<1>4. \A set, c : Monitor!Within(set, c) <=> Within(set, c)
  BY <1>3 DEF Monitor!Within, Within
<1>5. \A s : Monitor!Last(s) = Last(s) /\ Monitor!Front(s) = Front(s)
  BY DEF Monitor!Last, Last, Monitor!Front, Front
<1> QED
  BY <1>1, <1>3, <1>4, <1>5

LEMMA HostKept == ASSUME [Next]_vars PROVE UNCHANGED <<ceiling, base>>
<1>1. CASE Statement
  BY <1>1 DEF Statement, Require, Emit, Raise, Stop, Give, EndOfBlock, Signalled, host
<1>2. CASE Enter
  BY <1>2 DEF Enter, EnterBlock, Call, CallTool, Import, EnterSandbox, TooDeep,
              CircularImport, Open, Signalled, host
<1>3. CASE Leave
  BY <1>3 DEF Leave, NextTurn, LeaveBlock, TooManyTurns, Recover, LeaveSandbox, LeaveCall,
              LeaveTool, LeaveModule, Close, Signalled, host
<1>4. CASE Unit
  BY <1>4 DEF Unit, EndOfProgram, EndOfSetup, StartTest, EndOfTest, EndOfTests, Phase,
              StartRequest, EndOfRequest, Panic, host
<1>5. CASE UNCHANGED vars
  BY <1>5 DEF vars
<1> QED
  BY <1>1, <1>2, <1>3, <1>4, <1>5 DEF Next, Terminated

Monitored == Monitor!MonitorNext \/ UNCHANGED <<ScopeSets, ceiling, base>>

LEMMA MonitorStep ==
    ASSUME Inv, Inv', Ranked, [Next]_vars
    PROVE  Ranked' /\ Monitored
<1>h. UNCHANGED <<ceiling, base>>
  BY HostKept
<1>s. Stacked
  BY StackIs
<1>1. ASSUME ~Scoping PROVE Ranked' /\ Monitored
  BY <1>h, <1>1, OtherSteps, StackKept DEF Monitored
<1>2. ASSUME NEW c \in Requirable, Require(c) PROVE Ranked' /\ Monitored
  <2>1. Alone
    BY <1>2, RequireIsAlone
  <2>2. CASE granted' = granted
    BY <1>h, <2>1, <2>2, StackKept DEF Monitored
  <2>3. CASE granted' # granted
    <3>1. Grantable /\ Within(ceiling, c) /\ granted' = granted \cup {c}
      BY <1>2, <2>3 DEF Require, Grant
    <3>2. Ranked' /\ ScopeSets = <<granted>> /\ ScopeSets' = <<granted \cup {c}>>
      BY <2>1, <3>1, GrantableIsAlone, StackKept
    <3>3. c \in Monitor!Cap /\ Monitor!Within(ceiling, c)
      BY <3>1, MonitorWords, InterpreterAssumption
    <3>4. Monitor!Require(c)
      BY <3>2, <3>3 DEF Monitor!Require
    <3> QED
      BY <1>h, <3>2, <3>3, <3>4 DEF Monitored, Monitor!MonitorNext
  <2> QED
    BY <2>2, <2>3
<1>l. Last(ScopeSets) = granted
  BY <1>s DEF Stacked, Last
<1>3. ASSUME NEW set \in SUBSET Cap, \A c \in set : Allows(granted, c), Ranked',
             ScopeSets' = Append(ScopeSets, set)
      PROVE  Monitored
  <2>1. Monitor!Enter(set)
    BY <1>3, <1>l, MonitorWords DEF Monitor!Enter
  <2>2. set \in SUBSET Monitor!Cap
    BY MonitorWords
  <2> QED
    BY <1>h, <2>1, <2>2 DEF Monitored, Monitor!MonitorNext
<1>4. ASSUME EnterSandbox PROVE Ranked' /\ Monitored
  <2>1. /\ "sandbox" \in Scope /\ {} \in SUBSET Cap /\ Open("sandbox", NoModule, {})
        /\ saved' = Append(saved, granted) /\ savedTool' = savedTool /\ granted' = {}
    BY <1>4 DEF EnterSandbox, Scope
  <2>2. Ranked' /\ ScopeSets' = Append(ScopeSets, {})
    BY <2>1, StackOpened
  <2> QED
    BY <1>3, <2>1, <2>2
<1>5. ASSUME NEW d \in Declarations, CallTool(d) PROVE Ranked' /\ Monitored
  <2>1. /\ "tool" \in Scope /\ d \in SUBSET Cap /\ Open("tool", NoModule, d)
        /\ savedTool' = Append(savedTool, granted) /\ saved' = saved
        /\ granted' = ToolGrants(d)
    BY <1>5, InterpreterAssumption DEF CallTool, Scope
  <2>2. ToolGrants(d) \in SUBSET Cap /\ \A c \in ToolGrants(d) : Allows(granted, c)
    BY <2>1 DEF ToolGrants, Check
  <2>3. Ranked' /\ ScopeSets' = Append(ScopeSets, ToolGrants(d))
    BY <2>1, StackOpened
  <2> QED
    BY <1>3, <2>2, <2>3
<1>6. ASSUME Len(ScopeSets) > 1, ScopeSets' = Front(ScopeSets) PROVE Monitored
  <2>1. Monitor!Leave
    BY <1>6, MonitorWords DEF Monitor!Leave
  <2> QED
    BY <1>h, <2>1 DEF Monitored, Monitor!MonitorNext
<1>7. ASSUME LeaveSandbox PROVE Ranked' /\ Monitored
  <2>1. /\ frames # <<>> /\ Last(frames).kind = "sandbox" /\ frames' = Front(frames)
        /\ saved # <<>> /\ granted' = Last(saved) /\ saved' = Front(saved)
        /\ savedTool' = savedTool
    BY <1>7, StacksAreNotEmpty DEF LeaveSandbox, Ended, Inside, Close
  <2> QED
    BY <1>6, <2>1, StackClosed DEF Scope
<1>8. ASSUME LeaveTool PROVE Ranked' /\ Monitored
  <2>1. /\ frames # <<>> /\ Last(frames).kind = "tool" /\ frames' = Front(frames)
        /\ savedTool # <<>> /\ granted' = Last(savedTool) /\ savedTool' = Front(savedTool)
        /\ saved' = saved
    BY <1>8, StacksAreNotEmpty DEF LeaveTool, Ended, Inside, Close
  <2> QED
    BY <1>6, <2>1, StackClosed DEF Scope
<1>9. ASSUME EndOfRequest \/ Panic PROVE Ranked' /\ Monitored
  <2>1. frames' = <<>> /\ granted' = base
    BY <1>9 DEF EndOfRequest, AtEnd, Panic
  <2>2. Ranked' /\ ScopeSets' = <<base>>
    BY <2>1, NoScopeStack
  <2> QED
    BY <1>h, <2>2 DEF Monitored, Monitor!MonitorNext, Monitor!Renew
<1> QED
  BY <1>1, <1>2, <1>4, <1>5, <1>7, <1>8, <1>9 DEF Scoping

(* The interpreter keeps the word of the monitor: whatever is opened,      *)
(* called, imported, recovered or dropped, a scope starts with no more     *)
(* than is allowed around it, what was allowed comes back when it is left, *)
(* and only the outermost set grows, under the ceiling.                    *)
THEOREM ImplementsCapMonitor == Spec => ImplementsMonitor
<1>1. Init => Ranked /\ Monitor!InitMonitor
  <2> SUFFICES ASSUME Init PROVE Ranked /\ Monitor!InitMonitor
    OBVIOUS
  <2>1. Inv /\ Ceiled
    BY InvInit, CeiledInit
  <2>2. Positions(Scope) = {} /\ ScopesOpen = 0
    BY AtEmpty DEF Init, Positions, ScopesOpen
  <2>3. Ranked
    BY <2>2 DEF Ranked
  <2>4. Stacked
    BY <2>1, <2>3, StackIs
  <2>5. ScopeSets = <<granted>>
    BY <2>2, <2>4 DEF Stacked
  <2>6. /\ granted \in SUBSET Cap /\ base \in SUBSET Cap /\ ceiling \in SUBSET Cap
        /\ \A c \in granted : Within(ceiling, c)
        /\ \A c \in base : Within(ceiling, c)
    BY <2>1 DEF Inv, TypeOK, Ceiled, Under
  <2> QED
    BY <2>3, <2>5, <2>6, MonitorWords DEF Monitor!InitMonitor
<1>2. Inv /\ Inv' /\ Ranked /\ [Next]_vars
      => Ranked' /\ [Monitor!MonitorNext]_<<ScopeSets, ceiling, base>>
  BY MonitorStep DEF Monitored
<1> QED
  BY <1>1, <1>2, InvHolds, PTL DEF Spec, ImplementsMonitor, Monitor!MonitorSpec
=============================================================================
