-------------------------- MODULE RenderLoop_proofs --------------------------
(***************************************************************************)
(* Proofs about RenderLoop, for any number of threads, values and changes. *)
(* The types hold in any case.  The other theorems are about threads that  *)
(* take turns (~Concurrent): of two threads that change the KVar at the    *)
(* same time both may find that nothing is being rendered, and each starts *)
(* a loop of its own.  That creators are cleaned up assumes as well that   *)
(* block does not have its own fragment cleaned up (~CleanUpInBlock).      *)
(***************************************************************************)
EXTENDS RenderLoop, SequenceTheorems, TLAPS

(***************************************************************************)
(* The inductive invariant.                                                *)
(***************************************************************************)
\* What has been drawn is what the KVar holds, unless there will be another round,
\* or the fragment is gone.
Fresh(drawn) ==
  ~listening \/ renderState = "RENDERING_WITH_PENDING_CHANGE" \/ drawn = Shown(value)

NobodyCatches == \A u \in Threads : ~catching[u]

\* Between two renderings.  After a round that was abandoned renderState is never
\* NOT_RENDERING again.
Rest == renderState = "NOT_RENDERING" =>
          NobodyCatches /\ (listening => dom = Shown(value))

\* A round of thread t: it owns its batch, and until it ends renderState shows it.
Round(t, c) ==
  /\ c.pc \in LoopPCs
  /\ \A u \in Threads : catching[u] <=> u = t /\ c.pc \notin {"erase", "again"}
  /\ c.pc \notin {"erase", "again"} => c.own
  /\ IF c.pc \in {"get", "draw", "block", "end"}
     THEN renderState # "NOT_RENDERING"
     ELSE renderState # "RENDERING_NO_PENDING_CHANGE"
  /\ c.pc \in {"create", "begin", "get", "draw"} => out[t] = <<>>
  /\ c.pc \in {"begin", "get", "draw"} => previousElementCreator # 0

\* The only call there is: one of the application's, or the loop.
Alone(t, c) ==
  \/ c.pc \in {"assign", "clean", "unlisten"} /\ Rest /\ (c.pc = "assign" => c.old = value)
  \/ c.pc = "notify" /\ (renderState = "NOT_RENDERING" => NobodyCatches)
  \/ c.pc = "mark" /\ renderState # "NOT_RENDERING"
  \/ /\ Round(t, c)
     /\ c.pc \in {"block", "end", "send"} => Fresh(out[t])
     /\ c.pc = "again" => Fresh(dom)

\* The call c that block makes, in the round b.  Once the value has changed, what
\* was drawn is out of date until the listener has marked the change.
InBlock(t, b, c) ==
  /\ b.pc = "block" /\ Round(t, b)
  /\ c.pc \in AssignPCs \cup {"clean", "unlisten"}
  /\ c.pc \notin {"notify", "mark"} => Fresh(out[t])
  /\ c.pc = "assign" => c.old = value

\* Thread t alone may be in a call.
Runs(t) ==
  /\ \A u \in Threads \ {t} : stack[u] = <<>>
  /\ \/ stack[t] = <<>> /\ Rest
     \/ Len(stack[t]) = 1 /\ Alone(t, stack[t][1])
     \/ Len(stack[t]) = 2 /\ InBlock(t, stack[t][1], stack[t][2])

Turns == TypeOK /\ \E t \in Threads : Runs(t)

\* With ~CleanUpInBlock: there is one creator that is not cleaned up, from the time
\* it is made until it is replaced or the fragment is cleaned up, and no round is
\* drawn for a fragment that is gone.
One == live = {previousElementCreator} /\ previousElementCreator # 0
Zero == live = {} /\ previousElementCreator = 0

OthersIdle(t) == \A u \in Threads \ {t} : stack[u] = <<>>
Bottom(t, pcs) == stack[t] # <<>> /\ stack[t][1].pc \in pcs

CreatorsOf(t) ==
  /\ IF listening
     THEN \/ One /\ ~Bottom(t, {"create", "unlisten"})
          \/ Zero /\ Bottom(t, {"erase", "create", "unlisten"})
     ELSE Zero /\ (stack[t] # <<>> => Bottom(t, AssignPCs))
  /\ Len(stack[t]) = 2 => stack[t][2].pc \in AssignPCs
Creators == \A t \in Threads : OthersIdle(t) => CreatorsOf(t)
CInv == Turns /\ Creators

-----------------------------------------------------------------------------
(***************************************************************************)
(* Types, for threads that take turns or not.                              *)
(***************************************************************************)
\* The call on top of a stack of calls, another one in its place, and one on top of it.
LEMMA StackFacts ==
  ASSUME NEW S, NEW s \in Seq(S), NEW c \in S
  PROVE  /\ Len(s) \in Nat /\ (s # <<>> <=> Len(s) > 0)
         /\ Append(s, c) \in Seq(S) /\ Len(Append(s, c)) = Len(s) + 1
         /\ \A i \in 1..Len(s) : Append(s, c)[i] = s[i]
         /\ Append(s, c)[Len(s) + 1] = c
<1>1. Len(s) \in Nat /\ (s # <<>> <=> Len(s) > 0)
  BY EmptySeq
<1>2. Append(s, c) \in Seq(S) /\ Len(Append(s, c)) = Len(s) + 1
  OBVIOUS
<1>3. \A i \in 1..Len(s) : Append(s, c)[i] = s[i]
  OBVIOUS
<1>4. Append(s, c)[Len(s) + 1] = c
  OBVIOUS
<1>5. QED
  BY <1>1, <1>2, <1>3, <1>4

LEMMA TopOfStack ==
  ASSUME NEW S, NEW s \in Seq(S), s # <<>>
  PROVE  /\ Last(s) \in S /\ Last(s) = s[Len(s)] /\ Len(s) \in Nat \ {0}
         /\ Front(s) \in Seq(S) /\ Len(Front(s)) = Len(s) - 1
         /\ \A i \in 1..(Len(s) - 1) : Front(s)[i] = s[i]
<1>1. Len(s) \in Nat \ {0} /\ DOMAIN s = 1..Len(s)
  BY EmptySeq
<1>2. Last(s) \in S /\ Last(s) = s[Len(s)]
  BY <1>1 DEF Last
<1>3. Front(s) = SubSeq(s, 1, Len(s) - 1)
  BY DEF Front
<1>4. SubSeq(s, 1, Len(s) - 1) \in Seq(S) /\ Len(SubSeq(s, 1, Len(s) - 1)) = Len(s) - 1
  BY <1>1
<1>5. \A i \in 1..(Len(s) - 1) : SubSeq(s, 1, Len(s) - 1)[i] = s[i]
  BY <1>1
<1>6. QED
  BY <1>1, <1>2, <1>3, <1>4, <1>5

\* The calls by what they do.
LEMMA CallFacts ==
  ASSUME NEW c \in Calls
  PROVE  /\ c.pc \in AssignPCs \cup LoopPCs \cup {"clean", "unlisten"}
         /\ c.pc \in AssignPCs => /\ c.old \in Values \cup {Null} /\ c.new \in Values \cup {Null}
                                  /\ \A pc \in AssignPCs : [c EXCEPT !.pc = pc] \in Calls
         /\ c.pc \in LoopPCs => /\ c.own \in BOOLEAN
                                /\ \A pc \in LoopPCs : [c EXCEPT !.pc = pc] \in Calls
         /\ c.pc \in {"clean", "unlisten"} =>
              \A pc \in {"clean", "unlisten"} : [c EXCEPT !.pc = pc] \in Calls
<1>1. CASE c \in [pc : AssignPCs, old : Values \cup {Null}, new : Values \cup {Null}]
  BY <1>1 DEF Calls, AssignPCs, LoopPCs
<1>2. CASE c \in [pc : LoopPCs, own : BOOLEAN]
  BY <1>2 DEF Calls, AssignPCs, LoopPCs
<1>3. CASE c \in [pc : {"clean", "unlisten"}]
  BY <1>3 DEF Calls, AssignPCs, LoopPCs
<1>4. QED
  BY <1>1, <1>2, <1>3 DEF Calls

LEMMA NewCalls ==
  /\ \A old, new \in Values \cup {Null} : Assignment(old, new) \in Calls
  /\ \A pc \in LoopPCs : \A own \in BOOLEAN : Loop(pc, own) \in Calls
  /\ CleanUpCall("clean") \in Calls
BY DEF Assignment, Loop, CleanUpCall, Calls, AssignPCs

\* The last call, and the call that takes its place when it goes on.
LEMMA TopFacts ==
  ASSUME TypeOK, NEW t \in Threads, NEW pc, At(t, pc)
  PROVE  Top(t) \in Calls /\ Top(t).pc = pc /\ stack[t] # <<>> /\ stack[t] \in Seq(Calls)
BY TopOfStack DEF TypeOK, Top, At

LEMMA StackTypes ==
  ASSUME TypeOK, NEW t \in Threads
  PROVE  /\ \A c \in Calls : Call(t, c) => stack' \in [Threads -> Seq(Calls)]
         /\ stack[t] # <<>> =>
              /\ \A c \in Calls : Become(t, c) => stack' \in [Threads -> Seq(Calls)]
              /\ Return(t) => stack' \in [Threads -> Seq(Calls)]
<1>1. stack[t] \in Seq(Calls) /\ stack \in [Threads -> Seq(Calls)]
  BY DEF TypeOK
<1>2. ASSUME NEW c \in Calls, Call(t, c)
      PROVE  stack' \in [Threads -> Seq(Calls)]
  BY <1>1, <1>2 DEF Call
<1>3. ASSUME stack[t] # <<>>, NEW c \in Calls, Become(t, c)
      PROVE  stack' \in [Threads -> Seq(Calls)]
  <2>1. Front(stack[t]) \in Seq(Calls)
    BY <1>1, <1>3, TopOfStack
  <2>2. Append(Front(stack[t]), c) \in Seq(Calls)
    BY <2>1
  <2>3. QED
    BY <1>1, <1>3, <2>2 DEF Become
<1>4. ASSUME stack[t] # <<>>, Return(t)
      PROVE  stack' \in [Threads -> Seq(Calls)]
  <2>1. Front(stack[t]) \in Seq(Calls)
    BY <1>1, <1>4, TopOfStack
  <2>2. QED
    BY <1>1, <1>4, <2>1 DEF Return
<1>5. QED
  BY <1>2, <1>3, <1>4

\* Most steps of a call touch no more than the stack and renderState.
LEMMA StepTypes ==
  ASSUME TypeOK, NEW t \in Threads, stack[t] # <<>>, NEW pc, Step(t, pc),
         \/ Top(t).pc \in AssignPCs /\ pc \in AssignPCs
         \/ Top(t).pc \in LoopPCs /\ pc \in LoopPCs
         \/ Top(t).pc \in {"clean", "unlisten"} /\ pc \in {"clean", "unlisten"}
  PROVE  stack' \in [Threads -> Seq(Calls)]
<1>1. Top(t) \in Calls
  BY TopFacts DEF At
<1>2. [Top(t) EXCEPT !.pc = pc] \in Calls
  BY <1>1, CallFacts
<1>3. QED
  BY <1>2, StackTypes DEF Step

LEMMA TypesInit == Init => TypeOK
<1>1. SUFFICES ASSUME Init PROVE TypeOK
  OBVIOUS
<1>2. Loop("erase", FALSE) \in Calls
  BY NewCalls DEF LoopPCs
<1>3. \A c \in Calls : <<c>> \in Seq(Calls)
  OBVIOUS
<1>4. stack \in [Threads -> Seq(Calls)]
  <2>1. <<Loop("erase", FALSE)>> \in Seq(Calls) /\ <<>> \in Seq(Calls)
    BY <1>2, <1>3, EmptySeq
  <2>2. QED
    BY <1>1, <2>1 DEF Init
<1>5. sets \in 0..MaxSets
  BY <1>1, RenderAssumption DEF Init
<1>6. <<>> \in Seq(Values)
  BY EmptySeq
<1>7. out \in [Threads -> Seq(Values)] /\ dom \in Seq(Values) /\ catching \in [Threads -> BOOLEAN]
  BY <1>1, <1>6 DEF Init
<1>8. previousElementCreator \in 0..created /\ created \in Nat /\ live \subseteq 1..created
  BY <1>1 DEF Init
<1>9. QED
  BY <1>1, <1>4, <1>5, <1>7, <1>8 DEF Init, TypeOK

LEMMA TypesAssigning ==
  ASSUME TypeOK, NEW t \in Threads,
         Assign(t) \/ Notify(t) \/ MarkPending(t)
  PROVE  TypeOK'
<1>1. CASE Assign(t)
  <2>1. At(t, "assign")
    BY <1>1 DEF Assign
  <2>2. Top(t) \in Calls /\ Top(t).pc = "assign" /\ stack[t] # <<>>
    BY <2>1, TopFacts
  <2>3. stack' \in [Threads -> Seq(Calls)]
    <3>1. CASE Return(t)
      BY <2>2, <3>1, StackTypes
    <3>2. CASE Step(t, "notify")
      BY <2>2, <3>2, StepTypes DEF AssignPCs
    <3>3. QED
      BY <1>1, <3>1, <3>2 DEF Assign
  <2>4. value' \in Values \cup {Null}
    BY <1>1, <2>2, CallFacts DEF Assign, AssignPCs
  <2>5. QED
    BY <1>1, <2>3, <2>4 DEF Assign, TypeOK, creatorVars, browserVars
<1>2. CASE Notify(t)
  <2>1. At(t, "notify")
    BY <1>2 DEF Notify
  <2>2. Top(t) \in Calls /\ Top(t).pc = "notify" /\ stack[t] # <<>>
    BY <2>1, TopFacts
  <2>3. stack' \in [Threads -> Seq(Calls)]
    <3>1. CASE Return(t)
      BY <2>2, <3>1, StackTypes
    <3>2. CASE Step(t, "mark")
      BY <2>2, <3>2, StepTypes DEF AssignPCs
    <3>3. CASE Become(t, Loop("erase", FALSE))
      <4>1. Loop("erase", FALSE) \in Calls
        BY NewCalls DEF LoopPCs
      <4>2. QED
        BY <2>2, <3>3, <4>1, StackTypes
    <3>4. QED
      BY <1>2, <3>1, <3>2, <3>3 DEF Notify
  <2>4. QED
    BY <1>2, <2>3 DEF Notify, TypeOK, kvarVars, creatorVars, browserVars
<1>3. CASE MarkPending(t)
  <2>1. stack[t] # <<>>
    BY <1>3 DEF MarkPending, At
  <2>2. stack' \in [Threads -> Seq(Calls)]
    BY <1>3, <2>1, StackTypes DEF MarkPending
  <2>3. QED
    BY <1>3, <2>2 DEF MarkPending, TypeOK, kvarVars, creatorVars, browserVars
<1>4. QED
  BY <1>1, <1>2, <1>3

LEMMA TypesRounds ==
  ASSUME TypeOK, NEW t \in Threads,
         \/ EraseBetweenSpans(t) \/ NewElementCreator(t) \/ BeginRound(t)
         \/ GetElementCreator(t) \/ EndRound(t) \/ Again(t)
  PROVE  TypeOK'
<1>1. PICK pc \in LoopPCs : At(t, pc)
  BY DEF EraseBetweenSpans, NewElementCreator, BeginRound, GetElementCreator, EndRound,
         Again, LoopPCs
<1>2. Top(t) \in Calls /\ Top(t).pc \in LoopPCs /\ stack[t] # <<>>
  BY <1>1, TopFacts
<1>3. CASE EraseBetweenSpans(t)
  <2>1. catching[t] \in BOOLEAN /\ catching' \in [Threads -> BOOLEAN]
        /\ out' \in [Threads -> Seq(Values)]
    BY <1>3 DEF EraseBetweenSpans, TypeOK
  <2>2. Loop("create", ~catching[t]) \in Calls
    BY <2>1, NewCalls DEF LoopPCs
  <2>3. stack' \in [Threads -> Seq(Calls)]
    BY <1>2, <1>3, <2>2, StackTypes DEF EraseBetweenSpans
  <2>4. live' \subseteq 1..created' /\ previousElementCreator' \in 0..created' /\ created' \in Nat
    BY <1>3 DEF EraseBetweenSpans, CleanedUp, TypeOK
  <2>5. QED
    BY <1>3, <2>1, <2>3, <2>4 DEF EraseBetweenSpans, TypeOK, kvarVars
<1>4. CASE NewElementCreator(t)
  <2>1. stack' \in [Threads -> Seq(Calls)]
    BY <1>2, <1>4, StepTypes DEF NewElementCreator, LoopPCs
  <2>2. live' \subseteq 1..created' /\ previousElementCreator' \in 0..created' /\ created' \in Nat
    BY <1>4 DEF NewElementCreator, TypeOK
  <2>3. QED
    BY <1>4, <2>1, <2>2 DEF NewElementCreator, TypeOK, kvarVars, browserVars
<1>5. CASE BeginRound(t)
  <2>1. stack' \in [Threads -> Seq(Calls)]
    BY <1>2, <1>5, StepTypes DEF BeginRound, LoopPCs
  <2>2. QED
    BY <1>5, <2>1 DEF BeginRound, DuringRound, TypeOK, kvarVars, creatorVars, browserVars
<1>6. CASE GetElementCreator(t)
  <2>1. stack' \in [Threads -> Seq(Calls)]
    BY <1>2, <1>6, StepTypes DEF GetElementCreator, LoopPCs
  <2>2. QED
    BY <1>6, <2>1 DEF GetElementCreator, TypeOK, kvarVars, creatorVars, browserVars
<1>7. CASE EndRound(t)
  <2>1. stack' \in [Threads -> Seq(Calls)]
    BY <1>2, <1>7, StepTypes DEF EndRound, LoopPCs
  <2>2. QED
    BY <1>7, <2>1 DEF EndRound, AfterRound, TypeOK, kvarVars, creatorVars, browserVars
<1>8. CASE Again(t)
  <2>1. Loop("erase", FALSE) \in Calls
    BY NewCalls DEF LoopPCs
  <2>2. stack' \in [Threads -> Seq(Calls)]
    BY <1>2, <1>8, <2>1, StackTypes DEF Again
  <2>3. mounted' \in BOOLEAN
    BY <1>8 DEF Again, TypeOK
  <2>4. QED
    BY <1>8, <2>2, <2>3 DEF Again, TypeOK, kvarVars, creatorVars, browserVars
<1>9. QED
  BY <1>3, <1>4, <1>5, <1>6, <1>7, <1>8

LEMMA TypesDrawing ==
  ASSUME TypeOK, NEW t \in Threads,
         Draw(t) \/ BlockThrows(t) \/ BlockReturns(t) \/ SendBatch(t)
  PROVE  TypeOK'
<1>1. PICK pc \in LoopPCs : At(t, pc)
  BY DEF Draw, BlockThrows, BlockReturns, SendBatch, LoopPCs
<1>2. Top(t) \in Calls /\ Top(t).pc \in LoopPCs /\ stack[t] # <<>>
  BY <1>1, TopFacts
<1>3. CASE Draw(t)
  <2>1. stack' \in [Threads -> Seq(Calls)]
    <3>1. CASE Step(t, "end")
      BY <1>2, <3>1, StepTypes DEF LoopPCs
    <3>2. CASE Step(t, "block")
      BY <1>2, <3>2, StepTypes DEF LoopPCs
    <3>3. QED
      BY <1>3, <3>1, <3>2 DEF Draw
  <2>2. out' \in [Threads -> Seq(Values)]
    <3>1. CASE Skips(value)
      BY <1>3, <3>1 DEF Draw, TypeOK
    <3>2. CASE ~Skips(value)
      <4>1. value \in Values /\ out[t] \in Seq(Values)
        BY <3>2 DEF Skips, TypeOK
      <4>2. Append(out[t], value) \in Seq(Values)
        BY <4>1
      <4>3. QED
        BY <1>3, <3>2, <4>2 DEF Draw, TypeOK
    <3>3. QED
      BY <3>1, <3>2
  <2>3. QED
    BY <1>3, <2>1, <2>2 DEF Draw, TypeOK, kvarVars, creatorVars
<1>4. CASE BlockThrows(t)
  <2>1. stack' \in [Threads -> Seq(Calls)]
    BY <1>2, <1>4, StackTypes DEF BlockThrows
  <2>2. QED
    BY <1>4, <2>1 DEF BlockThrows, TypeOK, kvarVars, creatorVars, browserVars
<1>5. CASE BlockReturns(t)
  <2>1. stack' \in [Threads -> Seq(Calls)]
    BY <1>2, <1>5, StepTypes DEF BlockReturns, LoopPCs
  <2>2. QED
    BY <1>5, <2>1 DEF BlockReturns, TypeOK, kvarVars, creatorVars, browserVars
<1>6. CASE SendBatch(t)
  <2>1. stack' \in [Threads -> Seq(Calls)]
    BY <1>2, <1>6, StepTypes DEF SendBatch, LoopPCs
  <2>2. dom' \in Seq(Values) /\ catching' \in [Threads -> BOOLEAN]
    BY <1>6 DEF SendBatch, TypeOK
  <2>3. QED
    BY <1>6, <2>1, <2>2 DEF SendBatch, TypeOK, kvarVars, creatorVars
<1>7. QED
  BY <1>3, <1>4, <1>5, <1>6

LEMMA TypesCleaningUp ==
  ASSUME TypeOK, NEW t \in Threads,
         CleanUpStarts(t) \/ CleanUpCreator(t) \/ RemoveListener(t)
  PROVE  TypeOK'
<1>1. CASE CleanUpStarts(t)
  <2>1. stack' \in [Threads -> Seq(Calls)]
    BY <1>1, NewCalls, StackTypes DEF CleanUpStarts
  <2>2. QED
    BY <1>1, <2>1 DEF CleanUpStarts, TypeOK, kvarVars, creatorVars, browserVars
<1>2. CASE CleanUpCreator(t)
  <2>1. At(t, "clean")
    BY <1>2 DEF CleanUpCreator
  <2>2. Top(t).pc = "clean" /\ stack[t] # <<>>
    BY <2>1, TopFacts
  <2>3. stack' \in [Threads -> Seq(Calls)]
    BY <1>2, <2>2, StepTypes DEF CleanUpCreator
  <2>4. live' \subseteq 1..created' /\ previousElementCreator' \in 0..created' /\ created' \in Nat
    BY <1>2 DEF CleanUpCreator, TypeOK
  <2>5. QED
    BY <1>2, <2>3, <2>4 DEF CleanUpCreator, TypeOK, kvarVars, browserVars
<1>3. CASE RemoveListener(t)
  <2>1. stack[t] # <<>>
    BY <1>3 DEF RemoveListener, At
  <2>2. stack' \in [Threads -> Seq(Calls)]
    BY <1>3, <2>1, StackTypes DEF RemoveListener
  <2>3. QED
    BY <1>3, <2>2 DEF RemoveListener, TypeOK, kvarVars, creatorVars, browserVars
<1>4. QED
  BY <1>1, <1>2, <1>3

LEMMA TypesSetting ==
  ASSUME TypeOK, NEW t \in Threads, NEW v \in Values \cup {Null}, SetValue(t, v)
  PROVE  TypeOK'
<1>1. Assignment(value, v) \in Calls
  BY NewCalls DEF TypeOK
<1>2. stack' \in [Threads -> Seq(Calls)]
  BY <1>1, StackTypes DEF SetValue
<1>3. sets' \in 0..MaxSets
  BY RenderAssumption DEF SetValue, TypeOK
<1>4. QED
  BY <1>2, <1>3 DEF SetValue, TypeOK, creatorVars, browserVars

LEMMA TypesStep == TypeOK /\ [Next]_vars => TypeOK'
<1>1. SUFFICES ASSUME TypeOK, [Next]_vars PROVE TypeOK'
  OBVIOUS
<1>2. CASE UNCHANGED vars
  BY <1>1, <1>2 DEF TypeOK, vars, kvarVars, creatorVars, browserVars
<1>3. ASSUME NEW t \in Threads, Proceed(t) PROVE TypeOK'
  BY <1>1, <1>3, TypesAssigning, TypesRounds, TypesDrawing, TypesCleaningUp DEF Proceed
<1>4. ASSUME NEW t \in Threads, NEW v \in Values \cup {Null}, SetValue(t, v) PROVE TypeOK'
  BY <1>1, <1>4, TypesSetting
<1>5. ASSUME NEW t \in Threads, CleanUpStarts(t) PROVE TypeOK'
  BY <1>1, <1>5, TypesCleaningUp
<1>6. QED
  BY <1>1, <1>2, <1>3, <1>4, <1>5 DEF Next

\* The variables of render, of its KVar and of its batches keep their types, for
\* threads that take turns or not, blocks that throw and blocks that clean up.
THEOREM TypeCorrect == Spec => []TypeOK
BY TypesInit, TypesStep, PTL DEF Spec

-----------------------------------------------------------------------------
(***************************************************************************)
(* Threads that take turns.                                                *)
(***************************************************************************)
\* What a call, its going on and its return make of the stacks.
LEMMA StackAfter ==
  ASSUME TypeOK, NEW t \in Threads, OthersIdle(t)
  PROVE  /\ \A c \in Calls : Call(t, c) =>
              /\ OthersIdle(t)' /\ Len(stack'[t]) = Len(stack[t]) + 1
              /\ stack'[t][Len(stack[t]) + 1] = c
              /\ \A i \in 1..Len(stack[t]) : stack'[t][i] = stack[t][i]
         /\ stack[t] # <<>> => \A c \in Calls : Become(t, c) =>
              /\ OthersIdle(t)' /\ Len(stack'[t]) = Len(stack[t])
              /\ stack'[t][Len(stack[t])] = c
              /\ \A i \in 1..(Len(stack[t]) - 1) : stack'[t][i] = stack[t][i]
         /\ stack[t] # <<>> /\ Return(t) =>
              /\ OthersIdle(t)' /\ Len(stack'[t]) = Len(stack[t]) - 1
              /\ Len(stack[t]) = 1 => stack'[t] = <<>>
              /\ \A i \in 1..(Len(stack[t]) - 1) : stack'[t][i] = stack[t][i]
<1>1. stack[t] \in Seq(Calls) /\ stack \in [Threads -> Seq(Calls)]
  BY DEF TypeOK
<1>2. ASSUME NEW s, stack' = [stack EXCEPT ![t] = s]
      PROVE  stack'[t] = s /\ OthersIdle(t)'
  BY <1>1, <1>2 DEF OthersIdle
<1>3. ASSUME NEW c \in Calls, Call(t, c)
      PROVE  /\ OthersIdle(t)' /\ Len(stack'[t]) = Len(stack[t]) + 1
             /\ stack'[t][Len(stack[t]) + 1] = c
             /\ \A i \in 1..Len(stack[t]) : stack'[t][i] = stack[t][i]
  <2>1. stack'[t] = Append(stack[t], c) /\ OthersIdle(t)'
    BY <1>2, <1>3 DEF Call
  <2>2. QED
    BY <1>1, <2>1, StackFacts
<1>4. ASSUME stack[t] # <<>>, NEW c \in Calls, Become(t, c)
      PROVE  /\ OthersIdle(t)' /\ Len(stack'[t]) = Len(stack[t])
             /\ stack'[t][Len(stack[t])] = c
             /\ \A i \in 1..(Len(stack[t]) - 1) : stack'[t][i] = stack[t][i]
  <2>1. stack'[t] = Append(Front(stack[t]), c) /\ OthersIdle(t)'
    BY <1>2, <1>4 DEF Become
  <2>2. /\ Front(stack[t]) \in Seq(Calls) /\ Len(Front(stack[t])) = Len(stack[t]) - 1
        /\ Len(stack[t]) \in Nat \ {0}
        /\ \A i \in 1..(Len(stack[t]) - 1) : Front(stack[t])[i] = stack[t][i]
    BY <1>1, <1>4, TopOfStack
  <2>3. QED
    BY <2>1, <2>2, StackFacts
<1>5. ASSUME stack[t] # <<>>, Return(t)
      PROVE  /\ OthersIdle(t)' /\ Len(stack'[t]) = Len(stack[t]) - 1
             /\ Len(stack[t]) = 1 => stack'[t] = <<>>
             /\ \A i \in 1..(Len(stack[t]) - 1) : stack'[t][i] = stack[t][i]
  <2>1. stack'[t] = Front(stack[t]) /\ OthersIdle(t)'
    BY <1>2, <1>5 DEF Return
  <2>2. /\ Front(stack[t]) \in Seq(Calls) /\ Len(Front(stack[t])) = Len(stack[t]) - 1
        /\ Len(stack[t]) \in Nat \ {0}
        /\ \A i \in 1..(Len(stack[t]) - 1) : Front(stack[t])[i] = stack[t][i]
    BY <1>1, <1>5, TopOfStack
  <2>3. Len(Front(stack[t])) = 0 => Front(stack[t]) = <<>>
    BY <2>2, EmptySeq
  <2>4. QED
    BY <2>1, <2>2, <2>3
<1>6. QED
  BY <1>3, <1>4, <1>5

\* Only the thread that runs is in a call.
LEMMA TheOneThatRuns ==
  ASSUME Turns, NEW t \in Threads, stack[t] # <<>>
  PROVE  /\ Runs(t) /\ OthersIdle(t) /\ TypeOK /\ stack[t] \in Seq(Calls)
         /\ \/ Len(stack[t]) = 1 /\ Top(t) = stack[t][1] /\ Alone(t, Top(t))
            \/ Len(stack[t]) = 2 /\ Top(t) = stack[t][2] /\ InBlock(t, stack[t][1], Top(t))
<1>1. PICK u \in Threads : Runs(u)
  BY DEF Turns
<1>2. u = t
  BY <1>1 DEF Runs
<1>3. stack[t] \in Seq(Calls) /\ TypeOK
  BY DEF Turns, TypeOK
<1>4. Top(t) = stack[t][Len(stack[t])]
  BY <1>3, TopOfStack DEF Top
<1>5. QED
  BY <1>1, <1>2, <1>3, <1>4 DEF Runs, OthersIdle

\* One may start when nothing is under way, or in the block.
LEMMA WhereTheApplicationCalls ==
  ASSUME Turns, ~Concurrent, NEW t \in Threads, InUserCode(t), MayCall(t)
  PROVE  /\ OthersIdle(t) /\ TypeOK /\ stack[t] \in Seq(Calls)
         /\ \/ stack[t] = <<>> /\ Len(stack[t]) = 0 /\ Rest
            \/ /\ Len(stack[t]) = 1 /\ stack[t][1].pc = "block" /\ Round(t, stack[t][1])
               /\ Fresh(out[t])
<1>1. OthersIdle(t) /\ TypeOK /\ stack[t] \in Seq(Calls)
  BY DEF MayCall, OthersIdle, Turns, TypeOK
<1>2. CASE stack[t] = <<>>
  <2>1. PICK u \in Threads : Runs(u)
    BY DEF Turns
  <2>2. stack[u] = <<>>
    BY <1>1, <1>2 DEF OthersIdle
  <2>3. Rest /\ Len(stack[t]) = 0
    BY <1>2, <2>1, <2>2, EmptySeq DEF Runs
  <2>4. QED
    BY <1>1, <1>2, <2>3
<1>3. CASE stack[t] # <<>>
  <2>1. At(t, "block")
    BY <1>3 DEF InUserCode
  <2>2. Top(t).pc = "block"
    BY <2>1, <1>1, TopFacts
  <2>3. CASE Len(stack[t]) = 1 /\ Top(t) = stack[t][1] /\ Alone(t, Top(t))
    BY <1>1, <2>2, <2>3 DEF Alone
  <2>4. CASE InBlock(t, stack[t][1], Top(t))
    BY <2>2, <2>4 DEF InBlock, AssignPCs
  <2>5. QED
    BY <1>3, <2>3, <2>4, TheOneThatRuns
<1>4. QED
  BY <1>2, <1>3

\* A thread runs if what it is in is as it should be.
LEMMA NowRests ==
  ASSUME NEW t \in Threads, OthersIdle(t)', stack'[t] = <<>>, Rest'
  PROVE  Runs(t)'
BY DEF Runs, OthersIdle

LEMMA NowAlone ==
  ASSUME NEW t \in Threads, OthersIdle(t)', NEW c, Len(stack'[t]) = 1, stack'[t][1] = c,
         Alone(t, c)'
  PROVE  Runs(t)'
BY DEF Runs, OthersIdle, Alone, Round

LEMMA NowInBlock ==
  ASSUME NEW t \in Threads, OthersIdle(t)', NEW b, NEW c, Len(stack'[t]) = 2,
         stack'[t][1] = b, stack'[t][2] = c, InBlock(t, b, c)'
  PROVE  Runs(t)'
BY DEF Runs, OthersIdle, InBlock, Round

LEMMA RoundGoesOn ==
  ASSUME NEW t \in Threads, NEW c, Round(t, c),
         UNCHANGED <<catching, renderState, out, previousElementCreator>>
  PROVE  Round(t, c)'
BY DEF Round

LEMMA SetKeeps ==
  ASSUME Turns, ~Concurrent, NEW t \in Threads, NEW v \in Values \cup {Null}, SetValue(t, v)
  PROVE  Runs(t)'
<1>1. PICK c \in Calls : /\ c = Assignment(value, v) /\ c.pc = "assign" /\ c.old = value
                         /\ Call(t, c)
  BY NewCalls DEF Turns, TypeOK, Assignment, SetValue
<1>2. InUserCode(t) /\ MayCall(t)
  BY DEF SetValue
<1>3. /\ OthersIdle(t)' /\ Len(stack'[t]) = Len(stack[t]) + 1
      /\ stack'[t][Len(stack[t]) + 1] = c
      /\ \A i \in 1..Len(stack[t]) : stack'[t][i] = stack[t][i]
  BY <1>1, <1>2, WhereTheApplicationCalls, StackAfter
<1>4. UNCHANGED <<value, renderState, previousElementCreator, listening, catching, out, dom>>
  BY DEF SetValue, creatorVars, browserVars
<1>5. CASE Len(stack[t]) = 0 /\ Rest
  <2>1. Alone(t, c)'
    BY <1>1, <1>4, <1>5 DEF Alone, Rest, NobodyCatches
  <2>2. QED
    BY <1>3, <1>5, <2>1, NowAlone
<1>6. ASSUME Len(stack[t]) = 1, stack[t][1].pc = "block", Round(t, stack[t][1]), Fresh(out[t])
      PROVE  Runs(t)'
  <2>1. PICK b : b = stack[t][1] /\ b.pc = "block" /\ Round(t, b)
    BY <1>6
  <2>2. Round(t, b)'
    BY <1>4, <2>1, RoundGoesOn
  <2>3. InBlock(t, b, c)'
    BY <1>1, <1>4, <1>6, <2>1, <2>2 DEF InBlock, Fresh, AssignPCs
  <2>4. QED
    BY <1>3, <1>6, <2>1, <2>3, NowInBlock
<1>7. QED
  BY <1>2, <1>5, <1>6, WhereTheApplicationCalls

LEMMA CleanUpStartsKeeps ==
  ASSUME Turns, ~Concurrent, NEW t \in Threads, CleanUpStarts(t)
  PROVE  Runs(t)'
<1>1. PICK c \in Calls : c = CleanUpCall("clean") /\ c.pc = "clean" /\ Call(t, c)
  BY NewCalls DEF CleanUpCall, CleanUpStarts
<1>2. InUserCode(t) /\ MayCall(t)
  BY DEF CleanUpStarts, InUserCode
<1>3. /\ OthersIdle(t)' /\ Len(stack'[t]) = Len(stack[t]) + 1
      /\ stack'[t][Len(stack[t]) + 1] = c
      /\ \A i \in 1..Len(stack[t]) : stack'[t][i] = stack[t][i]
  BY <1>1, <1>2, WhereTheApplicationCalls, StackAfter
<1>4. UNCHANGED <<value, renderState, previousElementCreator, listening, catching, out, dom>>
  BY DEF CleanUpStarts, kvarVars, creatorVars, browserVars
<1>5. CASE Len(stack[t]) = 0 /\ Rest
  <2>1. Alone(t, c)'
    BY <1>1, <1>4, <1>5 DEF Alone, Rest, NobodyCatches
  <2>2. QED
    BY <1>3, <1>5, <2>1, NowAlone
<1>6. ASSUME Len(stack[t]) = 1, stack[t][1].pc = "block", Round(t, stack[t][1]), Fresh(out[t])
      PROVE  Runs(t)'
  <2>1. PICK b : b = stack[t][1] /\ b.pc = "block" /\ Round(t, b)
    BY <1>6
  <2>2. Round(t, b)'
    BY <1>4, <2>1, RoundGoesOn
  <2>3. InBlock(t, b, c)'
    BY <1>1, <1>4, <1>6, <2>1, <2>2 DEF InBlock, Fresh
  <2>4. QED
    BY <1>3, <1>6, <2>1, <2>3, NowInBlock
<1>7. QED
  BY <1>2, <1>5, <1>6, WhereTheApplicationCalls

\* What a step that changes the call on top of the stack, or returns from it, has to
\* show.
LEMMA Goes ==
  ASSUME Turns, NEW t \in Threads, stack[t] # <<>>, NEW c \in Calls, Become(t, c),
         Len(stack[t]) = 1 => Alone(t, c)',
         Len(stack[t]) = 2 => \A b : InBlock(t, b, Top(t)) => InBlock(t, b, c)'
  PROVE  Runs(t)'
<1>1. /\ OthersIdle(t)' /\ Len(stack'[t]) = Len(stack[t])
      /\ stack'[t][Len(stack[t])] = c
      /\ \A i \in 1..(Len(stack[t]) - 1) : stack'[t][i] = stack[t][i]
  BY TheOneThatRuns, StackAfter
<1>2. CASE Len(stack[t]) = 1
  BY <1>1, <1>2, NowAlone
<1>3. CASE Len(stack[t]) = 2 /\ InBlock(t, stack[t][1], Top(t))
  <2>1. PICK b : b = stack[t][1] /\ InBlock(t, b, Top(t))
    BY <1>3
  <2>2. InBlock(t, b, c)'
    BY <1>3, <2>1
  <2>3. QED
    BY <1>1, <1>3, <2>1, <2>2, NowInBlock
<1>4. QED
  BY <1>2, <1>3, TheOneThatRuns

LEMMA Returns ==
  ASSUME Turns, NEW t \in Threads, stack[t] # <<>>, Return(t),
         Alone(t, Top(t)) => Rest',
         \A b : InBlock(t, b, Top(t)) => Alone(t, b)'
  PROVE  Runs(t)'
<1>1. /\ OthersIdle(t)' /\ Len(stack'[t]) = Len(stack[t]) - 1
      /\ Len(stack[t]) = 1 => stack'[t] = <<>>
      /\ \A i \in 1..(Len(stack[t]) - 1) : stack'[t][i] = stack[t][i]
  BY TheOneThatRuns, StackAfter
<1>2. CASE Len(stack[t]) = 1 /\ Alone(t, Top(t))
  BY <1>1, <1>2, NowRests
<1>3. CASE Len(stack[t]) = 2 /\ InBlock(t, stack[t][1], Top(t))
  <2>1. PICK b : b = stack[t][1] /\ InBlock(t, b, Top(t))
    BY <1>3
  <2>2. Alone(t, b)'
    BY <2>1
  <2>3. QED
    BY <1>1, <1>3, <2>1, <2>2, NowAlone
<1>4. QED
  BY <1>2, <1>3, TheOneThatRuns

\* The call that goes on keeps what it was called with.
LEMMA StepFacts ==
  ASSUME TypeOK, NEW t \in Threads, stack[t] # <<>>, NEW pc, Step(t, pc),
         \/ Top(t).pc \in AssignPCs /\ pc \in AssignPCs
         \/ Top(t).pc \in LoopPCs /\ pc \in LoopPCs
         \/ Top(t).pc \in {"clean", "unlisten"} /\ pc \in {"clean", "unlisten"}
  PROVE  \E d \in Calls : /\ d.pc = pc /\ Become(t, d)
                          /\ pc \in AssignPCs => d.old = Top(t).old /\ d.new = Top(t).new
                          /\ pc \in LoopPCs => d.own = Top(t).own
<1>1. Top(t) \in Calls
  BY TopFacts DEF At
<1>2. PICK d : d = [Top(t) EXCEPT !.pc = pc] /\ Become(t, d)
  BY DEF Step
<1>3. d \in Calls
  BY <1>1, <1>2, CallFacts
<1>4. CASE Top(t) \in [pc : AssignPCs, old : Values \cup {Null}, new : Values \cup {Null}]
  BY <1>2, <1>3, <1>4 DEF AssignPCs, LoopPCs
<1>5. CASE Top(t) \in [pc : LoopPCs, own : BOOLEAN]
  BY <1>2, <1>3, <1>5 DEF AssignPCs, LoopPCs
<1>6. CASE Top(t) \in [pc : {"clean", "unlisten"}]
  BY <1>2, <1>3, <1>6 DEF AssignPCs, LoopPCs
<1>7. QED
  BY <1>1, <1>4, <1>5, <1>6 DEF Calls

\* In a round nothing but the loop is on the stack.
LEMMA RoundIsAlone ==
  ASSUME Turns, NEW t \in Threads, NEW pc \in LoopPCs, At(t, pc)
  PROVE  /\ stack[t] # <<>> /\ Top(t) \in Calls /\ Top(t).pc = pc /\ TypeOK
         /\ Len(stack[t]) = 1 /\ Top(t) = stack[t][1]
         /\ Round(t, Top(t)) /\ Alone(t, Top(t))
<1>1. stack[t] # <<>> /\ Top(t) \in Calls /\ Top(t).pc = pc /\ TypeOK
  BY TopFacts DEF Turns
<1>2. ~InBlock(t, stack[t][1], Top(t))
  BY <1>1 DEF InBlock, LoopPCs, AssignPCs
<1>3. Len(stack[t]) = 1 /\ Top(t) = stack[t][1] /\ Alone(t, Top(t))
  BY <1>1, <1>2, TheOneThatRuns
<1>4. Round(t, Top(t))
  BY <1>1, <1>3 DEF Alone, LoopPCs
<1>5. QED
  BY <1>1, <1>3, <1>4

LEMMA AssignKeeps ==
  ASSUME Turns, NEW t \in Threads, Assign(t)
  PROVE  Runs(t)'
<1>1. /\ stack[t] # <<>> /\ Top(t) \in Calls /\ Top(t).pc = "assign" /\ TypeOK
      /\ Top(t).new \in Values \cup {Null}
  BY TopFacts, CallFacts DEF Assign, Turns, AssignPCs
<1>2. UNCHANGED <<renderState, previousElementCreator, listening, catching, out, dom>>
      /\ value' = Top(t).new
  BY DEF Assign, creatorVars, browserVars
<1>3. CASE Top(t).old = Top(t).new
  <2>1. Return(t)
    BY <1>3 DEF Assign
  <2>2. ASSUME Alone(t, Top(t)) PROVE Rest'
    BY <1>1, <1>2, <1>3, <2>2 DEF Alone, Rest, NobodyCatches, Round, LoopPCs
  <2>3. ASSUME NEW b, InBlock(t, b, Top(t)) PROVE Alone(t, b)'
    <3>1. Round(t, b)'
      BY <1>2, <2>3, RoundGoesOn DEF InBlock
    <3>2. value' = value /\ b.pc = "block" /\ Fresh(out[t])
      BY <1>1, <1>2, <1>3, <2>3 DEF InBlock
    <3>3. Fresh(out[t])'
      BY <1>2, <3>2 DEF Fresh
    <3>4. QED
      BY <3>1, <3>2, <3>3 DEF Alone
  <2>4. QED
    BY <1>1, <2>1, <2>2, <2>3, Returns
<1>4. CASE Top(t).old # Top(t).new
  <2>1. Step(t, "notify")
    BY <1>4 DEF Assign
  <2>2. PICK d \in Calls : d.pc = "notify" /\ Become(t, d)
    BY <1>1, <2>1, StepFacts DEF AssignPCs
  <2>3. Len(stack[t]) = 1 => Alone(t, d)'
    <3>1. SUFFICES ASSUME Alone(t, Top(t)) PROVE Alone(t, d)'
      BY <1>1, TheOneThatRuns
    <3>2. renderState = "NOT_RENDERING" => NobodyCatches
      BY <1>1, <3>1 DEF Alone, Rest, Round, LoopPCs
    <3>3. QED
      BY <1>2, <2>2, <3>2 DEF Alone, NobodyCatches
  <2>4. ASSUME NEW b, InBlock(t, b, Top(t)) PROVE InBlock(t, b, d)'
    <3>1. Round(t, b)'
      BY <1>2, <2>4, RoundGoesOn DEF InBlock
    <3>2. QED
      BY <2>2, <2>4, <3>1 DEF InBlock, AssignPCs
  <2>5. QED
    BY <1>1, <2>2, <2>3, <2>4, Goes
<1>5. QED
  BY <1>3, <1>4

LEMMA NotifyKeeps ==
  ASSUME Turns, NEW t \in Threads, Notify(t)
  PROVE  Runs(t)'
<1>1. /\ stack[t] # <<>> /\ Top(t) \in Calls /\ Top(t).pc = "notify" /\ TypeOK
  BY TopFacts DEF Notify, Turns
<1>2. UNCHANGED <<value, renderState, previousElementCreator, listening, catching, out, dom>>
  BY DEF Notify, kvarVars, creatorVars, browserVars
<1>3. Alone(t, Top(t)) => (renderState = "NOT_RENDERING" => NobodyCatches)
  BY <1>1 DEF Alone, Round, LoopPCs
<1>4. ASSUME NEW b, InBlock(t, b, Top(t))
      PROVE  b.pc = "block" /\ renderState # "NOT_RENDERING" /\ Round(t, b)'
  BY <1>2, <1>4, RoundGoesOn DEF InBlock, Round
<1>5. CASE listening /\ renderState = "NOT_RENDERING" /\ Become(t, Loop("erase", FALSE))
  <2>1. PICK d \in Calls : d = Loop("erase", FALSE) /\ d.pc = "erase" /\ Become(t, d)
    BY <1>5, NewCalls DEF Loop, LoopPCs
  <2>2. Len(stack[t]) = 1 => Alone(t, d)'
    <3>1. SUFFICES ASSUME NobodyCatches PROVE Alone(t, d)'
      BY <1>1, <1>3, <1>5, TheOneThatRuns
    <3>2. Round(t, d)'
      BY <1>2, <1>5, <2>1, <3>1 DEF Round, NobodyCatches, LoopPCs
    <3>3. QED
      BY <2>1, <3>2 DEF Alone
  <2>3. \A b : ~InBlock(t, b, Top(t))
    BY <1>4, <1>5
  <2>4. QED
    BY <1>1, <2>1, <2>2, <2>3, Goes
<1>6. CASE listening /\ renderState = "RENDERING_NO_PENDING_CHANGE" /\ Step(t, "mark")
  <2>1. PICK d \in Calls : d.pc = "mark" /\ Become(t, d)
    BY <1>1, <1>6, StepFacts DEF AssignPCs
  <2>2. Alone(t, d)'
    BY <1>2, <1>6, <2>1 DEF Alone
  <2>3. ASSUME NEW b, InBlock(t, b, Top(t)) PROVE InBlock(t, b, d)'
    BY <1>4, <2>1, <2>3 DEF InBlock, AssignPCs
  <2>4. QED
    BY <1>1, <2>1, <2>2, <2>3, Goes
<1>7. CASE (~listening \/ renderState = "RENDERING_WITH_PENDING_CHANGE") /\ Return(t)
  <2>1. ASSUME Alone(t, Top(t)) PROVE Rest'
    BY <1>2, <1>3, <1>7, <2>1 DEF Rest, NobodyCatches
  <2>2. ASSUME NEW b, InBlock(t, b, Top(t)) PROVE Alone(t, b)'
    <3>1. Fresh(out[t])'
      BY <1>2, <1>7 DEF Fresh
    <3>2. QED
      BY <1>4, <2>2, <3>1 DEF Alone
  <2>3. QED
    BY <1>1, <1>7, <2>1, <2>2, Returns
<1>8. QED
  BY <1>5, <1>6, <1>7 DEF Notify

LEMMA MarkKeeps ==
  ASSUME Turns, NEW t \in Threads, MarkPending(t)
  PROVE  Runs(t)'
<1>1. /\ stack[t] # <<>> /\ Top(t) \in Calls /\ Top(t).pc = "mark" /\ Return(t)
  BY TopFacts DEF MarkPending, Turns
<1>2. /\ UNCHANGED <<value, previousElementCreator, listening, catching, out, dom>>
      /\ renderState' = "RENDERING_WITH_PENDING_CHANGE"
  BY DEF MarkPending, kvarVars, creatorVars, browserVars
<1>3. Rest'
  BY <1>2 DEF Rest
<1>4. ASSUME NEW b, InBlock(t, b, Top(t)) PROVE Alone(t, b)'
  <2>1. b.pc = "block" /\ Round(t, b)
    BY <1>4 DEF InBlock
  <2>2. Round(t, b)'
    BY <1>2, <2>1 DEF Round
  <2>3. Fresh(out[t])'
    BY <1>2 DEF Fresh
  <2>4. QED
    BY <2>1, <2>2, <2>3 DEF Alone
<1>5. QED
  BY <1>1, <1>3, <1>4, Returns

\* The call after a step of a round is as it should be if it is so alone.
LEMMA RoundKeeps ==
  ASSUME Turns, NEW t \in Threads, NEW pc \in LoopPCs, At(t, pc), NEW d \in Calls,
         Become(t, d), Alone(t, d)'
  PROVE  Runs(t)'
BY RoundIsAlone, Goes

LEMMA EraseKeeps ==
  ASSUME Turns, NEW t \in Threads, EraseBetweenSpans(t)
  PROVE  Runs(t)'
<1>1. At(t, "erase") /\ "erase" \in LoopPCs
  BY DEF EraseBetweenSpans, LoopPCs
<1>2. Round(t, Top(t)) /\ Top(t).pc = "erase" /\ TypeOK
  BY <1>1, RoundIsAlone
<1>3. ~catching[t] /\ renderState # "RENDERING_NO_PENDING_CHANGE"
  BY <1>2 DEF Round
<1>4. PICK d \in Calls : /\ d = Loop("create", ~catching[t]) /\ Become(t, d)
                         /\ d.pc = "create" /\ d.own
  BY <1>2, <1>3, NewCalls DEF EraseBetweenSpans, Loop, LoopPCs
<1>5. /\ renderState' = renderState /\ out'[t] = <<>>
      /\ \A u \in Threads : catching'[u] <=> u = t
  BY <1>2 DEF EraseBetweenSpans, TypeOK, Round
<1>6. Round(t, d)'
  BY <1>3, <1>4, <1>5 DEF Round, LoopPCs
<1>7. Alone(t, d)'
  BY <1>4, <1>6 DEF Alone
<1>8. QED
  BY <1>1, <1>4, <1>7, RoundKeeps

LEMMA CreateKeeps ==
  ASSUME Turns, NEW t \in Threads, NewElementCreator(t)
  PROVE  Runs(t)'
<1>1. At(t, "create") /\ "create" \in LoopPCs
  BY DEF NewElementCreator, LoopPCs
<1>2. Round(t, Top(t)) /\ Top(t).pc = "create" /\ TypeOK /\ stack[t] # <<>>
  BY <1>1, RoundIsAlone
<1>3. PICK d \in Calls : d.pc = "begin" /\ Become(t, d) /\ d.own = Top(t).own
  BY <1>2, StepFacts DEF NewElementCreator, LoopPCs
<1>4. UNCHANGED <<renderState, catching, out>> /\ previousElementCreator' # 0
  BY <1>2 DEF NewElementCreator, TypeOK, browserVars
<1>5. Round(t, d)'
  BY <1>2, <1>3, <1>4 DEF Round, LoopPCs
<1>6. Alone(t, d)'
  BY <1>3, <1>5 DEF Alone
<1>7. QED
  BY <1>1, <1>3, <1>6, RoundKeeps

LEMMA BeginKeeps ==
  ASSUME Turns, NEW t \in Threads, BeginRound(t)
  PROVE  Runs(t)'
<1>1. At(t, "begin") /\ "begin" \in LoopPCs
  BY DEF BeginRound, LoopPCs
<1>2. Round(t, Top(t)) /\ Top(t).pc = "begin" /\ TypeOK /\ stack[t] # <<>>
  BY <1>1, RoundIsAlone
<1>3. PICK d \in Calls : d.pc = "get" /\ Become(t, d) /\ d.own = Top(t).own
  BY <1>2, StepFacts DEF BeginRound, LoopPCs
<1>4. /\ UNCHANGED <<previousElementCreator, catching, out>>
      /\ renderState' = "RENDERING_NO_PENDING_CHANGE"
  BY DEF BeginRound, DuringRound, creatorVars, browserVars
<1>5. Round(t, d)'
  BY <1>2, <1>3, <1>4 DEF Round, LoopPCs
<1>6. Alone(t, d)'
  BY <1>3, <1>5 DEF Alone
<1>7. QED
  BY <1>1, <1>3, <1>6, RoundKeeps

\* There is a creator in every round: none is logged and skipped.
LEMMA GetKeeps ==
  ASSUME Turns, NEW t \in Threads, GetElementCreator(t)
  PROVE  Runs(t)'
<1>1. At(t, "get") /\ "get" \in LoopPCs
  BY DEF GetElementCreator, LoopPCs
<1>2. Round(t, Top(t)) /\ Top(t).pc = "get" /\ TypeOK /\ stack[t] # <<>>
  BY <1>1, RoundIsAlone
<1>3. Step(t, "draw")
  BY <1>2 DEF GetElementCreator, Round
<1>4. PICK d \in Calls : d.pc = "draw" /\ Become(t, d) /\ d.own = Top(t).own
  BY <1>2, <1>3, StepFacts DEF LoopPCs
<1>5. UNCHANGED <<renderState, previousElementCreator, catching, out>>
  BY DEF GetElementCreator, creatorVars, browserVars
<1>6. Round(t, d)'
  BY <1>2, <1>4, <1>5 DEF Round, LoopPCs
<1>7. Alone(t, d)'
  BY <1>4, <1>6 DEF Alone
<1>8. QED
  BY <1>1, <1>4, <1>7, RoundKeeps

LEMMA DrawKeeps ==
  ASSUME Turns, NEW t \in Threads, Draw(t)
  PROVE  Runs(t)'
<1>1. At(t, "draw") /\ "draw" \in LoopPCs
  BY DEF Draw, LoopPCs
<1>2. Round(t, Top(t)) /\ Top(t).pc = "draw" /\ TypeOK /\ stack[t] # <<>>
  BY <1>1, RoundIsAlone
<1>3. UNCHANGED <<value, renderState, previousElementCreator, listening, catching>>
  BY DEF Draw, kvarVars, creatorVars
<1>4. out[t] = <<>>
  BY <1>2 DEF Round
<1>5. CASE Skips(value)
  <2>1. Step(t, "end") /\ out' = out
    BY <1>5 DEF Draw
  <2>2. PICK d \in Calls : d.pc = "end" /\ Become(t, d) /\ d.own = Top(t).own
    BY <1>2, <2>1, StepFacts DEF LoopPCs
  <2>3. Round(t, d)'
    BY <1>2, <1>3, <2>1, <2>2 DEF Round, LoopPCs
  <2>4. Fresh(out[t])'
    BY <1>3, <1>4, <1>5, <2>1 DEF Fresh, Shown, Skips
  <2>5. Alone(t, d)'
    BY <2>2, <2>3, <2>4 DEF Alone
  <2>6. QED
    BY <1>1, <2>2, <2>5, RoundKeeps
<1>6. CASE ~Skips(value)
  <2>1. Step(t, "block") /\ out' = [out EXCEPT ![t] = Append(@, value)]
    BY <1>6 DEF Draw
  <2>2. PICK d \in Calls : d.pc = "block" /\ Become(t, d) /\ d.own = Top(t).own
    BY <1>2, <2>1, StepFacts DEF LoopPCs
  <2>3. out'[t] = <<value>>
    BY <1>2, <1>4, <2>1 DEF TypeOK
  <2>4. Round(t, d)'
    BY <1>2, <1>3, <2>2 DEF Round, LoopPCs
  <2>5. Fresh(out[t])'
    BY <1>3, <1>6, <2>3 DEF Fresh, Shown, Skips
  <2>6. Alone(t, d)'
    BY <2>2, <2>4, <2>5 DEF Alone
  <2>7. QED
    BY <1>1, <2>2, <2>6, RoundKeeps
<1>7. QED
  BY <1>5, <1>6

\* A round that is abandoned leaves renderState at one of its other values.
LEMMA ThrowsKeeps ==
  ASSUME Turns, NEW t \in Threads, BlockThrows(t)
  PROVE  Runs(t)'
<1>1. At(t, "draw") /\ "draw" \in LoopPCs
  BY DEF BlockThrows, LoopPCs
<1>2. Round(t, Top(t)) /\ Top(t).pc = "draw" /\ TypeOK /\ stack[t] # <<>>
  BY <1>1, RoundIsAlone
<1>3. Return(t) /\ renderState' = renderState
  BY DEF BlockThrows
<1>4. Rest'
  BY <1>2, <1>3 DEF Rest, Round
<1>5. \A b : ~InBlock(t, b, Top(t))
  BY <1>2 DEF InBlock, AssignPCs
<1>6. QED
  BY <1>2, <1>3, <1>4, <1>5, Returns

LEMMA BlockReturnsKeeps ==
  ASSUME Turns, NEW t \in Threads, BlockReturns(t)
  PROVE  Runs(t)'
<1>1. At(t, "block") /\ "block" \in LoopPCs
  BY DEF BlockReturns, LoopPCs
<1>2. /\ Round(t, Top(t)) /\ Top(t).pc = "block" /\ TypeOK /\ stack[t] # <<>>
      /\ Alone(t, Top(t))
  BY <1>1, RoundIsAlone
<1>3. PICK d \in Calls : d.pc = "end" /\ Become(t, d) /\ d.own = Top(t).own
  BY <1>2, StepFacts DEF BlockReturns, LoopPCs
<1>4. UNCHANGED <<value, renderState, previousElementCreator, listening, catching, out>>
  BY DEF BlockReturns, kvarVars, creatorVars, browserVars
<1>5. Round(t, d)'
  BY <1>2, <1>3, <1>4 DEF Round, LoopPCs
<1>6. Fresh(out[t])'
  BY <1>2, <1>4 DEF Alone, Fresh, LoopPCs, AssignPCs
<1>7. Alone(t, d)'
  BY <1>3, <1>5, <1>6 DEF Alone
<1>8. QED
  BY <1>1, <1>3, <1>7, RoundKeeps

LEMMA EndKeeps ==
  ASSUME Turns, NEW t \in Threads, EndRound(t)
  PROVE  Runs(t)'
<1>1. At(t, "end") /\ "end" \in LoopPCs
  BY DEF EndRound, LoopPCs
<1>2. /\ Round(t, Top(t)) /\ Top(t).pc = "end" /\ TypeOK /\ stack[t] # <<>>
      /\ Alone(t, Top(t))
  BY <1>1, RoundIsAlone
<1>3. Step(t, "send")
  BY <1>2 DEF EndRound, Round
<1>4. PICK d \in Calls : d.pc = "send" /\ Become(t, d) /\ d.own = Top(t).own
  BY <1>2, <1>3, StepFacts DEF LoopPCs
<1>5. /\ UNCHANGED <<value, previousElementCreator, listening, catching, out>>
      /\ renderState' # "RENDERING_NO_PENDING_CHANGE"
      /\ renderState = "RENDERING_WITH_PENDING_CHANGE" =>
           renderState' = "RENDERING_WITH_PENDING_CHANGE"
  BY DEF EndRound, AfterRound, kvarVars, creatorVars, browserVars
<1>6. Round(t, d)'
  BY <1>2, <1>4, <1>5 DEF Round, LoopPCs
<1>7. Fresh(out[t])'
  BY <1>2, <1>5 DEF Alone, Fresh, LoopPCs, AssignPCs
<1>8. Alone(t, d)'
  BY <1>4, <1>6, <1>7 DEF Alone
<1>9. QED
  BY <1>1, <1>4, <1>8, RoundKeeps

LEMMA SendKeeps ==
  ASSUME Turns, NEW t \in Threads, SendBatch(t)
  PROVE  Runs(t)'
<1>1. At(t, "send") /\ "send" \in LoopPCs
  BY DEF SendBatch, LoopPCs
<1>2. /\ Round(t, Top(t)) /\ Top(t).pc = "send" /\ TypeOK /\ stack[t] # <<>>
      /\ Alone(t, Top(t))
  BY <1>1, RoundIsAlone
<1>3. PICK d \in Calls : d.pc = "again" /\ Become(t, d) /\ d.own = Top(t).own
  BY <1>2, StepFacts DEF SendBatch, LoopPCs
<1>4. /\ UNCHANGED <<value, renderState, previousElementCreator, listening, out>>
      /\ dom' = out[t]
      /\ \A u \in Threads : ~catching'[u]
  BY <1>2 DEF SendBatch, TypeOK, Round, kvarVars, creatorVars
<1>5. Round(t, d)'
  BY <1>2, <1>3, <1>4 DEF Round, LoopPCs
<1>6. Fresh(dom)'
  BY <1>2, <1>4 DEF Alone, Fresh, LoopPCs, AssignPCs
<1>7. Alone(t, d)'
  BY <1>3, <1>5, <1>6 DEF Alone
<1>8. QED
  BY <1>1, <1>3, <1>7, RoundKeeps

LEMMA AgainKeeps ==
  ASSUME Turns, NEW t \in Threads, Again(t)
  PROVE  Runs(t)'
<1>1. At(t, "again") /\ "again" \in LoopPCs
  BY DEF Again, LoopPCs
<1>2. /\ Round(t, Top(t)) /\ Top(t).pc = "again" /\ TypeOK /\ stack[t] # <<>>
      /\ Alone(t, Top(t))
  BY <1>1, RoundIsAlone
<1>3. UNCHANGED <<value, renderState, previousElementCreator, listening, catching, out, dom>>
  BY DEF Again, kvarVars, creatorVars, browserVars
<1>4. CASE renderState # "NOT_RENDERING"
  <2>1. PICK d \in Calls : d = Loop("erase", FALSE) /\ d.pc = "erase" /\ Become(t, d)
    BY <1>4, NewCalls DEF Again, Loop, LoopPCs
  <2>2. Round(t, d)'
    BY <1>2, <1>3, <2>1 DEF Round, LoopPCs
  <2>3. Alone(t, d)'
    BY <2>1, <2>2 DEF Alone
  <2>4. QED
    BY <1>1, <2>1, <2>3, RoundKeeps
<1>5. CASE renderState = "NOT_RENDERING"
  <2>1. Return(t)
    BY <1>5 DEF Again
  <2>2. NobodyCatches /\ Fresh(dom)
    BY <1>2 DEF Round, NobodyCatches, Alone, LoopPCs, AssignPCs
  <2>3. Rest'
    BY <1>3, <1>5, <2>2 DEF Rest, NobodyCatches, Fresh
  <2>4. \A b : ~InBlock(t, b, Top(t))
    BY <1>2 DEF InBlock, AssignPCs
  <2>5. QED
    BY <1>2, <2>1, <2>3, <2>4, Returns
<1>6. QED
  BY <1>4, <1>5

LEMMA CleanKeeps ==
  ASSUME Turns, NEW t \in Threads, CleanUpCreator(t)
  PROVE  Runs(t)'
<1>1. /\ stack[t] # <<>> /\ Top(t).pc = "clean" /\ TypeOK
  BY TopFacts DEF CleanUpCreator, Turns
<1>2. PICK d \in Calls : d.pc = "unlisten" /\ Become(t, d)
  BY <1>1, StepFacts DEF CleanUpCreator
<1>3. UNCHANGED <<value, renderState, listening, catching, out, dom>>
  BY DEF CleanUpCreator, kvarVars, browserVars
<1>4. Len(stack[t]) = 1 => Alone(t, d)'
  <2>1. SUFFICES ASSUME Alone(t, Top(t)) PROVE Alone(t, d)'
    BY <1>1, TheOneThatRuns
  <2>2. Rest
    BY <1>1, <2>1 DEF Alone, Round, LoopPCs
  <2>3. QED
    BY <1>2, <1>3, <2>2 DEF Alone, Rest, NobodyCatches
<1>5. ASSUME NEW b, InBlock(t, b, Top(t)) PROVE InBlock(t, b, d)'
  <2>1. Round(t, b) /\ b.pc = "block" /\ Fresh(out[t])
    BY <1>1, <1>5 DEF InBlock
  <2>2. Round(t, b)' /\ Fresh(out[t])'
    BY <1>3, <2>1 DEF Round, Fresh
  <2>3. QED
    BY <1>2, <2>1, <2>2 DEF InBlock
<1>6. QED
  BY <1>1, <1>2, <1>4, <1>5, Goes

LEMMA UnlistenKeeps ==
  ASSUME Turns, NEW t \in Threads, RemoveListener(t)
  PROVE  Runs(t)'
<1>1. stack[t] # <<>> /\ Top(t).pc = "unlisten" /\ TypeOK /\ Return(t)
  BY TopFacts DEF RemoveListener, Turns
<1>2. UNCHANGED <<value, renderState, previousElementCreator, catching, out, dom>> /\ ~listening'
  BY DEF RemoveListener, kvarVars, creatorVars, browserVars
<1>3. ASSUME Alone(t, Top(t)) PROVE Rest'
  BY <1>1, <1>2, <1>3 DEF Alone, Rest, NobodyCatches, Round, LoopPCs
<1>4. ASSUME NEW b, InBlock(t, b, Top(t)) PROVE Alone(t, b)'
  <2>1. b.pc = "block" /\ Round(t, b)'
    BY <1>2, <1>4, RoundGoesOn DEF InBlock
  <2>2. QED
    BY <1>2, <2>1 DEF Alone, Fresh
<1>5. QED
  BY <1>1, <1>3, <1>4, Returns

LEMMA TurnsInit == Init => Turns
<1>1. SUFFICES ASSUME Init PROVE Turns
  OBVIOUS
<1>2. Renderer \in Threads
  BY RenderAssumption
<1>3. PICK c \in Calls : c = Loop("erase", FALSE) /\ c.pc = "erase"
  BY NewCalls DEF Loop, LoopPCs
<1>4. \A u \in Threads \ {Renderer} : stack[u] = <<>>
  BY <1>1 DEF Init
<1>5. stack[Renderer] = <<c>>
  BY <1>1, <1>2, <1>3 DEF Init
<1>6. Len(stack[Renderer]) = 1 /\ stack[Renderer][1] = c
  BY <1>5
<1>7. Round(Renderer, c)
  BY <1>1, <1>3 DEF Init, Round, LoopPCs
<1>8. Alone(Renderer, c)
  BY <1>3, <1>7 DEF Alone
<1>9. Alone(Renderer, stack[Renderer][1])
  BY <1>6, <1>8
<1>10. Runs(Renderer)
  BY <1>4, <1>6, <1>9 DEF Runs
<1>11. QED
  BY <1>1, <1>2, <1>10, TypesInit DEF Turns

LEMMA TurnsStep == ~Concurrent /\ Turns /\ [Next]_vars => Turns'
<1>1. SUFFICES ASSUME ~Concurrent, Turns, [Next]_vars PROVE Turns'
  OBVIOUS
<1>2. TypeOK'
  BY <1>1, TypesStep DEF Turns
<1>3. CASE UNCHANGED vars
  <2>1. PICK t \in Threads : Runs(t)
    BY <1>1 DEF Turns
  <2>2. Runs(t)'
    BY <1>3, <2>1 DEF Runs, Rest, NobodyCatches, Alone, InBlock, Round, Fresh, vars, kvarVars,
                     creatorVars, browserVars
  <2>3. QED
    BY <1>2, <2>2 DEF Turns
<1>4. ASSUME NEW t \in Threads, Proceed(t) PROVE Runs(t)'
  BY <1>1, <1>4, AssignKeeps, NotifyKeeps, MarkKeeps, EraseKeeps, CreateKeeps, BeginKeeps,
     GetKeeps, DrawKeeps, ThrowsKeeps, BlockReturnsKeeps, EndKeeps, SendKeeps, AgainKeeps,
     CleanKeeps, UnlistenKeeps DEF Proceed
<1>5. ASSUME NEW t \in Threads, NEW v \in Values \cup {Null}, SetValue(t, v) PROVE Runs(t)'
  BY <1>1, <1>5, SetKeeps
<1>6. ASSUME NEW t \in Threads, CleanUpStarts(t) PROVE Runs(t)'
  BY <1>1, <1>6, CleanUpStartsKeeps
<1>7. CASE Next
  BY <1>2, <1>4, <1>5, <1>6, <1>7 DEF Next, Turns
<1>8. QED
  BY <1>1, <1>3, <1>7

LEMMA TurnsInvariant == ASSUME ~Concurrent PROVE Spec => []Turns
BY TurnsInit, TurnsStep, PTL DEF Spec

\* With threads that take turns there are never two render loops at once, whatever
\* the block changes, cleans up or throws: the listener that the block itself sets
\* off finds renderState marked, and leaves the change to the loop that is running.
THEOREM OneLoop == ASSUME ~Concurrent PROVE Spec => []OneLoopAtATime
<1>1. Turns => OneLoopAtATime
  <2>1. SUFFICES ASSUME Turns, NEW t \in Threads, NEW u \in Threads,
                        NEW i \in LoopsOf(t), NEW j \in LoopsOf(u)
                 PROVE  t = u /\ i = j
    BY DEF OneLoopAtATime
  <2>2. PICK r \in Threads : Runs(r)
    BY <2>1 DEF Turns
  <2>3. stack[t] \in Seq(Calls) /\ stack[u] \in Seq(Calls) /\ stack[r] \in Seq(Calls)
    BY <2>1 DEF Turns, TypeOK
  <2>4. stack[t] # <<>> /\ stack[u] # <<>>
    BY <2>1, <2>3 DEF LoopsOf
  <2>5. t = r /\ u = r
    BY <2>2, <2>4 DEF Runs
  <2>6. i \in 1..Len(stack[r]) /\ j \in 1..Len(stack[r])
        /\ stack[r][i].pc \in LoopPCs /\ stack[r][j].pc \in LoopPCs
    BY <2>1, <2>3, <2>5 DEF LoopsOf
  <2>7. CASE Len(stack[r]) = 1
    BY <2>5, <2>6, <2>7
  <2>8. CASE Len(stack[r]) = 2 /\ InBlock(r, stack[r][1], stack[r][2])
    <3>1. stack[r][2].pc \notin LoopPCs
      BY <2>8 DEF InBlock, AssignPCs, LoopPCs
    <3>2. i = 1 /\ j = 1
      BY <2>6, <2>8, <3>1
    <3>3. QED
      BY <2>5, <3>2
  <2>9. QED
    BY <2>2, <2>4, <2>5, <2>7, <2>8 DEF Runs
<1>2. QED
  BY <1>1, TurnsInvariant, PTL

\* With threads that take turns no change is missed: once all of them are through,
\* the browser shows the value the KVar has, unless the fragment is gone or a block
\* has thrown.
THEOREM ChangesAreDrawn == ASSUME ~Concurrent PROVE Spec => []Redrawn
<1>1. Turns => Redrawn
  <2>1. SUFFICES ASSUME Turns, Quiet, listening, NoneAbandoned PROVE dom = Shown(value)
    BY DEF Redrawn
  <2>2. PICK r \in Threads : Runs(r)
    BY <2>1 DEF Turns
  <2>3. stack[r] = <<>>
    BY <2>1 DEF Quiet
  <2>4. Len(stack[r]) = 0
    BY <2>3, EmptySeq
  <2>5. Rest
    BY <2>2, <2>4 DEF Runs
  <2>6. QED
    BY <2>1, <2>5 DEF Rest, NoneAbandoned
<1>2. QED
  BY <1>1, TurnsInvariant, PTL

-----------------------------------------------------------------------------
(***************************************************************************)
(* Creators, for blocks that do not clean up.                              *)
(***************************************************************************)
LEMMA AnyThread ==
  ASSUME TypeOK', NEW t \in Threads, OthersIdle(t)', CreatorsOf(t)'
  PROVE  Creators'
<1>1. SUFFICES ASSUME NEW u \in Threads, OthersIdle(u)', u # t PROVE CreatorsOf(u)'
  BY DEF Creators
<1>2. stack'[t] = <<>> /\ stack'[u] = <<>>
  BY <1>1 DEF OthersIdle
<1>3. Len(stack'[u]) = 0 /\ Len(stack'[t]) = 0
  BY <1>2, EmptySeq
<1>4. QED
  BY <1>2, <1>3 DEF CreatorsOf, Bottom, One, Zero

LEMMA WhenItGoesOn ==
  ASSUME Turns, NEW t \in Threads, stack[t] # <<>>, NEW d \in Calls, Become(t, d)
  PROVE  /\ OthersIdle(t)' /\ stack'[t] # <<>> /\ Len(stack'[t]) = Len(stack[t])
         /\ Len(stack[t]) = 1 => stack'[t][1] = d
         /\ Len(stack[t]) = 2 => stack'[t][1] = stack[t][1] /\ stack'[t][2] = d
<1>1. /\ OthersIdle(t)' /\ Len(stack'[t]) = Len(stack[t])
      /\ stack'[t][Len(stack[t])] = d
      /\ \A i \in 1..(Len(stack[t]) - 1) : stack'[t][i] = stack[t][i]
  BY TheOneThatRuns, StackAfter
<1>2. Len(stack[t]) \in {1, 2}
  BY TheOneThatRuns
<1>3. stack'[t] # <<>>
  BY <1>1, <1>2, EmptySeq
<1>4. QED
  BY <1>1, <1>2, <1>3

LEMMA WhenItReturns ==
  ASSUME Turns, NEW t \in Threads, stack[t] # <<>>, Return(t)
  PROVE  /\ OthersIdle(t)'
         /\ Len(stack[t]) = 1 => stack'[t] = <<>> /\ Len(stack'[t]) = 0
         /\ Len(stack[t]) = 2 => /\ Len(stack'[t]) = 1 /\ stack'[t] # <<>>
                                 /\ stack'[t][1] = stack[t][1]
<1>1. /\ OthersIdle(t)' /\ Len(stack'[t]) = Len(stack[t]) - 1
      /\ Len(stack[t]) = 1 => stack'[t] = <<>>
      /\ \A i \in 1..(Len(stack[t]) - 1) : stack'[t][i] = stack[t][i]
  BY TheOneThatRuns, StackAfter
<1>2. Len(stack[t]) \in {1, 2}
  BY TheOneThatRuns
<1>3. Len(stack[t]) = 2 => stack'[t] # <<>>
  BY <1>1, EmptySeq
<1>4. QED
  BY <1>1, <1>2, <1>3

\* In a round the fragment is there, and its creator from "begin" on.
LEMMA RoundHasCreator ==
  ASSUME CInv, NEW t \in Threads, NEW pc \in LoopPCs, At(t, pc)
  PROVE  /\ listening
         /\ pc \notin {"erase", "create"} => One
         /\ pc = "create" => Zero
         /\ pc = "erase" => One \/ Zero
<1>1. stack[t] # <<>> /\ stack[t][1].pc = pc /\ OthersIdle(t)
  BY RoundIsAlone, TheOneThatRuns DEF CInv
<1>2. CreatorsOf(t)
  BY <1>1 DEF CInv, Creators
<1>3. QED
  BY <1>1, <1>2 DEF CreatorsOf, Bottom, AssignPCs, LoopPCs

\* What a round leaves has a creator, unless the next one is just to be made.
LEMMA RoundCreator ==
  ASSUME CInv, NEW t \in Threads, NEW pc \in LoopPCs, At(t, pc), listening', TypeOK',
         \/ Return(t) /\ One'
         \/ \E d \in Calls : /\ Become(t, d) /\ d.pc \in LoopPCs
                             /\ IF d.pc = "create" THEN Zero' ELSE One'
  PROVE  Creators'
<1>1. stack[t] # <<>> /\ Len(stack[t]) = 1 /\ Turns
  BY RoundIsAlone DEF CInv
<1>2. CASE Return(t) /\ One'
  <2>1. OthersIdle(t)' /\ stack'[t] = <<>> /\ Len(stack'[t]) = 0
    BY <1>1, <1>2, WhenItReturns
  <2>2. CreatorsOf(t)'
    BY <1>2, <2>1 DEF CreatorsOf, Bottom
  <2>3. QED
    BY <2>1, <2>2, AnyThread
<1>3. ASSUME NEW d \in Calls, Become(t, d), d.pc \in LoopPCs,
             IF d.pc = "create" THEN Zero' ELSE One'
      PROVE  Creators'
  <2>1. OthersIdle(t)' /\ stack'[t] # <<>> /\ Len(stack'[t]) = 1 /\ stack'[t][1] = d
    BY <1>1, <1>3, WhenItGoesOn
  <2>2. CreatorsOf(t)'
    BY <1>3, <2>1 DEF CreatorsOf, Bottom, LoopPCs
  <2>3. QED
    BY <2>1, <2>2, AnyThread
<1>4. QED
  BY <1>2, <1>3

LEMMA ErasesCreator ==
  ASSUME CInv, TypeOK', NEW t \in Threads, EraseBetweenSpans(t)
  PROVE  Creators'
<1>1. At(t, "erase") /\ "erase" \in LoopPCs
  BY DEF EraseBetweenSpans, LoopPCs
<1>2. PICK d \in Calls : d = Loop("create", ~catching[t]) /\ d.pc = "create" /\ Become(t, d)
  <2>1. ~catching[t]
    BY <1>1, RoundIsAlone DEF CInv, Round
  <2>2. QED
    BY <2>1, NewCalls DEF EraseBetweenSpans, Loop, LoopPCs
<1>3. listening /\ (One \/ Zero)
  BY <1>1, RoundHasCreator
<1>4. Zero' /\ listening'
  BY <1>3 DEF EraseBetweenSpans, CleanedUp, One, Zero
<1>5. QED
  BY <1>1, <1>2, <1>4, RoundCreator DEF LoopPCs

LEMMA MakesCreator ==
  ASSUME CInv, TypeOK', NEW t \in Threads, NewElementCreator(t)
  PROVE  Creators'
<1>1. At(t, "create") /\ "create" \in LoopPCs
  BY DEF NewElementCreator, LoopPCs
<1>2. stack[t] # <<>> /\ Top(t).pc = "create" /\ TypeOK
  BY <1>1, RoundIsAlone DEF CInv
<1>3. PICK d \in Calls : d.pc = "begin" /\ Become(t, d)
  BY <1>2, StepFacts DEF NewElementCreator, LoopPCs
<1>4. listening /\ Zero
  BY <1>1, RoundHasCreator
<1>5. One' /\ listening'
  BY <1>2, <1>4 DEF NewElementCreator, One, Zero, TypeOK
<1>6. QED
  BY <1>1, <1>3, <1>5, RoundCreator DEF LoopPCs

\* The other steps of a round leave the creator alone.
LEMMA KeepsCreator ==
  ASSUME CInv, TypeOK', NEW t \in Threads,
         \/ BeginRound(t) \/ GetElementCreator(t) \/ Draw(t) \/ BlockThrows(t)
         \/ BlockReturns(t) \/ EndRound(t) \/ SendBatch(t) \/ Again(t)
  PROVE  Creators'
<1>1. PICK pc \in LoopPCs : At(t, pc) /\ pc \notin {"erase", "create"}
  BY DEF BeginRound, GetElementCreator, Draw, BlockThrows, BlockReturns, EndRound, SendBatch,
         Again, LoopPCs
<1>2. stack[t] # <<>> /\ Top(t).pc = pc /\ TypeOK
  BY <1>1, RoundIsAlone DEF CInv
<1>3. UNCHANGED <<live, previousElementCreator, listening>>
  BY DEF BeginRound, GetElementCreator, Draw, BlockThrows, BlockReturns, EndRound, SendBatch,
         Again, creatorVars
<1>4. listening' /\ One'
  BY <1>1, <1>3, RoundHasCreator DEF One
<1>5. \/ Return(t) \/ Become(t, Loop("erase", FALSE))
      \/ \E to \in LoopPCs \ {"create"} : Step(t, to)
  BY DEF BeginRound, GetElementCreator, Draw, BlockThrows, BlockReturns, EndRound, SendBatch,
         Again, LoopPCs
<1>6. CASE Return(t)
  BY <1>1, <1>4, <1>6, RoundCreator
<1>7. CASE Become(t, Loop("erase", FALSE))
  <2>1. Loop("erase", FALSE) \in Calls /\ Loop("erase", FALSE).pc = "erase"
    BY NewCalls DEF Loop, LoopPCs
  <2>2. QED
    BY <1>1, <1>4, <1>7, <2>1, RoundCreator DEF LoopPCs
<1>8. ASSUME NEW to \in LoopPCs \ {"create"}, Step(t, to)
      PROVE  Creators'
  <2>1. PICK d \in Calls : d.pc = to /\ Become(t, d)
    BY <1>1, <1>2, <1>8, StepFacts
  <2>2. QED
    BY <1>1, <1>4, <1>8, <2>1, RoundCreator
<1>9. QED
  BY <1>5, <1>6, <1>7, <1>8

LEMMA AssigningKeepsCreator ==
  ASSUME CInv, TypeOK', NEW t \in Threads, Assign(t) \/ Notify(t) \/ MarkPending(t)
  PROVE  Creators'
<1>1. PICK pc \in AssignPCs : At(t, pc)
  BY DEF Assign, Notify, MarkPending, AssignPCs
<1>2. stack[t] # <<>> /\ Top(t).pc \in AssignPCs /\ Top(t) \in Calls /\ TypeOK /\ Turns
  BY <1>1, TopFacts DEF CInv, Turns
<1>3. UNCHANGED <<live, previousElementCreator, listening>>
  BY DEF Assign, Notify, MarkPending, creatorVars
<1>4. CreatorsOf(t)
  BY <1>2, TheOneThatRuns DEF CInv, Creators
<1>5. \/ Len(stack[t]) = 1 /\ Bottom(t, AssignPCs)
      \/ Len(stack[t]) = 2 /\ Bottom(t, {"block"})
  BY <1>2, TheOneThatRuns DEF Bottom, InBlock
<1>6. IF listening THEN One ELSE Zero /\ Len(stack[t]) = 1
  BY <1>4, <1>5 DEF CreatorsOf, Bottom, AssignPCs
<1>7. \/ Return(t)
      \/ listening /\ Len(stack[t]) = 1 /\ Become(t, Loop("erase", FALSE))
      \/ \E to \in AssignPCs : Step(t, to)
  <2>1. \/ Return(t)
        \/ listening /\ renderState = "NOT_RENDERING" /\ Become(t, Loop("erase", FALSE))
        \/ \E to \in AssignPCs : Step(t, to)
    BY DEF Assign, Notify, MarkPending, AssignPCs
  <2>2. renderState = "NOT_RENDERING" => Len(stack[t]) = 1
    BY <1>2, TheOneThatRuns DEF InBlock, Round
  <2>3. QED
    BY <2>1, <2>2
<1>8. CASE Return(t)
  <2>1. /\ OthersIdle(t)'
        /\ Len(stack[t]) = 1 => stack'[t] = <<>> /\ Len(stack'[t]) = 0
        /\ Len(stack[t]) = 2 => /\ Len(stack'[t]) = 1 /\ stack'[t] # <<>>
                                /\ stack'[t][1] = stack[t][1]
    BY <1>2, <1>8, WhenItReturns
  <2>2. CreatorsOf(t)'
    BY <1>3, <1>5, <1>6, <2>1 DEF CreatorsOf, Bottom, One, Zero
  <2>3. QED
    BY <2>1, <2>2, AnyThread
<1>9. ASSUME NEW d \in Calls, Become(t, d),
             d.pc \in AssignPCs \/ (d.pc = "erase" /\ listening /\ Len(stack[t]) = 1)
      PROVE  Creators'
  <2>1. /\ OthersIdle(t)' /\ stack'[t] # <<>> /\ Len(stack'[t]) = Len(stack[t])
        /\ Len(stack[t]) = 1 => stack'[t][1] = d
        /\ Len(stack[t]) = 2 => stack'[t][1] = stack[t][1] /\ stack'[t][2] = d
    BY <1>2, <1>9, WhenItGoesOn
  <2>2. CreatorsOf(t)'
    <3>1. CASE Len(stack[t]) = 1
      BY <1>3, <1>6, <1>9, <2>1, <3>1 DEF CreatorsOf, Bottom, One, Zero, AssignPCs
    <3>2. CASE Len(stack[t]) = 2 /\ stack[t][1].pc = "block"
      BY <1>3, <1>6, <1>9, <2>1, <3>2 DEF CreatorsOf, Bottom, One, Zero, AssignPCs
    <3>3. QED
      BY <1>5, <3>1, <3>2 DEF Bottom
  <2>3. QED
    BY <2>1, <2>2, AnyThread
<1>10. CASE listening /\ Len(stack[t]) = 1 /\ Become(t, Loop("erase", FALSE))
  <2>1. Loop("erase", FALSE) \in Calls /\ Loop("erase", FALSE).pc = "erase"
    BY NewCalls DEF Loop, LoopPCs
  <2>2. QED
    BY <1>9, <1>10, <2>1
<1>11. ASSUME NEW to \in AssignPCs, Step(t, to) PROVE Creators'
  <2>1. PICK d \in Calls : d.pc = to /\ Become(t, d)
    BY <1>2, <1>11, StepFacts
  <2>2. QED
    BY <1>9, <1>11, <2>1
<1>12. QED
  BY <1>7, <1>8, <1>10, <1>11

LEMMA SettingKeepsCreator ==
  ASSUME CInv, TypeOK', ~Concurrent, NEW t \in Threads, NEW v \in Values \cup {Null},
         SetValue(t, v)
  PROVE  Creators'
<1>1. PICK c \in Calls : c.pc = "assign" /\ Call(t, c)
  BY NewCalls DEF CInv, Turns, TypeOK, Assignment, SetValue
<1>2. InUserCode(t) /\ MayCall(t) /\ UNCHANGED <<live, previousElementCreator, listening>>
  BY DEF SetValue, creatorVars
<1>3. /\ OthersIdle(t) /\ TypeOK /\ stack[t] \in Seq(Calls)
      /\ \/ stack[t] = <<>> /\ Len(stack[t]) = 0
         \/ Len(stack[t]) = 1 /\ Bottom(t, {"block"})
  <2>1. /\ OthersIdle(t) /\ TypeOK /\ stack[t] \in Seq(Calls)
        /\ \/ stack[t] = <<>> /\ Len(stack[t]) = 0
           \/ Len(stack[t]) = 1 /\ stack[t][1].pc = "block"
    BY <1>2, WhereTheApplicationCalls DEF CInv
  <2>2. Len(stack[t]) = 1 => stack[t] # <<>>
    BY EmptySeq
  <2>3. QED
    BY <2>1, <2>2 DEF Bottom
<1>4. /\ OthersIdle(t)' /\ Len(stack'[t]) = Len(stack[t]) + 1
      /\ stack'[t][Len(stack[t]) + 1] = c
      /\ \A i \in 1..Len(stack[t]) : stack'[t][i] = stack[t][i]
  BY <1>1, <1>3, StackAfter
<1>5. stack'[t] # <<>>
  BY <1>3, <1>4, EmptySeq
<1>6. CreatorsOf(t)
  BY <1>3 DEF CInv, Creators
<1>7. CreatorsOf(t)'
  BY <1>1, <1>2, <1>3, <1>4, <1>5, <1>6 DEF CreatorsOf, Bottom, One, Zero, AssignPCs
<1>8. QED
  BY <1>4, <1>7, AnyThread

LEMMA CleaningUpKeepsCreator ==
  ASSUME CInv, TypeOK', ~Concurrent, ~CleanUpInBlock, NEW t \in Threads,
         CleanUpStarts(t) \/ CleanUpCreator(t) \/ RemoveListener(t)
  PROVE  Creators'
<1>1. TypeOK /\ Turns
  BY DEF CInv, Turns
<1>2. CASE CleanUpStarts(t)
  <2>1. PICK c \in Calls : c.pc = "clean" /\ Call(t, c)
    BY <1>2, NewCalls DEF CleanUpCall, CleanUpStarts
  <2>2. /\ stack[t] = <<>> /\ OthersIdle(t) /\ listening
        /\ UNCHANGED <<live, previousElementCreator, listening>>
    BY <1>2 DEF CleanUpStarts, MayCall, OthersIdle, creatorVars
  <2>3. Len(stack[t]) = 0
    BY <2>2, EmptySeq
  <2>4. OthersIdle(t)' /\ Len(stack'[t]) = 1 /\ stack'[t][1] = c
    <3>1. /\ OthersIdle(t)' /\ Len(stack'[t]) = Len(stack[t]) + 1
          /\ stack'[t][Len(stack[t]) + 1] = c
      BY <1>1, <2>1, <2>2, StackAfter
    <3>2. Len(stack[t]) + 1 = 1
      BY <2>3
    <3>3. QED
      BY <3>1, <3>2
  <2>5. One
    <3>1. CreatorsOf(t)
      BY <2>2 DEF CInv, Creators
    <3>2. QED
      BY <2>2, <3>1 DEF CreatorsOf, Bottom
  <2>6. CreatorsOf(t)'
    BY <2>1, <2>2, <2>4, <2>5 DEF CreatorsOf, Bottom, One
  <2>7. QED
    BY <2>4, <2>6, AnyThread
<1>3. ASSUME NEW pc \in {"clean", "unlisten"}, At(t, pc)
      PROVE  /\ stack[t] # <<>> /\ Top(t) \in Calls /\ Top(t).pc = pc
             /\ Len(stack[t]) = 1 /\ Bottom(t, {pc}) /\ listening
             /\ IF pc = "clean" THEN One ELSE Zero
  <2>1. stack[t] # <<>> /\ Top(t) \in Calls /\ Top(t).pc = pc
    BY <1>1, <1>3, TopFacts
  <2>2. OthersIdle(t)
    BY <1>1, <2>1, TheOneThatRuns
  <2>3. CreatorsOf(t)
    BY <2>2 DEF CInv, Creators
  <2>4. Len(stack[t]) = 1 /\ Top(t) = stack[t][1]
    BY <1>1, <1>3, <2>1, <2>3, TheOneThatRuns DEF CreatorsOf, AssignPCs
  <2>5. QED
    BY <1>3, <2>1, <2>3, <2>4 DEF CreatorsOf, Bottom, AssignPCs
<1>4. CASE CleanUpCreator(t)
  <2>1. At(t, "clean")
    BY <1>4 DEF CleanUpCreator
  <2>2. stack[t] # <<>> /\ Top(t).pc = "clean" /\ Len(stack[t]) = 1 /\ listening /\ One
    BY <1>3, <2>1
  <2>3. PICK d \in Calls : d.pc = "unlisten" /\ Become(t, d)
    BY <1>1, <1>4, <2>2, StepFacts DEF CleanUpCreator
  <2>4. OthersIdle(t)' /\ stack'[t] # <<>> /\ Len(stack'[t]) = 1 /\ stack'[t][1] = d
    BY <1>1, <2>2, <2>3, WhenItGoesOn
  <2>5. Zero' /\ listening'
    BY <1>4, <2>2 DEF CleanUpCreator, One, Zero
  <2>6. CreatorsOf(t)'
    BY <2>3, <2>4, <2>5 DEF CreatorsOf, Bottom
  <2>7. QED
    BY <2>4, <2>6, AnyThread
<1>5. CASE RemoveListener(t)
  <2>1. At(t, "unlisten") /\ Return(t)
    BY <1>5 DEF RemoveListener
  <2>2. stack[t] # <<>> /\ Len(stack[t]) = 1 /\ Zero
    BY <1>3, <2>1
  <2>3. OthersIdle(t)' /\ stack'[t] = <<>> /\ Len(stack'[t]) = 0
    BY <1>1, <2>1, <2>2, WhenItReturns
  <2>4. Zero' /\ ~listening'
    BY <1>5, <2>2 DEF RemoveListener, Zero, creatorVars
  <2>5. CreatorsOf(t)'
    BY <2>3, <2>4 DEF CreatorsOf
  <2>6. QED
    BY <2>3, <2>5, AnyThread
<1>6. QED
  BY <1>2, <1>4, <1>5

LEMMA CreatorsInit == Init => CInv
<1>1. SUFFICES ASSUME Init PROVE Creators
  BY TurnsInit DEF CInv
<1>2. SUFFICES ASSUME NEW t \in Threads, OthersIdle(t) PROVE CreatorsOf(t)
  BY DEF Creators
<1>3. Renderer \in Threads
  BY RenderAssumption
<1>4. PICK c \in Calls : c = Loop("erase", FALSE) /\ c.pc = "erase"
  BY NewCalls DEF Loop, LoopPCs
<1>5. stack[Renderer] = <<c>>
  BY <1>1, <1>3, <1>4 DEF Init
<1>6. /\ Len(stack[Renderer]) = 1 /\ stack[Renderer][1] = c /\ stack[Renderer] # <<>>
  BY <1>5
<1>7. t = Renderer
  BY <1>2, <1>3, <1>6 DEF OthersIdle
<1>8. Zero /\ listening
  BY <1>1 DEF Init, Zero
<1>9. CreatorsOf(Renderer)
  <2>1. Bottom(Renderer, {"erase", "create", "unlisten"})
    BY <1>4, <1>6 DEF Bottom
  <2>2. Len(stack[Renderer]) # 2
    BY <1>6
  <2>3. QED
    BY <1>8, <2>1, <2>2 DEF CreatorsOf
<1>10. QED
  BY <1>7, <1>9

LEMMA CreatorsStep == ~Concurrent /\ ~CleanUpInBlock /\ CInv /\ [Next]_vars => CInv'
<1>1. SUFFICES ASSUME ~Concurrent, ~CleanUpInBlock, CInv, [Next]_vars PROVE CInv'
  OBVIOUS
<1>2. Turns'
  BY <1>1, TurnsStep DEF CInv
<1>3. TypeOK'
  BY <1>2 DEF Turns
<1>4. CASE UNCHANGED vars
  BY <1>1, <1>2, <1>4 DEF CInv, Creators, CreatorsOf, OthersIdle, Bottom, One, Zero, vars,
                          creatorVars
<1>5. ASSUME NEW t \in Threads, Proceed(t) PROVE Creators'
  BY <1>1, <1>3, <1>5, ErasesCreator, MakesCreator, KeepsCreator, AssigningKeepsCreator,
     CleaningUpKeepsCreator DEF Proceed
<1>6. ASSUME NEW t \in Threads, NEW v \in Values \cup {Null}, SetValue(t, v) PROVE Creators'
  BY <1>1, <1>3, <1>6, SettingKeepsCreator
<1>7. ASSUME NEW t \in Threads, CleanUpStarts(t) PROVE Creators'
  BY <1>1, <1>3, <1>7, CleaningUpKeepsCreator
<1>8. QED
  BY <1>1, <1>2, <1>4, <1>5, <1>6, <1>7 DEF Next, CInv

\* With threads that take turns, and a block that does not have its own fragment
\* cleaned up, no ElementCreator is left behind: once all threads are through there is
\* exactly that of the round drawn last, and none when the fragment is gone.
THEOREM NoCreatorIsLost ==
  ASSUME ~Concurrent, ~CleanUpInBlock PROVE Spec => []CreatorsAreCleanedUp
<1>1. CInv => CreatorsAreCleanedUp
  <2>1. SUFFICES ASSUME CInv, Quiet
                 PROVE  live = IF listening THEN {previousElementCreator} ELSE {}
    BY DEF CreatorsAreCleanedUp
  <2>2. PICK t \in Threads : stack[t] = <<>> /\ OthersIdle(t)
    BY <2>1, RenderAssumption DEF Quiet, OthersIdle
  <2>3. CreatorsOf(t)
    BY <2>1, <2>2 DEF CInv, Creators
  <2>4. QED
    BY <2>2, <2>3 DEF CreatorsOf, Bottom, One, Zero
<1>2. QED
  BY <1>1, CreatorsInit, CreatorsStep, PTL DEF Spec
=============================================================================
