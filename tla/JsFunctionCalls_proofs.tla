------------------------ MODULE JsFunctionCalls_proofs ------------------------
(***************************************************************************)
(* Proofs about JsFunctionCalls, for any number of bodies, threads, calls  *)
(* and blocks, and blocks and functions that throw.  The types hold in any *)
(* case.  The other two theorems are about threads that take turns         *)
(* (~Concurrent): the id of a function is in the cache of the server       *)
(* before its body is sent.  They assume nothing else.                     *)
(***************************************************************************)
EXTENDS JsFunctionCalls, FiniteSetTheorems, SequenceTheorems, WellFoundedInduction, TLAPS

(***************************************************************************)
(* The inductive invariant of TypeOK.  Each call and each block generates  *)
(* one id at most.                                                         *)
(***************************************************************************)
Defining == {t \in Threads : pc[t] = "define"}
Recording == {t \in Threads : block[t] = "immediate"}

Counted ==
  /\ IsFiniteSet(Defining) /\ IsFiniteSet(Recording)
  /\ ids + Cardinality(Defining) + Cardinality(Recording) <= calls

\* What is caught: a call with the body of a function, or one that has it.
Catchable(fc) == fc.jsId \in Ids /\ fc.js.kind \in {"body", "null"}

ThreadOK(t) ==
  /\ pc[t] = "define" => calling[t].js.kind = "body"
  /\ pc[t] = "send" =>
       /\ calling[t].jsId \in Ids
       /\ calling[t].js.kind \in {"body", "listener", "null"}
       /\ calling[t].js.kind = "listener" => catcher[t] = "none"
  /\ pc[t] = "register" => calling[t].callbackId # 0
  /\ block[t] = "batch" => catcher[t] = "EVENT"
  /\ block[t] = "immediate" => catcher[t] = "IMMEDIATE_EVENT"
  /\ \A k \in DOMAIN functionList[t] : Catchable(functionList[t][k])

TInv == TypeOK /\ Counted /\ \A t \in Threads : ThreadOK(t)

(***************************************************************************)
(* Calls and what they need.                                               *)
(***************************************************************************)
\* A call with the body of function i, or that puts it into the cache.
Defines(fc, i) ==
  \/ fc.js.kind = "body" /\ fc.jsId = i
  \/ fc.js.kind = "cache" /\ fc.js.jsId = i

\* A call that finds function i in the browser, or a listener that will.
Needs(fc, i) ==
  \/ fc.js.kind = "null" /\ fc.jsId = i
  \/ fc.js.kind = "listener" /\ i \in ToSet(fc.js.jsIds)

\* The functions that are there, or get there before message m of the queue; those
\* that are there at its end.  Those whose text is lost count as there: nothing is
\* claimed of them.
KnownBefore(there, queue, m) ==
  there \cup {i \in Ids : \E n \in 1..(m - 1) : \E j \in DOMAIN queue[n] : Defines(queue[n][j], i)}
KnownAfter(there, queue) == KnownBefore(there, queue, Len(queue) + 1)
There == {i \in Ids : Lost(i) \/ functions[i] = "defined"}
Known == KnownAfter(There, sent)

\* Every call of a message finds its functions, if those in known are there.
Sound(msg, known) ==
  \A j \in DOMAIN msg : \A i \in Ids :
    Needs(msg[j], i) => i \in known \/ \E k \in 1..(j - 1) : Defines(msg[k], i)

\* A call that always parses.
Harmless(msg) == \A j \in DOMAIN msg : msg[j].js.kind \in {"body", "null"}

\* The function i is in the batch of thread t.
InBatch(t, i) ==
  block[t] = "batch" /\ \E k \in DOMAIN functionList[t] : Defines(functionList[t][k], i)

\* The calls on their way find their functions.  A listener or what is sent ahead of
\* it, which may fail to parse, has a message of its own.
QueueSound(there, queue) ==
  \A m \in DOMAIN queue : /\ Sound(queue[m], KnownBefore(there, queue, m))
                          /\ Len(queue[m]) = 1 \/ Harmless(queue[m])
QueueRecorded ==
  \A m \in DOMAIN sent : \A j \in DOMAIN sent[m] :
    sent[m][j].js.kind = "cache" => sent[m][j].js \in recorded

\* So do those a thread has caught, and the one it is about to send.
CaughtOK(t) ==
  /\ block[t] = "batch" => Sound(functionList[t], Known)
  /\ block[t] = "immediate" =>
       \A k \in DOMAIN functionList[t] : functionList[t][k].jsId \in Known
  /\ pc[t] = "send" =>
       \A i \in Ids : Needs(calling[t], i) => i \in Known \/ InBatch(t, i)

\* A body with an id is in the browser, on its way, or with the thread that is
\* about to send it.
Held(i) ==
  \/ i \in Known
  \/ \E t \in Threads : InBatch(t, i) \/ (pc[t] = "send" /\ Defines(calling[t], i))
BodiesOK == \A b \in Bodies : cachedFunctions[b] # 0 => Held(cachedFunctions[b])

Turns == \A t, u \in Threads :
  t # u /\ (pc[t] # "idle" \/ block[t] # "none") => pc[u] = "idle" /\ block[u] = "none"

Orderly ==
  QueueSound(There, sent) /\ QueueRecorded /\ BodiesOK /\ \A t \in Threads : CaughtOK(t)

BrowserOK ==
  /\ browser = "loading" <=> page = "building"
  /\ page = "building" => /\ \A i \in Ids : functions[i] = "undefined"
                          /\ listeners = {} /\ inlined = 0

FInv == FunctionsAreThere /\ Orderly

\* Nothing has gone wrong so far that a page may die of.
Smooth == pitfalls = {} /\ \A i \in Ids : ~Lost(i)

\* While the page is built, an id is sent before anything is recorded with it only,
\* and what is recorded is not called.  The ids in use are those generated so far.
Bare(fc) == fc.js.kind = "null" => \A js \in recorded : js.jsId # fc.jsId
Short(fc) == fc.js.kind = "listener" => Len(fc.js.jsIds) <= 1

SentOK ==
  \A m \in DOMAIN sent : \A j \in DOMAIN sent[m] :
    /\ page = "building" => Bare(sent[m][j]) /\ sent[m][j].jsId <= ids
    /\ page = "building" \/ m <= inlined => Short(sent[m][j])

PageThreadOK(t) ==
  page = "building" =>
    /\ \A k \in DOMAIN functionList[t] :
         /\ functionList[t][k].jsId <= ids
         /\ block[t] = "batch" => Bare(functionList[t][k])
    /\ pc[t] = "send" =>
         /\ calling[t].jsId <= ids /\ Short(calling[t])
         /\ catcher[t] # "IMMEDIATE_EVENT" => Bare(calling[t])
         /\ calling[t].js.kind = "body" =>
              \A m \in DOMAIN sent : \A j \in DOMAIN sent[m] :
                sent[m][j].jsId # calling[t].jsId

PInv == Smooth => browser # "dead" /\ SentOK /\ \A t \in Threads : PageThreadOK(t)

-----------------------------------------------------------------------------
(***************************************************************************)
(* What the folds of JsFunctionCalls compute, step by step.                *)
(***************************************************************************)
\* What is true of 0 and passes from each number to the next is true of all.
LEMMA StepByStep ==
  ASSUME NEW S, 0 \in S, \A k \in Nat : k \in S => k + 1 \in S
  PROVE  \A k \in Nat : k \in S
<1> DEFINE T == {k \in Nat : k \notin S}
<1>1. SUFFICES T = {}
  OBVIOUS
<1>2. SUFFICES ASSUME T # {} PROVE FALSE
  OBVIOUS
<1>3. IsWellFoundedOn(OpToRel(<, Nat), Nat)
  BY NatLessThanWellFounded
<1>4. T \subseteq Nat
  OBVIOUS
<1>5. PICK k \in T : \A m \in T : <<m, k>> \notin OpToRel(<, Nat)
  BY ONLY <1>2, <1>3, <1>4, WFMin
<1>6. k \in Nat /\ k # 0
  BY <1>5
<1>7. k - 1 \in Nat /\ k - 1 < k /\ (k - 1) + 1 = k
  BY ONLY <1>6
<1>8. k - 1 \in S
  BY <1>5, <1>6, <1>7 DEF OpToRel
<1>9. QED
  BY <1>5, <1>7, <1>8

LEMMA LargestIndex ==
  ASSUME NEW n \in Nat, NEW S, S \subseteq 1..n, n \in S
  PROVE  Max(S) = n
<1>1. n \in S /\ \A i \in S : n >= i
  OBVIOUS
<1>2. Max(S) \in S /\ \A i \in S : Max(S) >= i
  BY <1>1 DEF Max
<1>3. PICK k \in S : k = Max(S) /\ k >= n
  BY ONLY <1>1, <1>2
<1>4. k \in 1..n
  BY ONLY <1>3, S \subseteq 1..n
<1>5. QED
  BY ONLY <1>3, <1>4, n \in Nat

\* A function of sets of indices as FoldLeft has it.
Folds(f, st, msg, n) ==
  f = [s \in SUBSET (1..n) |->
         IF s = {} THEN st ELSE Execute(f[s \ {Max(s)}], msg[Max(s)])]

LEMMA FoldIs ==
  ASSUME NEW st, NEW msg \in Seq(FunctionCalls), NEW g, Folds(g, st, msg, Len(msg))
  PROVE  \E f : Folds(f, st, msg, Len(msg)) /\ FoldLeft(Execute, st, msg) = f[1..Len(msg)]
<1>1. DOMAIN msg = 1..Len(msg)
  OBVIOUS
<1>2. QED
  BY <1>1, Zenon DEF FoldLeft, MapThenFoldSet, Folds

LEMMA FoldExtends ==
  ASSUME NEW st, NEW msg \in Seq(FunctionCalls), NEW n \in Nat, NEW f, Folds(f, st, msg, n)
  PROVE  \E g : Folds(g, st, msg, n + 1)
<1> DEFINE D == SUBSET (1..n)
           E == SUBSET (1..(n + 1))
           g == [s \in E |-> IF n + 1 \in s THEN Execute(f[s \ {n + 1}], msg[n + 1]) ELSE f[s]]
           h == [s \in E |-> IF s = {} THEN st ELSE Execute(g[s \ {Max(s)}], msg[Max(s)])]
<1>1. \A s \in E : s \ {n + 1} \in D /\ (n + 1 \notin s => s \in D)
  <2>1. 1..(n + 1) = (1..n) \cup {n + 1}
    OBVIOUS
  <2>2. QED
    BY <2>1
<1>2. \A s \in D : f[s] = IF s = {} THEN st ELSE Execute(f[s \ {Max(s)}], msg[Max(s)])
  BY DEF Folds
<1>3. ASSUME NEW s \in E PROVE g[s] = h[s]
  <2>1. CASE s = {}
    BY <1>1, <1>2, <2>1
  <2>2. CASE n + 1 \in s
    <3>1. Max(s) = n + 1
      <4>1. n + 1 \in Nat /\ s \subseteq 1..(n + 1)
        OBVIOUS
      <4>2. QED
        BY <2>2, <4>1, LargestIndex
    <3>2. s \ {n + 1} \in E /\ n + 1 \notin s \ {n + 1}
      OBVIOUS
    <3>3. g[s \ {n + 1}] = f[s \ {n + 1}]
      BY <3>2
    <3>4. QED
      BY <2>2, <3>1, <3>3
  <2>3. CASE s # {} /\ n + 1 \notin s
    <3>1. s \in D
      BY <1>1, <2>3
    <3>2. s \ {Max(s)} \in D /\ s \ {Max(s)} \in E /\ n + 1 \notin s \ {Max(s)}
      BY <2>3, <3>1
    <3>3. g[s \ {Max(s)}] = f[s \ {Max(s)}]
      BY <3>2
    <3>4. f[s] = Execute(f[s \ {Max(s)}], msg[Max(s)])
      BY <1>2, <2>3, <3>1
    <3>5. g[s] = f[s] /\ h[s] = Execute(g[s \ {Max(s)}], msg[Max(s)])
      BY <2>3
    <3>6. QED
      BY <3>3, <3>4, <3>5
  <2>4. QED
    BY <2>1, <2>2, <2>3
<1>4. g = h
  BY <1>3
<1>5. QED
  BY <1>4 DEF Folds

LEMMA FoldExists ==
  ASSUME NEW st, NEW msg \in Seq(FunctionCalls)
  PROVE  \A n \in Nat : \E g : Folds(g, st, msg, n)
<1> DEFINE S == {n \in Nat : \E g : Folds(g, st, msg, n)}
<1>1. 0 \in S
  <2> DEFINE g == [s \in {{}} |-> st]
             h == [s \in {{}} |-> IF s = {} THEN st ELSE Execute(g[s \ {Max(s)}], msg[Max(s)])]
  <2>1. SUBSET (1..0) = {{}}
    OBVIOUS
  <2>2. g = h
    OBVIOUS
  <2>3. Folds(g, st, msg, 0)
    BY <2>1, <2>2 DEF Folds
  <2>4. QED
    BY <2>3
<1>2. ASSUME NEW n \in Nat, n \in S PROVE n + 1 \in S
  <2>1. PICK f : Folds(f, st, msg, n)
    BY <1>2
  <2>2. \E g : Folds(g, st, msg, n + 1)
    BY <2>1, FoldExtends
  <2>3. QED
    BY <2>2
<1> HIDE DEF S
<1>3. \A n \in Nat : n \in S
  BY <1>1, <1>2, StepByStep
<1>4. QED
  BY <1>3 DEF S

\* The browser after so many calls of a message.
Runs(h, st, msg) ==
  h[0] = st /\ \A n \in 0..(Len(msg) - 1) : h[n + 1] = Execute(h[n], msg[n + 1])

LEMMA MessageRuns ==
  ASSUME NEW st, NEW msg \in Seq(FunctionCalls)
  PROVE  \E h : Runs(h, st, msg) /\ FoldLeft(Execute, st, msg) = h[Len(msg)]
<1> DEFINE l == Len(msg)
<1>1. l \in Nat
  OBVIOUS
<1>2. PICK g : Folds(g, st, msg, l)
  BY <1>1, FoldExists
<1>3. PICK f : Folds(f, st, msg, l) /\ FoldLeft(Execute, st, msg) = f[1..l]
  BY <1>2, FoldIs
<1> DEFINE h == [n \in 0..l |-> f[1..n]]
<1> HIDE DEF l
<1>4. \A s \in SUBSET (1..l) :
        f[s] = IF s = {} THEN st ELSE Execute(f[s \ {Max(s)}], msg[Max(s)])
  BY <1>3 DEF Folds
<1>5. h[0] = st
  <2>1. 1..0 = {} /\ h[0] = f[1..0]
    BY <1>1
  <2>2. QED
    BY <1>4, <2>1
<1>6. ASSUME NEW n \in 0..(l - 1) PROVE h[n + 1] = Execute(h[n], msg[n + 1])
  <2>1. /\ n \in Nat /\ n + 1 \in 1..(n + 1) /\ 1..(n + 1) \in SUBSET (1..l)
        /\ (1..(n + 1)) \ {n + 1} = 1..n /\ n \in 0..l /\ n + 1 \in 0..l
    BY <1>1
  <2>2. Max(1..(n + 1)) = n + 1
    <3>1. n + 1 \in Nat /\ 1..(n + 1) \subseteq 1..(n + 1)
      BY <2>1
    <3>2. QED
      BY <2>1, <3>1, LargestIndex
  <2>3. f[1..(n + 1)] = Execute(f[1..n], msg[n + 1])
    BY <1>4, <2>1, <2>2
  <2>4. h[n] = f[1..n] /\ h[n + 1] = f[1..(n + 1)]
    BY <2>1
  <2>5. QED
    BY <2>3, <2>4
<1>7. h[l] = f[1..l]
  BY <1>1
<1>8. QED
  BY <1>3, <1>5, <1>6, <1>7 DEF Runs, l

-----------------------------------------------------------------------------
(***************************************************************************)
(* Types.                                                                  *)
(***************************************************************************)
BrowserStates == [ok : BOOLEAN, functions : [Ids -> {"undefined", "empty", "defined"}],
                  listeners : SUBSET Seq(Ids), answers : SUBSET Ids, failed : SUBSET Ids,
                  throwing : SUBSET {fc \in FunctionCalls : fc.js.kind # "cache"}]

LEMMA CodeKinds ==
  ASSUME NEW js \in Codes
  PROVE  /\ js.kind \in {"body", "cache", "listener", "null"}
         /\ js.kind = "body" => js = Body(js.body) /\ js.body \in Bodies
         /\ js.kind = "cache" => js.jsId \in Ids /\ js.body \in Bodies
         /\ js.kind = "listener" => js = Listener(js.jsIds) /\ js.jsIds \in Seq(Ids)
         /\ js.kind = "null" <=> js = NoJs
  BY DEF Codes, Body, Listener, NoJs

LEMMA ExecuteType ==
  ASSUME NEW st \in BrowserStates, NEW fc \in FunctionCalls
  PROVE  Execute(st, fc) \in BrowserStates
<1> DEFINE kept == Kept(st.functions, fc)
<1>1. /\ fc.jsId \in Ids \cup {0} /\ fc.js \in Codes /\ fc.callbackId \in Ids \cup {0}
      /\ st.functions \in [Ids -> {"undefined", "empty", "defined"}]
      /\ st.listeners \subseteq Seq(Ids) /\ st.answers \subseteq Ids
  BY DEF FunctionCalls, BrowserStates
<1>2. kept \in [Ids -> {"undefined", "empty", "defined"}]
  BY <1>1 DEF Kept
<1>3. fc.js.kind = "cache" => [kept EXCEPT ![fc.js.jsId] = "defined"]
                                \in [Ids -> {"undefined", "empty", "defined"}]
  BY <1>2
<1>4. fc.js.kind = "listener" => st.listeners \cup {fc.js.jsIds} \in SUBSET Seq(Ids)
  BY <1>1, CodeKinds
<1>5. st.answers \cup Answers(fc) \in SUBSET Ids
  BY <1>1 DEF Answers
<1>6. [st EXCEPT !.ok = FALSE] \in BrowserStates
  BY DEF BrowserStates
<1>7. st.failed \cup ({fc.callbackId} \ {0}) \in SUBSET Ids
  BY <1>1 DEF BrowserStates
<1> HIDE DEF kept
<1>8. CASE ~st.ok \/ ~((fc.jsId # 0 /\ st.functions[fc.jsId] # "undefined") \/ Parses(fc.js))
  BY <1>6, <1>8 DEF Execute
<1>9. CASE /\ ~(~st.ok \/ ~((fc.jsId # 0 /\ st.functions[fc.jsId] # "undefined") \/ Parses(fc.js)))
           /\ fc \in st.throwing
  <2>1. Execute(st, fc) =
          [st EXCEPT !.functions = kept, !.failed = @ \cup ({fc.callbackId} \ {0})]
    BY <1>9 DEF Execute, kept
  <2>2. QED
    BY <1>2, <1>7, <2>1 DEF BrowserStates
<1>10. CASE /\ ~(~st.ok \/ ~((fc.jsId # 0 /\ st.functions[fc.jsId] # "undefined") \/ Parses(fc.js)))
            /\ fc \notin st.throwing
  <2>1. PICK fs \in [Ids -> {"undefined", "empty", "defined"}] :
          fs = IF fc.js.kind = "cache" THEN [kept EXCEPT ![fc.js.jsId] = "defined"] ELSE kept
    BY <1>2, <1>3
  <2>2. PICK ls \in SUBSET Seq(Ids) :
          ls = IF fc.js.kind = "listener" THEN st.listeners \cup {fc.js.jsIds} ELSE st.listeners
    BY <1>1, <1>4
  <2>3. Execute(st, fc) =
          [st EXCEPT !.functions = fs, !.listeners = ls, !.answers = @ \cup Answers(fc)]
    BY <1>10, <2>1, <2>2 DEF Execute, kept
  <2>4. QED
    BY <1>5, <2>3 DEF BrowserStates
<1>11. QED
  BY <1>8, <1>9, <1>10

LEMMA RunType ==
  ASSUME NEW st \in BrowserStates, NEW msg \in Seq(FunctionCalls), NEW h, Runs(h, st, msg)
  PROVE  \A n \in 0..Len(msg) : h[n] \in BrowserStates
<1> DEFINE S == {n \in Nat : n <= Len(msg) => h[n] \in BrowserStates}
<1>1. 0 \in S
  BY DEF Runs
<1>2. ASSUME NEW n \in Nat, n \in S PROVE n + 1 \in S
  <2>1. SUFFICES ASSUME n + 1 <= Len(msg) PROVE h[n + 1] \in BrowserStates
    OBVIOUS
  <2>2. n \in 0..(Len(msg) - 1) /\ n <= Len(msg) /\ n + 1 \in 1..Len(msg)
    BY <2>1
  <2>3. h[n + 1] = Execute(h[n], msg[n + 1]) /\ msg[n + 1] \in FunctionCalls
    BY <2>2 DEF Runs
  <2>4. QED
    BY <1>2, <2>2, <2>3, ExecuteType
<1> HIDE DEF S
<1>3. \A n \in Nat : n \in S
  BY <1>1, <1>2, StepByStep
<1>4. QED
  BY <1>3 DEF S

LEMMA FoldType ==
  ASSUME TypeOK, sent # <<>>, NEW throwing \in SUBSET MayThrow(Head(sent))
  PROVE  FoldLeft(Execute, Before(throwing), Head(sent)) \in BrowserStates
<1>1. Head(sent) \in Seq(FunctionCalls)
  BY DEF TypeOK
<1>2. Before(throwing) \in BrowserStates
  BY <1>1 DEF TypeOK, Before, BrowserStates, MayThrow, ToSet
<1>3. PICK h : /\ Runs(h, Before(throwing), Head(sent))
               /\ FoldLeft(Execute, Before(throwing), Head(sent)) = h[Len(Head(sent))]
  BY <1>1, <1>2, MessageRuns
<1>4. Len(Head(sent)) \in 0..Len(Head(sent))
  BY <1>1
<1>5. QED
  BY <1>1, <1>2, <1>3, <1>4, RunType

LEMMA TypeInit ==
  ASSUME Init
  PROVE  TInv
<1>1. MaxCalls \in Nat
  BY CallsAssumption
<1>2. TypeOK
  BY <1>1 DEF Init, TypeOK, FunctionCalls, FunctionCall, Codes, NoJs
<1>3. Defining = {} /\ Recording = {}
  BY DEF Init, Defining, Recording
<1>4. Counted
  BY <1>3, FS_EmptySet DEF Init, Counted
<1>5. \A t \in Threads : ThreadOK(t)
  BY DEF Init, ThreadOK
<1>6. QED
  BY <1>2, <1>4, <1>5 DEF TInv

\* Threads other than the one that acts.
LEMMA OthersOK ==
  ASSUME NEW t \in Threads, ThreadOK(t),
         pc'[t] = pc[t], calling'[t] = calling[t], catcher'[t] = catcher[t],
         block'[t] = block[t], functionList'[t] = functionList[t]
  PROVE  ThreadOK(t)'
  BY DEF ThreadOK

LEMMA CallType ==
  ASSUME TInv, NEW t \in Threads, NEW b \in Bodies, NEW cb \in BOOLEAN,
         CallJsFunction(t, b, cb)
  PROVE  TInv'
<1> DEFINE c == IF cb THEN calls + 1 ELSE 0
<1>1. /\ MaxCalls \in Nat /\ TypeOK /\ Counted /\ \A u \in Threads : ThreadOK(u)
      /\ pc[t] = "idle" /\ calls < MaxCalls /\ calls' = calls + 1
      /\ calling' = [calling EXCEPT ![t] = IF cachedFunctions[b] # 0
                       THEN FunctionCall(cachedFunctions[b], NoJs, c)
                       ELSE FunctionCall(0, Body(b), c)]
      /\ pc' = [pc EXCEPT ![t] = IF cachedFunctions[b] # 0 THEN "send" ELSE "define"]
      /\ pitfalls' \in {pitfalls, pitfalls \cup {"called"}} /\ recorded' = recorded
      /\ UNCHANGED <<cachedFunctions, ids, catchVars, pageVars, sent, handlerVars, browserVars>>
  BY CallsAssumption DEF TInv, CallJsFunction, MayUse
<1>2. c \in Ids \cup {0} /\ cachedFunctions[b] \in Ids \cup {0}
  BY <1>1 DEF TypeOK, Ids
<1>3. TypeOK'
  <2>1. FunctionCall(cachedFunctions[b], NoJs, c) \in FunctionCalls
    BY <1>2 DEF FunctionCalls, FunctionCall, Codes
  <2>2. FunctionCall(0, Body(b), c) \in FunctionCalls
    BY <1>2 DEF FunctionCalls, FunctionCall, Codes, Body
  <2>3. calling' \in [Threads -> FunctionCalls]
    BY <1>1, <2>1, <2>2 DEF TypeOK
  <2>4. QED
    BY <1>1, <2>3 DEF TypeOK, catchVars, pageVars, handlerVars, browserVars
<1>4. Counted'
  <2>1. t \notin Defining /\ Recording' = Recording
        /\ (Defining' = Defining \/ Defining' = Defining \cup {t})
    BY <1>1 DEF TypeOK, Defining, Recording, catchVars
  <2>2. IsFiniteSet(Defining \cup {t}) /\ Cardinality(Defining \cup {t}) = Cardinality(Defining) + 1
    BY <1>1, <2>1, FS_AddElement DEF Counted
  <2>3. Cardinality(Defining) \in Nat /\ Cardinality(Recording) \in Nat /\ ids \in Nat /\ calls \in Nat
    BY <1>1, FS_CardinalityType DEF Counted, TypeOK
  <2>4. /\ IsFiniteSet(Defining') /\ Cardinality(Defining') \in Nat
        /\ Cardinality(Defining') <= Cardinality(Defining) + 1
    <3>1. CASE Defining' = Defining
      BY <1>1, <2>3, <3>1 DEF Counted
    <3>2. CASE Defining' = Defining \cup {t}
      BY <2>2, <2>3, <3>2
    <3>3. QED
      BY <2>1, <3>1, <3>2
  <2>5. IsFiniteSet(Recording') /\ Cardinality(Recording') = Cardinality(Recording)
    BY <1>1, <2>1 DEF Counted
  <2>6. ids' + Cardinality(Defining') + Cardinality(Recording') <= calls'
    <3>1. ids + Cardinality(Defining) + Cardinality(Recording) <= calls
      BY <1>1 DEF Counted
    <3>2. ids' = ids /\ calls' = calls + 1
      BY <1>1
    <3>3. QED
      BY ONLY <2>3, <2>4, <2>5, <3>1, <3>2
  <2>7. QED
    BY <2>4, <2>5, <2>6 DEF Counted
<1>5. ASSUME NEW u \in Threads PROVE ThreadOK(u)'
  <2>1. CASE u = t
    BY <1>1, <1>2, <2>1 DEF ThreadOK, TypeOK, FunctionCall, Body, NoJs, catchVars
  <2>2. CASE u # t
    BY <1>1, <2>2, OthersOK DEF TypeOK, catchVars
  <2>3. QED
    BY <2>1, <2>2
<1>6. QED
  BY <1>3, <1>4, <1>5 DEF TInv

LEMMA DefineType ==
  ASSUME TInv, NEW t \in Threads, Define(t)
  PROVE  TInv'
<1>1. /\ MaxCalls \in Nat /\ TypeOK /\ Counted /\ \A u \in Threads : ThreadOK(u)
      /\ pc[t] = "define" /\ ids' = ids + 1
      /\ cachedFunctions' = [cachedFunctions EXCEPT ![calling[t].js.body] = ids']
      /\ calling' = [calling EXCEPT ![t].jsId = ids']
      /\ pc' = [pc EXCEPT ![t] = "send"]
      /\ UNCHANGED <<calls, catchVars, pageVars, sent, handlerVars, browserVars, historyVars>>
  BY CallsAssumption DEF TInv, Define
<1>2. Counted' /\ ids' \in Ids /\ ids \in Nat
  <2>1. t \in Defining /\ Recording' = Recording /\ Defining' = Defining \ {t}
    BY <1>1 DEF TypeOK, Defining, Recording, catchVars
  <2>2. IsFiniteSet(Defining \ {t}) /\ Cardinality(Defining \ {t}) = Cardinality(Defining) - 1
    BY <1>1, <2>1, FS_RemoveElement DEF Counted
  <2>3. Cardinality(Defining) \in Nat /\ Cardinality(Recording) \in Nat /\ ids \in Nat /\ calls \in 0..MaxCalls
        /\ Cardinality(Defining') \in Nat
    BY <1>1, <2>1, <2>2, FS_CardinalityType DEF Counted, TypeOK
  <2>4. QED
    BY <1>1, <2>1, <2>2, <2>3 DEF Counted, Ids
<1>3. TypeOK'
  <2>1. calling' \in [Threads -> FunctionCalls]
    <3>1. calling[t] \in FunctionCalls
      BY <1>1 DEF TypeOK
    <3>2. [calling[t] EXCEPT !.jsId = ids'] \in FunctionCalls
      BY <1>2, <3>1 DEF FunctionCalls
    <3>3. QED
      BY <1>1, <3>2 DEF TypeOK
  <2>2. cachedFunctions' \in [Bodies -> 0..ids']
    <3>1. cachedFunctions \in [Bodies -> 0..ids] /\ ids' = ids + 1 /\ ids \in Nat
      BY <1>1, <1>2 DEF TypeOK
    <3>2. \A b \in Bodies : cachedFunctions'[b] \in 0..ids'
      BY <1>1, <3>1
    <3>3. cachedFunctions' = [b \in Bodies |-> cachedFunctions'[b]]
      BY <1>1, <3>1
    <3>4. QED
      BY <3>2, <3>3
  <2>3. QED
    BY <1>1, <1>2, <2>1, <2>2
       DEF TypeOK, Ids, catchVars, pageVars, handlerVars, browserVars, historyVars
<1>4. ASSUME NEW u \in Threads PROVE ThreadOK(u)'
  <2>1. CASE u = t
    <3>1. calling'[t].jsId = ids' /\ calling'[t].js = calling[t].js
      BY <1>1 DEF TypeOK, FunctionCalls
    <3>2. QED
      BY <1>1, <1>2, <2>1, <3>1 DEF ThreadOK, TypeOK, catchVars
  <2>2. CASE u # t
    BY <1>1, <2>2, OthersOK DEF TypeOK, catchVars
  <2>3. QED
    BY <2>1, <2>2
<1>5. QED
  BY <1>2, <1>3, <1>4 DEF TInv

\* What a thread that is about to send has caught or sent ahead.
LEMMA SendWhat ==
  ASSUME TInv, NEW t \in Threads, Send(t)
  PROVE  /\ calling[t] \in FunctionCalls /\ calling[t].jsId \in Ids
         /\ catcher[t] = "IMMEDIATE_EVENT" /\ calling[t].js # NoJs =>
              /\ calling[t].js.kind = "body" /\ calling[t].js.body \in Bodies
              /\ CacheJs(calling[t].jsId, calling[t].js.body) \in Codes
         /\ SentAhead(t) \in Seq(Seq(FunctionCalls))
<1>1. TypeOK /\ ThreadOK(t) /\ pc[t] = "send"
  BY DEF TInv, Send
<1>2. calling[t] \in FunctionCalls /\ calling[t].jsId \in Ids /\ calling[t].js \in Codes
  BY <1>1 DEF TypeOK, ThreadOK, FunctionCalls
<1>3. ASSUME catcher[t] = "IMMEDIATE_EVENT", calling[t].js # NoJs
      PROVE  /\ calling[t].js.kind = "body" /\ calling[t].js.body \in Bodies
             /\ CacheJs(calling[t].jsId, calling[t].js.body) \in Codes
  <2>1. calling[t].js.kind = "body" /\ calling[t].js.body \in Bodies
    BY <1>1, <1>2, <1>3, CodeKinds DEF ThreadOK
  <2>2. QED
    BY <1>2, <2>1 DEF Codes, CacheJs
<1>4. SentAhead(t) \in Seq(Seq(FunctionCalls))
  <2>1. CASE catcher[t] = "IMMEDIATE_EVENT" /\ calling[t].js # NoJs
    <3>1. FunctionCall(0, CacheJs(calling[t].jsId, calling[t].js.body), 0) \in FunctionCalls
      BY <1>3, <2>1 DEF FunctionCall, FunctionCalls
    <3>2. QED
      BY <2>1, <3>1 DEF SentAhead, RecordsFirst, Ahead
  <2>2. CASE ~(catcher[t] = "IMMEDIATE_EVENT" /\ calling[t].js # NoJs)
    BY <2>2 DEF SentAhead, RecordsFirst
  <2>3. QED
    BY <2>1, <2>2
<1>5. QED
  BY <1>2, <1>3, <1>4

LEMMA SendType ==
  ASSUME TInv, NEW t \in Threads, Send(t)
  PROVE  TInv'
<1>1. /\ MaxCalls \in Nat /\ TypeOK /\ Counted /\ \A u \in Threads : ThreadOK(u)
      /\ pc[t] = "send" /\ pc' = [pc EXCEPT ![t] = AfterSend(t)]
      /\ UNCHANGED <<cachedFunctions, ids, calls, calling, block, catcher, pageVars,
                     handlerVars, browserVars, pitfalls>>
  BY CallsAssumption DEF TInv, Send
<1>2. calling[t] \in FunctionCalls /\ calling[t].jsId \in Ids /\ SentAhead(t) \in Seq(Seq(FunctionCalls))
  BY SendWhat
<1>3. AfterSend(t) \in {"idle", "register"} /\ (AfterSend(t) = "register" => calling[t].callbackId # 0)
  BY DEF AfterSend
<1>4. /\ functionList' \in [Threads -> Seq(FunctionCalls)]
      /\ \A u \in Threads \ {t} : functionList'[u] = functionList[u]
      /\ \A k \in DOMAIN functionList'[t] : Catchable(functionList'[t][k])
  <2>1. CASE catcher[t] = "none"
    BY <1>1, <2>1 DEF Send, TypeOK, ThreadOK
  <2>2. CASE catcher[t] # "none"
    <3>1. functionList' = [functionList EXCEPT ![t] = Append(functionList[t], calling[t])]
      BY <2>2 DEF Send
    <3>2. /\ functionList[t] \in Seq(FunctionCalls) /\ Catchable(calling[t])
          /\ \A k \in DOMAIN functionList[t] : Catchable(functionList[t][k])
      BY <1>1, <2>2 DEF TypeOK, ThreadOK, Catchable
    <3>3. Append(functionList[t], calling[t]) \in Seq(FunctionCalls)
      BY <1>2, <3>2
    <3>4. functionList'[t] = Append(functionList[t], calling[t])
      BY <1>1, <3>1 DEF TypeOK
    <3>5. \A k \in DOMAIN functionList'[t] : Catchable(functionList'[t][k])
      BY <1>2, <3>2, <3>4
    <3>6. QED
      BY <1>1, <3>1, <3>3, <3>5 DEF TypeOK
  <2>3. QED
    BY <2>1, <2>2
<1>5. sent' \in Seq(Seq(FunctionCalls)) /\ Len(sent') >= Len(sent)
  <2>1. sent \in Seq(Seq(FunctionCalls)) /\ <<calling[t]>> \in Seq(FunctionCalls)
    BY <1>1, <1>2 DEF TypeOK
  <2>2. CASE catcher[t] = "none"
    <3>1. sent' = Append(sent, <<calling[t]>>)
      BY <2>2 DEF Send
    <3>2. QED
      BY ONLY <2>1, <3>1
  <2>3. CASE catcher[t] # "none"
    <3>1. sent' = sent \o SentAhead(t)
      BY <2>3 DEF Send
    <3>2. QED
      BY ONLY <1>2, <2>1, <3>1
  <2>4. QED
    BY <2>2, <2>3
<1>6. TypeOK'
  <2>1. pc' \in [Threads -> {"idle", "define", "send", "register"}]
    BY <1>1, <1>3 DEF TypeOK
  <2>2. inlined' \in 0..Len(sent')
    <3>1. Len(sent) \in Nat /\ Len(sent') \in Nat
      BY <1>1, <1>5 DEF TypeOK
    <3>2. QED
      BY <1>1, <1>5, <3>1 DEF TypeOK, pageVars
  <2>3. recorded' \subseteq {js \in Codes : js.kind = "cache"}
    <3>1. RecordsFirst(t) => Ahead(t) \in {js \in Codes : js.kind = "cache"}
      BY SendWhat DEF RecordsFirst, Ahead, CacheJs
    <3>2. recorded' = recorded \/ (RecordsFirst(t) /\ recorded' = recorded \cup {Ahead(t)})
      BY DEF Send
    <3>3. QED
      BY <1>1, <3>1, <3>2 DEF TypeOK
  <2>4. QED
    BY <1>1, <1>4, <1>5, <2>1, <2>2, <2>3 DEF TypeOK, pageVars, handlerVars, browserVars
<1>7. Counted'
  <2>1. Defining' = Defining /\ Recording' = Recording
    BY <1>1, <1>3 DEF TypeOK, Defining, Recording
  <2>2. QED
    BY <1>1, <2>1 DEF Counted
<1>8. ASSUME NEW u \in Threads PROVE ThreadOK(u)'
  <2>1. CASE u = t
    <3>1. pc'[t] = AfterSend(t)
      BY <1>1 DEF TypeOK
    <3>2. QED
      BY <1>1, <1>3, <1>4, <2>1, <3>1 DEF ThreadOK
  <2>2. CASE u # t
    BY <1>1, <1>4, <2>2, OthersOK DEF TypeOK
  <2>3. QED
    BY <2>1, <2>2
<1>9. QED
  BY <1>6, <1>7, <1>8 DEF TInv

LEMMA AddCallbackType ==
  ASSUME TInv, NEW t \in Threads, AddCallback(t)
  PROVE  TInv'
<1>1. /\ TypeOK /\ Counted /\ \A u \in Threads : ThreadOK(u)
      /\ pc[t] = "register" /\ eventHandlers' \in HandlersAfter(t)
      /\ pc' = [pc EXCEPT ![t] = "idle"]
      /\ UNCHANGED <<cachedFunctions, ids, calls, calling, catchVars, pageVars, sent,
                     completed, browserVars, historyVars>>
  BY DEF TInv, AddCallback
<1>2. eventHandlers \subseteq eventHandlers' /\ eventHandlers' \subseteq Ids
  <2>1. calling[t].callbackId \in Ids
    BY <1>1 DEF TypeOK, ThreadOK, FunctionCalls
  <2>2. eventHandlers' = eventHandlers \cup {calling[t].callbackId} \/ eventHandlers' = eventHandlers
    BY <1>1 DEF HandlersAfter
  <2>3. QED
    BY <1>1, <2>1, <2>2 DEF TypeOK
<1>3. TypeOK'
  BY <1>1, <1>2 DEF TypeOK, catchVars, pageVars, browserVars, historyVars
<1>4. Counted'
  <2>1. Defining' = Defining /\ Recording' = Recording
    BY <1>1 DEF TypeOK, Defining, Recording, catchVars
  <2>2. QED
    BY <1>1, <2>1 DEF Counted
<1>5. ASSUME NEW u \in Threads PROVE ThreadOK(u)'
  <2>1. CASE u = t
    BY <1>1, <2>1 DEF ThreadOK, TypeOK, catchVars
  <2>2. CASE u # t
    BY <1>1, <2>2, OthersOK DEF TypeOK, catchVars
  <2>3. QED
    BY <2>1, <2>2
<1>6. QED
  BY <1>3, <1>4, <1>5 DEF TInv

LEMMA CatchType ==
  ASSUME TInv, NEW t \in Threads,
         NEW what \in {"batch", "immediate"}, NEW type \in {"EVENT", "IMMEDIATE_EVENT"},
         what = "batch" <=> type = "EVENT", CatchOutbound(t, what, type)
  PROVE  TInv'
<1>1. /\ MaxCalls \in Nat /\ TypeOK /\ Counted /\ \A u \in Threads : ThreadOK(u)
      /\ pc[t] = "idle" /\ calls < MaxCalls /\ calls' = calls + 1
      /\ block' = [block EXCEPT ![t] = what] /\ catcher' = [catcher EXCEPT ![t] = type]
      /\ functionList' = [functionList EXCEPT ![t] = <<>>]
      /\ UNCHANGED <<cachedFunctions, ids, pc, calling, pageVars, sent, handlerVars, browserVars,
                     historyVars>>
  BY CallsAssumption DEF TInv, CatchOutbound, MayUse
<1>2. TypeOK'
  <2>1. functionList' \in [Threads -> Seq(FunctionCalls)]
    BY <1>1 DEF TypeOK
  <2>2. QED
    BY <1>1, <2>1 DEF TypeOK, pageVars, handlerVars, browserVars, historyVars
<1>3. Counted'
  <2>1. Defining' = Defining
        /\ (Recording' = Recording \/ Recording' = Recording \cup {t} \/ Recording' = Recording \ {t})
    BY <1>1 DEF TypeOK, Defining, Recording
  <2>12. IsFiniteSet(Recording) /\ Cardinality(Recording) \in Nat
    BY <1>1, FS_CardinalityType DEF Counted
  <2>2. IsFiniteSet(Recording \cup {t}) /\ Cardinality(Recording \cup {t}) <= Cardinality(Recording) + 1
    BY ONLY <2>12, FS_AddElement
  <2>3. IsFiniteSet(Recording \ {t}) /\ Cardinality(Recording \ {t}) <= Cardinality(Recording)
    BY ONLY <2>12, FS_RemoveElement
  <2>4. Cardinality(Defining) \in Nat /\ Cardinality(Recording) \in Nat /\ ids \in Nat /\ calls \in Nat
    BY <1>1, FS_CardinalityType DEF Counted, TypeOK
  <2>5. /\ IsFiniteSet(Recording') /\ Cardinality(Recording') <= Cardinality(Recording) + 1
    <3>1. CASE Recording' = Recording
      BY <1>1, <2>4, <3>1 DEF Counted
    <3>2. CASE Recording' = Recording \cup {t}
      BY <2>2, <3>2
    <3>3. CASE Recording' = Recording \ {t}
      <4>1. Cardinality(Recording \ {t}) \in Nat
        BY <2>3, FS_CardinalityType
      <4>2. QED
        BY <2>3, <2>4, <3>3, <4>1
    <3>4. QED
      BY <2>1, <3>1, <3>2, <3>3
  <2>6. Cardinality(Recording') \in Nat
    BY <2>5, FS_CardinalityType
  <2>7. IsFiniteSet(Defining') /\ Cardinality(Defining') = Cardinality(Defining)
    BY <1>1, <2>1 DEF Counted
  <2>8. ids' + Cardinality(Defining') + Cardinality(Recording') <= calls'
    <3>1. ids + Cardinality(Defining) + Cardinality(Recording) <= calls
      BY <1>1 DEF Counted
    <3>2. ids' = ids /\ calls' = calls + 1
      BY <1>1
    <3>3. QED
      BY ONLY <2>4, <2>5, <2>6, <2>7, <3>1, <3>2
  <2>9. QED
    BY <2>5, <2>7, <2>8 DEF Counted
<1>4. ASSUME NEW u \in Threads PROVE ThreadOK(u)'
  <2>1. CASE u = t
    BY <1>1, <2>1 DEF ThreadOK, TypeOK
  <2>2. CASE u # t
    BY <1>1, <2>2, OthersOK DEF TypeOK
  <2>3. QED
    BY <2>1, <2>2
<1>5. QED
  BY <1>2, <1>3, <1>4 DEF TInv

LEMMA EndBatchType ==
  ASSUME TInv, NEW t \in Threads, EndBatch(t)
  PROVE  TInv'
<1>1. /\ TypeOK /\ Counted /\ \A u \in Threads : ThreadOK(u)
      /\ pc[t] = "idle" /\ block[t] = "batch"
      /\ block' = [block EXCEPT ![t] = "none"] /\ catcher' = [catcher EXCEPT ![t] = "none"]
      /\ functionList' = [functionList EXCEPT ![t] = <<>>]
      /\ sent' = Append(sent, functionList[t])
      /\ UNCHANGED <<callVars, pageVars, handlerVars, browserVars, historyVars>>
  BY DEF TInv, EndBatch, EndOfBlock
<1>2. TypeOK'
  <2>1. functionList' \in [Threads -> Seq(FunctionCalls)]
    BY <1>1 DEF TypeOK
  <2>2. sent \in Seq(Seq(FunctionCalls)) /\ functionList[t] \in Seq(FunctionCalls)
    BY <1>1 DEF TypeOK
  <2>3. sent' \in Seq(Seq(FunctionCalls)) /\ Len(sent') = Len(sent) + 1 /\ Len(sent) \in Nat
    BY <1>1, <2>2
  <2>4. inlined' \in 0..Len(sent')
    BY <1>1, <2>3 DEF TypeOK, pageVars
  <2>5. QED
    BY <1>1, <2>1, <2>3, <2>4
       DEF TypeOK, callVars, pageVars, handlerVars, browserVars, historyVars
<1>3. Counted'
  <2>1. Defining' = Defining /\ Recording' = Recording
    BY <1>1 DEF TypeOK, Defining, Recording, callVars
  <2>2. QED
    BY <1>1, <2>1 DEF Counted, callVars
<1>4. ASSUME NEW u \in Threads PROVE ThreadOK(u)'
  <2>1. CASE u = t
    BY <1>1, <2>1 DEF ThreadOK, TypeOK, callVars
  <2>2. CASE u # t
    BY <1>1, <2>2, OthersOK DEF TypeOK, callVars
  <2>3. QED
    BY <2>1, <2>2
<1>5. QED
  BY <1>2, <1>3, <1>4 DEF TInv

LEMMA EndImmediateType ==
  ASSUME TInv, NEW t \in Threads, EndImmediate(t)
  PROVE  TInv'
<1> DEFINE is == [i \in DOMAIN functionList[t] |-> functionList[t][i].jsId]
<1>1. /\ MaxCalls \in Nat /\ TypeOK /\ Counted /\ \A u \in Threads : ThreadOK(u)
      /\ pc[t] = "idle" /\ block[t] = "immediate"
      /\ block' = [block EXCEPT ![t] = "none"] /\ catcher' = [catcher EXCEPT ![t] = "none"]
      /\ functionList' = [functionList EXCEPT ![t] = <<>>]
      /\ ids' = ids + 1 /\ pc' = [pc EXCEPT ![t] = "send"]
      /\ calling' = [calling EXCEPT ![t] = FunctionCall(ids', Listener(is), 0)]
      /\ pitfalls' \in {pitfalls, pitfalls \cup {"joined"}} /\ recorded' = recorded
      /\ UNCHANGED <<cachedFunctions, calls, pageVars, sent, handlerVars, browserVars>>
  BY CallsAssumption DEF TInv, EndImmediate, EndOfBlock
<1>2. is \in Seq(Ids)
  <2>1. functionList[t] \in Seq(FunctionCalls) /\ \A i \in DOMAIN functionList[t] : functionList[t][i].jsId \in Ids
    BY <1>1 DEF TypeOK, ThreadOK, Catchable
  <2>2. QED
    BY ONLY <2>1
<1> HIDE DEF is
<1>3. Counted' /\ ids' \in Ids /\ ids \in Nat
  <2>1. t \in Recording /\ Recording' = Recording \ {t} /\ Defining' = Defining
    BY <1>1 DEF TypeOK, Defining, Recording
  <2>2. IsFiniteSet(Recording \ {t}) /\ Cardinality(Recording \ {t}) = Cardinality(Recording) - 1
    BY <1>1, <2>1, FS_RemoveElement DEF Counted
  <2>3. Cardinality(Defining) \in Nat /\ Cardinality(Recording) \in Nat /\ ids \in Nat /\ calls \in 0..MaxCalls
        /\ Cardinality(Recording') \in Nat
    BY <1>1, <2>1, <2>2, FS_CardinalityType DEF Counted, TypeOK
  <2>4. QED
    BY <1>1, <2>1, <2>2, <2>3 DEF Counted, Ids
<1>4. TypeOK'
  <2>1. functionList' \in [Threads -> Seq(FunctionCalls)]
    BY <1>1 DEF TypeOK
  <2>2. FunctionCall(ids', Listener(is), 0) \in FunctionCalls
    BY <1>2, <1>3 DEF FunctionCall, FunctionCalls, Codes, Listener
  <2>3. calling' \in [Threads -> FunctionCalls]
    BY <1>1, <2>2 DEF TypeOK
  <2>4. cachedFunctions' \in [Bodies -> 0..ids']
    <3>1. \A b \in Bodies : cachedFunctions[b] \in 0..ids'
      BY <1>1, <1>3 DEF TypeOK
    <3>2. QED
      BY <1>1, <3>1 DEF TypeOK
  <2>5. QED
    BY <1>1, <1>3, <2>1, <2>3, <2>4 DEF TypeOK, Ids, pageVars, handlerVars, browserVars
<1>5. ASSUME NEW u \in Threads PROVE ThreadOK(u)'
  <2>1. CASE u = t
    BY <1>1, <1>3, <2>1 DEF ThreadOK, TypeOK, FunctionCall, Listener
  <2>2. CASE u # t
    BY <1>1, <2>2, OthersOK DEF TypeOK
  <2>3. QED
    BY <2>1, <2>2
<1>6. QED
  BY <1>3, <1>4, <1>5 DEF TInv

LEMMA ThrowsType ==
  ASSUME TInv, NEW t \in Threads, BlockThrows(t)
  PROVE  TInv'
<1>1. /\ TypeOK /\ Counted /\ \A u \in Threads : ThreadOK(u)
      /\ pc[t] = "idle" /\ block' = [block EXCEPT ![t] = "none"]
      /\ UNCHANGED <<callVars, catcher, functionList, pageVars, sent, handlerVars, browserVars,
                     historyVars>>
  BY DEF TInv, BlockThrows
<1>2. TypeOK'
  BY <1>1 DEF TypeOK, callVars, pageVars, handlerVars, browserVars, historyVars
<1>3. Counted'
  <2>1. Defining' = Defining /\ Recording' = Recording \ {t}
    BY <1>1 DEF TypeOK, Defining, Recording, callVars
  <2>12. IsFiniteSet(Recording) /\ Cardinality(Recording) \in Nat
    BY <1>1, FS_CardinalityType DEF Counted
  <2>2. /\ IsFiniteSet(Recording \ {t}) /\ Cardinality(Recording \ {t}) \in Nat
        /\ Cardinality(Recording \ {t}) <= Cardinality(Recording)
    BY ONLY <2>12, FS_RemoveElement, FS_CardinalityType
  <2>3. Cardinality(Defining) \in Nat /\ Cardinality(Recording) \in Nat /\ ids \in Nat /\ calls \in Nat
    BY <1>1, FS_CardinalityType DEF Counted, TypeOK
  <2>4. QED
    BY <1>1, <2>1, <2>2, <2>3 DEF Counted, callVars
<1>4. ASSUME NEW u \in Threads PROVE ThreadOK(u)'
  <2>1. CASE u = t
    BY <1>1, <2>1 DEF ThreadOK, TypeOK, callVars
  <2>2. CASE u # t
    BY <1>1, <2>2, OthersOK DEF TypeOK, callVars
  <2>3. QED
    BY <2>1, <2>2
<1>5. QED
  BY <1>2, <1>3, <1>4 DEF TInv

\* The browser and what it answers leave the threads alone.
LEMMA ThreadsAlone ==
  ASSUME TInv, TypeOK', UNCHANGED <<callVars, catchVars>>
  PROVE  TInv'
<1>1. Defining' = Defining /\ Recording' = Recording /\ ids' = ids /\ calls' = calls
  BY DEF Defining, Recording, callVars, catchVars
<1>2. Counted'
  BY <1>1 DEF TInv, Counted
<1>3. \A t \in Threads : ThreadOK(t)'
  BY OthersOK DEF TInv, callVars, catchVars
<1>4. QED
  BY <1>2, <1>3 DEF TInv

LEMMA ServeType ==
  ASSUME TInv, ServePage
  PROVE  TInv'
<1>1. functions' \in [Ids -> {"undefined", "empty", "defined"}] /\ browser' \in {"running", "dead"}
  BY DEF TInv, TypeOK, ServePage
<1>2. inlined' \in 0..Len(sent')
  BY DEF TInv, TypeOK, ServePage
<1>3. TypeOK'
  BY <1>1, <1>2 DEF TInv, TypeOK, ServePage, callVars, catchVars, handlerVars, historyVars
<1>4. QED
  BY <1>3, ThreadsAlone DEF ServePage

LEMMA HandleType ==
  ASSUME TInv, HandleInboundMessage
  PROVE  TInv'
<1>1. /\ browser = "running" /\ sent # <<>> /\ sent' = Tail(sent)
      /\ inlined' = IF inlined = 0 THEN 0 ELSE inlined - 1
      /\ UNCHANGED <<callVars, catchVars, page, handlerVars, historyVars>>
  BY DEF HandleInboundMessage
<1>2. PICK throwing \in SUBSET MayThrow(Head(sent)) :
        LET after == FoldLeft(Execute, Before(throwing), Head(sent)) IN
        /\ functions' = after.functions /\ listeners' = after.listeners
        /\ answers' = after.answers /\ failed' = after.failed
        /\ browser' = IF after.ok \/ inlined = 0 THEN "running" ELSE "dead"
  BY DEF HandleInboundMessage
<1> DEFINE after == FoldLeft(Execute, Before(throwing), Head(sent))
<1>3. after \in BrowserStates
  BY <1>1, FoldType DEF TInv
<1>4. /\ functions' = after.functions /\ listeners' = after.listeners
      /\ answers' = after.answers /\ failed' = after.failed
      /\ browser' \in {"running", "dead"}
  BY <1>2
<1> HIDE DEF after
<1>5. functions' \in [Ids -> {"undefined", "empty", "defined"}]
      /\ listeners' \subseteq Seq(Ids) /\ answers' \subseteq Ids /\ failed' \subseteq Ids
  BY <1>3, <1>4 DEF BrowserStates
<1>6. sent' \in Seq(Seq(FunctionCalls)) /\ Len(sent') = Len(sent) - 1 /\ Len(sent) \in Nat \ {0}
  BY <1>1 DEF TInv, TypeOK
<1>7. inlined' \in 0..Len(sent')
  BY <1>1, <1>6 DEF TInv, TypeOK
<1>8. TypeOK'
  BY <1>1, <1>4, <1>5, <1>6, <1>7 DEF TInv, TypeOK, callVars, catchVars, handlerVars, historyVars
<1>9. QED
  BY <1>1, <1>8, ThreadsAlone

LEMMA CallbackType ==
  ASSUME TInv, NEW cb \in Ids, HandleCallback(cb)
  PROVE  TInv'
<1>1. TypeOK'
  BY DEF TInv, TypeOK, HandleCallback, callVars, catchVars, pageVars, historyVars
<1>2. QED
  BY <1>1, ThreadsAlone DEF HandleCallback

LEMMA TypeStep ==
  ASSUME TInv, [Next]_vars
  PROVE  TInv'
<1>1. ASSUME NEW t \in Threads, NEW b \in Bodies, NEW cb \in BOOLEAN, CallJsFunction(t, b, cb)
      PROVE  TInv'
  BY <1>1, CallType
<1>2. ASSUME NEW t \in Threads, Proceed(t)
      PROVE  TInv'
  BY <1>2, DefineType, SendType, AddCallbackType, EndBatchType, EndImmediateType DEF Proceed
<1>3. ASSUME NEW t \in Threads,
             CatchOutbound(t, "batch", "EVENT") \/ CatchOutbound(t, "immediate", "IMMEDIATE_EVENT")
      PROVE  TInv'
  <2>1. CASE CatchOutbound(t, "batch", "EVENT")
    BY <2>1, CatchType
  <2>2. CASE CatchOutbound(t, "immediate", "IMMEDIATE_EVENT")
    BY <2>2, CatchType
  <2>3. QED
    BY <1>3, <2>1, <2>2
<1>4. ASSUME NEW t \in Threads, BlockThrows(t)
      PROVE  TInv'
  BY <1>4, ThrowsType
<1>5. CASE ServePage
  BY <1>5, ServeType
<1>6. CASE HandleInboundMessage
  BY <1>6, HandleType
<1>7. ASSUME NEW cb \in Ids, HandleCallback(cb)
      PROVE  TInv'
  BY <1>7, CallbackType
<1>8. CASE UNCHANGED vars
  <2>1. TypeOK'
    BY <1>8 DEF TInv, TypeOK, vars, callVars, catchVars, pageVars, handlerVars, browserVars,
                historyVars
  <2>2. QED
    BY <1>8, <2>1, ThreadsAlone DEF vars
<1>9. QED
  BY <1>1, <1>2, <1>3, <1>4, <1>5, <1>6, <1>7, <1>8 DEF Next

\* Every variable keeps its type, also for threads that race, blocks that throw and
\* functions that do not parse: no more ids are generated than there are calls and
\* blocks, and an id that is sent, recorded or put into the cache is one of them.
THEOREM TypeCorrect == Spec => []TypeOK
<1>1. Init => TInv
  BY TypeInit
<1>2. TInv /\ [Next]_vars => TInv'
  BY TypeStep
<1>3. TInv => TypeOK
  BY DEF TInv
<1>4. QED
  BY <1>1, <1>2, <1>3, PTL DEF Spec

-----------------------------------------------------------------------------
(***************************************************************************)
(* Threads that take turns.                                                *)
(***************************************************************************)
OthersRest(t) == \A u \in Threads \ {t} : pc[u] = "idle" /\ block[u] = "none"

LEMMA TurnTaken ==
  ASSUME Turns, NEW t \in Threads, pc[t] # "idle" \/ block[t] # "none"
  PROVE  OthersRest(t)
  BY DEF Turns, OthersRest

LEMMA TurnKept ==
  ASSUME NEW t \in Threads, OthersRest(t),
         \A u \in Threads \ {t} : pc'[u] = pc[u] /\ block'[u] = block[u]
  PROVE  Turns' /\ OthersRest(t)'
<1>1. OthersRest(t)'
  BY DEF OthersRest
<1>2. ASSUME NEW u \in Threads, NEW v \in Threads, u # v, (pc[u] # "idle" \/ block[u] # "none")'
      PROVE  (pc[v] = "idle" /\ block[v] = "none")'
  <2>1. u = t
    BY <1>1, <1>2 DEF OthersRest
  <2>2. QED
    BY <1>1, <1>2, <2>1 DEF OthersRest
<1>3. QED
  BY <1>1, <1>2 DEF Turns

\* The actions of thread t.
Acts(t) ==
  \/ Proceed(t) \/ BlockThrows(t)
  \/ \E b \in Bodies, cb \in BOOLEAN : CallJsFunction(t, b, cb)
  \/ CatchOutbound(t, "batch", "EVENT")
  \/ CatchOutbound(t, "immediate", "IMMEDIATE_EVENT")

LEMMA ActsAlone ==
  ASSUME TInv, NEW t \in Threads, Acts(t)
  PROVE  \A u \in Threads \ {t} :
           /\ pc'[u] = pc[u] /\ block'[u] = block[u] /\ catcher'[u] = catcher[u]
           /\ calling'[u] = calling[u] /\ functionList'[u] = functionList[u]
<1> USE DEF TInv, TypeOK, catchVars, callVars
<1>1. CASE Define(t)
  BY <1>1 DEF Define
<1>2. CASE Send(t)
  BY <1>2 DEF Send
<1>3. CASE AddCallback(t)
  BY <1>3 DEF AddCallback
<1>4. CASE EndBatch(t)
  BY <1>4 DEF EndBatch, EndOfBlock
<1>5. CASE EndImmediate(t)
  BY <1>5 DEF EndImmediate, EndOfBlock
<1>6. CASE BlockThrows(t)
  BY <1>6 DEF BlockThrows
<1>7. ASSUME NEW b \in Bodies, NEW cb \in BOOLEAN, CallJsFunction(t, b, cb)
      PROVE  \A u \in Threads \ {t} :
               /\ pc'[u] = pc[u] /\ block'[u] = block[u] /\ catcher'[u] = catcher[u]
               /\ calling'[u] = calling[u] /\ functionList'[u] = functionList[u]
  BY <1>7 DEF CallJsFunction
<1>8. CASE CatchOutbound(t, "batch", "EVENT") \/ CatchOutbound(t, "immediate", "IMMEDIATE_EVENT")
  BY <1>8 DEF CatchOutbound
<1>9. QED
  BY <1>1, <1>2, <1>3, <1>4, <1>5, <1>6, <1>7, <1>8 DEF Acts, Proceed

LEMMA ActsElsewhere ==
  ASSUME NEW t \in Threads, Acts(t)
  PROVE  UNCHANGED <<pageVars, browserVars>>
<1>1. CASE Define(t) \/ Send(t) \/ AddCallback(t)
  BY <1>1 DEF Define, Send, AddCallback
<1>2. CASE EndBatch(t) \/ EndImmediate(t) \/ BlockThrows(t)
  BY <1>2 DEF EndBatch, EndImmediate, BlockThrows
<1>3. ASSUME NEW b \in Bodies, NEW cb \in BOOLEAN, CallJsFunction(t, b, cb)
      PROVE  UNCHANGED <<pageVars, browserVars>>
  BY <1>3 DEF CallJsFunction
<1>4. CASE CatchOutbound(t, "batch", "EVENT") \/ CatchOutbound(t, "immediate", "IMMEDIATE_EVENT")
  BY <1>4 DEF CatchOutbound
<1>5. QED
  BY <1>1, <1>2, <1>3, <1>4 DEF Acts, Proceed

LEMMA ActsInTurn ==
  ASSUME ~Concurrent, TInv, Turns, NEW t \in Threads, Acts(t)
  PROVE  OthersRest(t) /\ OthersRest(t)' /\ Turns'
<1>1. OthersRest(t)
  <2>1. CASE pc[t] # "idle" \/ block[t] # "none"
    BY <2>1, TurnTaken
  <2>2. CASE MayUse(t)
    BY <2>2 DEF MayUse, OthersRest
  <2>3. pc[t] # "idle" \/ block[t] # "none" \/ MayUse(t)
    BY DEF Acts, Proceed, Define, Send, AddCallback, EndBatch, EndImmediate, EndOfBlock,
           BlockThrows, CallJsFunction, CatchOutbound
  <2>4. QED
    BY <2>1, <2>2, <2>3
<1>2. QED
  BY <1>1, ActsAlone, TurnKept

\* The actions of the browser, and of the server on what the browser answers.
BrowserActs == ServePage \/ HandleInboundMessage \/ \E cb \in Ids : HandleCallback(cb)

LEMMA BrowserAlone ==
  ASSUME BrowserActs \/ UNCHANGED vars
  PROVE  UNCHANGED <<callVars, catchVars>>
<1>1. CASE ServePage
  BY <1>1 DEF ServePage
<1>2. CASE HandleInboundMessage
  BY <1>2 DEF HandleInboundMessage
<1>3. ASSUME NEW cb \in Ids, HandleCallback(cb)
      PROVE  UNCHANGED <<callVars, catchVars>>
  BY <1>3 DEF HandleCallback
<1>4. CASE UNCHANGED vars
  BY <1>4 DEF vars
<1>5. QED
  BY <1>1, <1>2, <1>3, <1>4 DEF BrowserActs

LEMMA WhoActs ==
  ASSUME [Next]_vars
  PROVE  (\E t \in Threads : Acts(t)) \/ BrowserActs \/ UNCHANGED vars
  BY DEF Next, Acts, BrowserActs

LEMMA TurnsStep ==
  ASSUME ~Concurrent, TInv, Turns, [Next]_vars
  PROVE  Turns'
<1>1. ASSUME NEW t \in Threads, Acts(t) PROVE Turns'
  BY <1>1, ActsInTurn
<1>2. CASE BrowserActs \/ UNCHANGED vars
  BY <1>2, BrowserAlone DEF Turns, callVars, catchVars
<1>3. QED
  BY <1>1, <1>2, WhoActs

\* A block that has thrown is not forgotten, and a text that is lost stays lost.
LEMMA HistoryGrows ==
  ASSUME NEW t \in Threads, Acts(t)
  PROVE  recorded \subseteq recorded' /\ pitfalls \subseteq pitfalls'
<1>1. CASE Define(t)
  BY <1>1 DEF Define, historyVars
<1>2. CASE Send(t)
  BY <1>2 DEF Send
<1>3. CASE AddCallback(t)
  BY <1>3 DEF AddCallback, historyVars
<1>4. CASE EndBatch(t) \/ BlockThrows(t)
  BY <1>4 DEF EndBatch, BlockThrows, historyVars
<1>5. CASE EndImmediate(t)
  BY <1>5 DEF EndImmediate
<1>6. ASSUME NEW b \in Bodies, NEW cb \in BOOLEAN, CallJsFunction(t, b, cb)
      PROVE  recorded \subseteq recorded' /\ pitfalls \subseteq pitfalls'
  BY <1>6 DEF CallJsFunction
<1>7. CASE CatchOutbound(t, "batch", "EVENT") \/ CatchOutbound(t, "immediate", "IMMEDIATE_EVENT")
  BY <1>7 DEF CatchOutbound, historyVars
<1>8. QED
  BY <1>1, <1>2, <1>3, <1>4, <1>5, <1>6, <1>7 DEF Acts, Proceed

LEMMA StrandedStays ==
  ASSUME TInv, NEW t \in Threads, Acts(t), NEW u \in Threads, NEW i, Stranded(u, i)
  PROVE  Stranded(u, i)'
<1>1. CASE u # t
  <2>1. catcher'[u] = catcher[u] /\ block'[u] = block[u] /\ functionList'[u] = functionList[u]
    BY <1>1, ActsAlone
  <2>2. QED
    BY <2>1 DEF Stranded
<1>2. CASE u = t
  <2>1. TypeOK /\ catcher[t] = "EVENT" /\ block[t] = "none"
    BY <1>2 DEF TInv, Stranded
  <2>2. ASSUME UNCHANGED catchVars PROVE Stranded(u, i)'
    BY <2>2 DEF catchVars, Stranded
  <2>3. CASE Define(t) \/ AddCallback(t)
    BY <2>2, <2>3 DEF Define, AddCallback
  <2>4. CASE Send(t)
    <3>1. /\ functionList' = [functionList EXCEPT ![t] = Append(functionList[t], calling[t])]
          /\ block' = block /\ catcher' = catcher
      BY <2>1, <2>4 DEF Send
    <3>2. functionList[t] \in Seq(FunctionCalls)
          /\ functionList'[t] = Append(functionList[t], calling[t])
      BY <2>1, <3>1 DEF TypeOK
    <3>3. PICK k \in DOMAIN functionList[t] :
            functionList[t][k].js.kind = "body" /\ functionList[t][k].jsId = i
      BY <1>2 DEF Stranded
    <3>4. k \in DOMAIN functionList'[t] /\ functionList'[t][k] = functionList[t][k]
      BY <3>2, <3>3
    <3>5. QED
      BY <1>2, <2>1, <3>1, <3>3, <3>4 DEF Stranded
  <2>5. CASE EndBatch(t) \/ EndImmediate(t) \/ BlockThrows(t)
    BY <2>1, <2>5 DEF EndBatch, EndImmediate, EndOfBlock, BlockThrows
  <2>6. ASSUME NEW b \in Bodies, NEW cb \in BOOLEAN, CallJsFunction(t, b, cb)
        PROVE  Stranded(u, i)'
    BY <2>2, <2>6 DEF CallJsFunction
  <2>7. CASE CatchOutbound(t, "batch", "EVENT") \/ CatchOutbound(t, "immediate", "IMMEDIATE_EVENT")
    BY <2>1, <2>7 DEF CatchOutbound
  <2>8. QED
    BY <2>3, <2>4, <2>5, <2>6, <2>7 DEF Acts, Proceed
<1>3. QED
  BY <1>1, <1>2

LEMMA LostStays ==
  ASSUME TInv, NEW t \in Threads, Acts(t), NEW i, Lost(i)
  PROVE  Lost(i)'
<1>1. CASE \E u \in Threads : Stranded(u, i)
  BY <1>1, StrandedStays DEF Lost
<1>2. CASE \E js \in recorded : js.jsId = i /\ ~Parses(js)
  <2>1. PICK js \in recorded' : js.jsId = i /\ ~Parses(js)
    BY <1>2, HistoryGrows
  <2>2. QED
    BY <2>1 DEF Lost
<1>3. QED
  BY <1>1, <1>2 DEF Lost

\* The browser leaves what is lost alone.
LEMMA LostAlone ==
  ASSUME UNCHANGED <<catchVars, recorded>>
  PROVE  \A i : Lost(i)' = Lost(i)
  BY DEF Lost, Stranded, catchVars

LEMMA ThereMore ==
  ASSUME TInv, NEW t \in Threads, Acts(t), functions' = functions
  PROVE  There \subseteq There'
<1>1. ASSUME NEW i \in There PROVE i \in There'
  <2>1. i \in Ids /\ (Lost(i) \/ functions'[i] = "defined")
    BY DEF There
  <2>2. QED
    BY <2>1, LostStays DEF There
<1>2. QED
  BY <1>1

-----------------------------------------------------------------------------
(***************************************************************************)
(* What is known, and messages that are sound for it.                      *)
(***************************************************************************)
Defined(msg) == {i \in Ids : \E j \in DOMAIN msg : Defines(msg[j], i)}

LEMMA SoundMore ==
  ASSUME NEW msg, NEW K, NEW L, Sound(msg, K), K \subseteq L
  PROVE  Sound(msg, L)
  BY DEF Sound

LEMMA SoundAppend ==
  ASSUME NEW msg \in Seq(FunctionCalls), NEW fc \in FunctionCalls, NEW K, Sound(msg, K),
         \A i \in Ids : Needs(fc, i) => i \in K \/ \E k \in DOMAIN msg : Defines(msg[k], i)
  PROVE  Sound(Append(msg, fc), K)
<1> DEFINE q == Append(msg, fc)
<1>1. /\ Len(msg) \in Nat /\ DOMAIN msg = 1..Len(msg) /\ DOMAIN q = 1..(Len(msg) + 1)
      /\ \A k \in 1..Len(msg) : q[k] = msg[k]
      /\ q[Len(msg) + 1] = fc
  OBVIOUS
<1> HIDE DEF q
<1>2. ASSUME NEW j \in DOMAIN q, NEW i \in Ids, Needs(q[j], i)
      PROVE  i \in K \/ \E k \in 1..(j - 1) : Defines(q[k], i)
  <2>1. CASE j = Len(msg) + 1
    <3>1. i \in K \/ \E k \in 1..Len(msg) : Defines(msg[k], i)
      BY <1>1, <1>2, <2>1
    <3>2. j - 1 = Len(msg)
      BY <1>1, <2>1
    <3>3. QED
      BY <1>1, <3>1, <3>2
  <2>2. CASE j # Len(msg) + 1
    <3>1. j \in 1..Len(msg) /\ q[j] = msg[j]
      BY <1>1, <2>2
    <3>2. i \in K \/ \E k \in 1..(j - 1) : Defines(msg[k], i)
      BY <1>1, <1>2, <3>1 DEF Sound
    <3>3. \A k \in 1..(j - 1) : k \in 1..Len(msg)
      BY <1>1, <3>1
    <3>4. QED
      BY <1>1, <3>2, <3>3
  <2>3. QED
    BY <2>1, <2>2
<1>3. QED
  BY <1>2 DEF Sound, q

LEMMA KnownAppend ==
  ASSUME NEW there, NEW queue \in Seq(Seq(FunctionCalls)), NEW msg \in Seq(FunctionCalls)
  PROVE  /\ \A m \in 1..(Len(queue) + 1) :
              KnownBefore(there, Append(queue, msg), m) = KnownBefore(there, queue, m)
         /\ KnownAfter(there, Append(queue, msg)) = KnownAfter(there, queue) \cup Defined(msg)
<1> DEFINE q == Append(queue, msg)
           l == Len(queue)
<1>1. l \in Nat /\ Len(q) = l + 1 /\ (\A n \in 1..l : q[n] = queue[n]) /\ q[l + 1] = msg
  OBVIOUS
<1> HIDE DEF q, l
<1>2. ASSUME NEW m \in 1..(l + 1) PROVE KnownBefore(there, q, m) = KnownBefore(there, queue, m)
  <2>1. \A n \in 1..(m - 1) : q[n] = queue[n]
    BY <1>1
  <2>2. QED
    BY <2>1 DEF KnownBefore
<1>3. KnownBefore(there, q, l + 2) = KnownBefore(there, queue, l + 1) \cup Defined(msg)
  <2>1. 1..((l + 2) - 1) = (1..((l + 1) - 1)) \cup {l + 1}
    BY <1>1
  <2>2. \A n \in 1..((l + 1) - 1) : q[n] = queue[n]
    BY <1>1
  <2>3. QED
    BY <1>1, <2>1, <2>2 DEF KnownBefore, Defined
<1>4. (l + 1) + 1 = l + 2
  BY <1>1
<1>5. QED
  BY <1>1, <1>2, <1>3, <1>4 DEF KnownAfter, q, l

LEMMA QueueAppend ==
  ASSUME NEW there, NEW queue \in Seq(Seq(FunctionCalls)), NEW msg \in Seq(FunctionCalls),
         QueueSound(there, queue), Sound(msg, KnownAfter(there, queue)),
         Len(msg) = 1 \/ Harmless(msg)
  PROVE  QueueSound(there, Append(queue, msg))
<1> DEFINE q == Append(queue, msg)
           l == Len(queue)
<1>1. /\ l \in Nat /\ DOMAIN queue = 1..l /\ DOMAIN q = 1..(l + 1)
      /\ (\A n \in 1..l : q[n] = queue[n]) /\ q[l + 1] = msg
  OBVIOUS
<1>2. \A m \in 1..(l + 1) : KnownBefore(there, q, m) = KnownBefore(there, queue, m)
  BY KnownAppend
<1> HIDE DEF q
<1>3. ASSUME NEW m \in DOMAIN q
      PROVE  Sound(q[m], KnownBefore(there, q, m)) /\ (Len(q[m]) = 1 \/ Harmless(q[m]))
  <2>1. CASE m \in 1..l
    BY <1>1, <1>2, <2>1 DEF QueueSound
  <2>2. CASE m = l + 1
    BY <1>1, <1>2, <2>2 DEF KnownAfter
  <2>3. QED
    BY <1>1, <2>1, <2>2
<1>4. QED
  BY <1>3 DEF QueueSound, q

LEMMA QueueMore ==
  ASSUME NEW queue, NEW K, NEW L, QueueSound(K, queue), K \subseteq L
  PROVE  QueueSound(L, queue) /\ KnownAfter(K, queue) \subseteq KnownAfter(L, queue)
<1>1. \A m : KnownBefore(K, queue, m) \subseteq KnownBefore(L, queue, m)
  BY DEF KnownBefore
<1>2. \A m \in DOMAIN queue :
        /\ Sound(queue[m], KnownBefore(K, queue, m))
        /\ Len(queue[m]) = 1 \/ Harmless(queue[m])
  BY DEF QueueSound
<1>3. \A m \in DOMAIN queue : Sound(queue[m], KnownBefore(L, queue, m))
  BY <1>1, <1>2, SoundMore
<1>4. QED
  BY <1>1, <1>2, <1>3 DEF QueueSound, KnownAfter

LEMMA QueueKept ==
  ASSUME Orderly, There \subseteq There', sent' = sent, recorded \subseteq recorded'
  PROVE  QueueSound(There, sent)' /\ QueueRecorded' /\ Known \subseteq Known'
<1>1. QueueSound(There', sent) /\ KnownAfter(There, sent) \subseteq KnownAfter(There', sent)
  BY QueueMore DEF Orderly
<1>2. QueueSound(There, sent)' /\ Known \subseteq Known'
  BY <1>1 DEF Known
<1>3. QueueRecorded'
  BY DEF Orderly, QueueRecorded
<1>4. QED
  BY <1>2, <1>3

\* An action of a thread that sends nothing.
LEMMA NothingSent ==
  ASSUME TInv, Orderly, NEW t \in Threads, Acts(t), sent' = sent
  PROVE  QueueSound(There, sent)' /\ QueueRecorded' /\ Known \subseteq Known' /\ There \subseteq There'
<1>1. functions' = functions
  BY ActsElsewhere DEF browserVars
<1>2. There \subseteq There' /\ recorded \subseteq recorded'
  BY <1>1, ThereMore, HistoryGrows
<1>3. QED
  BY <1>2, QueueKept

(***************************************************************************)
(* Threads send, catch and record only what finds its function.            *)
(***************************************************************************)
\* A thread that does not act sees no less than before.
LEMMA CaughtMore ==
  ASSUME NEW t \in Threads, CaughtOK(t), Known \subseteq Known',
         pc'[t] = pc[t], calling'[t] = calling[t],
         block'[t] = block[t], functionList'[t] = functionList[t]
  PROVE  CaughtOK(t)'
  BY SoundMore DEF CaughtOK, InBatch

\* What the thread that acts has caught, if it catches nothing more.
CaughtRest(t) ==
  /\ block[t] = "batch" => Sound(functionList[t], Known)
  /\ block[t] = "immediate" =>
       \A k \in DOMAIN functionList[t] : functionList[t][k].jsId \in Known

LEMMA RestMore ==
  ASSUME NEW t \in Threads, CaughtOK(t), Known \subseteq Known',
         block'[t] = block[t], functionList'[t] = functionList[t]
  PROVE  CaughtRest(t)'
  BY SoundMore DEF CaughtOK, CaughtRest

LEMMA CachedId ==
  ASSUME TypeOK, NEW b \in Bodies, cachedFunctions[b] # 0
  PROVE  cachedFunctions[b] \in Ids
<1>1. MaxCalls \in Nat /\ ids \in 0..MaxCalls /\ cachedFunctions[b] \in 0..ids
  BY CallsAssumption DEF TypeOK
<1>2. QED
  BY <1>1 DEF Ids

LEMMA StillHeld ==
  ASSUME BodiesOK, UNCHANGED cachedFunctions, \A i : Held(i) => Held(i)'
  PROVE  BodiesOK'
<1>1. ASSUME NEW b \in Bodies, cachedFunctions'[b] # 0
      PROVE  Held(cachedFunctions[b])'
  <2>1. PICK i : i = cachedFunctions[b] /\ i = cachedFunctions'[b]
    OBVIOUS
  <2>2. Held(i)'
    BY <1>1, <2>1 DEF BodiesOK
  <2>3. QED
    BY <2>1, <2>2 DEF Held, InBatch
<1>2. QED
  BY <1>1 DEF BodiesOK

LEMMA CallOrderly ==
  ASSUME TInv, Orderly, NEW t \in Threads, OthersRest(t),
         NEW b \in Bodies, NEW cb \in BOOLEAN, CallJsFunction(t, b, cb)
  PROVE  Orderly'
<1> DEFINE c == IF cb THEN calls + 1 ELSE 0
<1>1. /\ TypeOK /\ pc[t] = "idle"
      /\ calling' = [calling EXCEPT ![t] = IF cachedFunctions[b] # 0
                       THEN FunctionCall(cachedFunctions[b], NoJs, c)
                       ELSE FunctionCall(0, Body(b), c)]
      /\ pc' = [pc EXCEPT ![t] = IF cachedFunctions[b] # 0 THEN "send" ELSE "define"]
      /\ UNCHANGED <<cachedFunctions, ids, catchVars, pageVars, sent, handlerVars, browserVars>>
  BY DEF TInv, CallJsFunction, MayUse
<1>2. QueueSound(There, sent)' /\ QueueRecorded' /\ Known \subseteq Known'
  BY <1>1, NothingSent DEF Acts
<1>3. BodiesOK'
  <2>1. \A i : Held(i) => Held(i)'
    BY <1>1, <1>2 DEF Held, InBatch, TypeOK, catchVars
  <2>2. QED
    BY <1>1, <2>1, StillHeld DEF Orderly
<1>4. ASSUME NEW u \in Threads PROVE CaughtOK(u)'
  <2>1. CASE u = t
    <3>1. ASSUME pc'[t] = "send", NEW i \in Ids, Needs(calling'[t], i)
          PROVE  i \in Known' \/ InBatch(t, i)'
      <4>1. cachedFunctions[b] # 0 /\ i = cachedFunctions[b]
        BY <1>1, <3>1 DEF TypeOK, Needs, FunctionCall, NoJs
      <4>2. i \in Known \/ \E v \in Threads : InBatch(v, i) \/ pc[v] = "send"
        BY <4>1 DEF Orderly, BodiesOK, Held
      <4>3. i \in Known \/ InBatch(t, i)
        BY <1>1, <4>2 DEF OthersRest, InBatch
      <4>4. QED
        BY <1>1, <1>2, <4>3 DEF InBatch, catchVars
    <3>2. CaughtRest(t)'
      BY <1>1, <1>2, RestMore DEF Orderly, CaughtOK, catchVars
    <3>3. QED
      BY <2>1, <3>1, <3>2 DEF CaughtOK, CaughtRest
  <2>2. CASE u # t
    BY <1>1, <1>2, <2>2, CaughtMore DEF Orderly, TypeOK, catchVars
  <2>3. QED
    BY <2>1, <2>2
<1>5. QED
  BY <1>2, <1>3, <1>4 DEF Orderly

LEMMA DefineOrderly ==
  ASSUME TInv, Orderly, NEW t \in Threads, Define(t)
  PROVE  Orderly'
<1>1. /\ TypeOK /\ ThreadOK(t)
      /\ pc[t] = "define" /\ ids' = ids + 1
      /\ cachedFunctions' = [cachedFunctions EXCEPT ![calling[t].js.body] = ids']
      /\ calling' = [calling EXCEPT ![t].jsId = ids']
      /\ pc' = [pc EXCEPT ![t] = "send"]
      /\ UNCHANGED <<calls, catchVars, pageVars, sent, handlerVars, browserVars>>
  BY DEF TInv, Define
<1>2. QueueSound(There, sent)' /\ QueueRecorded' /\ Known \subseteq Known'
  BY <1>1, NothingSent DEF Acts, Proceed
<1>3. calling'[t].jsId = ids' /\ calling'[t].js.kind = "body" /\ pc'[t] = "send"
  BY <1>1 DEF ThreadOK, TypeOK, FunctionCalls
<1>4. BodiesOK'
  <2>1. \A i : Held(i) => Held(i)'
    BY <1>1, <1>2 DEF Held, InBatch, TypeOK, catchVars
  <2>2. ASSUME NEW b \in Bodies, cachedFunctions'[b] # 0
        PROVE  Held(cachedFunctions[b])'
    <3>1. PICK i : i = cachedFunctions'[b]
      OBVIOUS
    <3>2. CASE b = calling[t].js.body
      <4>1. i = ids'
        BY <1>1, <3>1, <3>2 DEF TypeOK
      <4>2. Defines(calling[t], i)'
        BY <1>3, <4>1 DEF Defines
      <4>3. Held(i)'
        BY <1>3, <4>2 DEF Held
      <4>4. QED
        BY <3>1, <4>3 DEF Held, InBatch
    <3>3. CASE b # calling[t].js.body
      <4>1. i = cachedFunctions[b] /\ i # 0
        BY <1>1, <2>2, <3>1, <3>3 DEF TypeOK
      <4>2. Held(i)'
        BY <2>1, <4>1 DEF Orderly, BodiesOK
      <4>3. QED
        BY <3>1, <4>2 DEF Held, InBatch
    <3>4. QED
      BY <3>2, <3>3
  <2>3. QED
    BY <2>2 DEF BodiesOK
<1>5. ASSUME NEW u \in Threads PROVE CaughtOK(u)'
  <2>1. CASE u = t
    <3>1. CaughtRest(t)'
      BY <1>1, <1>2, RestMore DEF Orderly, CaughtOK, catchVars
    <3>2. QED
      BY <1>3, <2>1, <3>1 DEF CaughtOK, CaughtRest, Needs
  <2>2. CASE u # t
    BY <1>1, <1>2, <2>2, CaughtMore DEF Orderly, TypeOK, catchVars
  <2>3. QED
    BY <2>1, <2>2
<1>6. QED
  BY <1>2, <1>4, <1>5 DEF Orderly

LEMMA AddCallbackOrderly ==
  ASSUME TInv, Orderly, NEW t \in Threads, AddCallback(t)
  PROVE  Orderly'
<1>1. /\ TypeOK /\ pc[t] = "register" /\ pc' = [pc EXCEPT ![t] = "idle"]
      /\ UNCHANGED <<cachedFunctions, calling, catchVars, sent, browserVars>>
  BY DEF TInv, AddCallback
<1>2. QueueSound(There, sent)' /\ QueueRecorded' /\ Known \subseteq Known'
  BY <1>1, NothingSent DEF Acts, Proceed
<1>3. BodiesOK'
  <2>1. \A i : Held(i) => Held(i)'
    BY <1>1, <1>2 DEF Held, InBatch, TypeOK, catchVars
  <2>2. QED
    BY <1>1, <2>1, StillHeld DEF Orderly
<1>4. ASSUME NEW u \in Threads PROVE CaughtOK(u)'
  <2>1. CASE u = t
    <3>1. CaughtRest(t)'
      BY <1>1, <1>2, RestMore DEF Orderly, CaughtOK, catchVars
    <3>2. QED
      BY <1>1, <2>1, <3>1 DEF CaughtOK, CaughtRest, TypeOK
  <2>2. CASE u # t
    BY <1>1, <1>2, <2>2, CaughtMore DEF Orderly, TypeOK, catchVars
  <2>3. QED
    BY <2>1, <2>2
<1>5. QED
  BY <1>2, <1>3, <1>4 DEF Orderly

LEMMA CatchOrderly ==
  ASSUME TInv, Orderly, NEW t \in Threads, NEW what \in {"batch", "immediate"},
         NEW type \in {"EVENT", "IMMEDIATE_EVENT"}, what = "batch" <=> type = "EVENT",
         CatchOutbound(t, what, type)
  PROVE  Orderly'
<1>1. /\ TypeOK /\ ThreadOK(t) /\ pc[t] = "idle" /\ catcher[t] = "none"
      /\ block' = [block EXCEPT ![t] = what]
      /\ functionList' = [functionList EXCEPT ![t] = <<>>]
      /\ UNCHANGED <<cachedFunctions, ids, pc, calling, pageVars, sent, handlerVars, browserVars>>
  BY DEF TInv, CatchOutbound, MayUse
<1>2. QueueSound(There, sent)' /\ QueueRecorded' /\ Known \subseteq Known'
  BY <1>1, NothingSent DEF Acts
<1>3. block[t] = "none"
  BY <1>1 DEF TypeOK, ThreadOK
<1>4. BodiesOK'
  <2>1. \A i : Held(i) => Held(i)'
    BY <1>1, <1>2, <1>3 DEF Held, InBatch, TypeOK
  <2>2. QED
    BY <1>1, <2>1, StillHeld DEF Orderly
<1>5. ASSUME NEW u \in Threads PROVE CaughtOK(u)'
  <2>1. CASE u = t
    <3>1. functionList'[t] = <<>> /\ pc'[t] = "idle"
      BY <1>1 DEF TypeOK
    <3>2. Sound(<<>>, Known')
      BY DEF Sound
    <3>3. QED
      BY <2>1, <3>1, <3>2 DEF CaughtOK
  <2>2. CASE u # t
    BY <1>1, <1>2, <2>2, CaughtMore DEF Orderly, TypeOK
  <2>3. QED
    BY <2>1, <2>2
<1>6. QED
  BY <1>2, <1>4, <1>5 DEF Orderly

\* What is appended to the queue is known from then on.
LEMMA SentSound ==
  ASSUME TInv, Orderly, NEW t \in Threads, Acts(t), NEW msg \in Seq(FunctionCalls),
         sent' = Append(sent, msg), Sound(msg, Known), Len(msg) = 1 \/ Harmless(msg),
         \A j \in DOMAIN msg : msg[j].js.kind = "cache" => msg[j].js \in recorded'
  PROVE  /\ QueueSound(There, sent)' /\ QueueRecorded'
         /\ Known \cup Defined(msg) \subseteq Known' /\ There \subseteq There'
<1>1. sent \in Seq(Seq(FunctionCalls)) /\ functions' = functions
  BY ActsElsewhere DEF TInv, TypeOK, browserVars
<1>2. There \subseteq There' /\ recorded \subseteq recorded'
  BY <1>1, ThereMore, HistoryGrows
<1>3. QueueSound(There', sent) /\ KnownAfter(There, sent) \subseteq KnownAfter(There', sent)
  BY <1>2, QueueMore DEF Orderly
<1>4. Sound(msg, KnownAfter(There', sent))
  BY <1>3, SoundMore DEF Known
<1>5. QueueSound(There', Append(sent, msg))
      /\ KnownAfter(There', Append(sent, msg)) = KnownAfter(There', sent) \cup Defined(msg)
  BY <1>1, <1>3, <1>4, QueueAppend, KnownAppend
<1>6. QueueSound(There, sent)' /\ Known \cup Defined(msg) \subseteq Known'
  BY <1>3, <1>5 DEF Known
<1>7. QueueRecorded'
  <2>1. /\ DOMAIN sent' = 1..(Len(sent) + 1) /\ DOMAIN sent = 1..Len(sent) /\ Len(sent) \in Nat
        /\ (\A m \in 1..Len(sent) : sent'[m] = sent[m]) /\ sent'[Len(sent) + 1] = msg
    BY <1>1
  <2>2. ASSUME NEW m \in DOMAIN sent', NEW j \in DOMAIN sent'[m], sent'[m][j].js.kind = "cache"
        PROVE  sent'[m][j].js \in recorded'
    <3>1. CASE m = Len(sent) + 1
      BY <2>1, <2>2, <3>1
    <3>2. CASE m # Len(sent) + 1
      <4>1. m \in DOMAIN sent /\ sent'[m] = sent[m]
        BY <2>1, <3>2
      <4>2. QED
        BY <1>2, <2>2, <4>1 DEF Orderly, QueueRecorded
    <3>3. QED
      BY <3>1, <3>2
  <2>3. QED
    BY <2>2 DEF QueueRecorded
<1>8. QED
  BY <1>2, <1>6, <1>7

LEMMA SoundAlone ==
  ASSUME NEW fc, NEW K, \A i \in Ids : Needs(fc, i) => i \in K
  PROVE  Sound(<<fc>>, K) /\ Len(<<fc>>) = 1
  BY DEF Sound

\* A call that is not caught.
LEMMA SendDirectly ==
  ASSUME TInv, Orderly, NEW t \in Threads, Send(t), catcher[t] = "none"
  PROVE  Orderly'
<1>1. /\ TypeOK /\ ThreadOK(t) /\ pc[t] = "send" /\ block[t] = "none"
      /\ sent' = Append(sent, <<calling[t]>>) /\ pc' = [pc EXCEPT ![t] = AfterSend(t)]
      /\ UNCHANGED <<cachedFunctions, calling, block, functionList, functions>>
  BY DEF TInv, ThreadOK, Send, TypeOK, browserVars
<1>2. /\ calling[t] \in FunctionCalls /\ <<calling[t]>> \in Seq(FunctionCalls)
      /\ \A j \in DOMAIN <<calling[t]>> : <<calling[t]>>[j].js.kind # "cache"
  BY <1>1, SendWhat DEF ThreadOK
<1>3. \A i \in Ids : Needs(calling[t], i) => i \in Known
  BY <1>1 DEF Orderly, CaughtOK, InBatch
<1>4. Sound(<<calling[t]>>, Known) /\ Len(<<calling[t]>>) = 1
  BY <1>3, SoundAlone
<1>5. /\ QueueSound(There, sent)' /\ QueueRecorded'
      /\ Known \cup Defined(<<calling[t]>>) \subseteq Known'
  BY <1>1, <1>2, <1>4, SentSound DEF Acts, Proceed
<1>6. Known \subseteq Known' /\ Defined(<<calling[t]>>) \subseteq Known'
  BY <1>5
<1>7. BodiesOK'
  <2>1. ASSUME NEW b \in Bodies, cachedFunctions[b] # 0, Held(cachedFunctions[b])
        PROVE  Held(cachedFunctions[b])'
    <3>1. PICK i \in Ids : i = cachedFunctions[b]
      BY <1>1, <2>1, CachedId
    <3>2. CASE pc[t] = "send" /\ Defines(calling[t], i)
      <4>1. i \in Defined(<<calling[t]>>)
        BY <3>2 DEF Defined
      <4>2. QED
        BY <1>1, <1>6, <3>1, <4>1 DEF Held
    <3>3. CASE ~(pc[t] = "send" /\ Defines(calling[t], i))
      <4>1. \/ i \in Known
            \/ \E u \in Threads : InBatch(u, i) \/ (u # t /\ pc[u] = "send" /\ Defines(calling[u], i))
        BY <2>1, <3>1, <3>3 DEF Held
      <4>2. Held(i)'
        BY <1>1, <1>6, <4>1 DEF Held, InBatch, TypeOK
      <4>3. QED
        BY <1>1, <3>1, <4>2
    <3>4. QED
      BY <3>2, <3>3
  <2>2. QED
    BY <1>1, <2>1 DEF Orderly, BodiesOK
<1>8. ASSUME NEW u \in Threads PROVE CaughtOK(u)'
  <2>1. CASE u = t
    <3>1. pc'[t] # "send" /\ block'[t] = "none"
      BY <1>1 DEF TypeOK, AfterSend
    <3>2. QED
      BY <2>1, <3>1 DEF CaughtOK
  <2>2. CASE u # t
    BY <1>1, <1>6, <2>2, CaughtMore DEF Orderly, TypeOK
  <2>3. QED
    BY <2>1, <2>2
<1>9. QED
  BY <1>5, <1>7, <1>8 DEF Orderly

\* A call that is caught by a batch.
LEMMA SendIntoBatch ==
  ASSUME TInv, Orderly, NEW t \in Threads, Send(t), block[t] = "batch"
  PROVE  Orderly'
<1>1. /\ TypeOK /\ ThreadOK(t) /\ pc[t] = "send" /\ catcher[t] = "EVENT"
      /\ functionList' = [functionList EXCEPT ![t] = Append(functionList[t], calling[t])]
      /\ sent' = sent \o SentAhead(t) /\ pc' = [pc EXCEPT ![t] = AfterSend(t)]
      /\ UNCHANGED <<cachedFunctions, calling, block, functions>>
  BY DEF TInv, ThreadOK, Send, TypeOK, browserVars
<1>2. calling[t] \in FunctionCalls /\ functionList[t] \in Seq(FunctionCalls)
  BY <1>1, SendWhat DEF TypeOK
<1>3. sent' = sent
  BY <1>1 DEF TypeOK, SentAhead, RecordsFirst
<1>4. QueueSound(There, sent)' /\ QueueRecorded' /\ Known \subseteq Known'
  BY <1>3, NothingSent DEF Acts, Proceed
<1> DEFINE q == Append(functionList[t], calling[t])
<1>5. Sound(q, Known)
  <2>1. \A i \in Ids : Needs(calling[t], i) =>
          i \in Known \/ \E k \in DOMAIN functionList[t] : Defines(functionList[t][k], i)
    BY <1>1 DEF Orderly, CaughtOK, InBatch
  <2>2. Sound(functionList[t], Known)
    BY DEF Orderly, CaughtOK
  <2>3. QED
    BY <1>2, <2>1, <2>2, SoundAppend
<1>6. functionList'[t] = q /\ block'[t] = "batch" /\ pc'[t] # "send"
  BY <1>1 DEF TypeOK, AfterSend
<1>7. \A i : /\ InBatch(t, i) => \E k \in DOMAIN q : Defines(q[k], i)
             /\ Defines(calling[t], i) => \E k \in DOMAIN q : Defines(q[k], i)
  <2>1. /\ DOMAIN q = 1..(Len(functionList[t]) + 1) /\ q[Len(functionList[t]) + 1] = calling[t]
        /\ \A k \in DOMAIN functionList[t] : k \in DOMAIN q /\ q[k] = functionList[t][k]
        /\ Len(functionList[t]) + 1 \in DOMAIN q
    BY <1>2
  <2> HIDE DEF q
  <2>2. QED
    BY <2>1 DEF InBatch
<1> HIDE DEF q
<1>8. BodiesOK'
  <2>1. ASSUME NEW i, Held(i)
        PROVE  Held(i)'
    <3>1. CASE InBatch(t, i) \/ Defines(calling[t], i)
      BY <1>6, <1>7, <3>1 DEF Held, InBatch
    <3>2. CASE ~(InBatch(t, i) \/ Defines(calling[t], i))
      <4>1. \/ i \in Known
            \/ \E u \in Threads \ {t} : InBatch(u, i) \/ (pc[u] = "send" /\ Defines(calling[u], i))
        BY <2>1, <3>2 DEF Held
      <4>2. QED
        BY <1>1, <1>4, <4>1 DEF Held, InBatch, TypeOK
    <3>3. QED
      BY <3>1, <3>2
  <2>2. QED
    BY <1>1, <2>1, StillHeld DEF Orderly
<1>9. ASSUME NEW u \in Threads PROVE CaughtOK(u)'
  <2>1. CASE u = t
    <3>1. Sound(q, Known')
      BY <1>4, <1>5, SoundMore
    <3>2. QED
      BY <1>6, <2>1, <3>1 DEF CaughtOK
  <2>2. CASE u # t
    BY <1>1, <1>4, <2>2, CaughtMore DEF Orderly, TypeOK
  <2>3. QED
    BY <2>1, <2>2
<1>10. QED
  BY <1>4, <1>8, <1>9 DEF Orderly

\* A call that onImmediate records: the browser gets its function ahead.
LEMMA SendRecorded ==
  ASSUME TInv, Orderly, NEW t \in Threads, Send(t), catcher[t] = "IMMEDIATE_EVENT"
  PROVE  Orderly'
<1>1. /\ TypeOK /\ ThreadOK(t) /\ pc[t] = "send" /\ catcher[t] = "IMMEDIATE_EVENT"
      /\ functionList' = [functionList EXCEPT ![t] = Append(functionList[t], calling[t])]
      /\ sent' = sent \o SentAhead(t) /\ pc' = [pc EXCEPT ![t] = AfterSend(t)]
      /\ block[t] # "batch" /\ UNCHANGED <<cachedFunctions, calling, block, functions>>
  BY DEF TInv, ThreadOK, Send, TypeOK, browserVars
<1>2. /\ calling[t] \in FunctionCalls /\ calling[t].jsId \in Ids
      /\ functionList[t] \in Seq(FunctionCalls) /\ sent \in Seq(Seq(FunctionCalls))
  BY <1>1, SendWhat DEF TypeOK
<1>3. /\ QueueSound(There, sent)' /\ QueueRecorded'
      /\ Known \subseteq Known' /\ calling[t].jsId \in Known'
      /\ calling[t].js.kind = "body" \/ calling[t].js.kind = "null"
  <2>1. CASE calling[t].js = NoJs
    <3>1. sent' = sent
      BY <1>1, <1>2, <2>1 DEF SentAhead, RecordsFirst
    <3>2. Needs(calling[t], calling[t].jsId) /\ calling[t].js.kind = "null"
      BY <2>1 DEF Needs, NoJs
    <3>3. calling[t].jsId \in Known
      BY <1>1, <1>2, <3>2 DEF Orderly, CaughtOK, InBatch
    <3>4. QueueSound(There, sent)' /\ QueueRecorded' /\ Known \subseteq Known'
      BY <3>1, NothingSent DEF Acts, Proceed
    <3>5. QED
      BY <3>2, <3>3, <3>4
  <2>2. CASE calling[t].js # NoJs
    <3> DEFINE fc == FunctionCall(0, CacheJs(calling[t].jsId, calling[t].js.body), 0)
    <3>1. /\ calling[t].js.kind = "body"
          /\ CacheJs(calling[t].jsId, calling[t].js.body) \in Codes
      BY <1>1, <2>2, SendWhat
    <3>2. fc \in FunctionCalls
      BY <3>1 DEF FunctionCall, FunctionCalls
    <3>3. sent' = Append(sent, <<fc>>)
      BY <1>1, <1>2, <2>2, <3>2 DEF SentAhead, RecordsFirst, Ahead
    <3>4. (\A i \in Ids : ~Needs(fc, i)) /\ Defines(fc, calling[t].jsId) /\ fc.js \in recorded'
      BY <1>1, <2>2 DEF Needs, Defines, FunctionCall, CacheJs, Send, RecordsFirst, Ahead
    <3> HIDE DEF fc
    <3>5. <<fc>> \in Seq(FunctionCalls) /\ \A j \in DOMAIN <<fc>> : <<fc>>[j] = fc
      BY <3>2
    <3>6. Sound(<<fc>>, Known) /\ Len(<<fc>>) = 1
      BY <3>4, SoundAlone
    <3>7. /\ QueueSound(There, sent)' /\ QueueRecorded'
          /\ Known \cup Defined(<<fc>>) \subseteq Known'
      BY <3>3, <3>4, <3>5, <3>6, SentSound DEF Acts, Proceed
    <3>9. calling[t].jsId \in Defined(<<fc>>)
      BY <1>2, <3>4 DEF Defined
    <3>10. QED
      BY <3>1, <3>7, <3>9
  <2>3. QED
    BY <2>1, <2>2
<1>4. BodiesOK'
  <2>1. ASSUME NEW i, Held(i)
        PROVE  Held(i)'
    <3>1. CASE Defines(calling[t], i)
      <4>1. i = calling[t].jsId
        BY <1>3, <3>1 DEF Defines
      <4>2. QED
        BY <1>3, <4>1 DEF Held
    <3>2. CASE ~Defines(calling[t], i)
      <4>1. \/ i \in Known
            \/ \E u \in Threads \ {t} : InBatch(u, i) \/ (pc[u] = "send" /\ Defines(calling[u], i))
        BY <1>1, <2>1, <3>2 DEF Held, InBatch
      <4>2. QED
        BY <1>1, <1>3, <4>1 DEF Held, InBatch, TypeOK
    <3>3. QED
      BY <3>1, <3>2
  <2>2. QED
    BY <1>1, <2>1, StillHeld DEF Orderly
<1>5. ASSUME NEW u \in Threads PROVE CaughtOK(u)'
  <2>1. CASE u = t
    <3>1. pc'[t] # "send" /\ block'[t] = block[t] /\ block'[t] # "batch"
          /\ functionList'[t] = Append(functionList[t], calling[t])
      BY <1>1 DEF TypeOK, AfterSend
    <3>2. block[t] = "immediate" =>
            \A k \in DOMAIN functionList[t] : functionList[t][k].jsId \in Known'
      BY <1>3 DEF Orderly, CaughtOK
    <3>3. block[t] = "immediate" =>
            \A k \in DOMAIN functionList'[t] : functionList'[t][k].jsId \in Known'
      BY <1>2, <1>3, <3>1, <3>2
    <3>4. QED
      BY <2>1, <3>1, <3>3 DEF CaughtOK
  <2>2. CASE u # t
    BY <1>1, <1>3, <2>2, CaughtMore DEF Orderly, TypeOK
  <2>3. QED
    BY <2>1, <2>2
<1>6. QED
  BY <1>3, <1>4, <1>5 DEF Orderly

\* A call that the catcher of a batch that threw hides: its text is lost.
LEMMA SendStranded ==
  ASSUME TInv, Orderly, NEW t \in Threads, Send(t), block[t] = "none", catcher[t] = "EVENT"
  PROVE  Orderly'
<1>1. /\ TypeOK /\ ThreadOK(t) /\ pc[t] = "send"
      /\ functionList' = [functionList EXCEPT ![t] = Append(functionList[t], calling[t])]
      /\ sent' = sent \o SentAhead(t) /\ pc' = [pc EXCEPT ![t] = AfterSend(t)]
      /\ UNCHANGED <<cachedFunctions, calling, block, catcher>>
  BY DEF TInv, Send
<1>2. calling[t] \in FunctionCalls /\ calling[t].js.kind # "cache"
      /\ functionList[t] \in Seq(FunctionCalls)
  BY <1>1, SendWhat DEF TypeOK, ThreadOK
<1>3. sent' = sent
  BY <1>1 DEF TypeOK, SentAhead, RecordsFirst
<1>4. QueueSound(There, sent)' /\ QueueRecorded' /\ Known \subseteq Known'
  BY <1>3, NothingSent DEF Acts, Proceed
<1>5. \A i \in Ids : Defines(calling[t], i) => i \in Known'
  <2>1. SUFFICES ASSUME NEW i \in Ids, Defines(calling[t], i) PROVE i \in Known'
    OBVIOUS
  <2>2. functionList'[t] = Append(functionList[t], calling[t])
    BY <1>1 DEF TypeOK
  <2>3. /\ Len(functionList[t]) + 1 \in DOMAIN functionList'[t]
        /\ functionList'[t][Len(functionList[t]) + 1] = calling[t]
    BY <1>2, <2>2
  <2>4. calling[t].js.kind = "body" /\ calling[t].jsId = i
    BY <1>2, <2>1 DEF Defines
  <2>5. Stranded(t, i)'
    BY <1>1, <2>3, <2>4 DEF Stranded
  <2>6. QED
    BY <2>5 DEF Lost, There, Known, KnownAfter, KnownBefore
<1>6. BodiesOK'
  <2>1. ASSUME NEW b \in Bodies, cachedFunctions[b] # 0, Held(cachedFunctions[b])
        PROVE  Held(cachedFunctions[b])'
    <3>1. PICK i \in Ids : i = cachedFunctions[b]
      BY <1>1, <2>1, CachedId
    <3>2. CASE Defines(calling[t], i)
      BY <1>1, <1>5, <3>1, <3>2 DEF Held
    <3>3. CASE ~Defines(calling[t], i)
      <4>1. \/ i \in Known
            \/ \E u \in Threads \ {t} : InBatch(u, i) \/ (pc[u] = "send" /\ Defines(calling[u], i))
        BY <2>1, <3>1, <3>3 DEF Held, InBatch
      <4>2. Held(i)'
        BY <1>1, <1>4, <4>1 DEF Held, InBatch, TypeOK
      <4>3. QED
        BY <1>1, <3>1, <4>2
    <3>4. QED
      BY <3>2, <3>3
  <2>2. QED
    BY <1>1, <2>1 DEF Orderly, BodiesOK
<1>7. ASSUME NEW u \in Threads PROVE CaughtOK(u)'
  <2>1. CASE u = t
    <3>1. pc'[t] # "send" /\ block'[t] = "none"
      BY <1>1 DEF TypeOK, AfterSend
    <3>2. QED
      BY <2>1, <3>1 DEF CaughtOK
  <2>2. CASE u # t
    BY <1>1, <1>4, <2>2, CaughtMore DEF Orderly, TypeOK
  <2>3. QED
    BY <2>1, <2>2
<1>8. QED
  BY <1>4, <1>6, <1>7 DEF Orderly

LEMMA EndBatchOrderly ==
  ASSUME TInv, Orderly, NEW t \in Threads, EndBatch(t)
  PROVE  Orderly'
<1>1. /\ TypeOK /\ pc[t] = "idle" /\ block[t] = "batch"
      /\ block' = [block EXCEPT ![t] = "none"]
      /\ functionList' = [functionList EXCEPT ![t] = <<>>]
      /\ sent' = Append(sent, functionList[t])
      /\ UNCHANGED <<cachedFunctions, pc, calling, functions>>
  BY DEF TInv, EndBatch, EndOfBlock, callVars, browserVars
<1>2. functionList[t] \in Seq(FunctionCalls) /\ Harmless(functionList[t])
  BY <1>1 DEF TInv, TypeOK, ThreadOK, Catchable, Harmless
<1>23. /\ QueueSound(There, sent)' /\ QueueRecorded'
       /\ Known \cup Defined(functionList[t]) \subseteq Known'
  <2>1. Sound(functionList[t], Known)
    BY <1>1 DEF Orderly, CaughtOK
  <2>2. \A j \in DOMAIN functionList[t] : functionList[t][j].js.kind # "cache"
    BY <1>2 DEF Harmless
  <2>3. QED
    BY <1>1, <1>2, <2>1, <2>2, SentSound DEF Acts, Proceed
<1>3. Known \subseteq Known' /\ Defined(functionList[t]) \subseteq Known'
  BY <1>23
<1>4. BodiesOK'
  <2>1. ASSUME NEW b \in Bodies, cachedFunctions[b] # 0, Held(cachedFunctions[b])
        PROVE  Held(cachedFunctions[b])'
    <3>1. PICK i \in Ids : i = cachedFunctions[b]
      BY <1>1, <2>1, CachedId
    <3>2. CASE InBatch(t, i)
      <4>1. i \in Defined(functionList[t])
        BY <3>2 DEF Defined, InBatch
      <4>2. QED
        BY <1>1, <1>3, <3>1, <4>1 DEF Held
    <3>3. CASE ~InBatch(t, i)
      <4>1. \/ i \in Known
            \/ \E u \in Threads \ {t} : InBatch(u, i) \/ (pc[u] = "send" /\ Defines(calling[u], i))
        BY <1>1, <2>1, <3>1, <3>3 DEF Held
      <4>2. Held(i)'
        BY <1>1, <1>3, <4>1 DEF Held, InBatch, TypeOK
      <4>3. QED
        BY <1>1, <3>1, <4>2
    <3>4. QED
      BY <3>2, <3>3
  <2>2. QED
    BY <1>1, <2>1 DEF Orderly, BodiesOK
<1>5. ASSUME NEW u \in Threads PROVE CaughtOK(u)'
  <2>1. CASE u = t
    <3>1. pc'[t] = "idle" /\ block'[t] = "none"
      BY <1>1 DEF TypeOK
    <3>2. QED
      BY <2>1, <3>1 DEF CaughtOK
  <2>2. CASE u # t
    BY <1>1, <1>3, <2>2, CaughtMore DEF Orderly, TypeOK
  <2>3. QED
    BY <2>1, <2>2
<1>6. QED
  BY <1>23, <1>4, <1>5 DEF Orderly

LEMMA EndImmediateOrderly ==
  ASSUME TInv, Orderly, NEW t \in Threads, EndImmediate(t)
  PROVE  Orderly'
<1> DEFINE is == [i \in DOMAIN functionList[t] |-> functionList[t][i].jsId]
<1>1. /\ TypeOK /\ pc[t] = "idle" /\ block[t] = "immediate"
      /\ block' = [block EXCEPT ![t] = "none"]
      /\ functionList' = [functionList EXCEPT ![t] = <<>>]
      /\ pc' = [pc EXCEPT ![t] = "send"]
      /\ calling' = [calling EXCEPT ![t] = FunctionCall(ids', Listener(is), 0)]
      /\ UNCHANGED <<cachedFunctions, sent, functions>>
  BY DEF TInv, EndImmediate, EndOfBlock, browserVars
<1>2. QueueSound(There, sent)' /\ QueueRecorded' /\ Known \subseteq Known'
  BY <1>1, NothingSent DEF Acts, Proceed
<1>3. BodiesOK'
  <2>1. \A i : Held(i) => Held(i)'
    BY <1>1, <1>2 DEF Held, InBatch, TypeOK
  <2>2. QED
    BY <1>1, <2>1, StillHeld DEF Orderly
<1>4. ASSUME NEW u \in Threads PROVE CaughtOK(u)'
  <2>1. CASE u = t
    <3>1. block'[t] = "none" /\ calling'[t].js = Listener(is)
      BY <1>1 DEF TypeOK, FunctionCall
    <3>2. ASSUME NEW i \in Ids, Needs(calling'[t], i)
          PROVE  i \in Known'
      <4>1. i \in ToSet(is)
        BY <3>1, <3>2 DEF Needs, Listener
      <4>2. PICK k \in DOMAIN functionList[t] : i = functionList[t][k].jsId
        BY <4>1 DEF ToSet
      <4>3. QED
        BY <1>1, <1>2, <4>2 DEF Orderly, CaughtOK
    <3>3. QED
      BY <2>1, <3>1, <3>2 DEF CaughtOK
  <2>2. CASE u # t
    BY <1>1, <1>2, <2>2, CaughtMore DEF Orderly, TypeOK
  <2>3. QED
    BY <2>1, <2>2
<1>5. QED
  BY <1>2, <1>3, <1>4 DEF Orderly

\* The texts in a batch that throws are lost.
LEMMA ThrowsOrderly ==
  ASSUME TInv, Orderly, NEW t \in Threads, BlockThrows(t)
  PROVE  Orderly'
<1>1. /\ TypeOK /\ ThreadOK(t) /\ pc[t] = "idle" /\ block' = [block EXCEPT ![t] = "none"]
      /\ UNCHANGED <<cachedFunctions, pc, calling, catcher, functionList, sent>>
  BY DEF TInv, BlockThrows, callVars
<1>2. QueueSound(There, sent)' /\ QueueRecorded' /\ Known \subseteq Known'
  BY <1>1, NothingSent DEF Acts
<1>3. \A i \in Ids : InBatch(t, i) => i \in Known'
  <2>1. SUFFICES ASSUME NEW i \in Ids, InBatch(t, i) PROVE i \in Known'
    OBVIOUS
  <2>2. PICK k \in DOMAIN functionList[t] : Defines(functionList[t][k], i)
    BY <2>1 DEF InBatch
  <2>3. functionList[t][k].js.kind = "body" /\ functionList[t][k].jsId = i
    BY <1>1, <2>2 DEF ThreadOK, Catchable, Defines
  <2>4. catcher'[t] = "EVENT" /\ block'[t] = "none"
    BY <1>1, <2>1 DEF InBatch, ThreadOK, TypeOK
  <2>5. Stranded(t, i)'
    BY <1>1, <2>3, <2>4 DEF Stranded
  <2>6. QED
    BY <2>5 DEF Lost, There, Known, KnownAfter, KnownBefore
<1>4. BodiesOK'
  <2>1. ASSUME NEW b \in Bodies, cachedFunctions[b] # 0, Held(cachedFunctions[b])
        PROVE  Held(cachedFunctions[b])'
    <3>1. PICK i \in Ids : i = cachedFunctions[b]
      BY <1>1, <2>1, CachedId
    <3>2. CASE InBatch(t, i)
      BY <1>1, <1>3, <3>1, <3>2 DEF Held
    <3>3. CASE ~InBatch(t, i)
      <4>1. \/ i \in Known
            \/ \E u \in Threads \ {t} : InBatch(u, i) \/ (pc[u] = "send" /\ Defines(calling[u], i))
        BY <1>1, <2>1, <3>1, <3>3 DEF Held
      <4>2. Held(i)'
        BY <1>1, <1>2, <4>1 DEF Held, InBatch, TypeOK
      <4>3. QED
        BY <1>1, <3>1, <4>2
    <3>4. QED
      BY <3>2, <3>3
  <2>2. QED
    BY <1>1, <2>1 DEF Orderly, BodiesOK
<1>5. ASSUME NEW u \in Threads PROVE CaughtOK(u)'
  <2>1. CASE u = t
    <3>1. pc'[t] = "idle" /\ block'[t] = "none"
      BY <1>1 DEF TypeOK
    <3>2. QED
      BY <2>1, <3>1 DEF CaughtOK
  <2>2. CASE u # t
    BY <1>1, <1>2, <2>2, CaughtMore DEF Orderly, TypeOK
  <2>3. QED
    BY <2>1, <2>2
<1>6. QED
  BY <1>2, <1>4, <1>5 DEF Orderly

LEMMA ActsOrderly ==
  ASSUME ~Concurrent, TInv, Turns, Orderly,
         NEW t \in Threads, Acts(t)
  PROVE  Orderly'
<1>1. OthersRest(t)
  BY ActsInTurn
<1>2. CASE Define(t)
  BY <1>2, DefineOrderly
<1>3. CASE Send(t)
  <2>1. /\ catcher[t] \in {"none", "EVENT", "IMMEDIATE_EVENT"}
        /\ catcher[t] = "EVENT" => block[t] \in {"none", "batch"}
    BY DEF TInv, TypeOK, ThreadOK
  <2>2. QED
    BY <1>3, <2>1, SendDirectly, SendIntoBatch, SendStranded, SendRecorded
<1>4. CASE AddCallback(t)
  BY <1>4, AddCallbackOrderly
<1>5. CASE EndBatch(t)
  BY <1>5, EndBatchOrderly
<1>6. CASE EndImmediate(t)
  BY <1>6, EndImmediateOrderly
<1>7. CASE BlockThrows(t)
  BY <1>7, ThrowsOrderly
<1>8. ASSUME NEW b \in Bodies, NEW cb \in BOOLEAN, CallJsFunction(t, b, cb)
      PROVE  Orderly'
  BY <1>1, <1>8, CallOrderly
<1>9. CASE CatchOutbound(t, "batch", "EVENT")
  BY <1>9, CatchOrderly
<1>10. CASE CatchOutbound(t, "immediate", "IMMEDIATE_EVENT")
  BY <1>10, CatchOrderly
<1>11. QED
  BY <1>2, <1>3, <1>4, <1>5, <1>6, <1>7, <1>8, <1>9, <1>10 DEF Acts, Proceed

-----------------------------------------------------------------------------
(***************************************************************************)
(* The browser finds the functions it is asked for.                        *)
(***************************************************************************)
\* A call leaves no empty function behind if the one it needs is there.  It loses
\* none, and keeps the one it defines.  Nothing is claimed of the functions in lost.
FunctionsWell(lost, fs) == \A i \in Ids \ lost : fs[i] # "empty"
ListenersWell(lost, fs, ls) == \A is \in ls : \A i \in ToSet(is) \ lost : fs[i] = "defined"
Keeps(fs, gs) == \A i \in Ids : fs[i] = "defined" => gs[i] = "defined"

LEMMA ExecuteKeeps ==
  ASSUME NEW st \in BrowserStates, NEW fc \in FunctionCalls, NEW lost,
         FunctionsWell(lost, st.functions), ListenersWell(lost, st.functions, st.listeners),
         st.ok => \A i \in Ids \ lost : Needs(fc, i) => st.functions[i] = "defined"
  PROVE  LET after == Execute(st, fc)
         IN  /\ FunctionsWell(lost, after.functions)
             /\ ListenersWell(lost, after.functions, after.listeners)
             /\ Keeps(st.functions, after.functions)
             /\ after.ok => /\ st.ok
                            /\ \A i \in Ids \ lost : Defines(fc, i) => after.functions[i] = "defined"
             /\ st.ok /\ Parses(fc.js) => after.ok
<1> DEFINE kept == Kept(st.functions, fc)
           known == fc.jsId # 0 /\ st.functions[fc.jsId] # "undefined"
           after == Execute(st, fc)
<1>1. /\ fc.jsId \in Ids \cup {0} /\ fc.js \in Codes
      /\ st.functions \in [Ids -> {"undefined", "empty", "defined"}]
      /\ st.listeners \subseteq Seq(Ids)
      /\ fc \in st.throwing => fc.js.kind # "cache"
  BY DEF FunctionCalls, BrowserStates
<1>2. CASE ~st.ok \/ ~(known \/ Parses(fc.js))
  <2>1. after = [st EXCEPT !.ok = FALSE]
    BY <1>2 DEF Execute
  <2>2. after.ok = FALSE /\ after.functions = st.functions /\ after.listeners = st.listeners
    BY <2>1 DEF BrowserStates
  <2>3. QED
    BY <1>2, <2>2 DEF FunctionsWell, ListenersWell, Keeps
<1>3. CASE st.ok /\ (known \/ Parses(fc.js))
  <2>1. /\ after.ok = TRUE
        /\ after.functions = (IF fc.js.kind = "cache"
                              THEN [kept EXCEPT ![fc.js.jsId] = "defined"] ELSE kept)
        /\ after.listeners \in {st.listeners, IF fc.js.kind = "listener"
                                             THEN st.listeners \cup {fc.js.jsIds}
                                             ELSE st.listeners}
    <3>1. CASE fc \in st.throwing
      <4>1. after = [st EXCEPT !.functions = kept, !.failed = @ \cup ({fc.callbackId} \ {0})]
        BY <1>3, <3>1 DEF Execute
      <4>2. after.ok = st.ok /\ after.functions = kept /\ after.listeners = st.listeners
        BY <4>1 DEF BrowserStates
      <4>3. QED
        BY <1>1, <1>3, <3>1, <4>2
    <3>2. CASE fc \notin st.throwing
      <4> DEFINE fs == IF fc.js.kind = "cache"
                       THEN [kept EXCEPT ![fc.js.jsId] = "defined"] ELSE kept
                 ls == IF fc.js.kind = "listener"
                       THEN st.listeners \cup {fc.js.jsIds} ELSE st.listeners
      <4>1. after = [st EXCEPT !.functions = fs, !.listeners = ls, !.answers = @ \cup Answers(fc)]
        BY <1>3, <3>2 DEF Execute
      <4> HIDE DEF fs, ls
      <4>2. after.ok = st.ok /\ after.functions = fs /\ after.listeners = ls
        BY <4>1 DEF BrowserStates
      <4>3. QED
        BY <1>3, <4>2 DEF fs, ls
    <3>3. QED
      BY <3>1, <3>2
  <2>2. /\ kept \in [Ids -> {"undefined", "empty", "defined"}]
        /\ FunctionsWell(lost, kept) /\ Keeps(st.functions, kept)
        /\ fc.js.kind = "body" /\ fc.jsId \in Ids \ lost => kept[fc.jsId] = "defined"
    <3>1. CASE fc.jsId = 0 \/ known
      <4>1. kept = st.functions
        BY <3>1 DEF Kept
      <4>2. known /\ fc.jsId \notin lost => st.functions[fc.jsId] = "defined"
        BY <1>1 DEF FunctionsWell
      <4>3. 0 \notin Ids
        BY DEF Ids
      <4>4. QED
        BY <1>1, <3>1, <4>1, <4>2, <4>3 DEF Keeps
    <3>2. CASE ~(fc.jsId = 0 \/ known)
      <4>1. fc.js = NoJs => fc.jsId \in lost
        BY <1>1, <1>3, <3>2 DEF Needs, NoJs
      <4>2. kept = [st.functions EXCEPT ![fc.jsId] = IF fc.js = NoJs THEN "empty" ELSE "defined"]
        BY <3>2 DEF Kept
      <4>3. st.functions[fc.jsId] = "undefined"
        BY <3>2
      <4>4. fc.js.kind = "body" => fc.js # NoJs
        BY DEF NoJs
      <4>5. QED
        BY <1>1, <3>2, <4>1, <4>2, <4>3, <4>4 DEF FunctionsWell, Keeps
    <3>3. QED
      BY <3>1, <3>2
  <2> HIDE DEF kept, after
  <2>3. FunctionsWell(lost, after.functions) /\ Keeps(kept, after.functions)
    BY <2>1, <2>2 DEF FunctionsWell, Keeps
  <2>4. Keeps(st.functions, after.functions)
    BY <2>2, <2>3 DEF Keeps
  <2>5. ASSUME NEW i \in Ids \ lost, Defines(fc, i) PROVE after.functions[i] = "defined"
    <3>1. CASE fc.js.kind = "body" /\ fc.jsId = i
      BY <2>2, <2>3, <3>1 DEF Keeps
    <3>2. CASE fc.js.kind = "cache" /\ fc.js.jsId = i
      BY <2>1, <2>2, <3>2
    <3>3. QED
      BY <2>5, <3>1, <3>2 DEF Defines
  <2>6. ASSUME NEW is \in after.listeners, NEW i \in ToSet(is) \ lost
        PROVE  after.functions[i] = "defined"
    <3>1. i \in Ids
      <4>1. is \in Seq(Ids)
        BY <1>1, <2>1, CodeKinds
      <4>2. QED
        BY <4>1 DEF ToSet
    <3>2. CASE is \in st.listeners
      BY <2>4, <3>1, <3>2 DEF ListenersWell, Keeps
    <3>3. CASE fc.js.kind = "listener" /\ is = fc.js.jsIds
      BY <1>3, <2>4, <3>1, <3>3 DEF Needs, Keeps
    <3>4. QED
      BY <2>1, <3>2, <3>3
  <2>7. QED
    BY <1>3, <2>1, <2>3, <2>4, <2>5, <2>6 DEF ListenersWell, after
<1>4. QED
  BY <1>2, <1>3

\* So it is for each call of a message, one after the other.
RunWell(lost, st, msg, now, n) ==
  /\ FunctionsWell(lost, now.functions) /\ ListenersWell(lost, now.functions, now.listeners)
  /\ Keeps(st.functions, now.functions)
  /\ now.ok => \A i \in Ids \ lost, j \in 1..n : Defines(msg[j], i) => now.functions[i] = "defined"
  /\ (\A j \in DOMAIN msg : Parses(msg[j].js)) => now.ok

LEMMA RunKeeps ==
  ASSUME NEW st \in BrowserStates, NEW msg \in Seq(FunctionCalls), NEW h, Runs(h, st, msg),
         NEW lost, st.ok,
         FunctionsWell(lost, st.functions), ListenersWell(lost, st.functions, st.listeners),
         Sound(msg, {i \in Ids : i \in lost \/ st.functions[i] = "defined"})
  PROVE  RunWell(lost, st, msg, h[Len(msg)], Len(msg))
<1> DEFINE S == {n \in Nat : n <= Len(msg) => RunWell(lost, st, msg, h[n], n)}
<1>1. 0 \in S
  <2>1. h[0] = st
    BY DEF Runs
  <2>2. RunWell(lost, st, msg, st, 0)
    BY DEF RunWell, Keeps
  <2>3. QED
    BY <2>1, <2>2
<1>2. ASSUME NEW n \in Nat, n \in S PROVE n + 1 \in S
  <2>1. SUFFICES ASSUME n + 1 <= Len(msg) PROVE RunWell(lost, st, msg, h[n + 1], n + 1)
    OBVIOUS
  <2>2. /\ n \in 0..(Len(msg) - 1) /\ n \in 0..Len(msg) /\ n <= Len(msg) /\ n + 1 \in DOMAIN msg
        /\ 1..(n + 1) = (1..n) \cup {n + 1} /\ (n + 1) - 1 = n
    BY <2>1
  <2>3. h[n] \in BrowserStates
    BY <2>2, RunType
  <2>4. RunWell(lost, st, msg, h[n], n)
    BY <1>2, <2>2
  <2>5. PICK fc \in FunctionCalls : fc = msg[n + 1]
    BY <2>2
  <2>6. h[n + 1] = Execute(h[n], fc)
    BY <2>2, <2>5 DEF Runs
  <2>7. PICK now \in BrowserStates : now = h[n]
    BY <2>3
  <2>8. PICK next : next = Execute(now, fc)
    OBVIOUS
  <2>9. ASSUME now.ok, NEW i \in Ids \ lost, Needs(fc, i) PROVE now.functions[i] = "defined"
    <3>1. st.functions[i] = "defined" \/ \E k \in 1..n : Defines(msg[k], i)
      BY <2>2, <2>5, <2>9 DEF Sound
    <3>2. QED
      BY <2>4, <2>7, <2>9, <3>1 DEF RunWell, Keeps
  <2>10. /\ FunctionsWell(lost, next.functions)
         /\ ListenersWell(lost, next.functions, next.listeners)
         /\ Keeps(now.functions, next.functions)
         /\ next.ok => /\ now.ok
                       /\ \A i \in Ids \ lost : Defines(fc, i) => next.functions[i] = "defined"
         /\ now.ok /\ Parses(fc.js) => next.ok
    BY <2>4, <2>7, <2>8, <2>9, ExecuteKeeps DEF RunWell
  <2>11. RunWell(lost, st, msg, next, n + 1)
    <3>1. Keeps(st.functions, next.functions)
      BY <2>4, <2>7, <2>10 DEF RunWell, Keeps
    <3>2. ASSUME next.ok, NEW i \in Ids \ lost, NEW j \in 1..(n + 1), Defines(msg[j], i)
          PROVE  next.functions[i] = "defined"
      <4>1. CASE j \in 1..n
        BY <2>4, <2>7, <2>10, <3>2, <4>1 DEF RunWell, Keeps
      <4>2. CASE j = n + 1
        BY <2>5, <2>10, <3>2, <4>2
      <4>3. QED
        BY <2>2, <4>1, <4>2
    <3>3. (\A j \in DOMAIN msg : Parses(msg[j].js)) => next.ok
      BY <2>2, <2>4, <2>5, <2>7, <2>10 DEF RunWell
    <3>4. QED
      BY <2>10, <3>1, <3>2, <3>3 DEF RunWell
  <2>12. QED
    BY <2>6, <2>7, <2>8, <2>11
<1> HIDE DEF S
<1>3. \A n \in Nat : n \in S
  BY <1>1, <1>2, StepByStep
<1>4. Len(msg) \in Nat /\ Len(msg) <= Len(msg)
  OBVIOUS
<1>5. QED
  BY <1>3, <1>4 DEF S

(***************************************************************************)
(* The page and the browser.                                               *)
(***************************************************************************)
LostIds == {i \in Ids : Lost(i)}
AllWell ==
  FunctionsWell(LostIds, functions) /\ ListenersWell(LostIds, functions, listeners)

LEMMA FunctionsMean ==
  ASSUME TypeOK
  PROVE  FunctionsAreThere <=> AllWell
<1>1. \A is \in listeners : \A i \in ToSet(is) : i \in Ids
  BY DEF TypeOK, ToSet
<1>2. QED
  BY <1>1 DEF FunctionsAreThere, AllWell, LostIds, FunctionsWell, ListenersWell

LEMMA BrowserStep ==
  ASSUME BrowserOK, [Next]_vars
  PROVE  BrowserOK'
<1>1. ASSUME NEW t \in Threads, Acts(t) PROVE BrowserOK'
  BY <1>1, ActsElsewhere DEF BrowserOK, pageVars, browserVars
<1>2. CASE ServePage
  BY <1>2 DEF BrowserOK, ServePage
<1>3. CASE HandleInboundMessage
  BY <1>3 DEF BrowserOK, HandleInboundMessage
<1>4. ASSUME NEW cb \in Ids, HandleCallback(cb) PROVE BrowserOK'
  BY <1>4 DEF BrowserOK, HandleCallback, pageVars
<1>5. CASE UNCHANGED vars
  BY <1>5 DEF BrowserOK, vars, pageVars, browserVars
<1>6. QED
  BY <1>1, <1>2, <1>3, <1>4, <1>5, WhoActs DEF BrowserActs

\* The threads keep what they have if nothing is forgotten.
LEMMA KnownMore ==
  ASSUME Orderly, UNCHANGED <<callVars, catchVars>>,
         QueueSound(There, sent)', QueueRecorded', Known \subseteq Known'
  PROVE  Orderly'
<1>1. \A i : Held(i) => Held(i)'
  BY DEF Held, InBatch, callVars, catchVars
<1>2. BodiesOK'
  BY <1>1, StillHeld DEF Orderly, callVars
<1>3. \A t \in Threads : CaughtOK(t)'
  BY CaughtMore DEF Orderly, callVars, catchVars
<1>4. QED
  BY <1>2, <1>3 DEF Orderly

LEMMA ServeOrderly ==
  ASSUME BrowserOK, Orderly, ServePage
  PROVE  Orderly'
<1>1. /\ page = "building" /\ sent' = sent /\ UNCHANGED <<callVars, catchVars, recorded>>
      /\ \A i \in Ids : functions[i] # "defined"
  BY DEF ServePage, BrowserOK, historyVars
<1>2. There \subseteq There'
  BY <1>1, LostAlone DEF There
<1>3. QED
  BY <1>1, <1>2, QueueKept, KnownMore

\* The page keeps the functions it has written for the messages it inlines.
LEMMA ServeWell ==
  ASSUME BrowserOK, ServePage
  PROVE  AllWell'
<1>1. (\A i \in Ids : functions'[i] # "empty") /\ listeners' = {}
  BY DEF BrowserOK, ServePage
<1>2. QED
  BY <1>1 DEF AllWell, FunctionsWell, ListenersWell

\* The next message, if it finds its functions.
LEMMA HeadRuns ==
  ASSUME TInv, Orderly, AllWell, HandleInboundMessage
  PROVE  \E st, after :
           /\ RunWell(LostIds, st, Head(sent), after, Len(Head(sent))) /\ st.functions = functions
           /\ functions' = after.functions /\ listeners' = after.listeners
           /\ browser' = IF after.ok \/ inlined = 0 THEN "running" ELSE "dead"
<1>1. TypeOK /\ sent # <<>> /\ 1 \in DOMAIN sent /\ Head(sent) = sent[1]
      /\ Head(sent) \in Seq(FunctionCalls)
  BY DEF TInv, TypeOK, HandleInboundMessage
<1>2. PICK throwing \in SUBSET MayThrow(Head(sent)) :
        LET after == FoldLeft(Execute, Before(throwing), Head(sent)) IN
        /\ functions' = after.functions /\ listeners' = after.listeners
        /\ answers' = after.answers /\ failed' = after.failed
        /\ browser' = IF after.ok \/ inlined = 0 THEN "running" ELSE "dead"
  BY DEF HandleInboundMessage
<1>3. PICK st \in BrowserStates : st = Before(throwing)
  <2>1. throwing \subseteq {fc \in FunctionCalls : fc.js.kind # "cache"}
    <3>1. ToSet(Head(sent)) \subseteq FunctionCalls
      BY <1>1 DEF ToSet
    <3>2. QED
      BY <3>1 DEF MayThrow
  <2>2. QED
    BY <1>1, <2>1 DEF TypeOK, Before, BrowserStates
<1>4. PICK after : after = FoldLeft(Execute, Before(throwing), Head(sent))
  OBVIOUS
<1>5. /\ functions' = after.functions /\ listeners' = after.listeners
      /\ browser' = IF after.ok \/ inlined = 0 THEN "running" ELSE "dead"
  BY <1>2, <1>4
<1>6. PICK h : Runs(h, st, Head(sent)) /\ FoldLeft(Execute, st, Head(sent)) = h[Len(Head(sent))]
  BY <1>1, MessageRuns
<1>7. st.ok /\ st.functions = functions /\ st.listeners = listeners
  BY <1>3 DEF Before
<1>8. Sound(Head(sent), {i \in Ids : i \in LostIds \/ st.functions[i] = "defined"})
  <2>1. KnownBefore(There, sent, 1) = {i \in Ids : i \in LostIds \/ st.functions[i] = "defined"}
    BY <1>7 DEF KnownBefore, There, LostIds
  <2>2. Sound(sent[1], KnownBefore(There, sent, 1))
    BY <1>1 DEF Orderly, QueueSound
  <2>3. QED
    BY <1>1, <2>1, <2>2
<1>9. RunWell(LostIds, st, Head(sent), h[Len(Head(sent))], Len(Head(sent)))
  <2>1. FunctionsWell(LostIds, st.functions) /\ ListenersWell(LostIds, st.functions, st.listeners)
    BY <1>7 DEF AllWell
  <2>2. QED
    BY <1>1, <1>6, <1>7, <1>8, <2>1, RunKeeps
<1>10. after = h[Len(Head(sent))]
  BY <1>3, <1>4, <1>6
<1>11. QED
  BY <1>5, <1>7, <1>9, <1>10

LEMMA HandleWell ==
  ASSUME TInv, Orderly, AllWell, HandleInboundMessage
  PROVE  Orderly' /\ AllWell'
<1> DEFINE msg == Head(sent)
<1>3. /\ TypeOK /\ sent # <<>> /\ sent \in Seq(Seq(FunctionCalls)) /\ sent' = Tail(sent)
      /\ UNCHANGED <<callVars, catchVars, recorded>>
  BY DEF TInv, TypeOK, HandleInboundMessage, historyVars
<1>0. LostIds' = LostIds
  BY <1>3, LostAlone DEF LostIds
<1>1. PICK st, after : /\ RunWell(LostIds, st, msg, after, Len(msg)) /\ st.functions = functions
                       /\ functions' = after.functions /\ listeners' = after.listeners
  BY HeadRuns
<1>2. AllWell' /\ Keeps(functions, functions')
  BY <1>0, <1>1 DEF RunWell, AllWell
<1>4. PICK l \in Nat : l = Len(sent) - 1
  <2>1. Len(sent) \in Nat /\ Len(sent) # 0
    BY ONLY <1>3
  <2>2. QED
    BY ONLY <2>1
<1>5. /\ DOMAIN sent = 1..(l + 1) /\ DOMAIN sent' = 1..l /\ msg = sent[1]
      /\ Len(sent') = l /\ Len(sent) = l + 1
      /\ \A n \in 1..l : sent'[n] = sent[n + 1]
  BY <1>3, <1>4
<1>6. msg \in Seq(FunctionCalls)
  BY <1>3
<1> HIDE DEF msg
<1>7. ASSUME NEW i \in Defined(msg) PROVE i \in There'
  <2>1. PICK j \in DOMAIN msg : Defines(msg[j], i)
    BY <1>7 DEF Defined
  <2>2. CASE i \in LostIds
    BY <1>0, <2>2 DEF LostIds, There
  <2>3. CASE i \notin LostIds /\ after.ok
    BY <1>1, <1>6, <1>7, <2>1, <2>3 DEF RunWell, Defined, There
  <2>4. CASE i \notin LostIds /\ ~after.ok
    <3>1. PICK k \in DOMAIN msg : ~Parses(msg[k].js)
      BY <1>1, <2>4 DEF RunWell
    <3>2. msg[k].js \in Codes
      <4>1. msg[k] \in FunctionCalls
        BY ONLY <1>6, k \in DOMAIN msg
      <4>2. QED
        BY ONLY <4>1 DEF FunctionCalls
    <3>3. msg[k].js.kind \in {"listener", "cache"}
      BY <3>1, <3>2, CodeKinds DEF Parses
    <3>4. Len(msg) = 1
      BY <1>5, <3>3 DEF Orderly, QueueSound, Harmless
    <3>5. j = k
      BY <1>6, <3>4
    <3>6. msg[k].js.kind = "cache" /\ msg[k].js.jsId = i
      BY <2>1, <3>3, <3>5 DEF Defines
    <3>7. msg[k].js \in recorded
      BY <1>5, <3>6 DEF Orderly, QueueRecorded
    <3>8. Lost(i)
      BY <3>1, <3>6, <3>7 DEF Lost
    <3>9. QED
      BY <1>7, <2>4, <3>8 DEF LostIds, Defined
  <2>5. QED
    BY <2>2, <2>3, <2>4
<1>17. There \subseteq There'
  BY <1>2, <1>3, LostAlone DEF There, Keeps
<1>8. ASSUME NEW m \in 1..(l + 1)
      PROVE  KnownBefore(There, sent, m + 1) \subseteq KnownBefore(There', sent', m)
  <2>1. ASSUME NEW i \in Ids, NEW n \in 1..((m + 1) - 1), NEW j \in DOMAIN sent[n],
               Defines(sent[n][j], i)
        PROVE  i \in KnownBefore(There', sent', m)
    <3>1. CASE n = 1
      <4>1. i \in Defined(msg)
        BY <1>5, <2>1, <3>1 DEF Defined
      <4>2. QED
        BY <1>7, <4>1 DEF KnownBefore
    <3>2. CASE n # 1
      <4>1. n - 1 \in 1..(m - 1) /\ n - 1 \in 1..l /\ (n - 1) + 1 = n
        BY <1>4, <3>2
      <4>2. sent'[n - 1] = sent[n]
        BY <1>5, <4>1
      <4>3. QED
        BY <2>1, <4>1, <4>2 DEF KnownBefore
    <3>3. QED
      BY <3>1, <3>2
  <2>2. There \subseteq KnownBefore(There', sent', m)
    BY <1>17 DEF KnownBefore
  <2>3. QED
    BY <2>1, <2>2 DEF KnownBefore
<1>9. QueueSound(There, sent)' /\ QueueRecorded'
  <2>1. ASSUME NEW m \in DOMAIN sent'
        PROVE  /\ Sound(sent'[m], KnownBefore(There', sent', m))
               /\ Len(sent'[m]) = 1 \/ Harmless(sent'[m])
               /\ \A j \in DOMAIN sent'[m] :
                    sent'[m][j].js.kind = "cache" => sent'[m][j].js \in recorded'
    <3>1. m \in 1..(l + 1) /\ m + 1 \in DOMAIN sent /\ sent'[m] = sent[m + 1]
      BY <1>4, <1>5
    <3>2. /\ Sound(sent[m + 1], KnownBefore(There, sent, m + 1))
          /\ Len(sent[m + 1]) = 1 \/ Harmless(sent[m + 1])
      BY <3>1 DEF Orderly, QueueSound
    <3>3. \A j \in DOMAIN sent[m + 1] :
            sent[m + 1][j].js.kind = "cache" => sent[m + 1][j].js \in recorded
      BY <3>1 DEF Orderly, QueueRecorded
    <3>4. KnownBefore(There, sent, m + 1) \subseteq KnownBefore(There', sent', m)
      BY <1>8, <3>1
    <3>5. Sound(sent[m + 1], KnownBefore(There', sent', m))
      BY <3>2, <3>4, SoundMore
    <3>6. QED
      BY <1>3, <3>1, <3>2, <3>3, <3>5
  <2>2. QED
    BY <2>1 DEF QueueSound, QueueRecorded
<1>10. Known \subseteq Known'
  <2>1. l + 1 \in 1..(l + 1)
    BY <1>4
  <2>2. KnownBefore(There, sent, (l + 1) + 1) \subseteq KnownBefore(There', sent', l + 1)
    BY <1>8, <2>1
  <2>3. QED
    BY <1>5, <2>2 DEF Known, KnownAfter
<1>11. QED
  BY <1>2, <1>3, <1>9, <1>10, KnownMore

LEMMA FunctionsStep ==
  ASSUME ~Concurrent, TInv, TInv', Turns, BrowserOK, FInv, [Next]_vars
  PROVE  FInv'
<1>1. Orderly /\ AllWell
  BY FunctionsMean DEF FInv, TInv
<1>2. SUFFICES Orderly' /\ AllWell'
  <2>1. AllWell' => FunctionsAreThere'
    BY DEF FunctionsAreThere, AllWell, LostIds, FunctionsWell, ListenersWell
  <2>2. QED
    BY <2>1 DEF FInv
<1>3. ASSUME NEW t \in Threads, Acts(t)
      PROVE  Orderly' /\ AllWell'
  <2>1. Orderly'
    BY <1>1, <1>3, ActsOrderly
  <2>2. functions' = functions /\ listeners' = listeners
    BY <1>3, ActsElsewhere DEF browserVars
  <2>3. LostIds \subseteq LostIds'
    BY <1>3, LostStays DEF LostIds
  <2>4. QED
    BY <1>1, <2>1, <2>2, <2>3 DEF AllWell, FunctionsWell, ListenersWell
<1>4. CASE ServePage
  BY <1>1, <1>4, ServeOrderly, ServeWell
<1>5. CASE HandleInboundMessage
  BY <1>1, <1>5, HandleWell
<1>6. ASSUME UNCHANGED <<callVars, catchVars, sent, functions, listeners, recorded>>
      PROVE  Orderly' /\ AllWell'
  <2>1. There' = There /\ LostIds' = LostIds
    BY <1>6, LostAlone DEF There, LostIds
  <2>2. QueueSound(There, sent)' /\ QueueRecorded' /\ Known \subseteq Known'
    BY <1>1, <1>6, <2>1, QueueKept
  <2>3. QED
    BY <1>1, <1>6, <2>1, <2>2, KnownMore DEF AllWell
<1>7. ASSUME NEW cb \in Ids, HandleCallback(cb)
      PROVE  Orderly' /\ AllWell'
  BY <1>6, <1>7 DEF HandleCallback, historyVars
<1>8. CASE UNCHANGED vars
  BY <1>6, <1>8 DEF vars, browserVars, historyVars
<1>9. QED
  BY <1>3, <1>4, <1>5, <1>7, <1>8, WhoActs DEF BrowserActs

LEMMA EmptyOrderly ==
  ASSUME Init
  PROVE  TInv /\ Turns /\ BrowserOK /\ FInv
<1>1. TInv
  BY TypeInit
<1>2. Turns
  BY DEF Init, Turns
<1>3. BrowserOK
  BY DEF Init, BrowserOK
<1>4. Orderly
  BY DEF Init, Orderly, QueueSound, QueueRecorded, BodiesOK, CaughtOK
<1>5. FunctionsAreThere
  BY DEF Init, FunctionsAreThere
<1>6. QED
  BY <1>1, <1>2, <1>3, <1>4, <1>5 DEF FInv

\* If the threads that use the WebBrowser take turns, each call finds its function in
\* the browser, however calls, batches and event handlers are nested, whichever
\* blocks and functions throw and whenever the page is served: no call without js
\* gets there before the body, and no listener before the functions it calls.  The
\* two ways to lose a text are the only exception, for the functions they concern.
THEOREM CallsFindFunctions ==
  ASSUME ~Concurrent
  PROVE  Spec => []FunctionsAreThere
<1>1. Init => TInv /\ Turns /\ BrowserOK /\ FInv
  BY EmptyOrderly
<1>2. TInv /\ Turns /\ BrowserOK /\ FInv /\ [Next]_vars => TInv' /\ Turns' /\ BrowserOK' /\ FInv'
  BY TypeStep, TurnsStep, BrowserStep, FunctionsStep
<1>3. FInv => FunctionsAreThere
  BY DEF FInv
<1>4. QED
  BY <1>1, <1>2, <1>3, PTL DEF Spec

-----------------------------------------------------------------------------
(***************************************************************************)
(* The script of the page.                                                 *)
(***************************************************************************)
\* All calls of the first messages, as FlattenSeq has them.
Flattens(f, queue, n) ==
  f = [k \in 1..n |-> IF k = 1 THEN queue[k] ELSE f[k - 1] \o queue[k]]

LEMMA FlattenExists ==
  ASSUME NEW queue \in Seq(Seq(FunctionCalls))
  PROVE  \A n \in Nat : \E f : Flattens(f, queue, n)
<1> DEFINE S == {n \in Nat : \E f : Flattens(f, queue, n)}
<1>1. 0 \in S
  <2> DEFINE f == [k \in {} |-> queue[k]]
             g == [k \in {} |-> IF k = 1 THEN queue[k] ELSE f[k - 1] \o queue[k]]
  <2>1. 1..0 = {} /\ f = g
    OBVIOUS
  <2>2. Flattens(f, queue, 0)
    BY <2>1 DEF Flattens
  <2>3. QED
    BY <2>2
<1>2. ASSUME NEW n \in Nat, n \in S PROVE n + 1 \in S
  <2>1. PICK f : Flattens(f, queue, n)
    BY <1>2
  <2> DEFINE g == [k \in 1..(n + 1) |-> IF k = n + 1
                     THEN IF k = 1 THEN queue[k] ELSE f[k - 1] \o queue[k]
                     ELSE f[k]]
             h == [k \in 1..(n + 1) |-> IF k = 1 THEN queue[k] ELSE g[k - 1] \o queue[k]]
  <2>2. \A k \in 1..n : f[k] = IF k = 1 THEN queue[k] ELSE f[k - 1] \o queue[k]
    BY <2>1 DEF Flattens
  <2>3. ASSUME NEW k \in 1..(n + 1) PROVE g[k] = h[k]
    <3>1. CASE k = 1
      <4>1. n + 1 # 1 => 1 \in 1..n
        OBVIOUS
      <4>2. QED
        BY <2>2, <3>1, <4>1
    <3>2. CASE k # 1
      <4>1. k - 1 \in 1..(n + 1) /\ k - 1 # n + 1 /\ (k # n + 1 => k \in 1..n)
        BY <3>2
      <4>2. g[k - 1] = f[k - 1]
        BY <4>1
      <4>3. g[k] = f[k - 1] \o queue[k]
        BY <2>2, <3>2, <4>1
      <4>4. QED
        BY <3>2, <4>2, <4>3
    <3>3. QED
      BY <3>1, <3>2
  <2>4. g = h
    BY <2>3
  <2>5. Flattens(g, queue, n + 1)
    BY <2>4 DEF Flattens
  <2>6. QED
    BY <2>5
<1> HIDE DEF S
<1>3. \A n \in Nat : n \in S
  BY <1>1, <1>2, StepByStep
<1>4. QED
  BY <1>3 DEF S

LEMMA FlattenIs ==
  ASSUME NEW queue \in Seq(Seq(FunctionCalls)), Len(queue) # 0,
         NEW g, Flattens(g, queue, Len(queue))
  PROVE  \E f : Flattens(f, queue, Len(queue)) /\ FlattenSeq(queue) = f[Len(queue)]
  BY Zenon DEF FlattenSeq, Flattens

\* A sequence of calls each of which finds its function in one before.
LEMMA SoundConcat ==
  ASSUME NEW p \in Seq(FunctionCalls), NEW q \in Seq(FunctionCalls),
         NEW K, Sound(p, {}), Sound(q, K), K \subseteq Defined(p)
  PROVE  Sound(p \o q, {}) /\ Defined(p \o q) = Defined(p) \cup Defined(q)
<1> DEFINE r == p \o q
           l == Len(p)
<1>1. /\ l \in Nat /\ Len(q) \in Nat /\ DOMAIN p = 1..l /\ DOMAIN q = 1..Len(q)
      /\ DOMAIN r = 1..(l + Len(q))
      /\ \A k \in 1..l : r[k] = p[k]
      /\ \A k \in 1..Len(q) : r[l + k] = q[k]
  OBVIOUS
<1> HIDE DEF r, l
<1>2. ASSUME NEW j \in DOMAIN r, NEW i \in Ids, Needs(r[j], i)
      PROVE  \E k \in 1..(j - 1) : Defines(r[k], i)
  <2>1. CASE j \in 1..l
    <3>1. PICK k \in 1..(j - 1) : Defines(p[k], i)
      BY <1>1, <1>2, <2>1 DEF Sound
    <3>2. k \in 1..l
      BY <1>1, <2>1
    <3>3. QED
      BY <1>1, <3>1, <3>2
  <2>2. CASE j \notin 1..l
    <3>1. PICK m \in 1..Len(q) : j = l + m
      <4>1. j - l \in 1..Len(q) /\ j = l + (j - l)
        BY <1>1, <2>2
      <4>2. QED
        BY <4>1
    <3>2. i \in K \/ \E k \in 1..(m - 1) : Defines(q[k], i)
      BY <1>1, <1>2, <3>1 DEF Sound
    <3>3. CASE i \in K
      <4>1. PICK k \in 1..l : Defines(p[k], i)
        BY <1>1, <3>3 DEF Defined
      <4>2. k \in 1..(j - 1)
        BY <1>1, <3>1
      <4>3. QED
        BY <1>1, <4>1, <4>2
    <3>4. ASSUME NEW k \in 1..(m - 1), Defines(q[k], i)
          PROVE  \E n \in 1..(j - 1) : Defines(r[n], i)
      <4>1. k \in 1..Len(q) /\ l + k \in 1..(j - 1)
        BY <1>1, <3>1
      <4>2. QED
        BY <1>1, <3>4, <4>1
    <3>5. QED
      BY <3>2, <3>3, <3>4
  <2>3. QED
    BY <2>1, <2>2
<1>3. ASSUME NEW i \in Ids
      PROVE  (\E j \in DOMAIN r : Defines(r[j], i))
               <=> (\E j \in DOMAIN p : Defines(p[j], i)) \/ \E j \in DOMAIN q : Defines(q[j], i)
  <2>1. ASSUME NEW j \in DOMAIN r, Defines(r[j], i)
        PROVE  (\E k \in DOMAIN p : Defines(p[k], i)) \/ \E k \in DOMAIN q : Defines(q[k], i)
    <3>1. CASE j \in 1..l
      BY <1>1, <2>1, <3>1
    <3>2. CASE j \notin 1..l
      <4>1. j - l \in 1..Len(q) /\ j = l + (j - l)
        BY <1>1, <3>2
      <4>2. r[j] = q[j - l]
        BY <1>1, <4>1
      <4>3. QED
        BY <1>1, <2>1, <4>1, <4>2
    <3>3. QED
      BY <3>1, <3>2
  <2>2. ASSUME NEW j \in DOMAIN p, Defines(p[j], i) PROVE \E k \in DOMAIN r : Defines(r[k], i)
    <3>1. j \in DOMAIN r /\ r[j] = p[j]
      BY <1>1
    <3>2. QED
      BY <2>2, <3>1
  <2>3. ASSUME NEW j \in DOMAIN q, Defines(q[j], i) PROVE \E k \in DOMAIN r : Defines(r[k], i)
    <3>1. l + j \in DOMAIN r /\ r[l + j] = q[j]
      BY <1>1
    <3>2. QED
      BY <2>3, <3>1
  <2>4. QED
    BY <2>1, <2>2, <2>3
<1>4. QED
  BY <1>2, <1>3 DEF Sound, Defined, r

\* A call that respondKweb can write into the page.
Plain(fc) == Short(fc) /\ Bare(fc) /\ (fc.js.kind = "cache" => fc.js \in recorded)
AllPlain(msg) == \A j \in DOMAIN msg : Plain(msg[j])

LEMMA FlatSound ==
  ASSUME NEW queue \in Seq(Seq(FunctionCalls)), NEW there, there = {},
         QueueSound(there, queue), \A m \in DOMAIN queue : AllPlain(queue[m])
  PROVE  /\ FlattenSeq(queue) \in Seq(FunctionCalls)
         /\ Sound(FlattenSeq(queue), {}) /\ AllPlain(FlattenSeq(queue))
<1> DEFINE l == Len(queue)
<1>1. CASE l = 0
  <2>1. FlattenSeq(queue) = <<>>
    BY <1>1 DEF FlattenSeq
  <2>2. QED
    BY <2>1 DEF Sound, AllPlain
<1>2. CASE l # 0
  <2>1. l \in Nat /\ DOMAIN queue = 1..l /\ \A m \in 1..l : queue[m] \in Seq(FunctionCalls)
    OBVIOUS
  <2>2. PICK g : Flattens(g, queue, l)
    BY <2>1, FlattenExists
  <2>3. PICK f : Flattens(f, queue, l) /\ FlattenSeq(queue) = f[l]
    BY <1>2, <2>2, FlattenIs
  <2>4. \A k \in 1..l : f[k] = IF k = 1 THEN queue[k] ELSE f[k - 1] \o queue[k]
    BY <2>3 DEF Flattens
  <2> HIDE DEF l
  <2>5. \A m \in 1..l :
          /\ Sound(queue[m], KnownBefore(there, queue, m)) /\ AllPlain(queue[m])
          /\ \A i \in KnownBefore(there, queue, m) : \E n \in 1..(m - 1) : i \in Defined(queue[n])
    <3>1. \A m \in 1..l : Sound(queue[m], KnownBefore(there, queue, m)) /\ AllPlain(queue[m])
      BY <2>1 DEF QueueSound
    <3>2. ASSUME NEW m \in 1..l, NEW i \in KnownBefore(there, queue, m)
          PROVE  \E n \in 1..(m - 1) : i \in Defined(queue[n])
      BY <3>2 DEF KnownBefore, Defined
    <3>3. QED
      BY <3>1, <3>2
  <2> DEFINE Good(n) == /\ f[n] \in Seq(FunctionCalls) /\ Sound(f[n], {}) /\ AllPlain(f[n])
                        /\ \A m \in 1..n : Defined(queue[m]) \subseteq Defined(f[n])
             S == {n \in Nat : n + 1 <= l => Good(n + 1)}
  <2>6. 0 \in S
    <3>1. 1 \in 1..l /\ f[1] = queue[1]
      BY <1>2, <2>1, <2>4
    <3>2. KnownBefore(there, queue, 1) = {}
      <4>1. 1..(1 - 1) = {}
        OBVIOUS
      <4>2. QED
        BY ONLY <2>5, <3>1, <4>1
    <3>3. /\ f[1] \in Seq(FunctionCalls) /\ Sound(f[1], {}) /\ AllPlain(f[1])
          /\ \A m \in 1..1 : Defined(queue[m]) \subseteq Defined(f[1])
      <4>1. Sound(queue[1], {}) /\ AllPlain(queue[1])
        BY <2>5, <3>1, <3>2
      <4>2. \A m \in 1..1 : m = 1
        OBVIOUS
      <4>3. QED
        BY ONLY <2>1, <3>1, <4>1, <4>2
    <3>4. QED
      BY <3>3
  <2>7. ASSUME NEW n \in Nat, n \in S PROVE n + 1 \in S
    <3>1. SUFFICES ASSUME (n + 1) + 1 <= l PROVE Good((n + 1) + 1)
      OBVIOUS
    <3>2. PICK k \in Nat : k = n + 1
      OBVIOUS
    <3>3. /\ k \in 1..l /\ k + 1 \in 1..l /\ (k + 1) - 1 = k /\ k + 1 # 1
          /\ 1..(k + 1) = (1..k) \cup {k + 1}
      BY <2>1, <3>1, <3>2
    <3>4. Good(k)
      BY <2>7, <3>2, <3>3
    <3>5. f[k + 1] = f[k] \o queue[k + 1]
      BY <2>4, <3>3
    <3>6. queue[k + 1] \in Seq(FunctionCalls) /\ AllPlain(queue[k + 1])
          /\ Sound(queue[k + 1], KnownBefore(there, queue, k + 1))
      BY <2>1, <2>5, <3>3
    <3>7. KnownBefore(there, queue, k + 1) \subseteq Defined(f[k])
      BY <2>5, <3>3, <3>4
    <3>8. /\ Sound(f[k + 1], {})
          /\ Defined(f[k + 1]) = Defined(f[k]) \cup Defined(queue[k + 1])
      BY <3>4, <3>5, <3>6, <3>7, SoundConcat
    <3>9. f[k + 1] \in Seq(FunctionCalls)
      BY <3>4, <3>5, <3>6
    <3>10. AllPlain(f[k + 1])
      <4>1. PICK p \in Seq(FunctionCalls), q \in Seq(FunctionCalls) : p = f[k] /\ q = queue[k + 1]
        BY <3>4, <3>6
      <4>2. AllPlain(p) /\ AllPlain(q)
        BY <3>4, <3>6, <4>1
      <4>3. AllPlain(p \o q)
        BY <4>2 DEF AllPlain
      <4>4. QED
        BY <3>5, <4>1, <4>3
    <3>11. \A m \in 1..(k + 1) : Defined(queue[m]) \subseteq Defined(f[k + 1])
      BY <3>3, <3>4, <3>8
    <3>12. QED
      BY <3>2, <3>8, <3>9, <3>10, <3>11
  <2>8. \A n \in Nat : n \in S
    <3> HIDE DEF S
    <3>1. QED
      BY <2>6, <2>7, StepByStep
  <2>9. l - 1 \in Nat /\ (l - 1) + 1 = l /\ (l - 1) + 1 <= l
    BY <1>2, <2>1
  <2>10. Good((l - 1) + 1)
    BY <2>8, <2>9
  <2>11. QED
    BY <2>3, <2>9, <2>10
<1>3. QED
  BY <1>1, <1>2

\* Each function of the page is written with the first call that has its id.
LEMMA PageParses ==
  ASSUME TInv, BrowserOK, Orderly, Smooth, SentOK, page = "building"
  PROVE  \A fc \in InPage(sent) : Parses(fc.js) /\ fc.js # NoJs
<1> DEFINE all == FlattenSeq(sent)
<1>1. /\ sent \in Seq(Seq(FunctionCalls)) /\ QueueSound(There, sent)
      /\ \A m \in DOMAIN sent : AllPlain(sent[m])
  BY DEF TInv, TypeOK, Orderly, QueueRecorded, SentOK, AllPlain, Plain
<1>2. There = {}
  BY DEF BrowserOK, Smooth, There
<1>3. all \in Seq(FunctionCalls) /\ Sound(all, {}) /\ AllPlain(all)
  BY <1>1, <1>2, FlatSound
<1> HIDE DEF all
<1>4. ASSUME NEW j \in DOMAIN all, all[j].jsId # 0,
             \A k \in 1..(j - 1) : all[k].jsId # all[j].jsId
      PROVE  Parses(all[j].js) /\ all[j].js # NoJs
  <2>1. PICK fc \in FunctionCalls : fc = all[j]
    BY <1>3
  <2>2. Plain(fc)
    BY <1>3, <2>1 DEF AllPlain
  <2>3. Parses(fc.js)
    <3>1. fc.js.kind = "cache" => fc.js \in recorded /\ fc.js.jsId \in Ids
      BY <2>1, <2>2, CodeKinds DEF Plain, FunctionCalls
    <3>2. QED
      BY <2>2, <3>1 DEF Plain, Short, Parses, Smooth, Lost
  <2>4. fc.js # NoJs
    <3>1. SUFFICES ASSUME fc.js = NoJs PROVE FALSE
      OBVIOUS
    <3>2. fc.jsId \in Ids /\ Needs(fc, fc.jsId) /\ fc.js.kind = "null"
      BY <1>4, <2>1, <3>1 DEF FunctionCalls, Needs, NoJs
    <3>3. PICK k \in 1..(j - 1) : Defines(all[k], fc.jsId)
      BY <1>3, <2>1, <3>2 DEF Sound
    <3>4. k \in DOMAIN all
      BY <1>3
    <3>5. all[k].js.kind = "cache" => all[k].js \in recorded
      BY <1>3, <3>4 DEF AllPlain, Plain
    <3>6. QED
      BY <1>4, <2>1, <2>2, <3>2, <3>3, <3>5 DEF Defines, Plain, Bare
  <2>5. QED
    BY <2>1, <2>3, <2>4
<1>5. QED
  BY <1>4 DEF InPage, all

\* A message all of which parses is executed to its end.
LEMMA RunParses ==
  ASSUME NEW st \in BrowserStates, NEW msg \in Seq(FunctionCalls), NEW h, Runs(h, st, msg),
         st.ok, \A j \in DOMAIN msg : Parses(msg[j].js)
  PROVE  h[Len(msg)].ok
<1> DEFINE S == {n \in Nat : n <= Len(msg) => h[n].ok}
<1>1. 0 \in S
  BY DEF Runs
<1>2. ASSUME NEW n \in Nat, n \in S PROVE n + 1 \in S
  <2>1. SUFFICES ASSUME n + 1 <= Len(msg) PROVE h[n + 1].ok
    OBVIOUS
  <2>2. n \in 0..(Len(msg) - 1) /\ n <= Len(msg) /\ n + 1 \in DOMAIN msg
    BY <2>1
  <2>3. h[n].ok /\ Parses(msg[n + 1].js) /\ h[n + 1] = Execute(h[n], msg[n + 1])
    BY <1>2, <2>2 DEF Runs
  <2>4. QED
    BY <2>3 DEF Execute
<1> HIDE DEF S
<1>3. \A n \in Nat : n \in S
  BY <1>1, <1>2, StepByStep
<1>4. Len(msg) \in Nat /\ Len(msg) <= Len(msg)
  OBVIOUS
<1>5. QED
  BY <1>3, <1>4 DEF S

\* The browser runs what the page inlines to its end.
LEMMA InlinedRuns ==
  ASSUME TInv, BrowserOK, Orderly, Smooth, SentOK, HandleInboundMessage
  PROVE  browser' = "running" /\ SentOK'
<1>1. /\ TypeOK /\ sent # <<>> /\ sent \in Seq(Seq(FunctionCalls)) /\ sent' = Tail(sent)
      /\ inlined' = (IF inlined = 0 THEN 0 ELSE inlined - 1) /\ page' = page
      /\ page # "building"
  BY DEF TInv, TypeOK, HandleInboundMessage, BrowserOK
<1>2. PICK l \in Nat : l = Len(sent) - 1
  <2>1. Len(sent) \in Nat /\ Len(sent) # 0
    BY ONLY <1>1
  <2>2. QED
    BY ONLY <2>1
<1>3. /\ DOMAIN sent = 1..(l + 1) /\ DOMAIN sent' = 1..l /\ Head(sent) = sent[1]
      /\ \A n \in 1..l : sent'[n] = sent[n + 1]
      /\ inlined \in Nat
  BY <1>1, <1>2 DEF TypeOK
<1>4. browser' = "running"
  <2>1. CASE inlined = 0
    BY <2>1 DEF HandleInboundMessage
  <2>2. CASE inlined # 0
    <3>1. PICK st \in BrowserStates :
            /\ st.ok
            /\ browser' = IF FoldLeft(Execute, st, Head(sent)).ok \/ inlined = 0
                          THEN "running" ELSE "dead"
      <4>1. PICK throwing \in SUBSET MayThrow(Head(sent)) :
              browser' = IF FoldLeft(Execute, Before(throwing), Head(sent)).ok \/ inlined = 0
                         THEN "running" ELSE "dead"
        BY DEF HandleInboundMessage
      <4>2. throwing \subseteq {fc \in FunctionCalls : fc.js.kind # "cache"}
        <5>1. ToSet(Head(sent)) \subseteq FunctionCalls
          BY <1>1 DEF ToSet
        <5>2. QED
          BY <5>1 DEF MayThrow
      <4>3. PICK st : st = Before(throwing)
        OBVIOUS
      <4>4. st \in BrowserStates /\ st.ok
        BY <1>1, <4>2, <4>3 DEF TypeOK, Before, BrowserStates
      <4>5. QED
        BY <4>1, <4>3, <4>4
    <3>2. Head(sent) \in Seq(FunctionCalls) /\ 1 \in DOMAIN sent /\ 1 <= inlined
      BY <1>1, <1>2, <1>3, <2>2
    <3>3. ASSUME NEW j \in DOMAIN Head(sent) PROVE Parses(Head(sent)[j].js)
      <4>1. PICK fc \in FunctionCalls : fc = Head(sent)[j]
        BY <3>2
      <4>2. Short(fc)
        BY <1>3, <3>2, <4>1 DEF SentOK
      <4>3. fc.js.kind = "cache" => fc.js \in recorded /\ fc.js.jsId \in Ids
        BY <1>3, <3>2, <4>1, CodeKinds DEF Orderly, QueueRecorded, FunctionCalls
      <4>4. Parses(fc.js)
        BY <4>2, <4>3 DEF Short, Parses, Smooth, Lost
      <4>5. QED
        BY <4>1, <4>4
    <3>4. PICK h : /\ Runs(h, st, Head(sent))
                   /\ FoldLeft(Execute, st, Head(sent)) = h[Len(Head(sent))]
      BY <3>2, MessageRuns
    <3>5. FoldLeft(Execute, st, Head(sent)).ok
      BY <3>1, <3>2, <3>3, <3>4, RunParses
    <3>6. QED
      BY <3>1, <3>5
  <2>3. QED
    BY <2>1, <2>2
<1>5. SentOK'
  <2>1. ASSUME NEW m \in 1..l, NEW j \in DOMAIN sent'[m], m <= inlined'
        PROVE  Short(sent'[m][j])
    <3>1. m + 1 \in DOMAIN sent /\ sent'[m] = sent[m + 1] /\ m + 1 <= inlined
      BY <1>1, <1>2, <1>3, <2>1
    <3>2. QED
      BY <2>1, <3>1 DEF SentOK
  <2>2. QED
    BY <1>1, <1>3, <2>1 DEF SentOK
<1>6. QED
  BY <1>4, <1>5

\* What a thread appends to the queue, while it records nothing.
LEMMA SentMore ==
  ASSUME TypeOK, SentOK, UNCHANGED <<pageVars, recorded, ids>>, NEW msg \in Seq(FunctionCalls),
         sent' = Append(sent, msg),
         page = "building" =>
           \A j \in DOMAIN msg : Short(msg[j]) /\ Bare(msg[j]) /\ msg[j].jsId <= ids
  PROVE  SentOK'
<1>1. /\ sent \in Seq(Seq(FunctionCalls)) /\ inlined <= Len(sent) /\ inlined \in Nat
      /\ Len(sent) \in Nat /\ page' = page /\ inlined' = inlined
  BY DEF TypeOK, pageVars
<1>2. /\ DOMAIN sent' = 1..(Len(sent) + 1) /\ DOMAIN sent = 1..Len(sent)
      /\ (\A m \in 1..Len(sent) : sent'[m] = sent[m]) /\ sent'[Len(sent) + 1] = msg
  BY <1>1
<1>3. ASSUME NEW m \in DOMAIN sent', NEW j \in DOMAIN sent'[m]
      PROVE  /\ page' = "building" => Bare(sent[m][j])' /\ sent'[m][j].jsId <= ids'
             /\ page' = "building" \/ m <= inlined' => Short(sent'[m][j])
  <2>1. CASE m \in 1..Len(sent)
    BY <1>1, <1>2, <1>3, <2>1 DEF SentOK, Bare
  <2>2. CASE m = Len(sent) + 1
    <3>1. ~(m <= inlined) /\ sent'[m] = msg
      BY <1>1, <1>2, <2>2
    <3>2. QED
      BY <1>1, <1>3, <3>1 DEF Bare
  <2>3. QED
    BY <1>1, <1>2, <2>1, <2>2
<1>4. QED
  BY <1>3 DEF SentOK, Bare

LEMMA SendPage ==
  ASSUME TInv, SentOK, page = "building", NEW t \in Threads, PageThreadOK(t), Send(t)
  PROVE  SentOK' /\ PageThreadOK(t)'
<1>1. /\ TypeOK /\ ThreadOK(t) /\ pc[t] = "send" /\ pc' = [pc EXCEPT ![t] = AfterSend(t)]
      /\ UNCHANGED <<ids, calling, block, catcher, pageVars>>
      /\ UNCHANGED <<page, inlined>>
  BY DEF TInv, Send, pageVars
<1>2. pc'[t] # "send" /\ block'[t] = block[t]
  BY <1>1 DEF TypeOK, AfterSend
<1>3. /\ calling[t] \in FunctionCalls /\ calling[t].jsId \in Ids
      /\ Short(calling[t]) /\ calling[t].jsId <= ids
      /\ catcher[t] # "IMMEDIATE_EVENT" => Bare(calling[t])
      /\ \A k \in DOMAIN functionList[t] :
           functionList[t][k].jsId <= ids /\ (block[t] = "batch" => Bare(functionList[t][k]))
  BY <1>1, SendWhat DEF PageThreadOK
<1>4. functionList[t] \in Seq(FunctionCalls) /\ sent \in Seq(Seq(FunctionCalls))
  BY <1>1 DEF TypeOK
<1>5. CASE catcher[t] = "none"
  <2>1. /\ sent' = Append(sent, <<calling[t]>>) /\ functionList' = functionList
        /\ recorded' = recorded
    BY <1>5 DEF Send, RecordsFirst
  <2>2. /\ <<calling[t]>> \in Seq(FunctionCalls)
        /\ \A j \in DOMAIN <<calling[t]>> : <<calling[t]>>[j] = calling[t]
    BY <1>3
  <2>3. SentOK'
    BY <1>1, <1>3, <1>5, <2>1, <2>2, SentMore
  <2>4. QED
    BY <1>1, <1>2, <1>3, <2>1, <2>3 DEF PageThreadOK, Bare
<1>6. CASE catcher[t] = "EVENT"
  <2>1. /\ functionList' = [functionList EXCEPT ![t] = Append(functionList[t], calling[t])]
        /\ sent' = sent \o SentAhead(t) /\ recorded' = recorded /\ SentAhead(t) = <<>>
    BY <1>6 DEF Send, SentAhead, RecordsFirst
  <2>2. sent' = sent /\ functionList'[t] = Append(functionList[t], calling[t])
    BY <1>1, <1>4, <2>1 DEF TypeOK
  <2>3. SentOK'
    BY <1>1, <2>1, <2>2 DEF SentOK, Bare
  <2>4. ASSUME NEW k \in DOMAIN functionList'[t]
        PROVE  functionList'[t][k].jsId <= ids /\ (block[t] = "batch" => Bare(functionList'[t][k]))
    <3>1. CASE k \in DOMAIN functionList[t]
      BY <1>3, <1>4, <2>2, <3>1
    <3>2. CASE k \notin DOMAIN functionList[t]
      <4>1. functionList'[t][k] = calling[t]
        BY <1>4, <2>2, <2>4, <3>2
      <4>2. QED
        BY <1>3, <1>6, <4>1
    <3>3. QED
      BY <3>1, <3>2
  <2>5. QED
    BY <1>1, <1>2, <2>1, <2>3, <2>4 DEF PageThreadOK, Bare
<1>7. CASE catcher[t] = "IMMEDIATE_EVENT"
  <2>1. /\ functionList' = [functionList EXCEPT ![t] = Append(functionList[t], calling[t])]
        /\ sent' = sent \o SentAhead(t) /\ block[t] # "batch"
    BY <1>1, <1>7 DEF Send, ThreadOK
  <2>2. functionList'[t] = Append(functionList[t], calling[t])
    BY <1>1, <1>4, <2>1 DEF TypeOK
  <2>3. ASSUME NEW k \in DOMAIN functionList'[t] PROVE functionList'[t][k].jsId <= ids
    <3>1. CASE k \in DOMAIN functionList[t]
      BY <1>3, <1>4, <2>2, <3>1
    <3>2. CASE k \notin DOMAIN functionList[t]
      BY <1>3, <1>4, <2>2, <2>3, <3>2
    <3>3. QED
      BY <3>1, <3>2
  <2>4. PageThreadOK(t)'
    BY <1>1, <1>2, <2>1, <2>3 DEF PageThreadOK
  <2>5. CASE calling[t].js = NoJs
    <3>1. sent' = sent /\ recorded' = recorded
      BY <1>4, <2>1, <2>5 DEF Send, SentAhead, RecordsFirst
    <3>2. QED
      BY <1>1, <2>4, <3>1 DEF SentOK, Bare
  <2>6. CASE calling[t].js # NoJs
    <3> DEFINE fc == FunctionCall(0, Ahead(t), 0)
    <3>1. /\ calling[t].js.kind = "body" /\ Ahead(t) \in Codes
          /\ Ahead(t) = CacheJs(calling[t].jsId, calling[t].js.body)
      BY <1>7, <2>6, SendWhat DEF Ahead
    <3>2. fc \in FunctionCalls
      BY <3>1 DEF FunctionCall, FunctionCalls
    <3>3. fc.jsId = 0 /\ fc.js.kind = "cache"
      BY <3>1 DEF FunctionCall, CacheJs
    <3>4. SentAhead(t) = <<<<fc>>>> /\ recorded' = recorded \cup {Ahead(t)}
      BY <1>7, <2>6 DEF Send, SentAhead, RecordsFirst
    <3> HIDE DEF fc
    <3>5. /\ DOMAIN sent = 1..Len(sent) /\ DOMAIN sent' = 1..(Len(sent) + 1)
          /\ \A m \in 1..Len(sent) : sent'[m] = sent[m]
          /\ sent'[Len(sent) + 1] = <<fc>>
      BY <1>4, <2>1, <3>2, <3>4
    <3>6. ASSUME NEW m \in DOMAIN sent', NEW j \in DOMAIN sent'[m]
          PROVE  /\ Bare(sent[m][j])' /\ sent'[m][j].jsId <= ids
                 /\ Short(sent'[m][j])
      <4>1. CASE m \in 1..Len(sent)
        <5>1. /\ Bare(sent[m][j]) /\ sent[m][j].jsId <= ids /\ Short(sent[m][j])
              /\ sent[m][j].jsId # calling[t].jsId
          BY <1>1, <3>1, <3>5, <3>6, <4>1 DEF SentOK, PageThreadOK
        <5>2. Ahead(t).jsId = calling[t].jsId
          BY <3>1 DEF CacheJs
        <5>3. QED
          BY <3>4, <3>5, <4>1, <5>1, <5>2 DEF Bare
      <4>2. CASE m \notin 1..Len(sent)
        <5>1. sent'[m][j] = fc
          BY <1>4, <3>2, <3>5, <3>6, <4>2
        <5>2. 0 <= ids
          BY <1>1 DEF TypeOK
        <5>3. QED
          BY <3>3, <5>1, <5>2 DEF Bare, Short
      <4>3. QED
        BY <4>1, <4>2
    <3>7. QED
      BY <1>1, <2>4, <3>6 DEF SentOK
  <2>7. QED
    BY <2>5, <2>6
<1>8. QED
  BY <1>1, <1>5, <1>6, <1>7 DEF TypeOK

\* A thread that sends nothing and records nothing.
LEMMA NothingRecorded ==
  ASSUME TypeOK, TypeOK', SentOK, UNCHANGED <<pageVars, recorded, sent>>, ids' >= ids
  PROVE  SentOK'
<1>1. ASSUME NEW m \in DOMAIN sent, NEW j \in DOMAIN sent[m], page = "building"
      PROVE  sent[m][j].jsId <= ids'
  <2>1. sent[m][j].jsId <= ids /\ sent[m][j].jsId \in Nat /\ ids \in Nat /\ ids' \in Nat
    <3>1. sent[m][j] \in FunctionCalls
      BY DEF TypeOK
    <3>2. QED
      BY <1>1, <3>1 DEF SentOK, FunctionCalls, Ids, TypeOK
  <2>2. QED
    BY <2>1
<1>2. QED
  BY <1>1 DEF SentOK, Bare, pageVars

LEMMA ActsPage ==
  ASSUME TInv, TInv', SentOK, pitfalls' = {}, page = "building",
         NEW t \in Threads, PageThreadOK(t), Acts(t)
  PROVE  SentOK' /\ PageThreadOK(t)' /\ ids' >= ids
<1>1. /\ TypeOK /\ TypeOK' /\ ThreadOK(t) /\ UNCHANGED pageVars /\ page' = page
      /\ ids \in Nat /\ ids' \in Nat
  BY ActsElsewhere DEF TInv, TypeOK, pageVars
<1>2. \A k \in DOMAIN functionList[t] :
        /\ functionList[t][k].jsId <= ids /\ functionList[t][k].jsId \in Nat
        /\ block[t] = "batch" => Bare(functionList[t][k])
  <2>1. \A k \in DOMAIN functionList[t] : functionList[t][k] \in FunctionCalls
    BY <1>1 DEF TypeOK
  <2>2. QED
    BY <2>1 DEF PageThreadOK, FunctionCalls, Ids
<1>3. CASE Define(t)
  <2>1. /\ pc[t] = "define" /\ pc'[t] = "send" /\ calling'[t].js = calling[t].js
        /\ ids' = ids + 1 /\ calling'[t].jsId = ids'
        /\ UNCHANGED <<block, functionList, sent, recorded>>
    BY <1>1, <1>3 DEF Define, TypeOK, FunctionCalls, catchVars, historyVars
  <2>2. calling[t].js.kind = "body"
    BY <1>1, <2>1 DEF ThreadOK
  <2>3. \A m \in DOMAIN sent : \A j \in DOMAIN sent[m] : sent[m][j].jsId # ids'
    <3>1. \A m \in DOMAIN sent : \A j \in DOMAIN sent[m] : sent[m][j] \in FunctionCalls
      BY <1>1 DEF TypeOK
    <3>2. QED
      BY <1>1, <2>1, <3>1 DEF SentOK, FunctionCalls, Ids
  <2>4. SentOK' /\ ids' >= ids
    BY <1>1, <2>1, NothingRecorded
  <2>5. \A k \in DOMAIN functionList'[t] :
          functionList'[t][k].jsId <= ids' /\ (block'[t] = "batch" => Bare(functionList[t][k])')
    BY <1>1, <1>2, <2>1 DEF Bare
  <2>6. QED
    BY <1>1, <2>1, <2>2, <2>3, <2>4, <2>5 DEF PageThreadOK, Short, Bare
<1>4. CASE Send(t)
  <2>1. SentOK' /\ PageThreadOK(t)'
    BY <1>4, SendPage
  <2>2. ids' >= ids
    BY <1>1, <1>4 DEF Send
  <2>3. QED
    BY <2>1, <2>2
<1>5. CASE AddCallback(t)
  <2>1. /\ pc'[t] = "idle" /\ UNCHANGED <<ids, block, functionList, sent, recorded>>
    BY <1>1, <1>5 DEF AddCallback, TypeOK, catchVars, historyVars
  <2>2. SentOK' /\ ids' >= ids
    BY <1>1, <2>1, NothingRecorded
  <2>3. QED
    BY <1>1, <1>2, <2>1, <2>2 DEF PageThreadOK, Bare
<1>6. CASE EndBatch(t)
  <2>1. /\ pc'[t] = "idle" /\ functionList'[t] = <<>> /\ block[t] = "batch"
        /\ sent' = Append(sent, functionList[t]) /\ UNCHANGED <<ids, recorded>>
    BY <1>1, <1>6 DEF EndBatch, EndOfBlock, TypeOK, callVars, historyVars
  <2>2. /\ functionList[t] \in Seq(FunctionCalls)
        /\ \A k \in DOMAIN functionList[t] : functionList[t][k].js.kind \in {"body", "null"}
    BY <1>1 DEF TypeOK, ThreadOK, Catchable
  <2>3. SentOK'
    BY <1>1, <1>2, <2>1, <2>2, SentMore DEF Short
  <2>4. QED
    BY <1>1, <2>1, <2>3 DEF PageThreadOK
<1>7. CASE EndImmediate(t)
  <2> DEFINE is == [i \in DOMAIN functionList[t] |-> functionList[t][i].jsId]
  <2>1. /\ functionList'[t] = <<>> /\ UNCHANGED <<sent, recorded>>
        /\ ids' = ids + 1 /\ calling'[t] = FunctionCall(ids', Listener(is), 0)
        /\ ~(Len(functionList[t]) > 1)
    BY <1>1, <1>7 DEF EndImmediate, EndOfBlock, TypeOK
  <2>2. functionList[t] \in Seq(FunctionCalls)
    BY <1>1 DEF TypeOK
  <2>3. Len(is) = Len(functionList[t])
    BY <2>2
  <2>4. Len(is) <= 1
    BY <2>1, <2>2, <2>3
  <2>5. /\ calling'[t].js.kind = "listener" /\ calling'[t].js.jsIds = is
        /\ calling'[t].jsId = ids'
    BY <2>1 DEF FunctionCall, Listener
  <2>6. SentOK' /\ ids' >= ids
    BY <1>1, <2>1, NothingRecorded
  <2> HIDE DEF is
  <2>7. QED
    BY <1>1, <2>1, <2>4, <2>5, <2>6 DEF PageThreadOK, Short, Bare
<1>8. CASE BlockThrows(t)
  <2>1. /\ pc'[t] = "idle" /\ block'[t] = "none" /\ UNCHANGED <<ids, functionList, sent, recorded>>
    BY <1>1, <1>8 DEF BlockThrows, TypeOK, callVars, historyVars
  <2>2. SentOK' /\ ids' >= ids
    BY <1>1, <2>1, NothingRecorded
  <2>3. QED
    BY <1>1, <1>2, <2>1, <2>2 DEF PageThreadOK
<1>9. ASSUME NEW b \in Bodies, NEW cb \in BOOLEAN, CallJsFunction(t, b, cb)
      PROVE  SentOK' /\ PageThreadOK(t)' /\ ids' >= ids
  <2>1. /\ UNCHANGED <<ids, block, catcher, functionList, sent, recorded>>
        /\ ~CalledTooEarly(t, b)
    BY <1>9 DEF CallJsFunction, catchVars
  <2>2. /\ pc'[t] = "send" => /\ cachedFunctions[b] # 0
                              /\ calling'[t].jsId = cachedFunctions[b]
                              /\ calling'[t].js = NoJs
    BY <1>1, <1>9 DEF CallJsFunction, TypeOK, FunctionCall
  <2>3. cachedFunctions[b] <= ids
    BY <1>1 DEF TypeOK
  <2>4. catcher[t] # "IMMEDIATE_EVENT" => \A js \in recorded : js.jsId # cachedFunctions[b]
    BY <2>1 DEF CalledTooEarly
  <2>5. SentOK' /\ ids' >= ids
    BY <1>1, <2>1, NothingRecorded
  <2>6. pc'[t] = "send" =>
          /\ calling'[t].jsId <= ids' /\ Short(calling'[t])
          /\ catcher'[t] # "IMMEDIATE_EVENT" => Bare(calling[t])'
          /\ calling'[t].js.kind # "body"
    BY <2>1, <2>2, <2>3, <2>4 DEF Short, Bare, NoJs
  <2>7. \A k \in DOMAIN functionList'[t] :
          functionList'[t][k].jsId <= ids' /\ (block'[t] = "batch" => Bare(functionList[t][k])')
    BY <1>2, <2>1 DEF Bare
  <2>8. QED
    BY <2>5, <2>6, <2>7 DEF PageThreadOK, Short, Bare
<1>10. CASE CatchOutbound(t, "batch", "EVENT") \/ CatchOutbound(t, "immediate", "IMMEDIATE_EVENT")
  <2>1. pc'[t] = "idle" /\ functionList'[t] = <<>> /\ UNCHANGED <<ids, sent, recorded>>
    BY <1>1, <1>10 DEF CatchOutbound, MayUse, TypeOK, historyVars
  <2>2. SentOK' /\ ids' >= ids
    BY <1>1, <2>1, NothingRecorded
  <2>3. QED
    BY <2>1, <2>2 DEF PageThreadOK
<1>11. QED
  BY <1>3, <1>4, <1>5, <1>6, <1>7, <1>8, <1>9, <1>10 DEF Acts, Proceed

\* Once the page has been served, what is sent is none of its script.
LEMMA ActsServed ==
  ASSUME TInv, TInv', SentOK, page # "building", NEW t \in Threads, Acts(t)
  PROVE  SentOK'
<1>1. /\ TypeOK /\ sent \in Seq(Seq(FunctionCalls)) /\ sent' \in Seq(Seq(FunctionCalls))
      /\ page' = page /\ inlined' = inlined /\ inlined \in 0..Len(sent)
  BY ActsElsewhere DEF TInv, TypeOK, pageVars
<1>2. \A m \in 1..Len(sent) : m \in DOMAIN sent' /\ sent'[m] = sent[m]
  <2>1. ASSUME NEW msgs \in Seq(Seq(FunctionCalls)), sent' = sent \o msgs
        PROVE  \A m \in 1..Len(sent) : m \in DOMAIN sent' /\ sent'[m] = sent[m]
    BY <1>1, <2>1
  <2>2. ASSUME NEW msg \in Seq(FunctionCalls), sent' = Append(sent, msg)
        PROVE  \A m \in 1..Len(sent) : m \in DOMAIN sent' /\ sent'[m] = sent[m]
    BY <1>1, <2>2
  <2>3. CASE sent' = sent
    BY <1>1, <2>3
  <2>4. CASE Send(t)
    <3>1. <<calling[t]>> \in Seq(FunctionCalls) /\ SentAhead(t) \in Seq(Seq(FunctionCalls))
      BY <2>4, SendWhat
    <3>2. sent' = Append(sent, <<calling[t]>>) \/ sent' = sent \o SentAhead(t)
      BY <2>4 DEF Send
    <3>3. QED
      BY <2>1, <2>2, <3>1, <3>2
  <2>5. CASE EndBatch(t)
    <3>1. sent' = Append(sent, functionList[t]) /\ functionList[t] \in Seq(FunctionCalls)
      BY <1>1, <2>5 DEF EndBatch, TypeOK
    <3>2. QED
      BY <2>2, <3>1
  <2>6. Send(t) \/ EndBatch(t) \/ sent' = sent
    BY DEF Acts, Proceed, Define, AddCallback, EndImmediate, BlockThrows, CallJsFunction,
           CatchOutbound
  <2>7. QED
    BY <2>3, <2>4, <2>5, <2>6
<1>3. ASSUME NEW m \in DOMAIN sent', NEW j \in DOMAIN sent'[m], m <= inlined'
      PROVE  Short(sent'[m][j])
  <2>1. m \in 1..Len(sent)
    <3>1. m \in Nat /\ 1 <= m
      BY <1>1, <1>3
    <3>2. QED
      BY <1>1, <1>3, <3>1
  <2>2. QED
    BY <1>1, <1>2, <1>3, <2>1 DEF SentOK
<1>4. QED
  BY <1>1, <1>3 DEF SentOK

\* A thread that rests has caught nothing, or what it has caught is not sent.
LEMMA PageThreadAlone ==
  ASSUME TypeOK, TypeOK', NEW t \in Threads, PageThreadOK(t), page' = page, ids' >= ids,
         pc'[t] = "idle", block'[t] = "none", functionList'[t] = functionList[t]
  PROVE  PageThreadOK(t)'
<1>1. ids \in Nat /\ ids' \in Nat /\ \A k \in DOMAIN functionList[t] : functionList[t][k].jsId \in Nat
  <2>1. \A k \in DOMAIN functionList[t] : functionList[t][k] \in FunctionCalls
    BY DEF TypeOK
  <2>2. QED
    BY <2>1 DEF TypeOK, FunctionCalls, Ids
<1>2. QED
  BY <1>1 DEF PageThreadOK

LEMMA PageStep ==
  ASSUME ~Concurrent, TInv, TInv', Turns, BrowserOK, Orderly, PInv, [Next]_vars
  PROVE  PInv'
<1>1. SUFFICES ASSUME Smooth'
               PROVE  browser' # "dead" /\ SentOK' /\ \A t \in Threads : PageThreadOK(t)'
  BY DEF PInv
<1>2. ASSUME NEW t \in Threads, Acts(t)
      PROVE  browser' # "dead" /\ SentOK' /\ \A u \in Threads : PageThreadOK(u)'
  <2>1. Smooth /\ pitfalls' = {}
    BY <1>1, <1>2, LostStays, HistoryGrows DEF Smooth
  <2>2. browser # "dead" /\ SentOK /\ \A u \in Threads : PageThreadOK(u)
    BY <2>1 DEF PInv
  <2>3. browser' = browser /\ page' = page
    BY <1>2, ActsElsewhere DEF browserVars, pageVars
  <2>4. CASE page = "building"
    <3>1. SentOK' /\ PageThreadOK(t)' /\ ids' >= ids
      BY <1>2, <2>1, <2>2, <2>4, ActsPage
    <3>2. \A u \in Threads \ {t} :
            pc'[u] = "idle" /\ block'[u] = "none" /\ functionList'[u] = functionList[u]
      BY <1>2, ActsInTurn, ActsAlone DEF OthersRest
    <3>3. \A u \in Threads \ {t} : PageThreadOK(u)'
      BY <2>2, <2>3, <3>1, <3>2, PageThreadAlone DEF TInv
    <3>4. QED
      BY <2>2, <2>3, <3>1, <3>3
  <2>5. CASE page # "building"
    <3>1. SentOK'
      BY <1>2, <2>2, <2>5, ActsServed
    <3>2. QED
      BY <2>2, <2>3, <2>5, <3>1 DEF PageThreadOK
  <2>6. QED
    BY <2>4, <2>5
<1>3. ASSUME BrowserActs \/ UNCHANGED vars, UNCHANGED historyVars
      PROVE  /\ Smooth /\ browser # "dead" /\ SentOK
             /\ page' # "building" => \A t \in Threads : PageThreadOK(t)'
             /\ page' = page /\ sent' = sent => \A t \in Threads : PageThreadOK(t)'
  <2>1. UNCHANGED <<callVars, catchVars>> /\ recorded' = recorded /\ pitfalls' = pitfalls
    BY <1>3, BrowserAlone DEF historyVars
  <2>2. Smooth
    BY <1>1, <2>1, LostAlone DEF Smooth
  <2>3. browser # "dead" /\ SentOK /\ \A t \in Threads : PageThreadOK(t)
    BY <2>2 DEF PInv
  <2>4. ASSUME page' = page, sent' = sent, NEW t \in Threads PROVE PageThreadOK(t)'
    BY <2>1, <2>3, <2>4 DEF PageThreadOK, Bare, callVars, catchVars
  <2>5. QED
    BY <2>2, <2>3, <2>4 DEF PageThreadOK
<1>4. CASE ServePage
  <2>1. /\ page = "building" /\ page' = "served" /\ inlined' = Len(sent) /\ sent' = sent
        /\ UNCHANGED historyVars
    BY <1>4 DEF ServePage
  <2>2. Smooth /\ SentOK
    BY <1>3, <1>4, <2>1 DEF BrowserActs
  <2>3. \A fc \in InPage(sent) : Parses(fc.js) /\ fc.js # NoJs
    BY <2>1, <2>2, PageParses
  <2>4. browser' = "running"
    BY <1>4, <2>3 DEF ServePage
  <2>5. SentOK'
    BY <2>1, <2>2 DEF SentOK
  <2>6. QED
    BY <1>3, <1>4, <2>1, <2>4, <2>5 DEF BrowserActs
<1>5. CASE HandleInboundMessage
  <2>1. page' = page /\ page # "building" /\ UNCHANGED historyVars
    BY <1>5 DEF HandleInboundMessage, BrowserOK
  <2>2. browser' = "running" /\ SentOK'
    BY <1>3, <1>5, <2>1, InlinedRuns DEF BrowserActs
  <2>3. QED
    BY <1>3, <1>5, <2>1, <2>2 DEF BrowserActs
<1>6. ASSUME NEW cb \in Ids, HandleCallback(cb)
      PROVE  browser' # "dead" /\ SentOK' /\ \A u \in Threads : PageThreadOK(u)'
  <2>1. /\ browser' = browser /\ page' = page /\ page # "building"
        /\ inlined' = inlined /\ sent' = sent /\ UNCHANGED historyVars
    BY <1>6 DEF HandleCallback, BrowserOK, pageVars
  <2>2. SentOK /\ browser # "dead" /\ \A u \in Threads : PageThreadOK(u)'
    BY <1>3, <1>6, <2>1 DEF BrowserActs
  <2>3. SentOK'
    BY <2>1, <2>2 DEF SentOK
  <2>4. QED
    BY <2>1, <2>2, <2>3
<1>7. CASE UNCHANGED vars
  <2>1. /\ browser' = browser /\ page' = page /\ inlined' = inlined /\ sent' = sent
        /\ ids' = ids /\ recorded' = recorded /\ UNCHANGED historyVars
    BY <1>7 DEF vars, browserVars, pageVars, historyVars, callVars
  <2>2. SentOK /\ browser # "dead" /\ \A u \in Threads : PageThreadOK(u)'
    BY <1>3, <1>7, <2>1
  <2>3. SentOK'
    BY <2>1, <2>2 DEF SentOK, Bare
  <2>4. QED
    BY <2>1, <2>2, <2>3
<1>8. QED
  BY <1>2, <1>4, <1>5, <1>6, <1>7, WhoActs DEF BrowserActs

\* If the threads take turns, the script of the page runs to its end, unless a text
\* is lost or the page steps into one of its two pitfalls: the first call in the page
\* with an id has the body of its function, so that no function of the page is
\* function(null) { null }, and a handler that records one call parses.
THEOREM PageRuns ==
  ASSUME ~Concurrent
  PROVE  Spec => []PageComesAlive
<1>1. Init => TInv /\ Turns /\ BrowserOK /\ FInv /\ PInv
  <2>1. Init => TInv /\ Turns /\ BrowserOK /\ FInv
    BY EmptyOrderly
  <2>2. Init => PInv
    BY DEF Init, PInv, SentOK, PageThreadOK
  <2>3. QED
    BY <2>1, <2>2
<1>2. TInv /\ Turns /\ BrowserOK /\ FInv /\ PInv /\ [Next]_vars
        => TInv' /\ Turns' /\ BrowserOK' /\ FInv' /\ PInv'
  BY TypeStep, TurnsStep, BrowserStep, FunctionsStep, PageStep DEF FInv
<1>3. PInv => PageComesAlive
  BY DEF PInv, PageComesAlive, Smooth
<1>4. QED
  BY <1>1, <1>2, <1>3, PTL DEF Spec
=============================================================================
