----------------------------- MODULE RenderLoop -----------------------------
(***************************************************************************)
(* One call of render(value, block): the fragment of the DOM between two   *)
(* marker spans that is drawn from a KVar, and drawn again by whichever    *)
(* thread changes the KVar.                                                *)
(*                                                                         *)
(* Changing the KVar, and the render loop that a change may start, are     *)
(* calls: they run on the stack of the thread that makes the change.  The  *)
(* block that draws may itself change the KVar, and may have the fragment  *)
(* cleaned up by changing what an enclosing render depends on.             *)
(***************************************************************************)
EXTENDS Naturals, Sequences, SequencesExt

CONSTANTS
  Threads,         \* the threads that change the KVar
  Renderer,        \* the thread that calls render
  Values,          \* values of the KVar other than null
  BadValues,       \* values on which block throws
  CleanUpInBlock,  \* may the block have the fragment cleaned up?
  Concurrent,      \* may two threads change the KVar at the same time?
  MaxSets          \* bound: assignments to the KVar

Null == 0

ASSUME RenderAssumption ==
  /\ Renderer \in Threads
  /\ Null \notin Values /\ BadValues \subseteq Values
  /\ CleanUpInBlock \in BOOLEAN /\ Concurrent \in BOOLEAN
  /\ MaxSets \in Nat

VARIABLES
  value,                   \* KVar.value
  sets,                    \* assignments so far
  renderState,
  previousElementCreator,  \* 0 when null; creators are numbered as created
  created, live,           \* creators made so far; those not cleaned up
  mounted,                 \* render has returned, its cleaner is registered
  listening,               \* the listener of render is registered on the KVar
  stack,                   \* calls in progress in each thread
  catching, out,           \* outboundMessageCatcher of each thread, contents
  dom                      \* what the browser shows between the marker spans

kvarVars == <<value, sets>>
creatorVars == <<previousElementCreator, created, live>>
browserVars == <<catching, out, dom>>
vars == <<kvarVars, renderState, creatorVars, mounted, listening, stack,
          browserVars>>

\* A call: an assignment to the KVar (old and new value), a render loop (does
\* the current round own the batch its messages go to?), or a cleanup.
Assignment(old, new) == [pc |-> "assign", old |-> old, new |-> new]
Loop(pc, own) == [pc |-> pc, own |-> own]
CleanUpCall(pc) == [pc |-> pc]

AssignPCs == {"assign", "notify", "mark"}
LoopPCs == {"erase", "create", "begin", "get", "draw", "block", "end", "send",
            "again"}
Calls == [pc : AssignPCs, old : Values \cup {Null}, new : Values \cup {Null}]
           \cup [pc : LoopPCs, own : BOOLEAN]
           \cup [pc : {"clean", "unlisten"}]

TypeOK ==
  /\ value \in Values \cup {Null}
  /\ sets \in 0..MaxSets
  /\ renderState \in {"NOT_RENDERING", "RENDERING_NO_PENDING_CHANGE",
                      "RENDERING_WITH_PENDING_CHANGE"}
  /\ created \in Nat
  /\ previousElementCreator \in 0..created
  /\ live \subseteq 1..created
  /\ mounted \in BOOLEAN /\ listening \in BOOLEAN
  /\ stack \in [Threads -> Seq(Calls)]
  /\ catching \in [Threads -> BOOLEAN]
  /\ out \in [Threads -> Seq(Values)]
  /\ dom \in Seq(Values)

Init ==
  /\ value \in Values \cup {Null}
  /\ sets = 0
  /\ renderState = "NOT_RENDERING"
  /\ previousElementCreator = 0 /\ created = 0 /\ live = {}
  /\ mounted = FALSE
  /\ listening = TRUE
  /\ stack = [t \in Threads |->
                IF t = Renderer THEN <<Loop("erase", FALSE)>> ELSE <<>>]
  /\ catching = [t \in Threads |-> FALSE]
  /\ out = [t \in Threads |-> <<>>]
  /\ dom = <<>>

Top(t) == Last(stack[t])
At(t, pc) == stack[t] # <<>> /\ Top(t).pc = pc
Call(t, c) == stack' = [stack EXCEPT ![t] = Append(@, c)]
Become(t, c) == stack' = [stack EXCEPT ![t] = Append(Front(@), c)]
Return(t) == stack' = [stack EXCEPT ![t] = Front(@)]
Step(t, pc) == Become(t, [Top(t) EXCEPT !.pc = pc])

\* Thread t runs code of the application: none of Kweb's, or the block.
InUserCode(t) == stack[t] = <<>> \/ At(t, "block")

\* The application may have its threads take turns.
MayCall(t) == Concurrent \/ \A u \in Threads \ {t} : stack[u] = <<>>

(***************************************************************************)
(* KVar.value = v.  Delegates.observable reads the old value, assigns the  *)
(* new one, and then calls the listeners if the two differ.                *)
(***************************************************************************)
SetValue(t, v) ==
  /\ InUserCode(t) /\ MayCall(t) /\ sets < MaxSets
  /\ sets' = sets + 1
  /\ Call(t, Assignment(value, v))
  /\ UNCHANGED <<value, renderState, creatorVars, mounted, listening, browserVars>>

Assign(t) ==
  /\ At(t, "assign")
  /\ value' = Top(t).new
  /\ IF Top(t).old = Top(t).new THEN Return(t) ELSE Step(t, "notify")
  /\ UNCHANGED <<sets, renderState, creatorVars, mounted, listening, browserVars>>

\* The listener of render looks at renderState, without the lock.
Notify(t) ==
  /\ At(t, "notify")
  /\ \/ /\ listening /\ renderState = "NOT_RENDERING"
        /\ Become(t, Loop("erase", FALSE))
     \/ /\ listening /\ renderState = "RENDERING_NO_PENDING_CHANGE"
        /\ Step(t, "mark")
     \/ /\ ~listening \/ renderState = "RENDERING_WITH_PENDING_CHANGE"
        /\ Return(t)
  /\ UNCHANGED <<kvarVars, renderState, creatorVars, mounted, listening,
                 browserVars>>

\* Seeded fault: the listener does not return before the change is drawn.
MarkPendingAndWait(t) ==
  /\ At(t, "mark")
  /\ renderState' = "RENDERING_WITH_PENDING_CHANGE"
  /\ UNCHANGED <<kvarVars, creatorVars, mounted, listening, stack, browserVars>>
MarkPending(t) ==
  /\ At(t, "mark")
  /\ renderState' = "RENDERING_WITH_PENDING_CHANGE"
  /\ Return(t)
  /\ UNCHANGED <<kvarVars, creatorVars, mounted, listening, browserVars>>

(***************************************************************************)
(* renderLoop: rounds of eraseAndRender, each in a batch of its own unless *)
(* the thread is catching messages already.                                *)
(***************************************************************************)
\* Seeded fault: the creator of the last round is dropped, not cleaned up.
CleanedUpNone == live
CleanedUp == live \ {previousElementCreator}

EraseBetweenSpans(t) ==
  /\ At(t, "erase")
  /\ catching' = [catching EXCEPT ![t] = TRUE]
  /\ out' = [out EXCEPT ![t] = <<>>]
  /\ live' = CleanedUp
  /\ previousElementCreator' = 0
  /\ Become(t, Loop("create", ~catching[t]))
  /\ UNCHANGED <<kvarVars, renderState, created, mounted, listening, dom>>

NewElementCreator(t) ==
  /\ At(t, "create")
  /\ created' = created + 1
  /\ previousElementCreator' = created + 1
  /\ live' = live \cup {created + 1}
  /\ Step(t, "begin")
  /\ UNCHANGED <<kvarVars, renderState, mounted, listening, browserVars>>

\* Seeded fault: the round does not announce itself.
DuringRoundSame == renderState
DuringRound == "RENDERING_NO_PENDING_CHANGE"

BeginRound(t) ==
  /\ At(t, "begin")
  /\ renderState' = DuringRound
  /\ Step(t, "get")
  /\ UNCHANGED <<kvarVars, creatorVars, mounted, listening, browserVars>>

\* Without a creator (another thread has taken it) an error is logged.
GetElementCreator(t) ==
  /\ At(t, "get")
  /\ Step(t, IF previousElementCreator = 0 THEN "end" ELSE "draw")
  /\ UNCHANGED <<kvarVars, renderState, creatorVars, mounted, listening,
                 browserVars>>

\* value.value ?: return@let.  Seeded fault: a null value is drawn as well.
SkipsNone(v) == FALSE
Skips(v) == v = Null

\* The value is read, and block draws it.
Draw(t) ==
  /\ At(t, "draw") /\ value \notin BadValues
  /\ IF Skips(value)
     THEN Step(t, "end") /\ UNCHANGED out
     ELSE Step(t, "block") /\ out' = [out EXCEPT ![t] = Append(@, value)]
  /\ UNCHANGED <<kvarVars, renderState, creatorVars, mounted, listening, catching,
                 dom>>

\* block throws: nothing between here and the setter of the KVar (or the caller
\* of render) puts renderState or the catcher of the thread back.
BlockThrows(t) ==
  /\ At(t, "draw") /\ value \in BadValues
  /\ Return(t)
  /\ UNCHANGED <<kvarVars, renderState, creatorVars, mounted, listening,
                 browserVars>>

BlockReturns(t) ==
  /\ At(t, "block")
  /\ Step(t, "end")
  /\ UNCHANGED <<kvarVars, renderState, creatorVars, mounted, listening,
                 browserVars>>

\* Seeded fault: the end of a round forgets the pending change.
AfterRoundForgetful == "NOT_RENDERING"
AfterRound == IF renderState = "RENDERING_NO_PENDING_CHANGE"
              THEN "NOT_RENDERING" ELSE renderState

EndRound(t) ==
  /\ At(t, "end")
  /\ renderState' = AfterRound
  /\ Step(t, IF Top(t).own THEN "send" ELSE "again")
  /\ UNCHANGED <<kvarVars, creatorVars, mounted, listening, browserVars>>

\* The batch is sent once eraseAndRender has returned.
SendBatch(t) ==
  /\ At(t, "send")
  /\ dom' = out[t]
  /\ catching' = [catching EXCEPT ![t] = FALSE]
  /\ Step(t, "again")
  /\ UNCHANGED <<kvarVars, renderState, creatorVars, mounted, listening, out>>

\* Another round, or the end of the loop.  When the loop in render itself ends
\* render registers its cleaner and returns.
Again(t) ==
  /\ At(t, "again")
  /\ IF renderState # "NOT_RENDERING"
     THEN Become(t, Loop("erase", FALSE)) /\ UNCHANGED mounted
     ELSE /\ Return(t)
          /\ mounted' = (mounted \/ (t = Renderer /\ Len(stack[t]) = 1))
  /\ UNCHANGED <<kvarVars, renderState, creatorVars, listening, browserVars>>

(***************************************************************************)
(* The cleaner render registers with the ElementCreator it was called on.  *)
(***************************************************************************)
CleanUpStarts(t) ==
  /\ mounted /\ listening /\ MayCall(t)
  /\ IF stack[t] = <<>> THEN TRUE ELSE CleanUpInBlock /\ At(t, "block")
  /\ Call(t, CleanUpCall("clean"))
  /\ UNCHANGED <<kvarVars, renderState, creatorVars, mounted, listening,
                 browserVars>>

CleanUpCreator(t) ==
  /\ At(t, "clean")
  /\ live' = live \ {previousElementCreator}
  /\ previousElementCreator' = 0
  /\ Step(t, "unlisten")
  /\ UNCHANGED <<kvarVars, renderState, created, mounted, listening, browserVars>>

RemoveListener(t) ==
  /\ At(t, "unlisten")
  /\ listening' = FALSE
  /\ Return(t)
  /\ UNCHANGED <<kvarVars, renderState, creatorVars, mounted, browserVars>>

-----------------------------------------------------------------------------
\* What a thread does once it has been called.
Proceed(t) ==
  \/ Assign(t) \/ Notify(t) \/ MarkPending(t)
  \/ EraseBetweenSpans(t) \/ NewElementCreator(t) \/ BeginRound(t)
  \/ GetElementCreator(t) \/ Draw(t) \/ BlockThrows(t) \/ BlockReturns(t)
  \/ EndRound(t) \/ SendBatch(t) \/ Again(t)
  \/ CleanUpCreator(t) \/ RemoveListener(t)

Next ==
  \E t \in Threads :
    \/ Proceed(t)
    \/ \E v \in Values \cup {Null} : SetValue(t, v)
    \/ CleanUpStarts(t)

Spec == Init /\ [][Next]_vars

\* A thread goes on with what it was called to do.  Nothing makes the
\* application change the KVar or clean the fragment up.
FairSpec == Spec /\ \A t \in Threads : WF_vars(Proceed(t))

-----------------------------------------------------------------------------
Quiet == \A t \in Threads : stack[t] = <<>>

Shown(v) == IF v = Null THEN <<>> ELSE <<v>>

\* No round was abandoned by a block that threw.
NoneAbandoned ==
  renderState = "NOT_RENDERING" /\ \A t \in Threads : ~catching[t]

\* Once every thread is through, the browser shows the value the KVar has, unless
\* the block has thrown.
Redrawn == (Quiet /\ listening /\ NoneAbandoned) => dom = Shown(value)

\* NOT TRUE of this code, and checked by no run: it does so as well after the
\* block has thrown on another value.  renderState and the catcher of the thread
\* are left as they are in a round, and the next change draws nothing.
RedrawnAfterFailure ==
  (Quiet /\ listening /\ value \notin BadValues) => dom = Shown(value)

\* Once every thread is through, the only ElementCreator not cleaned up is that
\* of what the browser shows, and there is none if the fragment is gone.
CreatorsAreCleanedUp ==
  Quiet => live = IF listening THEN {previousElementCreator} ELSE {}

\* Rendering ends: no sequence of changes keeps a thread in the loop for ever.
RenderingEnds == \A t \in Threads : stack[t] # <<>> ~> stack[t] = <<>>

\* A change made while the fragment is being drawn never starts a second loop:
\* it is left to the loop that is running.
LoopsOf(t) == {i \in DOMAIN stack[t] : stack[t][i].pc \in LoopPCs}
OneLoopAtATime ==
  \A t, u \in Threads : \A i \in LoopsOf(t), j \in LoopsOf(u) : t = u /\ i = j
=============================================================================
