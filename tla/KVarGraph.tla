------------------------------ MODULE KVarGraph ------------------------------
(***************************************************************************)
(* KVars, the KVals and KVars made from them (KVal.map, KVar.map and       *)
(* combine), and the listeners through which a change travels.             *)
(*                                                                         *)
(* A change runs on the stack of the thread that makes it: a setter calls  *)
(* the listeners, in whatever order the hash map has them, and a listener  *)
(* may set the next KVar.  Which KVars there are and how they hang         *)
(* together is a parameter; they exist before the first change.  Closing   *)
(* one, and all that follows it, is a single step; KVarClosing shows that  *)
(* the close handlers amount to that.                                      *)
(***************************************************************************)
EXTENDS Naturals, Sequences, SequencesExt

CONSTANTS
  Threads,             \* threads of the application
  KVars,               \* KVals included
  ValuesOf,            \* what each of them may hold
  InitialValues,       \* what they may hold at first
  Listeners,
  Function(_, _),      \* the function of a listener
  Backward(_, _, _),   \* ReversibleFunction.reverse, or what is set
  Throws(_, _),        \* does the function of a listener throw on a value?
  Settable, Closable,  \* those the application sets and closes
  Concurrent,          \* may two threads set and close at the same time?
  MaxSets              \* bound: assignments of the application

\* A listener of one KVar, what it sets, and another KVar it reads.
Listener(kind, of, to, reads) == [kind |-> kind, of |-> of, to |-> to, reads |-> reads]

\* What KVal.map, KVar.map and combine register.  Listeners of the application
\* tell the browser, or set or close a KVar.
Mapped(k, m) == {Listener("map", k, m, m)}
ReversiblyMapped(k, m) ==
  {Listener("forward", k, m, m), Listener("reverse", m, k, k)}
Combined(a, b, pair) ==
  {Listener("first", a, pair, b), Listener("second", b, pair, a),
   Listener("split", pair, a, b)}

Links == {"map", "forward", "reverse", "first", "second"}

\* What a listener makes of the new value of its KVar and of the one it reads.
Result(l, current, new) ==
  CASE l.kind \in {"reverse", "set"} -> Backward(l, current, new)
    [] l.kind = "first" -> <<new, current>>
    [] l.kind = "second" -> <<current, new>>
    [] OTHER -> Function(l, new)

\* The end of a link shows what its source holds.
Shows(l, held) == held[l.to] = Result(l, held[l.reads], held[l.of])
Sources == {l \in Listeners : l.kind \in {"map", "forward", "first", "second"}}

ASSUME GraphAssumption ==
  /\ Listeners \subseteq [kind : Links \cup {"split", "tell", "set", "close"},
                          of : KVars, to : KVars, reads : KVars]
  /\ \A initial \in InitialValues :
       /\ DOMAIN initial = KVars /\ \A k \in KVars : initial[k] \in ValuesOf[k]
       /\ \A l \in Sources : ~Throws(l, initial[l.of]) /\ Shows(l, initial)
  /\ Settable \subseteq KVars /\ Closable \subseteq KVars
  /\ Concurrent \in BOOLEAN /\ MaxSets \in Nat

VARIABLES
  value,        \* KVar.value, KVal.pValue
  closeReason,  \* "open", or what closed it
  listening,    \* the listeners registered
  told,         \* what each listener that tells the browser told it last
  stack,        \* calls in progress in each thread
  sets          \* assignments so far

vars == <<value, closeReason, listening, told, stack, sets>>

\* No listener: the caller is the application, or the iterator is at its end.
None == [kind |-> "none"]

\* A call: the setter of a KVar, or KVal.map telling the listeners of the mapped
\* KVal.  The iterator has fetched the next listener before it delivers one.
Call(pc, k, by, old, new) ==
  [pc |-> pc, kvar |-> k, by |-> by, old |-> old, new |-> new, next |-> None,
   todo |-> {}]

IsCall(c) ==
  /\ c.pc \in {"read", "assign", "notify", "iterate"} /\ c.kvar \in KVars
  /\ c.old \in ValuesOf[c.kvar] /\ c.new \in ValuesOf[c.kvar]
  /\ {c.by, c.next} \subseteq Listeners \cup {None} /\ c.todo \subseteq Listeners

Tellers == {l \in Listeners : l.kind = "tell"}

TypeOK ==
  /\ \A k \in KVars : value[k] \in ValuesOf[k]
  /\ closeReason \in [KVars -> {"open", "called", "source", "mapper"}]
  /\ listening \subseteq Listeners
  /\ \A l \in Tellers : told[l] \in ValuesOf[l.of]
  /\ \A t \in Threads : \A i \in DOMAIN stack[t] : IsCall(stack[t][i])
  /\ sets \in 0..MaxSets

Init ==
  /\ value \in InitialValues
  /\ closeReason = [k \in KVars |-> "open"]
  /\ listening = Listeners
  /\ told = [l \in Tellers |-> value[l.of]]
  /\ stack = [t \in Threads |-> <<>>]
  /\ sets = 0

Top(t) == Last(stack[t])
At(t, pc) == stack[t] # <<>> /\ Top(t).pc = pc
Become(t, c) == stack' = [stack EXCEPT ![t] = Append(Front(@), c)]
Return(t) == stack' = [stack EXCEPT ![t] = Front(@)]

Idle(t) == stack[t] = <<>>

\* The application may have its threads take turns.
MayCall(t) == Idle(t) /\ (Concurrent \/ \A u \in Threads : Idle(u))

ListenersOf(k) == {l \in listening : l.of = k}

(***************************************************************************)
(* Closing.  A KVal closes those mapped from it, a KVar the pairs it is    *)
(* combined in.  A listener goes with the KVar it listens to, and, if it   *)
(* belongs to a map or a combination, with the one it sets.                *)
(***************************************************************************)
Closes(l) == l.kind \in {"map", "first", "second"}

\* All that closing k closes: k, and what was made from it, directly or not.
Closers == {l \in Listeners : Closes(l)}
Made == {l.to : l \in Closers}
ClosedWith ==
  [k \in KVars |->
     {k} \cup {m \in Made : \A S \in SUBSET Made :
       (\A l \in Closers : l.of \in S \cup {k} => l.to \in S) => m \in S}]

IsClosed(k) == closeReason[k] # "open"

Removed(l, closed) ==
  l.of \in closed \/ (l.kind \in Links /\ l.to \in closed)

\* k.close(reason); nothing, if it is closed already.
Close(k, reason) ==
  IF IsClosed(k)
  THEN UNCHANGED <<closeReason, listening>>
  ELSE /\ closeReason' = [m \in KVars |->
            IF m \in ClosedWith[k] /\ ~IsClosed(m)
            THEN IF m = k THEN reason ELSE "source"
            ELSE closeReason[m]]
       /\ listening' = {l \in listening : ~Removed(l, ClosedWith[k])}

\* What closes a KVar, by CloseIt: by Close, or by the first step of one in steps.
CloseCalledBy(t, k, CloseIt(_, _)) ==
  /\ MayCall(t) /\ ~IsClosed(k)
  /\ CloseIt(k, "called")
  /\ UNCHANGED <<value, told, stack, sets>>
CloseCalled(t, k) == CloseCalledBy(t, k, Close)

\* What is done about an exception of listener l, called in call c: KVar.map
\* closes the mapped KVar, KVal.map the KVal whose listeners are being told, and
\* the setter of a KVar logs it.
CatchBy(l, c, CloseIt(_, _)) ==
  IF l.kind = "forward" THEN CloseIt(l.to, "mapper")
  ELSE IF c.by.kind = "map" THEN CloseIt(c.kvar, "mapper")
  ELSE UNCHANGED <<closeReason, listening>>
Catch(l, c) == CatchBy(l, c, Close)

(***************************************************************************)
(* KVar.value = v.  Delegates.observable reads the old value, assigns the  *)
(* new one, and only then is it checked that the KVar is open.             *)
(***************************************************************************)
SetValue(t, k, v) ==
  /\ MayCall(t) /\ sets < MaxSets
  /\ sets' = sets + 1
  /\ stack' = [stack EXCEPT ![t] = <<Call("read", k, None, value[k], v)>>]
  /\ UNCHANGED <<value, closeReason, listening, told>>

Read(t) ==
  /\ At(t, "read")
  /\ Become(t, [Top(t) EXCEPT !.pc = "assign", !.old = value[Top(t).kvar]])
  /\ UNCHANGED <<value, closeReason, listening, told, sets>>

\* Seeded fault: listeners are called if the value is the same as well.
DifferAlways(old, new) == TRUE
Differ(old, new) == old # new

Assign(t) ==
  /\ At(t, "assign")
  /\ value' = [value EXCEPT ![Top(t).kvar] = Top(t).new]
  /\ IF Differ(Top(t).old, Top(t).new)
     THEN ~IsClosed(Top(t).kvar) /\ Become(t, [Top(t) EXCEPT !.pc = "notify"])
     ELSE Return(t)
  /\ UNCHANGED <<closeReason, listening, told, sets>>

\* The setter throws out of the listener that called it, which sets no more: not
\* the second of a pair, whose call is next on the stack.
AssignClosedBy(t, CloseIt(_, _)) ==
  LET c == Top(t)
      below == Front(stack[t])
      callers == IF below # <<>> /\ Last(below).pc = "read" THEN Front(below) ELSE below
  IN  /\ At(t, "assign")
      /\ Differ(c.old, c.new) /\ IsClosed(c.kvar)
      /\ value' = [value EXCEPT ![c.kvar] = c.new]
      /\ stack' = [stack EXCEPT ![t] = callers]
      /\ IF c.by = None THEN UNCHANGED <<closeReason, listening>>
                        ELSE CatchBy(c.by, Last(callers), CloseIt)
      /\ UNCHANGED <<told, sets>>
AssignClosed(t) == AssignClosedBy(t, Close)

(***************************************************************************)
(* Telling the listeners.                                                  *)
(***************************************************************************)
Notify(t) ==
  /\ At(t, "notify")
  /\ IF ListenersOf(Top(t).kvar) = {} THEN Return(t)
     ELSE \E l \in ListenersOf(Top(t).kvar) :
            Become(t, [Top(t) EXCEPT !.pc = "iterate", !.next = l,
                                     !.todo = ListenersOf(Top(t).kvar) \ {l}])
  /\ UNCHANGED <<value, closeReason, listening, told, sets>>

Nexts(t) == IF Top(t).todo \cap listening = {} THEN {None}
            ELSE Top(t).todo \cap listening

\* The listener that is called.
Called(t) == Top(t).next
Calls(t, kinds) == At(t, "iterate") /\ Called(t).kind \in kinds

\* The iterator fetches the next listener, then the one fetched before is called;
\* it makes the calls cs, the last one first.
Make(t, cs) ==
  \E n \in Nexts(t) :
    stack' = [stack EXCEPT ![t] =
      Append(Front(@), [Top(t) EXCEPT !.next = n, !.todo = @ \ {n}]) \o cs]
Continue(t) == Make(t, <<>>)

NoneLeft(t) ==
  /\ Calls(t, {"none"})
  /\ Return(t)
  /\ UNCHANGED <<value, closeReason, listening, told, sets>>

Fails(l, c) ==
  \/ Throws(l, c.new)
  \/ l.kind = "map" /\ (IsClosed(l.of) \/ IsClosed(l.to))

\* The others are called all the same.  Seeded fault: they are not.
AfterFailureNoMore(t) == Return(t)
AfterFailure(t) == Continue(t)

ListenerThrowsBy(t, CloseIt(_, _)) ==
  /\ Calls(t, Links \cup {"set"}) /\ Fails(Called(t), Top(t))
  /\ AfterFailure(t)
  /\ CatchBy(Called(t), Top(t), CloseIt)
  /\ UNCHANGED <<value, told, sets>>
ListenerThrows(t) == ListenerThrowsBy(t, Close)

\* listener(old, new).  Seeded fault: the arguments are swapped.
NewsSwapped(c) == c.old
News(c) == c.new

Tell(t) ==
  /\ Calls(t, {"tell"})
  /\ told' = [told EXCEPT ![Called(t)] = News(Top(t))]
  /\ Continue(t)
  /\ UNCHANGED <<value, closeReason, listening, sets>>

CloseListenerBy(t, CloseIt(_, _)) ==
  /\ Calls(t, {"close"})
  /\ CloseIt(Called(t).to, "called")
  /\ Continue(t)
  /\ UNCHANGED <<value, told, sets>>
CloseListener(t) == CloseListenerBy(t, Close)

SetOther(t) ==
  /\ Calls(t, (Links \ {"map"}) \cup {"set"}) /\ ~Fails(Called(t), Top(t))
  /\ LET l == Called(t)
     IN  Make(t, <<Call("read", l.to, l, value[l.to],
                        Result(l, value[l.reads], Top(t).new))>>)
  /\ UNCHANGED <<value, closeReason, listening, told, sets>>

\* The pair sets its first KVar, then its second.
SetBoth(t) ==
  /\ Calls(t, {"split"})
  /\ LET l == Called(t)
     IN  Make(t, <<Call("read", l.reads, l, value[l.reads], Top(t).new[2]),
                   Call("read", l.to, l, value[l.to], Top(t).new[1])>>)
  /\ UNCHANGED <<value, closeReason, listening, told, sets>>

MappedOld(l, old) == Function(l, old)

\* The mapped KVal takes its value.  Its listeners are told if it is another
\* one; a function that threw on the old value throws again, and closes it.
UpdateMappedBy(t, CloseIt(_, _)) ==
  LET l == Called(t) c == Top(t) mapped == Function(l, c.new)
  IN  /\ Calls(t, {"map"}) /\ ~Fails(l, c)
      /\ value' = [value EXCEPT ![l.to] = mapped]
      /\ IF ListenersOf(l.to) # {} /\ Throws(l, c.old)
         THEN CloseIt(l.to, "mapper") /\ Continue(t)
         ELSE /\ UNCHANGED <<closeReason, listening>>
              /\ IF ListenersOf(l.to) = {} \/ MappedOld(l, c.old) = mapped
                 THEN Continue(t)
                 ELSE Make(t, <<Call("notify", l.to, l, MappedOld(l, c.old), mapped)>>)
      /\ UNCHANGED <<told, sets>>
UpdateMapped(t) == UpdateMappedBy(t, Close)

-----------------------------------------------------------------------------
Proceed(t) ==
  \/ Read(t) \/ Assign(t) \/ AssignClosed(t) \/ Notify(t) \/ NoneLeft(t)
  \/ ListenerThrows(t) \/ Tell(t) \/ CloseListener(t)
  \/ SetOther(t) \/ SetBoth(t) \/ UpdateMapped(t)

Next ==
  \E t \in Threads :
    \/ Proceed(t)
    \/ \E k \in Settable : \E v \in ValuesOf[k] : SetValue(t, k, v)
    \/ \E k \in Closable : CloseCalled(t, k)

Spec == Init /\ [][Next]_vars

-----------------------------------------------------------------------------
Quiet == \A t \in Threads : Idle(t)

\* Once the calls are through, every map and combination whose ends are open
\* shows what its source holds, unless its function throws on that.
Settled ==
  Quiet => \A l \in Sources :
    ~IsClosed(l.of) /\ ~IsClosed(l.to) /\ ~Throws(l, value[l.of]) => Shows(l, value)

\* Once the calls are through, what the browser was told of an open KVar last is
\* what it holds: changes reach every listener, and in their order.
ToldLast ==
  Quiet => \A l \in Tellers : ~IsClosed(l.of) => told[l] = value[l.of]

\* A map or a combination never changes what has been closed.
ClosedIsCutOff ==
  [][\A k \in KVars : IsClosed(k) /\ value'[k] # value[k] =>
       \E t \in Threads : At(t, "assign") /\ Top(t).kvar = k
                            /\ Top(t).by.kind \notin Links \cup {"split"}]_vars

\* The listeners of a map and of a combination answer each other, but only once.
\* While a KVar tells its listeners of a change it does not change again, except
\* for a pair: when the first of its two KVars is set, the pair takes that value
\* along with the old one of the second, and tells its listeners so.
NoReentry ==
  \A t \in Threads : \A i, j, k \in DOMAIN stack[t] :
    i < j /\ stack[t][i].kvar = stack[t][j].kvar /\ stack[t][j].kvar = stack[t][k].kvar =>
      \/ stack[t][j].pc \in {"read", "assign"}
      \/ k \in {i, j} /\ \E l \in Listeners : l.kind = "split" /\ l.of = stack[t][j].kvar

-----------------------------------------------------------------------------
(***************************************************************************)
(* KVars made one from the other by KVal.map and KVar.map alone.  Of such  *)
(* families, set by one thread at a time, KVarGraph_proofs proves what is  *)
(* said above.                                                             *)
(***************************************************************************)
\* The link from the KVar something was made from.
Downward == {"map", "forward"}
Down == {l \in Listeners : l.kind \in Downward}

\* What was mapped reversibly is kept in step both ways.
Both == {"forward", "reverse"}
Forth(r) == Listener("forward", r.to, r.of, r.of)
Back(l) == Listener("reverse", l.to, l.of, l.of)

\* What KVal.map makes: it has no setter, and no KVar.map.
KVals == {l.to : l \in {m \in Listeners : m.kind = "map"}}

\* Each was there before what was made from it.
Ranked(rank) == \A l \in Down : rank[l.of] < rank[l.to]
Family ==
  /\ \A l \in Listeners : l.kind \in Downward \cup {"reverse", "tell"}
  /\ \E rank \in [KVars -> Nat] : Ranked(rank)
  /\ \A l, m \in Down : l.to = m.to => l = m
  /\ \A l \in Listeners :
       /\ l.kind = "forward" => Back(l) \in Listeners /\ l.of \notin KVals
       /\ l.kind = "reverse" => Forth(l) \in Listeners
       /\ l.kind # "tell" => l.reads = l.to
  /\ Settable \cap KVals = {}

\* The function of KVal.map may throw.  One of KVar.map is to be well-behaved: it
\* does not throw, and its reverse makes something that shows what was set, out of
\* what there was, and leaves that as it is if it shows it already.
Lenses ==
  /\ \A l \in Down : \A v \in ValuesOf[l.of] : ~Throws(l, v) => Function(l, v) \in ValuesOf[l.to]
  /\ \A l \in Listeners : l.kind \in Both => \A v \in ValuesOf[l.of] : ~Throws(l, v)
  /\ \A r \in Listeners : r.kind = "reverse" =>
       \A x \in ValuesOf[r.to] :
         /\ \A v \in ValuesOf[r.of] :
              /\ Backward(r, x, v) \in ValuesOf[r.to]
              /\ Function(Forth(r), Backward(r, x, v)) = v
         /\ Backward(r, x, Function(Forth(r), x)) = x
=============================================================================
