--------------------------- MODULE KVarGraph_proofs ---------------------------
(***************************************************************************)
(* For every graph of KVars, KVals and listeners: once the handlers of a   *)
(* close have run, whatever the order, all that was made from what is      *)
(* closed is closed, and just the listeners are registered that lie        *)
(* between open KVars; and of threads that take turns, a close in its      *)
(* steps is what KVarGraph says it is.                                     *)
(*                                                                         *)
(* For every family of KVars made from each other by map, which threads    *)
(* set and close one at a time: what is said of KVarGraph about the end of *)
(* a change, about the browser, about re-entry and about closed KVars.  A  *)
(* change goes towards the KVars that others were made from, and from each *)
(* of these to the ones made from it; it comes back only as the answer of  *)
(* a reversible map, with a value that is there already.                   *)
(***************************************************************************)
EXTENDS KVarClosing, SequenceTheorems, TLAPS

\* The KVars a listener lies between are open.
Ends(l) == ~IsClosed(l.of) /\ (l.kind \in Links => ~IsClosed(l.to))

\* Just those whose ends are open are registered.
IInv == listening = {l \in Listeners : Ends(l)}

\* The ends of a listener are KVars of the graph.
LEMMA EndsAreKVars ==
  ASSUME NEW l \in Listeners
  PROVE  l.of \in KVars /\ l.to \in KVars
BY GraphAssumption

\* Closing a KVar takes every listener along that would outlive it, those of
\* everything that is closed with it included, and no other.
LEMMA CloseKeeps ==
  ASSUME IInv, NEW k, NEW reason, reason # "open", Close(k, reason)
  PROVE  IInv'
<1>1. CASE IsClosed(k)
  BY <1>1 DEF Close, IInv, Ends, IsClosed
<1>2. CASE ~IsClosed(k)
  <2>1. listening' = {l \in listening : ~Removed(l, ClosedWith[k])}
    BY <1>2 DEF Close
  <2>2. ASSUME NEW m \in KVars
        PROVE  IsClosed(m)' <=> IsClosed(m) \/ m \in ClosedWith[k]
    BY <1>2, <2>2 DEF Close, IsClosed
  <2>3. ASSUME NEW l \in Listeners
        PROVE  Ends(l)' <=> Ends(l) /\ ~Removed(l, ClosedWith[k])
    BY <2>2, EndsAreKVars DEF Ends, Removed
  <2> QED BY <2>1, <2>3 DEF IInv
<1>3. QED
  BY <1>1, <1>2

\* A step that closes nothing keeps all listeners.
LEMMA OthersKeep ==
  ASSUME IInv, UNCHANGED <<closeReason, listening>>
  PROVE  IInv'
BY DEF IInv, Ends, IsClosed

\* What is done about an exception closes one KVar or none.
LEMMA CatchKeeps ==
  ASSUME IInv, NEW l, NEW c, Catch(l, c)
  PROVE  IInv'
BY CloseKeeps, OthersKeep DEF Catch, CatchBy

LEMMA StepKeeps ==
  ASSUME IInv, [Next]_vars
  PROVE  IInv'
<1>1. CASE UNCHANGED vars
  BY <1>1, OthersKeep DEF vars
<1>2. ASSUME NEW t \in Threads, Proceed(t)
      PROVE  IInv'
  <2>1. CASE Read(t) \/ Assign(t) \/ Notify(t) \/ NoneLeft(t) \/ Tell(t)
               \/ SetOther(t) \/ SetBoth(t)
    BY <2>1, OthersKeep DEF Read, Assign, Notify, NoneLeft, Tell, SetOther, SetBoth
  <2>2. CASE AssignClosed(t)
    <3>1. \/ UNCHANGED <<closeReason, listening>>
          \/ \E c : Catch(Top(t).by, c)
      BY <2>2 DEF AssignClosed, AssignClosedBy, Catch, CatchBy
    <3> QED BY <3>1, OthersKeep, CatchKeeps
  <2>3. CASE ListenerThrows(t)
    <3>1. Catch(Called(t), Top(t))
      BY <2>3 DEF ListenerThrows, ListenerThrowsBy, Catch, CatchBy
    <3> QED BY <3>1, CatchKeeps
  <2>4. CASE CloseListener(t)
    BY <2>4, CloseKeeps DEF CloseListener, CloseListenerBy
  <2>5. CASE UpdateMapped(t)
    BY <2>5, CloseKeeps, OthersKeep DEF UpdateMapped, UpdateMappedBy
  <2>6. QED
    BY <1>2, <2>1, <2>2, <2>3, <2>4, <2>5 DEF Proceed
<1>3. ASSUME NEW t \in Threads, NEW k, NEW v, SetValue(t, k, v)
      PROVE  IInv'
  BY <1>3, OthersKeep DEF SetValue
<1>4. ASSUME NEW t \in Threads, NEW k, CloseCalled(t, k)
      PROVE  IInv'
  BY <1>4, CloseKeeps DEF CloseCalled, CloseCalledBy
<1>5. QED
  BY <1>1, <1>2, <1>3, <1>4 DEF Next

LEMMA StartKeeps ==
  ASSUME Init
  PROVE  IInv
BY EndsAreKVars DEF Init, IInv, Ends, IsClosed

-----------------------------------------------------------------------------
(***************************************************************************)
(* Families: how their KVars and listeners hang together.                  *)
(***************************************************************************)
Rank == CHOOSE rank \in [KVars -> Nat] : Ranked(rank)

\* The link between two KVars that a listener belongs to.
Edge(l) == IF l.kind = "reverse" THEN Forth(l) ELSE l

LEMMA LinksRise ==
  ASSUME Family
  PROVE  Rank \in [KVars -> Nat] /\ Ranked(Rank)
BY DEF Family, Rank

LEMMA TheListeners ==
  ASSUME Family, NEW l \in Listeners
  PROVE  /\ l.kind \in {"map", "forward", "reverse", "tell"} /\ l # None
         /\ l.of \in KVars /\ l.to \in KVars
         /\ l = Listener(l.kind, l.of, l.to, l.reads)
         /\ l.kind # "tell" => l.reads = l.to /\ l.kind \in Links /\ Edge(l) \in Down
         /\ l.kind \in Downward => l \in Down /\ Edge(l) = l
<1>1. l \in [kind : Links \cup {"split", "tell", "set", "close"}, of : KVars, to : KVars, reads : KVars]
  BY GraphAssumption
<1>2. l.kind \in {"map", "forward", "reverse", "tell"}
  BY DEF Family, Downward
<1>3. l.of \in KVars /\ l.to \in KVars /\ l = Listener(l.kind, l.of, l.to, l.reads)
  BY <1>1 DEF Listener
<1>4. l # None
  <2>1. DOMAIN l = {"kind", "of", "to", "reads"} /\ DOMAIN None = {"kind"}
    BY <1>1 DEF None
  <2> QED BY <2>1
<1>5. l.kind # "tell" => l.reads = l.to /\ l.kind \in Links
  BY <1>2 DEF Family, Links
<1>6. l.kind \in Downward => l \in Down /\ Edge(l) = l
  BY DEF Down, Downward, Edge
<1>7. l.kind = "reverse" => Edge(l) \in Down
  BY DEF Family, Edge, Forth, Listener, Down, Downward
<1> QED BY <1>2, <1>3, <1>4, <1>5, <1>6, <1>7 DEF Downward

\* The two listeners of a reversible map.
LEMMA TwoWays ==
  ASSUME Family, NEW l \in Listeners
  PROVE  /\ l.kind = "reverse" =>
              /\ Forth(l) \in Down /\ Forth(l).kind = "forward" /\ Edge(l) = Forth(l)
              /\ Forth(l).of = l.to /\ Forth(l).to = l.of /\ Forth(l).reads = l.of
         /\ l.kind = "forward" =>
              /\ Back(l) \in Listeners /\ Back(l).kind = "reverse" /\ Edge(Back(l)) = l
              /\ Back(l).of = l.to /\ Back(l).to = l.of
<1>1. l.kind = "reverse" =>
        /\ Forth(l) \in Down /\ Forth(l).kind = "forward" /\ Edge(l) = Forth(l)
        /\ Forth(l).of = l.to /\ Forth(l).to = l.of /\ Forth(l).reads = l.of
  BY DEF Family, Edge, Forth, Listener, Down, Downward
<1>2. l.kind = "forward" => Back(l) \in Listeners /\ Back(l).kind = "reverse"
                              /\ Back(l).of = l.to /\ Back(l).to = l.of
  BY DEF Family, Back, Listener
<1>3. l.kind = "forward" => Edge(Back(l)) = l
  <2>1. l = Listener(l.kind, l.of, l.to, l.to) \/ l.kind # "forward"
    BY TheListeners
  <2>2. Edge(Back(l)) = Listener("forward", l.of, l.to, l.to)
    BY DEF Edge, Back, Forth, Listener
  <2> QED BY <2>1, <2>2
<1> QED BY <1>1, <1>2, <1>3

\* Which ends of a link are KVals; that it leads from an earlier to a later one.
LEMMA EndsOfLinks ==
  ASSUME Family, NEW l \in Listeners
  PROVE  /\ l.kind = "map" => l.to \in KVals
         /\ l.kind \in Both => l.of \notin KVals /\ l.to \notin KVals
         /\ l.kind \in Downward => Rank[l.of] < Rank[l.to]
         /\ l.kind = "reverse" => Rank[l.of] > Rank[l.to]
         /\ Rank[l.of] \in Nat /\ Rank[l.to] \in Nat
         /\ l.kind # "tell" => l.of # l.to
<1>1. l.kind = "map" => l.to \in KVals
  BY DEF KVals
<1>2. ASSUME NEW m \in Down, m.kind = "forward" PROVE m.of \notin KVals /\ m.to \notin KVals
  <2>1. m.of \notin KVals
    BY <1>2 DEF Family, Down
  <2>2. ASSUME NEW n \in Listeners, n.kind = "map", n.to = m.to PROVE FALSE
    <3>1. n \in Down
      BY <2>2 DEF Down, Downward
    <3>2. n = m
      BY <3>1, <2>2 DEF Family
    <3> QED BY <3>2, <2>2, <1>2
  <2> QED BY <2>1, <2>2 DEF KVals
<1>3. l.kind \in Both => l.of \notin KVals /\ l.to \notin KVals
  <2>1. CASE l.kind = "forward"
    BY <2>1, <1>2 DEF Down, Downward
  <2>2. CASE l.kind = "reverse"
    BY <2>2, <1>2, TwoWays
  <2> QED BY <2>1, <2>2 DEF Both
<1>4. l.kind \in Downward => Rank[l.of] < Rank[l.to]
  BY LinksRise DEF Ranked, Down
<1>5. l.kind = "reverse" => Rank[l.of] > Rank[l.to]
  <2>1. SUFFICES ASSUME l.kind = "reverse" PROVE Rank[l.of] > Rank[l.to]
    OBVIOUS
  <2>2. Forth(l) \in Down /\ Forth(l).of = l.to /\ Forth(l).to = l.of
    BY <2>1, TwoWays
  <2>3. Rank[Forth(l).of] < Rank[Forth(l).to]
    BY <2>2, LinksRise DEF Ranked
  <2> QED BY <2>2, <2>3, LinksRise, TheListeners
<1>6. Rank[l.of] \in Nat /\ Rank[l.to] \in Nat
  BY LinksRise, TheListeners
<1> QED BY <1>1, <1>3, <1>4, <1>5, <1>6, TheListeners DEF Downward

\* What a link makes of the value of its KVar; what that shows afterwards.
LEMMA ResultsOf ==
  ASSUME Family, Lenses, NEW l \in Listeners, l.kind \in Both,
         NEW x \in ValuesOf[l.to], NEW v \in ValuesOf[l.of]
  PROVE  /\ Result(l, x, v) \in ValuesOf[l.to] /\ ~Throws(l, v)
         /\ l.kind = "forward" => Result(l, x, v) = Function(Edge(l), v)
         /\ l.kind = "reverse" => /\ Function(Edge(l), Result(l, x, v)) = v
                                  /\ v = Function(Edge(l), x) => Result(l, x, v) = x
<1>1. ~Throws(l, v)
  BY DEF Lenses
<1>2. CASE l.kind = "forward"
  <2>1. l \in Down /\ Edge(l) = l
    BY <1>2, TheListeners DEF Downward
  <2>2. Result(l, x, v) = Function(l, v)
    BY <1>2 DEF Result
  <2> QED BY <1>1, <1>2, <2>1, <2>2 DEF Lenses
<1>3. CASE l.kind = "reverse"
  <2>1. Edge(l) = Forth(l)
    BY <1>3 DEF Edge
  <2>2. Result(l, x, v) = Backward(l, x, v)
    BY <1>3 DEF Result
  <2>3. /\ Backward(l, x, v) \in ValuesOf[l.to] /\ Function(Forth(l), Backward(l, x, v)) = v
        /\ Backward(l, x, Function(Forth(l), x)) = x
    BY <1>3 DEF Lenses
  <2> QED BY <1>1, <1>3, <2>1, <2>2, <2>3
<1> QED BY <1>2, <1>3 DEF Both

-----------------------------------------------------------------------------
(***************************************************************************)
(* The calls on a stack are the way a change has come.                     *)
(***************************************************************************)
AnyValue == UNION {ValuesOf[k] : k \in KVars}
Frames ==
  [pc : {"read", "assign", "notify", "iterate"}, kvar : KVars, by : Listeners \cup {None},
   old : AnyValue, new : AnyValue, next : Listeners \cup {None}, todo : SUBSET Listeners]

\* A call: it has been made by a listener that sets its KVar, and calls those of
\* its KVar.
FrameTyped(f) ==
  /\ f.old \in ValuesOf[f.kvar] /\ f.new \in ValuesOf[f.kvar]
  /\ f.by # None => f.by.kind # "tell" /\ f.by.to = f.kvar
  /\ \A l \in {f.next} \cup f.todo : l # None => l.of = f.kvar
  /\ f.pc # "iterate" => f.next = None
  /\ f.next \notin f.todo

Calling(s) == s \in Seq(Frames) /\ \A i \in 1..Len(s) : FrameTyped(s[i])

\* It has set its KVar.
Tells(f) == f.pc \in {"notify", "iterate"}

\* A listener of the call below has made it.
Linked(s, i) ==
  /\ i < Len(s) => s[i].pc = "iterate"
  /\ IF i = 1 THEN s[i].by = None ELSE s[i].by # None /\ s[i].by.of = s[i-1].kvar

\* A change goes towards the KVars that others were made from, and from there to
\* those made from them; it does not come back.
Slopes(s, i, j) ==
  i < j /\ Tells(s[j]) =>
    /\ s[i].kvar # s[j].kvar
    /\ s[j].by.kind = "reverse" => Rank[s[i].kvar] > Rank[s[j].kvar]
    /\ s[i+1].by.kind \in Downward => Rank[s[i].kvar] < Rank[s[j].kvar]

Way(s) ==
  /\ \A i \in 1..Len(s) : Linked(s, i)
  /\ \A i, j \in 1..Len(s) : Slopes(s, i, j)

LEMMA FrameFields ==
  ASSUME NEW f \in Frames
  PROVE  /\ f.pc \in {"read", "assign", "notify", "iterate"} /\ f.kvar \in KVars
         /\ f.by \in Listeners \cup {None} /\ f.old \in AnyValue /\ f.new \in AnyValue
         /\ f.next \in Listeners \cup {None} /\ f.todo \in SUBSET Listeners
         /\ f = [pc |-> f.pc, kvar |-> f.kvar, by |-> f.by, old |-> f.old, new |-> f.new,
                 next |-> f.next, todo |-> f.todo]
BY DEF Frames

\* The call below another, and the listener that made the other.
LEMMA MadeBy ==
  ASSUME Family, NEW s, Calling(s), Way(s), NEW i \in 1..Len(s), i > 1
  PROVE  /\ i - 1 \in 1..Len(s) /\ s[i-1].pc = "iterate" /\ Tells(s[i-1])
         /\ s[i].by \in Listeners /\ s[i].by.kind \in {"map", "forward", "reverse"}
         /\ s[i].by.of = s[i-1].kvar /\ s[i].by.to = s[i].kvar
<1>1. Len(s) \in Nat /\ i - 1 \in 1..Len(s) /\ i - 1 < Len(s)
  BY DEF Calling
<1>2. Linked(s, i) /\ Linked(s, i - 1)
  BY <1>1 DEF Way
<1>3. s[i-1].pc = "iterate"
  BY <1>1, <1>2 DEF Linked
<1>4. s[i].by # None /\ s[i].by.of = s[i-1].kvar
  BY <1>2 DEF Linked
<1>5. s[i] \in Frames /\ FrameTyped(s[i])
  BY DEF Calling
<1>6. s[i].by \in Listeners /\ s[i].by.kind # "tell" /\ s[i].by.to = s[i].kvar
  BY <1>4, <1>5, FrameFields DEF FrameTyped
<1> QED BY <1>1, <1>3, <1>4, <1>6, TheListeners DEF Tells

\* A listener that leads to a KVar on the stack answers the one that made the call
\* it is called in.
LEMMA Answer ==
  ASSUME Family, NEW s, Calling(s), Way(s), NEW n \in 1..Len(s), Tells(s[n]),
         NEW l \in Listeners, l.kind # "tell", l.of = s[n].kvar,
         NEW i \in 1..n, s[i].kvar = l.to
  PROVE  /\ n > 1 /\ i = n - 1 /\ s[n].by \in Listeners /\ Edge(s[n].by) = Edge(l)
         /\ l.kind \in Both /\ s[n].by.kind \in Both
<1>1. Len(s) \in Nat /\ i < n /\ n > 1 /\ i \in 1..Len(s) /\ i + 1 \in 1..Len(s) /\ i + 1 > 1
      /\ n - 1 \in 1..Len(s)
  BY EndsOfLinks DEF Calling
<1>2. /\ s[n].by \in Listeners /\ s[n].by.kind \in {"map", "forward", "reverse"}
      /\ s[n].by.of = s[n-1].kvar /\ s[n].by.to = s[n].kvar
  BY <1>1, MadeBy
<1>3. Slopes(s, i, n) /\ Slopes(s, i + 1, n) /\ Slopes(s, i, n - 1)
  BY <1>1 DEF Way
<1>4. l.kind \in {"map", "forward", "reverse"}
  BY TheListeners
<1>5. CASE l.kind \in Downward
  <2> DEFINE r == s[i+1].by
  <2>1. /\ r \in Listeners /\ r.kind \in {"map", "forward", "reverse"}
        /\ r.of = s[i].kvar /\ r.to = s[i+1].kvar
    <3>1. i + 1 - 1 = i
      OBVIOUS
    <3> QED BY <1>1, <3>1, MadeBy
  <2>2. Rank[l.of] < Rank[l.to] /\ Rank[l.of] \in Nat /\ Rank[l.to] \in Nat
    BY <1>5, EndsOfLinks
  <2>3. r.kind = "reverse"
    <3>1. r.kind \in Downward => Rank[s[i].kvar] < Rank[s[n].kvar]
      BY <1>1, <1>3 DEF Slopes
    <3>2. r.kind \notin Downward
      BY <2>2, <3>1
    <3> HIDE DEF r
    <3> QED BY <2>1, <3>2 DEF Downward
  <2> HIDE DEF r
  <2>4. Forth(r) = l
    <3>1. Forth(r) \in Down /\ Forth(r).to = l.to /\ l \in Down
      BY <1>5, <2>1, <2>3, TwoWays, TheListeners
    <3> QED BY <3>1 DEF Family
  <2>5. r.to = l.of
    BY <2>1, <2>3, <2>4, TwoWays
  <2>6. i + 1 = n
    <3>1. s[i+1].kvar = s[n].kvar
      BY <2>1, <2>5
    <3> QED BY <1>1, <1>3, <3>1 DEF Slopes
  <2>7. i = n - 1 /\ s[n].by = r
    BY <2>6 DEF r
  <2>8. Edge(r) = Forth(r) /\ Edge(l) = l /\ l.kind = "forward"
    BY <1>5, <2>1, <2>3, <2>4, TwoWays, TheListeners
  <2> QED BY <1>1, <1>2, <2>3, <2>4, <2>7, <2>8 DEF Both
<1>6. CASE l.kind = "reverse"
  <2> DEFINE b == s[n].by
  <2>1. Rank[l.of] > Rank[l.to] /\ Rank[l.of] \in Nat /\ Rank[l.to] \in Nat
    BY <1>6, EndsOfLinks
  <2>2. b.kind \in Downward
    <3>1. b.kind = "reverse" => Rank[s[i].kvar] > Rank[s[n].kvar]
      BY <1>1, <1>3 DEF Slopes
    <3> QED BY <1>2, <2>1, <3>1 DEF Downward
  <2> HIDE DEF b
  <2>3. b = Forth(l)
    <3>1. b \in Listeners /\ b.to = s[n].kvar
      BY <1>2 DEF b
    <3>2. Forth(l) \in Down /\ Forth(l).to = b.to /\ b \in Down
      BY <1>6, <2>2, <3>1, TwoWays, TheListeners
    <3> QED BY <3>2 DEF Family
  <2>4. b.of = l.to /\ b.kind = "forward" /\ Edge(l) = b /\ Edge(b) = b
    BY <1>6, <2>3, TwoWays DEF Edge
  <2>5. s[i].kvar = s[n-1].kvar
    BY <1>2, <2>4 DEF b
  <2>6. i = n - 1
    <3>1. i < n - 1 => Tells(s[n-1])
      BY <1>1, MadeBy
    <3> QED BY <1>1, <1>3, <2>5, <3>1 DEF Slopes
  <2> QED BY <1>1, <1>2, <1>6, <2>4, <2>6 DEF Both, b
<1> QED BY <1>4, <1>5, <1>6 DEF Downward

\* One that leads to a KVar not on the stack leads on the same way.
LEMMA LeadsOn ==
  ASSUME Family, NEW s, Calling(s), Way(s), NEW n \in 1..Len(s), Tells(s[n]),
         NEW l \in Listeners, l.kind # "tell", l.of = s[n].kvar,
         \A i \in 1..n : s[i].kvar # l.to,
         NEW i \in 1..n
  PROVE  /\ l.kind = "reverse" => Rank[s[i].kvar] > Rank[l.to]
         /\ (IF i = n THEN l ELSE s[i+1].by).kind \in Downward => Rank[s[i].kvar] < Rank[l.to]
<1>1. /\ l.kind \in Downward => Rank[l.of] < Rank[l.to]
      /\ l.kind = "reverse" => Rank[l.of] > Rank[l.to]
      /\ Rank[l.of] \in Nat /\ Rank[l.to] \in Nat
      /\ l.kind \in Downward \/ l.kind = "reverse"
  BY EndsOfLinks, TheListeners DEF Downward
<1>2. CASE i = n
  BY <1>1, <1>2
<1>3. CASE i # n
  <2>1. Len(s) \in Nat /\ i < n /\ n > 1 /\ i \in 1..Len(s) /\ n - 1 \in 1..n
    BY <1>3 DEF Calling
  <2>2. /\ s[n].by \in Listeners /\ s[n].by.kind \in {"map", "forward", "reverse"}
        /\ s[n].by.of = s[n-1].kvar /\ s[n].by.to = s[n].kvar
    BY <2>1, MadeBy
  <2>3. /\ s[n].by.kind = "reverse" => Rank[s[i].kvar] > Rank[l.of]
        /\ s[i+1].by.kind \in Downward => Rank[s[i].kvar] < Rank[l.of]
    <3>1. Slopes(s, i, n)
      BY <2>1 DEF Way
    <3> QED BY <2>1, <3>1 DEF Slopes
  <2>4. Rank[s[i].kvar] \in Nat
    <3>1. s[i].kvar \in KVars
      BY <2>1, FrameFields DEF Calling
    <3> QED BY <3>1, LinksRise
  <2>5. CASE l.kind \in Downward
    <3>1. l.kind # "reverse"
      BY <2>5 DEF Downward
    <3> QED BY <1>1, <1>3, <2>3, <2>4, <2>5, <3>1
  <2>6. CASE l.kind = "reverse"
    <3>1. s[n].by.kind = "reverse"
      <4>1. ASSUME s[n].by.kind \in Downward PROVE FALSE
        <5>1. Forth(l) \in Down /\ Forth(l).to = s[n].by.to /\ s[n].by \in Down
          BY <2>2, <2>6, <4>1, TwoWays, TheListeners
        <5>2. Forth(l) = s[n].by
          BY <5>1 DEF Family
        <5>3. l.to = s[n-1].kvar
          BY <2>2, <2>6, <5>2, TwoWays
        <5> QED BY <2>1, <5>3
      <4> QED BY <2>2, <4>1 DEF Downward
    <3>2. Rank[s[i].kvar] > Rank[l.of]
      BY <2>3, <3>1
    <3> QED BY <1>1, <1>3, <2>3, <2>4, <2>6, <3>2
  <2> QED BY <1>1, <2>5, <2>6
<1> QED BY <1>2, <1>3

LEMMA WayBelow ==
  ASSUME NEW s, Calling(s), Way(s), s # <<>>, NEW r, Calling(r),
         Len(r) = Len(s) - 1, \A i \in 1..Len(r) : r[i] = s[i]
  PROVE  Way(r)
<1>1. Len(s) \in Nat /\ Len(r) \in Nat /\ \A i \in 1..Len(r) : i \in 1..Len(s) /\ i < Len(s)
  BY DEF Calling
<1>2. ASSUME NEW i \in 1..Len(r) PROVE Linked(r, i)
  <2>1. Linked(s, i) /\ r[i] = s[i] /\ i < Len(s)
    BY <1>1, <1>2 DEF Way
  <2>2. i # 1 => r[i-1] = s[i-1]
    BY <1>1, <1>2
  <2> QED BY <2>1, <2>2 DEF Linked
<1>3. ASSUME NEW i \in 1..Len(r), NEW j \in 1..Len(r) PROVE Slopes(r, i, j)
  <2>1. Slopes(s, i, j) /\ r[i] = s[i] /\ r[j] = s[j]
    BY <1>1, <1>3 DEF Way
  <2>2. i < j => r[i+1] = s[i+1]
    BY <1>1, <1>3
  <2> QED BY <2>1, <2>2 DEF Slopes
<1> QED BY <1>2, <1>3 DEF Way

\* The call on top goes on in c.
LEMMA WayOver ==
  ASSUME Family, NEW s, Calling(s), Way(s), NEW n, n = Len(s), s # <<>>,
         NEW r, Calling(r), Len(r) = n, \A i \in 1..(n - 1) : r[i] = s[i],
         NEW c, c = r[n], c.kvar = s[n].kvar, c.by = s[n].by,
         Tells(c) => Tells(s[n]) \/ \A i \in 1..(n - 1) : s[i].kvar # c.kvar
  PROVE  Way(r)
<1>1. n \in Nat \ {0} /\ Len(s) = n /\ n \in 1..Len(s)
  BY EmptySeq DEF Calling
<1>2. ASSUME NEW i \in 1..n PROVE r[i].kvar = s[i].kvar /\ r[i].by = s[i].by /\ (i < n => r[i] = s[i])
  BY <1>1, <1>2
<1>3. ASSUME NEW i \in 1..n PROVE Linked(r, i)
  <2>1. Linked(s, i)
    BY <1>1 DEF Way
  <2>2. i # 1 => r[i-1].kvar = s[i-1].kvar
    BY <1>1, <1>2
  <2> QED BY <1>1, <1>2, <2>1, <2>2 DEF Linked
<1>4. ASSUME NEW i \in 1..n, NEW j \in 1..n, i < j, Tells(r[j])
      PROVE  /\ r[i].kvar # r[j].kvar
             /\ r[j].by.kind = "reverse" => Rank[r[i].kvar] > Rank[r[j].kvar]
             /\ r[i+1].by.kind \in Downward => Rank[r[i].kvar] < Rank[r[j].kvar]
  <2>1. Slopes(s, i, j)
    BY <1>1 DEF Way
  <2>2. r[i+1].by = s[i+1].by /\ r[i].kvar = s[i].kvar /\ r[j].kvar = s[j].kvar /\ r[j].by = s[j].by
    BY <1>1, <1>2, <1>4
  <2>3. CASE Tells(s[j])
    BY <1>4, <2>1, <2>2, <2>3 DEF Slopes
  <2>4. CASE ~Tells(s[j])
    <3>1. j = n
      BY <1>1, <1>2, <1>4, <2>4
    <3>2. n > 1 /\ n - 1 \in 1..Len(s) /\ i \in 1..(n - 1)
      BY <1>1, <1>4, <3>1
    <3>3. /\ Tells(s[n-1]) /\ s[n].by \in Listeners /\ s[n].by.kind \in {"map", "forward", "reverse"}
          /\ s[n].by.of = s[n-1].kvar /\ s[n].by.to = s[n].kvar
      BY <1>1, <3>2, MadeBy
    <3>4. \A m \in 1..(n - 1) : s[m].kvar # s[n].by.to
      BY <1>4, <2>4, <3>1, <3>3
    <3>5. s[n].by.kind # "tell"
      BY <3>3
    <3> DEFINE l == s[n].by
               p == n - 1
    <3>6. /\ p \in 1..Len(s) /\ Tells(s[p]) /\ l \in Listeners /\ l.kind # "tell" /\ l.of = s[p].kvar
          /\ (\A m \in 1..p : s[m].kvar # l.to) /\ i \in 1..p
      BY <3>2, <3>3, <3>4, <3>5
    <3> HIDE DEF l, p
    <3>7. /\ l.kind = "reverse" => Rank[s[i].kvar] > Rank[l.to]
          /\ (IF i = p THEN l ELSE s[i+1].by).kind \in Downward => Rank[s[i].kvar] < Rank[l.to]
      BY <3>6, LeadsOn
    <3>8. (IF i = p THEN l ELSE s[i+1].by) = s[i+1].by
      BY <1>1, <3>2 DEF l, p
    <3>9. s[i].kvar # s[n].kvar
      BY <3>2, <3>3, <3>4
    <3> QED BY <2>2, <3>1, <3>3, <3>7, <3>8, <3>9 DEF l
  <2> QED BY <2>3, <2>4
<1>5. \A i, j \in 1..n : Slopes(r, i, j)
  BY <1>4 DEF Slopes
<1> QED BY <1>3, <1>5 DEF Way

\* The call on top makes the call d.
LEMMA WayUp ==
  ASSUME Family, NEW s, Calling(s), Way(s), NEW n, n = Len(s), s # <<>>, s[n].pc = "iterate",
         NEW r, Calling(r), Len(r) = n + 1, \A i \in 1..n : r[i] = s[i],
         NEW d, d = r[n+1], d.by \in Listeners, d.by.of = s[n].kvar,
         Tells(d) => \A i \in 1..n : s[i].kvar # d.kvar
  PROVE  Way(r)
<1>1. n \in Nat \ {0} /\ Len(s) = n /\ n \in 1..Len(s) /\ n + 1 \in 1..Len(r)
  BY EmptySeq DEF Calling
<1>2. d.by # None /\ d.by.kind # "tell" /\ d.by.to = d.kvar
  BY <1>1, TheListeners DEF Calling, FrameTyped
<1>3. ASSUME NEW i \in 1..(n + 1) PROVE Linked(r, i)
  <2>1. CASE i = n + 1
    BY <1>1, <1>2, <2>1 DEF Linked
  <2>2. CASE i # n + 1
    <3>1. Linked(s, i) /\ r[i] = s[i] /\ (i # 1 => r[i-1] = s[i-1]) /\ (i = n \/ i < n)
      BY <1>1, <1>3, <2>2 DEF Way
    <3> QED BY <1>1, <3>1 DEF Linked
  <2> QED BY <2>1, <2>2
<1>4. ASSUME NEW i \in 1..(n + 1), NEW j \in 1..(n + 1) PROVE Slopes(r, i, j)
  <2>1. CASE j # n + 1
    <3>1. i < j => /\ Slopes(s, i, j) /\ r[i] = s[i] /\ r[j] = s[j] /\ r[i+1] = s[i+1]
      BY <1>1, <1>4, <2>1 DEF Way
    <3> QED BY <3>1 DEF Slopes
  <2>2. CASE j = n + 1
    <3>1. SUFFICES ASSUME i < j, Tells(d)
                   PROVE  /\ r[i].kvar # d.kvar
                          /\ d.by.kind = "reverse" => Rank[r[i].kvar] > Rank[d.kvar]
                          /\ r[i+1].by.kind \in Downward => Rank[r[i].kvar] < Rank[d.kvar]
      BY <2>2 DEF Slopes
    <3> DEFINE l == d.by
    <3>2. i \in 1..n /\ r[i] = s[i]
      BY <1>1, <1>4, <2>2, <3>1
    <3>3. Tells(s[n]) /\ l \in Listeners /\ l.kind # "tell" /\ l.of = s[n].kvar
          /\ \A m \in 1..n : s[m].kvar # l.to
      BY <1>2, <3>1 DEF Tells
    <3>4. l.to = d.kvar
      BY <1>2
    <3>5. (IF i = n THEN l ELSE s[i+1].by) = r[i+1].by
      BY <1>1, <3>2
    <3> HIDE DEF l
    <3>6. /\ l.kind = "reverse" => Rank[s[i].kvar] > Rank[l.to]
          /\ (IF i = n THEN l ELSE s[i+1].by).kind \in Downward => Rank[s[i].kvar] < Rank[l.to]
      BY <1>1, <3>2, <3>3, LeadsOn
    <3>7. s[i].kvar # d.kvar
      BY <3>1, <3>2
    <3> QED BY <3>2, <3>4, <3>5, <3>6, <3>7 DEF l
  <2> QED BY <2>1, <2>2
<1> QED BY <1>3, <1>4 DEF Way

-----------------------------------------------------------------------------
(***************************************************************************)
(* How a step changes the calls of a thread.                               *)
(***************************************************************************)
LEMMA TopOfStack ==
  ASSUME NEW S, NEW s \in Seq(S), s # <<>>
  PROVE  /\ Last(s) \in S /\ Last(s) = s[Len(s)] /\ Len(s) \in Nat \ {0}
         /\ Front(s) \in Seq(S) /\ Len(Front(s)) = Len(s) - 1
         /\ \A i \in 1..(Len(s) - 1) : Front(s)[i] = s[i]
<1>1. Len(s) \in Nat \ {0} /\ DOMAIN s = 1..Len(s)
  BY EmptySeq
<1>2. Last(s) \in S /\ Last(s) = s[Len(s)]
  BY <1>1 DEF Last
<1>3. Front(s) = SubSeq(s, 1, Len(s) - 1)
  BY DEF Front
<1>4. SubSeq(s, 1, Len(s) - 1) \in Seq(S) /\ Len(SubSeq(s, 1, Len(s) - 1)) = Len(s) - 1
  BY <1>1
<1>5. \A i \in 1..(Len(s) - 1) : SubSeq(s, 1, Len(s) - 1)[i] = s[i]
  BY <1>1
<1>6. QED
  BY <1>1, <1>2, <1>3, <1>4, <1>5

LEMMA NewTop ==
  ASSUME NEW S, NEW s \in Seq(S), s # <<>>, NEW c \in S
  PROVE  /\ Append(Front(s), c) \in Seq(S) /\ Len(Append(Front(s), c)) = Len(s)
         /\ Append(Front(s), c)[Len(s)] = c
         /\ \A i \in 1..(Len(s) - 1) : Append(Front(s), c)[i] = s[i]
<1> DEFINE f == Front(s)
<1>1. /\ Len(s) \in Nat \ {0} /\ f \in Seq(S) /\ Len(f) = Len(s) - 1
      /\ \A i \in 1..(Len(s) - 1) : f[i] = s[i]
  BY TopOfStack
<1> HIDE DEF f
<1>2. /\ Append(f, c) \in Seq(S) /\ Len(Append(f, c)) = Len(s) /\ Append(f, c)[Len(s)] = c
      /\ \A i \in 1..(Len(s) - 1) : Append(f, c)[i] = f[i]
  BY <1>1
<1> QED BY <1>1, <1>2 DEF f

\* c in the place of the call on top, and d on top of that.
Raised(s, c, d) == Append(Front(s), c) \o <<d>>

IsRaised(r, s, c, d) ==
  /\ r \in Seq(Frames) /\ Len(r) = Len(s) + 1
  /\ r[Len(s)] = c /\ r[Len(s) + 1] = d
  /\ \A i \in 1..(Len(s) - 1) : r[i] = s[i]

LEMMA TwoOnTop ==
  ASSUME NEW s \in Seq(Frames), s # <<>>, NEW c \in Frames, NEW d \in Frames
  PROVE  IsRaised(Raised(s, c, d), s, c, d)
<1> DEFINE f == Append(Front(s), c)
<1>1. /\ Len(s) \in Nat \ {0} /\ f \in Seq(Frames) /\ Len(f) = Len(s)
      /\ f[Len(s)] = c /\ \A i \in 1..(Len(s) - 1) : f[i] = s[i]
  BY TopOfStack, NewTop
<1> HIDE DEF f
<1>2. /\ f \o <<d>> \in Seq(Frames) /\ Len(f \o <<d>>) = Len(s) + 1 /\ (f \o <<d>>)[Len(s) + 1] = d
      /\ \A i \in 1..Len(s) : (f \o <<d>>)[i] = f[i]
  BY <1>1
<1>3. Len(s) \in 1..Len(s) /\ \A i \in 1..(Len(s) - 1) : i \in 1..Len(s)
  BY <1>1
<1> QED BY <1>1, <1>2, <1>3 DEF f, Raised, IsRaised

Depth(t) == Len(stack[t])
OthersStay(t) ==
  stack' \in [Threads -> Seq(Frames)] /\ \A u \in Threads \ {t} : stack'[u] = stack[u]
Beneath(t) == \A i \in 1..(Depth(t) - 1) : stack'[t][i] = stack[t][i]

\* The call on top becomes c; makes the call d; returns.
Replaced(t, c) ==
  /\ OthersStay(t) /\ Beneath(t)
  /\ Len(stack'[t]) = Depth(t) /\ stack'[t][Depth(t)] = c
Grown(t, c, d) ==
  /\ OthersStay(t) /\ Beneath(t)
  /\ Len(stack'[t]) = Depth(t) + 1
  /\ stack'[t][Depth(t)] = c /\ stack'[t][Depth(t) + 1] = d
Shrunk(t) ==
  OthersStay(t) /\ Beneath(t) /\ Len(stack'[t]) = Depth(t) - 1

Stacks == stack \in [Threads -> Seq(Frames)]

LEMMA Becomes ==
  ASSUME Stacks, NEW t \in Threads, stack[t] # <<>>, NEW c \in Frames, Become(t, c)
  PROVE  Replaced(t, c)
<1>1. stack[t] \in Seq(Frames)
  BY DEF Stacks
<1>2. stack'[t] = Append(Front(stack[t]), c) /\ OthersStay(t)
  BY <1>1, NewTop DEF Stacks, Become, OthersStay
<1> QED BY <1>1, <1>2, NewTop DEF Replaced, Beneath, Depth

LEMMA Returns ==
  ASSUME Stacks, NEW t \in Threads, stack[t] # <<>>, Return(t)
  PROVE  Shrunk(t)
<1>1. stack[t] \in Seq(Frames)
  BY DEF Stacks
<1>2. stack'[t] = Front(stack[t]) /\ OthersStay(t)
  BY <1>1, TopOfStack DEF Stacks, Return, OthersStay
<1> QED BY <1>1, <1>2, TopOfStack DEF Shrunk, Beneath, Depth

\* The iterator goes on to listener n.
GoneOn(f, n) == [f EXCEPT !.next = n, !.todo = @ \ {n}]
GoesOnTo(t, n) == GoneOn(Top(t), n)

LEMMA Continues ==
  ASSUME Stacks, NEW t \in Threads, stack[t] # <<>>, \A n \in Nexts(t) : GoesOnTo(t, n) \in Frames,
         Continue(t)
  PROVE  \E n \in Nexts(t) : Replaced(t, GoesOnTo(t, n))
<1>1. stack[t] \in Seq(Frames)
  BY DEF Stacks
<1>2. PICK n \in Nexts(t) :
        stack' = [stack EXCEPT ![t] = Append(Front(stack[t]), GoesOnTo(t, n)) \o <<>>]
  BY ONLY Continue(t), Zenon DEF Continue, Make, GoesOnTo, GoneOn
<1>3. /\ Append(Front(stack[t]), GoesOnTo(t, n)) \in Seq(Frames)
      /\ \A s \in Seq(Frames) : s \o <<>> = s
  BY <1>1, NewTop
<1>4. Become(t, GoesOnTo(t, n))
  BY <1>2, <1>3 DEF Become, Stacks
<1> QED BY <1>4, Becomes

LEMMA Makes ==
  ASSUME Stacks, NEW t \in Threads, stack[t] # <<>>, \A n \in Nexts(t) : GoesOnTo(t, n) \in Frames,
         NEW d \in Frames, Make(t, <<d>>)
  PROVE  \E n \in Nexts(t) : Grown(t, GoesOnTo(t, n), d)
<1>1. stack[t] \in Seq(Frames)
  BY DEF Stacks
<1>2. PICK n \in Nexts(t) :
        stack' = [stack EXCEPT ![t] = Append(Front(stack[t]), GoesOnTo(t, n)) \o <<d>>]
  BY ONLY Make(t, <<d>>), Zenon DEF Make, GoesOnTo, GoneOn
<1> DEFINE c == GoesOnTo(t, n)
<1>3. c \in Frames
  OBVIOUS
<1>4. stack' = [stack EXCEPT ![t] = Raised(stack[t], c, d)]
  BY <1>2 DEF Raised
<1> HIDE DEF c
<1>5. IsRaised(Raised(stack[t], c, d), stack[t], c, d)
  BY <1>1, <1>3, TwoOnTop
<1>6. stack'[t] = Raised(stack[t], c, d) /\ OthersStay(t)
  BY <1>1, <1>4, <1>5 DEF Stacks, OthersStay, IsRaised
<1>7. Grown(t, c, d)
  BY <1>5, <1>6 DEF Grown, Beneath, Depth, IsRaised
<1> QED BY <1>7 DEF c

-----------------------------------------------------------------------------
(***************************************************************************)
(* What the steps of a thread do, one by one.                              *)
(***************************************************************************)
Typed ==
  /\ DOMAIN value = KVars /\ \A k \in KVars : value[k] \in ValuesOf[k]
  /\ closeReason \in [KVars -> {"open", "called", "source", "mapper"}]
  /\ listening \subseteq Listeners
  /\ DOMAIN told = Tellers /\ \A l \in Tellers : told[l] \in ValuesOf[l.of]
  /\ Stacks /\ \A t \in Threads : Calling(stack[t])
  /\ sets \in 0..MaxSets

\* The listeners a call has still to call; the one a call to come is to answer.
Waiting(f) ==
  CASE f.pc = "notify" -> {l \in Listeners : l.of = f.kvar}
    [] f.pc = "iterate" -> ({f.next} \cup f.todo) \ {None}
    [] OTHER -> {f.by} \ {None}

\* c goes on where the call on top of the stack of thread t is.
Onward(t, c) ==
  /\ c \in Frames /\ FrameTyped(c)
  /\ c.kvar = Top(t).kvar /\ c.by = Top(t).by /\ c.new = Top(t).new

\* The iterator of thread t goes on, in c.
Iterated(t, c) ==
  /\ Onward(t, c) /\ c.pc = "iterate" /\ c.old = Top(t).old
  /\ Waiting(c) = Waiting(Top(t)) \ {Called(t)}
  /\ c.next # None => c.next \in listening
  /\ c.next = None => c.todo \cap listening = {}

LEMMA TopTyped ==
  ASSUME Typed, NEW t \in Threads, stack[t] # <<>>
  PROVE  /\ Stacks /\ Calling(stack[t]) /\ Depth(t) \in Nat \ {0}
         /\ Top(t) = stack[t][Depth(t)] /\ Top(t) \in Frames /\ FrameTyped(Top(t))
         /\ Depth(t) \in 1..Depth(t)
<1>1. Stacks /\ Calling(stack[t]) /\ stack[t] \in Seq(Frames)
  BY DEF Typed, Stacks
<1>2. Depth(t) \in Nat \ {0} /\ Top(t) = stack[t][Depth(t)] /\ Top(t) \in Frames
  BY <1>1, TopOfStack DEF Top, Depth
<1>3. Depth(t) \in 1..Depth(t)
  BY <1>2
<1> QED BY <1>1, <1>2, <1>3 DEF Calling, Depth

LEMMA ValuesAre ==
  ASSUME NEW k \in KVars, NEW v \in ValuesOf[k]
  PROVE  v \in AnyValue
BY DEF AnyValue

\* A call that has read the old value; one that tells; one that begins to iterate.
HasRead(f, v) == [f EXCEPT !.pc = "assign", !.old = v]
Begun(f, n, r) == [f EXCEPT !.pc = "iterate", !.next = n, !.todo = r]

LEMMA HasReadFields ==
  ASSUME NEW f \in Frames, NEW v \in AnyValue
  PROVE  /\ HasRead(f, v) \in Frames
         /\ HasRead(f, v).pc = "assign"
         /\ HasRead(f, v).kvar = f.kvar
         /\ HasRead(f, v).by = f.by
         /\ HasRead(f, v).old = v
         /\ HasRead(f, v).new = f.new
         /\ HasRead(f, v).next = f.next
         /\ HasRead(f, v).todo = f.todo
BY DEF Frames, HasRead

LEMMA BegunFields ==
  ASSUME NEW f \in Frames, NEW n \in Listeners \cup {None}, NEW r \in SUBSET Listeners
  PROVE  /\ Begun(f, n, r) \in Frames
         /\ Begun(f, n, r).pc = "iterate"
         /\ Begun(f, n, r).kvar = f.kvar
         /\ Begun(f, n, r).by = f.by
         /\ Begun(f, n, r).old = f.old
         /\ Begun(f, n, r).new = f.new
         /\ Begun(f, n, r).next = n
         /\ Begun(f, n, r).todo = r
BY DEF Frames, Begun

LEMMA GoneOnFields ==
  ASSUME NEW f \in Frames, NEW n \in Listeners \cup {None}
  PROVE  /\ GoneOn(f, n) \in Frames
         /\ GoneOn(f, n).pc = f.pc
         /\ GoneOn(f, n).kvar = f.kvar
         /\ GoneOn(f, n).by = f.by
         /\ GoneOn(f, n).old = f.old
         /\ GoneOn(f, n).new = f.new
         /\ GoneOn(f, n).next = n
         /\ GoneOn(f, n).todo = f.todo \ {n}
BY DEF Frames, GoneOn

LEMMA ReadDoes ==
  ASSUME Typed, NEW t \in Threads, Read(t)
  PROVE  /\ stack[t] # <<>> /\ Top(t).pc = "read"
         /\ \E c : /\ Onward(t, c) /\ Replaced(t, c)
                   /\ c.pc = "assign" /\ c.old = value[Top(t).kvar]
         /\ UNCHANGED <<value, closeReason, listening, told, sets>>
<1> DEFINE f == Top(t)
           c == HasRead(Top(t), value[Top(t).kvar])
<1>1. stack[t] # <<>> /\ Top(t).pc = "read" /\ Become(t, c)
  BY DEF Read, At, HasRead
<1>2. f \in Frames /\ FrameTyped(f) /\ Stacks
  BY <1>1, TopTyped
<1>3. f.kvar \in KVars /\ value[f.kvar] \in ValuesOf[f.kvar] /\ value[f.kvar] \in AnyValue
  BY <1>2, FrameFields, ValuesAre DEF Typed
<1>4. /\ c \in Frames /\ c.pc = "assign" /\ c.kvar = f.kvar /\ c.by = f.by
      /\ c.old = value[f.kvar] /\ c.new = f.new /\ c.next = f.next /\ c.todo = f.todo
  BY <1>2, <1>3, HasReadFields
<1> HIDE DEF c
<1>6. Onward(t, c) /\ c.pc = "assign" /\ c.old = value[Top(t).kvar]
  <2>1. c.next = None
    BY <1>1, <1>2, <1>4 DEF FrameTyped
  <2> QED BY <1>2, <1>3, <1>4, <2>1 DEF Onward, FrameTyped
<1>7. Replaced(t, c)
  BY <1>1, <1>2, <1>4, Becomes
<1> QED BY <1>1, <1>6, <1>7 DEF Read

LEMMA AssignDoes ==
  ASSUME Typed, NEW t \in Threads, Assign(t)
  PROVE  /\ stack[t] # <<>> /\ Top(t).pc = "assign"
         /\ value' = [value EXCEPT ![Top(t).kvar] = Top(t).new]
         /\ \/ Top(t).old = Top(t).new /\ Shrunk(t)
            \/ /\ Top(t).old # Top(t).new /\ ~IsClosed(Top(t).kvar)
               /\ \E c : /\ Onward(t, c) /\ Replaced(t, c)
                         /\ c.pc = "notify" /\ c.old = Top(t).old /\ c.next = None
         /\ UNCHANGED <<closeReason, listening, told, sets>>
<1> DEFINE f == Top(t)
           c == [Top(t) EXCEPT !.pc = "notify"]
<1>1. /\ stack[t] # <<>> /\ Top(t).pc = "assign"
      /\ value' = [value EXCEPT ![Top(t).kvar] = Top(t).new]
      /\ UNCHANGED <<closeReason, listening, told, sets>>
      /\ \/ Top(t).old = Top(t).new /\ Return(t)
         \/ Top(t).old # Top(t).new /\ ~IsClosed(Top(t).kvar) /\ Become(t, c)
  BY DEF Assign, At, Differ
<1>2. f \in Frames /\ FrameTyped(f) /\ Stacks
  BY <1>1, TopTyped
<1>3. c = [pc |-> "notify", kvar |-> f.kvar, by |-> f.by, old |-> f.old, new |-> f.new,
           next |-> f.next, todo |-> f.todo]
  BY <1>2, FrameFields
<1>4. c \in Frames
  BY <1>2, <1>3, FrameFields DEF Frames
<1>5. Onward(t, c) /\ c.pc = "notify" /\ c.old = f.old /\ c.next = None
  <2>1. f.next = None
    BY <1>1, <1>2 DEF FrameTyped
  <2> QED BY <1>2, <1>3, <1>4, <2>1 DEF Onward, FrameTyped
<1> HIDE DEF c
<1> QED BY <1>1, <1>2, <1>4, <1>5, Becomes, Returns

LEMMA NotifyDoes ==
  ASSUME Family, Typed, NEW t \in Threads, Notify(t)
  PROVE  /\ stack[t] # <<>> /\ Top(t).pc = "notify"
         /\ \/ ListenersOf(Top(t).kvar) = {} /\ Shrunk(t)
            \/ \E c : /\ Onward(t, c) /\ Replaced(t, c) /\ c.pc = "iterate" /\ c.old = Top(t).old
                      /\ Waiting(c) = ListenersOf(Top(t).kvar)
                      /\ c.next \in listening
         /\ UNCHANGED <<value, closeReason, listening, told, sets>>
<1> DEFINE f == Top(t)
<1>1. /\ stack[t] # <<>> /\ Top(t).pc = "notify"
      /\ UNCHANGED <<value, closeReason, listening, told, sets>>
  BY DEF Notify, At
<1>2. f \in Frames /\ FrameTyped(f) /\ Stacks /\ f.kvar \in KVars
  BY <1>1, TopTyped, FrameFields
<1>3. CASE ListenersOf(f.kvar) = {}
  <2>1. Shrunk(t)
    BY <1>1, <1>2, <1>3, Returns DEF Notify
  <2> QED BY <1>1, <1>3, <2>1
<1>4. CASE ListenersOf(f.kvar) # {}
  <2>1. PICK l \in ListenersOf(f.kvar) :
          Become(t, [Top(t) EXCEPT !.pc = "iterate", !.next = l,
                                   !.todo = ListenersOf(Top(t).kvar) \ {l}])
    BY <1>4 DEF Notify
  <2> DEFINE rest == ListenersOf(f.kvar) \ {l}
             c == Begun(f, l, rest)
  <2>2. /\ l \in Listeners /\ l.of = f.kvar /\ rest \in SUBSET Listeners /\ l \in listening
        /\ \A m \in rest : m.of = f.kvar
        /\ ({l} \cup rest) \ {None} = ListenersOf(f.kvar) /\ l # None /\ l \notin rest
    <3>1. ListenersOf(f.kvar) \subseteq Listeners /\ \A m \in ListenersOf(f.kvar) : m.of = f.kvar
      BY DEF Typed, ListenersOf
    <3>2. None \notin ListenersOf(f.kvar)
      BY <3>1, TheListeners
    <3> QED BY <3>1, <3>2 DEF ListenersOf
  <2> HIDE DEF rest
  <2>3. /\ c \in Frames /\ c.pc = "iterate" /\ c.kvar = f.kvar /\ c.by = f.by
        /\ c.old = f.old /\ c.new = f.new /\ c.next = l /\ c.todo = rest
    BY <1>2, <2>2, BegunFields
  <2>4. Become(t, c)
    BY <2>1 DEF rest, Begun
  <2> HIDE DEF c
  <2>5. Onward(t, c) /\ c.pc = "iterate"
    BY <1>2, <2>2, <2>3 DEF Onward, FrameTyped
  <2>6. Waiting(c) = ListenersOf(f.kvar)
    BY <2>2, <2>3 DEF Waiting
  <2>7. Replaced(t, c)
    BY <1>1, <1>2, <2>3, <2>4, Becomes
  <2> QED BY <1>1, <2>2, <2>3, <2>5, <2>6, <2>7
<1> QED BY <1>3, <1>4

\* What may be closed while a change is on its way: KVals.
KValsClose ==
  /\ \A k \in KVars : IsClosed(k) => IsClosed(k)'
  /\ \A k \in KVars : IsClosed(k)' /\ ~IsClosed(k) => k \in KVals
  /\ closeReason' \in [KVars -> {"open", "called", "source", "mapper"}]
  /\ listening' \subseteq listening

LEMMA NothingCloses ==
  ASSUME Typed, UNCHANGED <<closeReason, listening>>
  PROVE  KValsClose
BY DEF Typed, KValsClose, IsClosed

LEMMA Closing ==
  ASSUME Family, Typed, NEW k \in KVars, NEW reason \in {"called", "mapper"}, Close(k, reason)
  PROVE  /\ \A m \in KVars : IsClosed(m) => IsClosed(m)'
         /\ closeReason' \in [KVars -> {"open", "called", "source", "mapper"}]
         /\ listening' \subseteq listening
         /\ k \in KVals => KValsClose /\ IsClosed(k)'
<1>1. CASE IsClosed(k)
  <2>1. UNCHANGED <<closeReason, listening>>
    BY <1>1 DEF Close
  <2> QED BY <1>1, <2>1, NothingCloses DEF Typed, IsClosed
<1>2. CASE ~IsClosed(k)
  <2>1. /\ closeReason' = [m \in KVars |->
              IF m \in ClosedWith[k] /\ ~IsClosed(m)
              THEN IF m = k THEN reason ELSE "source"
              ELSE closeReason[m]]
        /\ listening' = {l \in listening : ~Removed(l, ClosedWith[k])}
    BY <1>2 DEF Close
  <2>2. \A m \in KVars : IsClosed(m)' <=> IsClosed(m) \/ m \in ClosedWith[k]
    BY <2>1 DEF IsClosed
  <2>3. closeReason' \in [KVars -> {"open", "called", "source", "mapper"}]
    BY <2>1 DEF Typed
  <2>4. k \in ClosedWith[k]
    BY DEF ClosedWith
  <2>5. k \in KVals => ClosedWith[k] \subseteq KVals
    <3>1. SUFFICES ASSUME k \in KVals, NEW m \in ClosedWith[k] PROVE m \in KVals
      OBVIOUS
    <3>2. \A l \in Closers : l.to \in KVals
      BY TheListeners, EndsOfLinks DEF Closers, Closes
    <3>3. m = k \/ m \in Made
      BY <3>1 DEF ClosedWith
    <3> QED BY <3>1, <3>2, <3>3 DEF Made
  <2> QED BY <2>1, <2>2, <2>3, <2>4, <2>5 DEF KValsClose
<1> QED BY <1>1, <1>2

LEMMA GoneOnFits ==
  ASSUME Family, Typed, NEW t \in Threads, stack[t] # <<>>, Top(t).pc = "iterate", NEW n \in Nexts(t)
  PROVE  GoesOnTo(t, n) \in Frames /\ Iterated(t, GoesOnTo(t, n))
<1> DEFINE f == Top(t)
           c == GoneOn(f, n)
<1>1. f \in Frames /\ FrameTyped(f) /\ f.todo \in SUBSET Listeners
  BY TopTyped, FrameFields
<1>2. None \notin Listeners
  BY TheListeners
<1>3. n \in f.todo \cap listening \/ (n = None /\ f.todo \cap listening = {})
  BY DEF Nexts
<1>4. n \in Listeners \cup {None}
  BY <1>1, <1>3
<1>5. /\ c \in Frames /\ c.pc = f.pc /\ c.kvar = f.kvar /\ c.by = f.by /\ c.old = f.old
      /\ c.new = f.new /\ c.next = n /\ c.todo = f.todo \ {n}
  BY <1>1, <1>4, GoneOnFields
<1> HIDE DEF c
<1>6. FrameTyped(c)
  <2>1. \A l \in {c.next} \cup c.todo : l # None => l.of = c.kvar
    BY <1>1, <1>3, <1>5 DEF FrameTyped
  <2> QED BY <1>1, <1>5, <2>1 DEF FrameTyped
<1>7. Waiting(f) = ({f.next} \cup f.todo) \ {None} /\ Waiting(c) = ({n} \cup (f.todo \ {n})) \ {None}
  BY <1>5 DEF Waiting
<1>8. f.next \notin f.todo
  BY <1>1 DEF FrameTyped
<1>9. Waiting(c) = Waiting(f) \ {Called(t)}
  BY <1>1, <1>2, <1>3, <1>7, <1>8 DEF Called
<1>10. (c.next # None => c.next \in listening) /\ (c.next = None => c.todo \cap listening = {})
  BY <1>1, <1>2, <1>3, <1>5
<1> QED BY <1>5, <1>6, <1>9, <1>10 DEF Onward, Iterated, GoesOnTo, c

\* The listener called, by its kind.
LEMMA CalledFacts ==
  ASSUME Family, Typed, NEW t \in Threads, NEW kinds, Calls(t, kinds)
  PROVE  /\ stack[t] # <<>> /\ Top(t).pc = "iterate" /\ Called(t).kind \in kinds
         /\ Called(t) \in Listeners \cup {None} /\ (Called(t).kind = "none" <=> Called(t) = None)
         /\ Called(t) # None =>
              /\ Called(t) \in Listeners /\ Called(t).of = Top(t).kvar
              /\ Called(t) \in Waiting(Top(t))
              /\ Called(t).kind \in {"map", "forward", "reverse", "tell"}
<1>1. stack[t] # <<>> /\ Top(t).pc = "iterate" /\ Called(t).kind \in kinds
  BY DEF Calls, At
<1>2. Top(t) \in Frames /\ FrameTyped(Top(t))
  BY <1>1, TopTyped
<1>3. Called(t) \in Listeners \cup {None}
  BY <1>2, FrameFields DEF Called
<1>4. None.kind = "none" /\ (Called(t) \in Listeners => Called(t).kind # "none")
  BY TheListeners DEF None
<1>5. Called(t) # None => Called(t).of = Top(t).kvar
  BY <1>2 DEF FrameTyped, Called
<1>6. Called(t) # None => Called(t) \in Waiting(Top(t))
  BY <1>1 DEF Waiting, Called
<1> QED BY <1>1, <1>3, <1>4, <1>5, <1>6, TheListeners

LEMMA NoneLeftDoes ==
  ASSUME Family, Typed, NEW t \in Threads, NoneLeft(t)
  PROVE  /\ stack[t] # <<>> /\ Top(t).pc = "iterate" /\ Top(t).next = None
         /\ Shrunk(t)
         /\ UNCHANGED <<value, closeReason, listening, told, sets>>
<1>1. /\ Calls(t, {"none"}) /\ Return(t)
      /\ UNCHANGED <<value, closeReason, listening, told, sets>>
  BY DEF NoneLeft
<1>2. /\ stack[t] # <<>> /\ Top(t).pc = "iterate" /\ Called(t).kind \in {"none"}
      /\ (Called(t).kind = "none" <=> Called(t) = None)
  BY ONLY Family, Typed, t \in Threads, <1>1, CalledFacts
<1>3. Top(t).next = None
  BY <1>2 DEF Called
<1>4. Stacks
  BY <1>2, TopTyped
<1> QED BY <1>1, <1>2, <1>3, <1>4, Returns

LEMMA ContinueDoes ==
  ASSUME Family, Typed, NEW t \in Threads, stack[t] # <<>>, Top(t).pc = "iterate", Continue(t)
  PROVE  \E c : Iterated(t, c) /\ Replaced(t, c)
<1>1. Stacks
  BY DEF Typed
<1>2. \A n \in Nexts(t) : GoesOnTo(t, n) \in Frames /\ Iterated(t, GoesOnTo(t, n))
  BY GoneOnFits
<1>3. PICK n \in Nexts(t) : Replaced(t, GoesOnTo(t, n))
  BY <1>1, <1>2, Continues
<1> QED BY <1>2, <1>3

LEMMA MakeDoes ==
  ASSUME Family, Typed, NEW t \in Threads, stack[t] # <<>>, Top(t).pc = "iterate", NEW d \in Frames,
         Make(t, <<d>>)
  PROVE  \E c : Iterated(t, c) /\ Grown(t, c, d)
<1>1. Stacks
  BY DEF Typed
<1>2. \A n \in Nexts(t) : GoesOnTo(t, n) \in Frames /\ Iterated(t, GoesOnTo(t, n))
  BY GoneOnFits
<1>3. PICK n \in Nexts(t) : Grown(t, GoesOnTo(t, n), d)
  BY <1>1, <1>2, Makes
<1> QED BY <1>2, <1>3

LEMMA TellDoes ==
  ASSUME Family, Typed, NEW t \in Threads, Tell(t)
  PROVE  /\ stack[t] # <<>> /\ Top(t).pc = "iterate" /\ Called(t) \in Listeners
         /\ Called(t).kind = "tell" /\ Called(t).of = Top(t).kvar
         /\ told' = [told EXCEPT ![Called(t)] = Top(t).new]
         /\ \E c : Iterated(t, c) /\ Replaced(t, c)
         /\ UNCHANGED <<value, closeReason, listening, sets>>
<1>1. /\ Calls(t, {"tell"}) /\ Continue(t) /\ told' = [told EXCEPT ![Called(t)] = Top(t).new]
      /\ UNCHANGED <<value, closeReason, listening, sets>>
  BY DEF Tell, News
<1>2. /\ stack[t] # <<>> /\ Top(t).pc = "iterate" /\ Called(t).kind \in {"tell"}
      /\ Called(t) \in Listeners \cup {None} /\ (Called(t).kind = "none" <=> Called(t) = None)
      /\ Called(t) # None => Called(t).of = Top(t).kvar
  BY ONLY Family, Typed, t \in Threads, <1>1, CalledFacts
<1>3. Called(t) \in Listeners /\ Called(t).kind = "tell"
  BY <1>2
<1> QED BY <1>1, <1>2, <1>3, ContinueDoes

\* The function of a KVal throws, or the KVal or what it is mapped from is closed.
LEMMA ThrowsDoes ==
  ASSUME Family, Lenses, Typed, NEW t \in Threads, ListenerThrows(t)
  PROVE  /\ stack[t] # <<>> /\ Top(t).pc = "iterate" /\ Called(t) \in Listeners
         /\ Called(t).kind = "map" /\ Called(t).of = Top(t).kvar
         /\ Throws(Called(t), Top(t).new) \/ ~Ends(Called(t))
         /\ \E c : Iterated(t, c) /\ Replaced(t, c)
         /\ KValsClose /\ UNCHANGED <<value, told, sets>>
<1> DEFINE l == Called(t)
           f == Top(t)
<1>1. /\ Calls(t, Links \cup {"set"}) /\ Fails(l, f) /\ Continue(t) /\ Catch(l, f)
      /\ UNCHANGED <<value, told, sets>>
  BY DEF ListenerThrows, ListenerThrowsBy, Catch, CatchBy, AfterFailure
<1>2. /\ stack[t] # <<>> /\ f.pc = "iterate" /\ l.kind \in Links \cup {"set"}
      /\ l \in Listeners \cup {None} /\ (l.kind = "none" <=> l = None)
      /\ l # None => l \in Listeners /\ l.of = f.kvar /\ l.kind \in {"map", "forward", "reverse", "tell"}
  BY ONLY Family, Typed, t \in Threads, <1>1, CalledFacts
<1>3. l \in Listeners /\ l.of = f.kvar /\ l.kind \in {"map", "forward", "reverse"}
  BY <1>2 DEF Links
<1>4. f \in Frames /\ FrameTyped(f) /\ f.new \in ValuesOf[l.of] /\ f.by \in Listeners \cup {None}
  BY <1>2, <1>3, TopTyped, FrameFields DEF FrameTyped
<1>5. l.kind \notin Both
  <2>1. l.kind \in Both => ~Throws(l, f.new)
    BY <1>3, <1>4 DEF Lenses
  <2>2. l.kind # "map" => Throws(l, f.new)
    BY <1>1 DEF Fails
  <2> QED BY <2>1, <2>2 DEF Both
<1>6. l.kind = "map"
  BY <1>3, <1>5 DEF Both
<1>7. Throws(l, f.new) \/ ~Ends(l)
  BY <1>1, <1>6 DEF Fails, Ends, Links
<1>8. KValsClose
  <2>1. CASE f.by.kind = "map"
    <3>1. f.by \in Listeners
      BY <1>4, <2>1 DEF None
    <3>2. f.kvar \in KVals /\ f.kvar \in KVars
      <4>1. f.by.to = f.kvar /\ f.by # None
        BY <1>4, <3>1, TheListeners DEF FrameTyped
      <4> QED BY <1>4, <2>1, <3>1, <4>1, EndsOfLinks, FrameFields
    <3>3. Close(f.kvar, "mapper")
      BY <1>1, <1>6, <2>1 DEF Catch, CatchBy
    <3> QED BY <3>2, <3>3, Closing
  <2>2. CASE f.by.kind # "map"
    BY <1>1, <1>6, <2>2, NothingCloses DEF Catch, CatchBy
  <2> QED BY <2>1, <2>2
<1> QED BY <1>1, <1>2, <1>3, <1>6, <1>7, <1>8, ContinueDoes

LEMMA NewCall ==
  ASSUME NEW pc \in {"read", "notify"}, NEW k \in KVars, NEW by \in Listeners \cup {None},
         NEW old \in ValuesOf[k], NEW new \in ValuesOf[k],
         by # None => by.kind # "tell" /\ by.to = k, \A l \in Listeners : l # None
  PROVE  /\ Call(pc, k, by, old, new) \in Frames /\ FrameTyped(Call(pc, k, by, old, new))
         /\ Call(pc, k, by, old, new).pc = pc /\ Call(pc, k, by, old, new).kvar = k
         /\ Call(pc, k, by, old, new).by = by /\ Call(pc, k, by, old, new).old = old
         /\ Call(pc, k, by, old, new).new = new /\ Call(pc, k, by, old, new).next = None
<1> DEFINE c == Call(pc, k, by, old, new)
<1>1. c = [pc |-> pc, kvar |-> k, by |-> by, old |-> old, new |-> new, next |-> None, todo |-> {}]
  BY DEF Call
<1>2. old \in AnyValue /\ new \in AnyValue
  BY ValuesAre
<1> HIDE DEF c
<1>3. c \in Frames
  BY <1>1, <1>2 DEF Frames
<1>4. FrameTyped(c)
  BY <1>1 DEF FrameTyped
<1> QED BY <1>1, <1>3, <1>4 DEF c

\* A listener of a reversible map sets the KVar it leads to.
LEMMA SetOtherDoes ==
  ASSUME Family, Lenses, Typed, NEW t \in Threads, SetOther(t)
  PROVE  /\ stack[t] # <<>> /\ Top(t).pc = "iterate" /\ Called(t) \in Listeners
         /\ Called(t).kind \in Both /\ Called(t).of = Top(t).kvar
         /\ \E c, d :
              /\ Iterated(t, c) /\ Grown(t, c, d)
              /\ d \in Frames /\ FrameTyped(d) /\ d.pc = "read"
              /\ d.kvar = Called(t).to /\ d.by = Called(t)
              /\ d.new = Result(Called(t), value[Called(t).to], Top(t).new)
         /\ UNCHANGED <<value, closeReason, listening, told, sets>>
<1> DEFINE l == Called(t)
           f == Top(t)
           v == Result(l, value[l.to], f.new)
           d == Call("read", l.to, l, value[l.to], v)
<1>1. Calls(t, (Links \ {"map"}) \cup {"set"})
  BY DEF SetOther
<1>2. /\ stack[t] # <<>> /\ f.pc = "iterate" /\ l.kind \in (Links \ {"map"}) \cup {"set"}
      /\ l \in Listeners \cup {None} /\ (l.kind = "none" <=> l = None)
      /\ l # None => l \in Listeners /\ l.of = f.kvar /\ l.kind \in {"map", "forward", "reverse", "tell"}
  BY ONLY Family, Typed, t \in Threads, <1>1, CalledFacts
<1>3. l \in Listeners /\ l.of = f.kvar /\ l.kind \in Both
  BY <1>2 DEF Links, Both
<1>4. l.kind # "tell" /\ l.reads = l.to /\ l.to \in KVars
  BY <1>3, TheListeners DEF Both
<1>5. f.new \in ValuesOf[l.of] /\ value[l.to] \in ValuesOf[l.to]
  BY <1>2, <1>3, <1>4, TopTyped DEF FrameTyped, Typed
<1>6. v \in ValuesOf[l.to]
  BY <1>3, <1>5, ResultsOf
<1>7. d \in Frames /\ FrameTyped(d) /\ d.pc = "read" /\ d.kvar = l.to /\ d.by = l /\ d.new = v
  <2> DEFINE k == l.to
             old == value[l.to]
  <2>1. k \in KVars /\ old \in ValuesOf[k] /\ v \in ValuesOf[k] /\ l \in Listeners \cup {None}
        /\ l.to = k /\ l.kind # "tell" /\ \A m \in Listeners : m # None
    BY <1>3, <1>4, <1>5, <1>6, TheListeners
  <2> HIDE DEF v, k, old, l
  <2> QED BY ONLY <2>1, NewCall DEF k, old
<1>8. Make(t, <<d>>)
  BY <1>4 DEF SetOther
<1> HIDE DEF d
<1>9. PICK c : Iterated(t, c) /\ Grown(t, c, d)
  BY <1>2, <1>7, <1>8, MakeDoes
<1>10. UNCHANGED <<value, closeReason, listening, told, sets>>
  BY DEF SetOther
<1> QED BY <1>2, <1>3, <1>7, <1>9, <1>10

\* A KVal takes the value made of the new one of what it is mapped from.
LEMMA UpdateMappedDoes ==
  ASSUME Family, Lenses, Typed, NEW t \in Threads, UpdateMapped(t)
  PROVE  /\ stack[t] # <<>> /\ Top(t).pc = "iterate" /\ Called(t) \in Listeners
         /\ Called(t).kind = "map" /\ Called(t).of = Top(t).kvar
         /\ Ends(Called(t)) /\ ~Throws(Called(t), Top(t).new)
         /\ value' = [value EXCEPT ![Called(t).to] = Function(Called(t), Top(t).new)]
         /\ \E c :
              /\ Iterated(t, c)
              /\ \/ Replaced(t, c) /\ KValsClose /\ closeReason'[Called(t).to] # "open"
                 \/ /\ Replaced(t, c) /\ UNCHANGED <<closeReason, listening>>
                    /\ \/ ListenersOf(Called(t).to) = {}
                       \/ /\ ~Throws(Called(t), Top(t).old)
                          /\ Function(Called(t), Top(t).old) = Function(Called(t), Top(t).new)
                 \/ /\ UNCHANGED <<closeReason, listening>> /\ ~Throws(Called(t), Top(t).old)
                    /\ \E d :
                         /\ Grown(t, c, d) /\ d \in Frames /\ FrameTyped(d) /\ d.pc = "notify"
                         /\ d.kvar = Called(t).to /\ d.by = Called(t) /\ d.next = None
                         /\ d.old = Function(Called(t), Top(t).old)
                         /\ d.new = Function(Called(t), Top(t).new)
         /\ UNCHANGED <<told, sets>>
<1> DEFINE l == Called(t)
           f == Top(t)
           old == Function(l, f.old)
           new == Function(l, f.new)
           d == Call("notify", l.to, l, old, new)
<1>1. Calls(t, {"map"})
  BY DEF UpdateMapped, UpdateMappedBy
<1>2. /\ stack[t] # <<>> /\ f.pc = "iterate" /\ l.kind \in {"map"}
      /\ l \in Listeners \cup {None} /\ (l.kind = "none" <=> l = None)
      /\ l # None => l \in Listeners /\ l.of = f.kvar /\ l.kind \in {"map", "forward", "reverse", "tell"}
  BY ONLY Family, Typed, t \in Threads, <1>1, CalledFacts
<1>3. l \in Listeners /\ l.of = f.kvar /\ l.kind = "map" /\ l \in Down /\ l.to \in KVars /\ l.to \in KVals
  BY <1>2, TheListeners, EndsOfLinks DEF Downward
<1>4. /\ ~Fails(l, f) /\ value' = [value EXCEPT ![l.to] = new]
      /\ \/ ListenersOf(l.to) # {} /\ Throws(l, f.old) /\ Close(l.to, "mapper") /\ Continue(t)
         \/ /\ ListenersOf(l.to) = {} \/ ~Throws(l, f.old)
            /\ UNCHANGED <<closeReason, listening>>
            /\ \/ (ListenersOf(l.to) = {} \/ old = new) /\ Continue(t)
               \/ ListenersOf(l.to) # {} /\ old # new /\ Make(t, <<d>>)
      /\ UNCHANGED <<told, sets>>
  BY DEF UpdateMapped, UpdateMappedBy, MappedOld
<1>5. Ends(l) /\ ~Throws(l, f.new)
  BY <1>3, <1>4 DEF Fails, Ends
<1>6. f.old \in ValuesOf[l.of] /\ f.new \in ValuesOf[l.of]
  BY <1>2, <1>3, TopTyped DEF FrameTyped
<1>7. ~Throws(l, f.old) =>
         d \in Frames /\ FrameTyped(d) /\ d.pc = "notify" /\ d.kvar = l.to /\ d.by = l
         /\ d.old = old /\ d.new = new /\ d.next = None
  <2> DEFINE k == l.to
  <2>1. SUFFICES ASSUME ~Throws(l, f.old)
                 PROVE  d \in Frames /\ FrameTyped(d) /\ d.pc = "notify" /\ d.kvar = l.to /\ d.by = l
                        /\ d.old = old /\ d.new = new /\ d.next = None
    OBVIOUS
  <2>2. old \in ValuesOf[l.to] /\ new \in ValuesOf[l.to]
    BY <1>3, <1>5, <1>6, <2>1 DEF Lenses
  <2>3. k \in KVars /\ old \in ValuesOf[k] /\ new \in ValuesOf[k] /\ l \in Listeners \cup {None}
        /\ l.to = k /\ l.kind # "tell" /\ \A m \in Listeners : m # None
    BY <1>3, <2>2, TheListeners
  <2> HIDE DEF k, old, new, l
  <2> QED BY ONLY <2>3, NewCall DEF k
<1> HIDE DEF d
<1>8. Continue(t) => \E c : Iterated(t, c) /\ Replaced(t, c)
  BY <1>2, ContinueDoes
<1>9. ~Throws(l, f.old) /\ Make(t, <<d>>) => \E c : Iterated(t, c) /\ Grown(t, c, d)
  BY <1>2, <1>7, MakeDoes
<1> HIDE DEF old, new
<1>10. CASE ListenersOf(l.to) # {} /\ Throws(l, f.old) /\ Close(l.to, "mapper") /\ Continue(t)
  <2>1. KValsClose /\ closeReason'[l.to] # "open"
    <3>1. PICK k : k = l.to
      OBVIOUS
    <3>2. KValsClose /\ IsClosed(k)'
      BY <1>3, <1>10, <3>1, Closing
    <3> QED BY <3>1, <3>2 DEF IsClosed
  <2>2. PICK c : Iterated(t, c) /\ Replaced(t, c)
    BY <1>8, <1>10
  <2> HIDE DEF l, f
  <2> QED BY ONLY <1>2, <1>3, <1>4, <1>5, <2>1, <2>2 DEF l, f, old, new
<1>11. CASE /\ ListenersOf(l.to) = {} \/ ~Throws(l, f.old)
            /\ UNCHANGED <<closeReason, listening>>
            /\ (ListenersOf(l.to) = {} \/ old = new) /\ Continue(t)
  <2>1. PICK c : Iterated(t, c) /\ Replaced(t, c)
    BY <1>8, <1>11
  <2> HIDE DEF l, f
  <2> QED BY ONLY <1>2, <1>3, <1>4, <1>5, <1>11, <2>1 DEF l, f, old, new
<1>12. CASE /\ ~Throws(l, f.old)
            /\ UNCHANGED <<closeReason, listening>>
            /\ ListenersOf(l.to) # {} /\ old # new /\ Make(t, <<d>>)
  <2>1. PICK c : Iterated(t, c) /\ Grown(t, c, d)
    BY <1>9, <1>12
  <2> HIDE DEF l, f
  <2> QED BY ONLY <1>2, <1>3, <1>4, <1>5, <1>7, <1>12, <2>1 DEF l, f, old, new
<1> QED BY <1>4, <1>10, <1>11, <1>12

\* There are no pairs, and no listeners that close a KVar.
LEMMA NeverDone ==
  ASSUME Family, Typed, NEW t \in Threads
  PROVE  ~(CloseListener(t) \/ SetBoth(t))
<1>1. ASSUME NEW kind \in {"close", "split"}, Calls(t, {kind}) PROVE FALSE
  <2>1. /\ Called(t).kind \in {kind}
        /\ Called(t) \in Listeners \cup {None} /\ (Called(t).kind = "none" <=> Called(t) = None)
        /\ Called(t) # None => Called(t).kind \in {"map", "forward", "reverse", "tell"}
    BY ONLY Family, Typed, t \in Threads, <1>1, CalledFacts
  <2> QED BY <2>1
<1> QED BY <1>1 DEF CloseListener, CloseListenerBy, SetBoth

\* The setter of the application throws: there is no call below.
LEMMA AssignClosedDoes ==
  ASSUME Typed, NEW t \in Threads, Depth(t) = 1, Top(t).by = None, AssignClosed(t)
  PROVE  /\ stack[t] # <<>> /\ Top(t).pc = "assign" /\ IsClosed(Top(t).kvar)
         /\ value' = [value EXCEPT ![Top(t).kvar] = Top(t).new]
         /\ Shrunk(t)
         /\ UNCHANGED <<closeReason, listening, told, sets>>
<1> DEFINE below == Front(stack[t])
           callers == IF below # <<>> /\ Last(below).pc = "read" THEN Front(below) ELSE below
<1>1. /\ stack[t] # <<>> /\ Top(t).pc = "assign" /\ IsClosed(Top(t).kvar)
      /\ value' = [value EXCEPT ![Top(t).kvar] = Top(t).new]
      /\ stack' = [stack EXCEPT ![t] = callers]
      /\ UNCHANGED <<closeReason, listening, told, sets>>
  BY DEF AssignClosed, AssignClosedBy, At
<1>2. stack[t] \in Seq(Frames) /\ Stacks
  BY DEF Typed, Stacks
<1>3. below = <<>>
  <2>1. below \in Seq(Frames) /\ Len(below) = 0
    BY <1>1, <1>2, TopOfStack DEF Depth
  <2> QED BY <2>1, EmptySeq
<1>4. callers = below
  BY <1>3
<1>5. Return(t)
  BY <1>1, <1>4 DEF Return
<1> QED BY <1>1, <1>2, <1>5, Returns

\* Thread t calls a setter, in d.
Started(t, d) ==
  /\ OthersStay(t) /\ Len(stack'[t]) = 1 /\ stack'[t][1] = d
  /\ d \in Frames /\ FrameTyped(d) /\ d.pc = "read" /\ d.by = None

LEMMA SetValueDoes ==
  ASSUME Family, Typed, NEW t \in Threads, NEW k \in Settable, NEW v \in ValuesOf[k], SetValue(t, k, v)
  PROVE  /\ MayCall(t) /\ stack[t] = <<>>
         /\ \E d : Started(t, d) /\ d.kvar = k /\ d.new = v
         /\ sets' \in 0..MaxSets
         /\ UNCHANGED <<value, closeReason, listening, told>>
<1> DEFINE d == Call("read", k, None, value[k], v)
<1>1. /\ MayCall(t) /\ sets < MaxSets /\ sets' = sets + 1
      /\ stack' = [stack EXCEPT ![t] = <<d>>]
      /\ UNCHANGED <<value, closeReason, listening, told>>
  BY DEF SetValue
<1>2. k \in KVars /\ value[k] \in ValuesOf[k]
  BY GraphAssumption DEF Typed
<1>3. d \in Frames /\ FrameTyped(d) /\ d.pc = "read" /\ d.kvar = k /\ d.by = None /\ d.new = v
  <2> DEFINE old == value[k]
  <2> HIDE DEF old
  <2>1. k \in KVars /\ old \in ValuesOf[k] /\ None \in Listeners \cup {None}
        /\ \A m \in Listeners : m # None
    BY <1>2, TheListeners DEF old
  <2> QED BY <2>1, NewCall DEF old
<1> HIDE DEF d
<1>4. <<d>> \in Seq(Frames) /\ Len(<<d>>) = 1 /\ <<d>>[1] = d
  BY <1>3
<1>5. OthersStay(t) /\ stack'[t] = <<d>>
  BY <1>1, <1>4 DEF Typed, Stacks, OthersStay
<1>6. sets' \in 0..MaxSets
  BY <1>1, GraphAssumption DEF Typed
<1>7. stack[t] = <<>>
  BY <1>1 DEF MayCall, Idle
<1> QED BY <1>1, <1>3, <1>4, <1>5, <1>6, <1>7 DEF Started

-----------------------------------------------------------------------------
(***************************************************************************)
(* A change on its way: what it has still to reach.                        *)
(***************************************************************************)
\* p is still to be called, or has been and the KVar it sets is still to be set.
Pending(p) == \E t \in Threads : \E i \in 1..Depth(t) : p \in Waiting(stack[t][i])

\* What is not in step is about to be brought in step.
EdgesAgree ==
  \A l \in Down : Ends(l) /\ ~Throws(l, value[l.of]) =>
    Shows(l, value) \/ \E p \in Listeners : Pending(p) /\ Edge(p) = l
BrowserKnows ==
  \A l \in Tellers : Ends(l) => told[l] = value[l.of] \/ Pending(l)

\* A KVar that tells of a change has the new value; the KVals still to be told
\* show the old one.
Telling(f) ==
  Tells(f) =>
    /\ value[f.kvar] = f.new
    /\ f.by.kind \in Both => Shows(Edge(f.by), value)
    /\ \A l \in Waiting(f) : l.kind = "map" /\ Ends(l) /\ ~Throws(l, f.old) =>
         value[l.to] = Function(l, f.old)
    /\ f.next.kind \in Both => Ends(f.next)
    /\ f.pc = "iterate" /\ f.next = None => f.todo \cap listening = {}

\* A KVar that is about to be set is open, unless it is the application that sets it.
Setting(f) ==
  ~Tells(f) =>
    /\ f.kvar \notin KVals
    /\ f.pc = "assign" => f.old = value[f.kvar]
    /\ f.by # None => /\ ~IsClosed(f.kvar) /\ f.by.kind \in Both
                      /\ f.new = Result(f.by, value[f.by.to], value[f.by.of])

Alone == \A t, u \in Threads : stack[t] # <<>> /\ stack[u] # <<>> => t = u
Flow ==
  \A t \in Threads :
    Way(stack[t]) /\ \A i \in 1..Depth(t) : Telling(stack[t][i]) /\ Setting(stack[t][i])

FInv == Typed /\ IInv /\ Alone /\ EdgesAgree /\ BrowserKnows /\ Flow

LEMMA ShowsIs ==
  ASSUME Family, NEW l \in Down, NEW held
  PROVE  Shows(l, held) <=> held[l.to] = Function(l, held[l.of])
BY DEF Shows, Result, Down, Downward

LEMMA WaitingAre ==
  ASSUME Family, NEW f \in Frames, FrameTyped(f)
  PROVE  /\ Waiting(f) \subseteq Listeners
         /\ Tells(f) => \A l \in Waiting(f) : l.of = f.kvar
<1>1. /\ f.by \in Listeners \cup {None} /\ f.next \in Listeners \cup {None}
      /\ f.todo \in SUBSET Listeners /\ f.pc \in {"read", "assign", "notify", "iterate"}
  BY FrameFields
<1>2. CASE f.pc = "notify"
  BY <1>2 DEF Waiting
<1>3. CASE f.pc = "iterate"
  <2>1. Waiting(f) = ({f.next} \cup f.todo) \ {None}
    BY <1>3 DEF Waiting
  <2> QED BY <1>1, <2>1 DEF FrameTyped
<1>4. CASE f.pc \in {"read", "assign"}
  <2>1. Waiting(f) = {f.by} \ {None}
    BY <1>4 DEF Waiting
  <2> QED BY <1>1, <1>4, <2>1 DEF Tells
<1> QED BY <1>1, <1>2, <1>3, <1>4

\* A link is open at both ends if the other listener of the two is.
LEMMA EndsOfBoth ==
  ASSUME Family, NEW p \in Listeners, Edge(p) \in Down
  PROVE  Ends(Edge(p)) <=> Ends(p)
<1>1. CASE p.kind = "reverse"
  <2>1. Edge(p).of = p.to /\ Edge(p).to = p.of /\ Edge(p).kind \in Links /\ p.kind \in Links
    BY <1>1, TwoWays DEF Links
  <2> QED BY <2>1 DEF Ends
<1>2. CASE p.kind # "reverse"
  BY <1>2 DEF Edge
<1> QED BY <1>1, <1>2

\* What is open was open before; what is no KVal stays open.
LEMMA EndsStay ==
  ASSUME Family, KValsClose, NEW l \in Listeners
  PROVE  /\ Ends(l)' => Ends(l)
         /\ l.kind \in Both /\ Ends(l) => Ends(l)'
<1>1. l.of \in KVars /\ l.to \in KVars
  BY TheListeners
<1>2. Ends(l)' => Ends(l)
  BY <1>1 DEF KValsClose, Ends
<1>3. l.kind \in Both /\ Ends(l) => Ends(l)'
  BY <1>1, EndsOfLinks DEF KValsClose, Ends
<1> QED BY <1>2, <1>3

\* c tells what f told, of the same change.
LEMMA TellsOn ==
  ASSUME Family, IInv, KValsClose,
         NEW f \in Frames, FrameTyped(f), Telling(f), NEW c \in Frames, FrameTyped(c),
         c.kvar = f.kvar, c.by = f.by, c.new = f.new, c.old = f.old,
         Tells(c) => Tells(f), Waiting(c) \subseteq Waiting(f),
         c.next.kind \in Both => Ends(c.next),
         c.pc = "iterate" /\ c.next = None => c.todo \cap listening = {},
         value'[f.kvar] = value[f.kvar], f.by.kind \in Both => value'[f.by.of] = value[f.by.of],
         \A l \in Waiting(c) : l.kind = "map" => value'[l.to] = value[l.to]
  PROVE  Telling(c)'
<1>1. SUFFICES ASSUME Tells(c) PROVE Telling(c)'
  BY DEF Telling
<1>2. value'[c.kvar] = c.new
  BY <1>1 DEF Telling
<1>3. ASSUME c.by.kind \in Both PROVE Shows(Edge(c.by), value)'
  <2>1. c.by \in Listeners /\ c.by.to = c.kvar /\ c.by.kind # "tell"
    <3>1. c.by \in Listeners \cup {None} /\ None.kind = "none"
      BY FrameFields DEF None
    <3>2. c.by \in Listeners
      BY <1>3, <3>1 DEF Both
    <3> QED BY <3>2, TheListeners DEF FrameTyped
  <2> DEFINE e == Edge(c.by)
  <2>2. e \in Down /\ {e.of, e.to} = {c.by.of, c.by.to}
    BY <1>3, <2>1, TwoWays, TheListeners DEF Both, Edge
  <2>3. Shows(e, value)
    BY <1>1, <1>3 DEF Telling
  <2>4. value'[e.of] = value[e.of] /\ value'[e.to] = value[e.to]
    BY <1>3, <2>1, <2>2
  <2> HIDE DEF e
  <2>5. Shows(e, value)'
    BY <2>2, <2>3, <2>4, ShowsIs
  <2> QED BY <2>5 DEF e
<1>4. ASSUME NEW l \in Waiting(c), l.kind = "map", Ends(l)', ~Throws(l, c.old)
      PROVE  value'[l.to] = Function(l, c.old)
  <2>1. l \in Listeners /\ l \in Waiting(f) /\ Ends(l)
    BY <1>4, WaitingAre, EndsStay
  <2> QED BY <1>1, <1>4, <2>1 DEF Telling
<1>5. ASSUME c.next.kind \in Both PROVE Ends(c.next)'
  <2>1. c.next \in Listeners
    BY <1>5, FrameFields DEF Both, None
  <2> QED BY <1>5, <2>1, EndsStay
<1>6. c.pc = "iterate" /\ c.next = None => c.todo \cap listening' = {}
  BY DEF KValsClose
<1> QED BY <1>1, <1>2, <1>3, <1>4, <1>5, <1>6 DEF Telling

-----------------------------------------------------------------------------
(***************************************************************************)
(* How the calls of the thread that steps are kept in order.               *)
(***************************************************************************)
\* Thread t steps; the calls below the one on top stay.
Steps(t) ==
  /\ stack[t] # <<>> /\ OthersStay(t) /\ Beneath(t)
  /\ Len(stack'[t]) \in {Depth(t) - 1, Depth(t), Depth(t) + 1}

LEMMA ShapesOfSteps ==
  ASSUME Typed, NEW t \in Threads, stack[t] # <<>>,
         \/ Shrunk(t)
         \/ \E c : Replaced(t, c)
         \/ \E c, d : Grown(t, c, d)
  PROVE  Steps(t)
BY DEF Steps, Shrunk, Replaced, Grown

LEMMA StacksKept ==
  ASSUME Typed, NEW t \in Threads, stack[t] # <<>>,
         \/ Shrunk(t)
         \/ \E c : FrameTyped(c) /\ Replaced(t, c)
         \/ \E c, d : FrameTyped(c) /\ FrameTyped(d) /\ Grown(t, c, d)
  PROVE  Stacks' /\ \A u \in Threads : Calling(stack'[u])
<1>1. OthersStay(t)
  BY DEF Replaced, Grown, Shrunk
<1>2. Stacks'
  BY <1>1 DEF OthersStay, Stacks
<1>3. Depth(t) \in Nat \ {0} /\ \A i \in 1..Depth(t) : FrameTyped(stack[t][i])
  BY TopTyped DEF Calling, Depth
<1>4. ASSUME NEW i \in 1..Len(stack'[t]) PROVE FrameTyped(stack'[t][i])
  <2>1. ASSUME NEW c, FrameTyped(c), Replaced(t, c) PROVE FrameTyped(stack'[t][i])
    <3>1. i \in 1..(Depth(t) - 1) \/ i = Depth(t)
      BY <1>3, <1>4, <2>1 DEF Replaced
    <3> QED BY <3>1, <1>3, <2>1 DEF Replaced, Beneath
  <2>2. ASSUME NEW c, NEW d, FrameTyped(c), FrameTyped(d), Grown(t, c, d)
        PROVE  FrameTyped(stack'[t][i])
    <3>1. i \in 1..(Depth(t) - 1) \/ i = Depth(t) \/ i = Depth(t) + 1
      <4>1. Len(stack'[t]) = Depth(t) + 1
        BY <2>2 DEF Grown
      <4>2. i \in 1..(Depth(t) + 1) /\ Depth(t) \in Nat
        BY <1>3, <1>4, <4>1
      <4> QED BY ONLY <4>2
    <3>2. CASE i \in 1..(Depth(t) - 1)
      BY <1>3, <2>2, <3>2 DEF Grown, Beneath
    <3>3. CASE i = Depth(t) \/ i = Depth(t) + 1
      BY <2>2, <3>3 DEF Grown
    <3> QED BY <3>1, <3>2, <3>3
  <2>3. ASSUME Shrunk(t) PROVE FrameTyped(stack'[t][i])
    BY <2>3, <1>3, <1>4 DEF Shrunk, Beneath
  <2> QED BY <2>1, <2>2, <2>3
<1>5. Calling(stack'[t])
  BY <1>1, <1>4 DEF OthersStay, Calling
<1>6. ASSUME NEW u \in Threads, u # t PROVE Calling(stack'[u])
  BY <1>1, <1>6 DEF OthersStay, Typed
<1> QED BY <1>2, <1>5, <1>6

LEMMA AloneKept ==
  ASSUME Alone, NEW t \in Threads, stack[t] # <<>>, OthersStay(t)
  PROVE  Alone' /\ \A u \in Threads \ {t} : stack[u] = <<>> /\ stack'[u] = <<>>
BY DEF Alone, OthersStay

\* The values the calls below the one on top depend on.
HeldBelow(t) ==
  \A i \in 1..(Depth(t) - 1) :
    /\ value'[stack[t][i].kvar] = value[stack[t][i].kvar]
    /\ \A l \in Listeners : l.kind = "map" /\ l.of = stack[t][i].kvar => value'[l.to] = value[l.to]

LEMMA BelowTells ==
  ASSUME Family, Typed, IInv, Flow, KValsClose, NEW t \in Threads, stack[t] # <<>>, HeldBelow(t),
         NEW i \in 1..(Depth(t) - 1), NEW f, f = stack[t][i]
  PROVE  Telling(f)' /\ Setting(f)'
<1>1. Calling(stack[t]) /\ Way(stack[t]) /\ Depth(t) \in Nat /\ i \in 1..Depth(t)
  BY TopTyped DEF Flow
<1>2. f \in Frames /\ FrameTyped(f)
  BY <1>1 DEF Calling, Depth
<1>3. f.pc = "iterate" /\ Telling(f)
  <2>1. Linked(stack[t], i) /\ i < Depth(t)
    BY <1>1 DEF Way, Depth
  <2> QED BY <1>1, <2>1 DEF Linked, Flow, Depth
<1>4. f.by.kind \in Both => value'[f.by.of] = value[f.by.of]
  <2>1. SUFFICES ASSUME f.by.kind \in Both PROVE value'[f.by.of] = value[f.by.of]
    OBVIOUS
  <2>2. i # 1
    <3>1. Linked(stack[t], i)
      BY <1>1 DEF Way, Depth
    <3> QED BY <2>1, <3>1 DEF Linked, Both, None
  <2>3. f.by.of = stack[t][i-1].kvar /\ i - 1 \in 1..(Depth(t) - 1)
    BY <1>1, <2>2, MadeBy DEF Depth
  <2> QED BY <2>3 DEF HeldBelow
<1>5. \A l \in Waiting(f) : l.kind = "map" => value'[l.to] = value[l.to]
  BY <1>2, <1>3, WaitingAre DEF HeldBelow, Tells
<1>6. value'[f.kvar] = value[f.kvar]
  BY DEF HeldBelow
<1>7. Telling(f)'
  <2>1. /\ f.next.kind \in Both => Ends(f.next)
        /\ f.pc = "iterate" /\ f.next = None => f.todo \cap listening = {}
    BY <1>3 DEF Telling, Tells
  <2> QED BY <1>2, <1>3, <1>4, <1>5, <1>6, <2>1, TellsOn
<1>8. Setting(f)'
  BY <1>3 DEF Setting, Tells
<1> QED BY <1>7, <1>8

LEMMA OthersFlow ==
  ASSUME Typed, Alone, Flow, NEW t \in Threads, Steps(t),
         Way(stack'[t]), \A i \in 1..Len(stack'[t]) : \A f : f = stack'[t][i] => Telling(f)' /\ Setting(f)'
  PROVE  Flow'
<1>1. ASSUME NEW u \in Threads, u # t PROVE stack'[u] = <<>>
  BY <1>1, AloneKept DEF Steps
<1>2. Way(<<>>)
  BY DEF Way
<1>3. ASSUME NEW u \in Threads, NEW i \in 1..Len(stack'[u])
      PROVE  (Telling(stack[u][i]) /\ Setting(stack[u][i]))'
  <2>1. u = t
    BY <1>1, <1>3
  <2>2. PICK f : f = stack'[t][i]
    OBVIOUS
  <2>3. Telling(f)' /\ Setting(f)'
    BY <1>3, <2>1, <2>2
  <2> QED BY <2>1, <2>2, <2>3 DEF Telling, Setting
<1>4. \A u \in Threads : Way(stack'[u])
  BY <1>1, <1>2
<1> QED BY <1>3, <1>4 DEF Flow, Depth

LEMMA FlowShrunk ==
  ASSUME Family, Typed, IInv, Alone, Flow, KValsClose, NEW t \in Threads, stack[t] # <<>>,
         HeldBelow(t), Shrunk(t)
  PROVE  Flow'
<1>1. Steps(t) /\ Calling(stack[t]) /\ Way(stack[t]) /\ Calling(stack'[t]) /\ Depth(t) \in Nat \ {0}
  BY ShapesOfSteps, StacksKept, TopTyped DEF Flow
<1>2. Len(stack'[t]) = Depth(t) - 1 /\ \A i \in 1..(Depth(t) - 1) : stack'[t][i] = stack[t][i]
  BY DEF Shrunk, Beneath
<1>3. Way(stack'[t])
  BY <1>1, <1>2, WayBelow DEF Depth
<1>4. \A i \in 1..Len(stack'[t]) : \A f : f = stack'[t][i] => Telling(f)' /\ Setting(f)'
  BY <1>2, BelowTells
<1> QED BY <1>1, <1>3, <1>4, OthersFlow

LEMMA FlowReplaced ==
  ASSUME Family, Typed, IInv, Alone, Flow, KValsClose, NEW t \in Threads, stack[t] # <<>>,
         HeldBelow(t), NEW c, Replaced(t, c), Onward(t, c), Telling(c)', Setting(c)',
         Tells(c) => Tells(Top(t)) \/ \A i \in 1..(Depth(t) - 1) : stack[t][i].kvar # c.kvar
  PROVE  Flow'
<1>1. Steps(t) /\ Calling(stack[t]) /\ Way(stack[t]) /\ Calling(stack'[t]) /\ Depth(t) \in Nat \ {0}
      /\ Top(t) = stack[t][Depth(t)]
  BY ShapesOfSteps, StacksKept, TopTyped DEF Flow, Onward
<1>2. /\ Len(stack'[t]) = Depth(t) /\ stack'[t][Depth(t)] = c
      /\ \A i \in 1..(Depth(t) - 1) : stack'[t][i] = stack[t][i]
  BY DEF Replaced, Beneath
<1>3. Way(stack'[t])
  <2>1. PICK s, r : s = stack[t] /\ r = stack'[t]
    OBVIOUS
  <2>2. PICK n : n = Depth(t)
    OBVIOUS
  <2>3. /\ Calling(s) /\ Way(s) /\ n = Len(s) /\ s # <<>> /\ Calling(r) /\ Len(r) = n
        /\ \A i \in 1..(n - 1) : r[i] = s[i]
        /\ c = r[n] /\ c.kvar = s[n].kvar /\ c.by = s[n].by
    BY <1>1, <1>2, <2>1, <2>2 DEF Depth, Onward
  <2>4. Tells(c) => Tells(s[n]) \/ \A i \in 1..(n - 1) : s[i].kvar # c.kvar
    BY <1>1, <2>1, <2>2
  <2>5. Way(r)
    BY ONLY Family, <2>3, <2>4, WayOver
  <2> QED BY <2>1, <2>5
<1>4. ASSUME NEW i \in 1..Len(stack'[t]), NEW f, f = stack'[t][i] PROVE Telling(f)' /\ Setting(f)'
  <2>1. CASE i = Depth(t)
    <3>1. f = c
      BY <1>2, <1>4, <2>1
    <3> QED BY <3>1
  <2>2. CASE i # Depth(t)
    <3>1. i \in 1..(Depth(t) - 1) /\ f = stack[t][i]
      BY <1>1, <1>2, <1>4, <2>2
    <3> QED BY <3>1, BelowTells
  <2> QED BY <2>1, <2>2
<1> QED BY <1>1, <1>3, <1>4, OthersFlow

LEMMA FlowGrown ==
  ASSUME Family, Typed, IInv, Alone, Flow, KValsClose, NEW t \in Threads, stack[t] # <<>>,
         HeldBelow(t), Top(t).pc = "iterate",
         NEW c, NEW d, Grown(t, c, d), Onward(t, c), c.pc = "iterate", Telling(c)', Setting(c)',
         d \in Frames, FrameTyped(d), Telling(d)', Setting(d)',
         d.by \in Listeners, d.by.of = Top(t).kvar,
         Tells(d) => \A i \in 1..Depth(t) : stack[t][i].kvar # d.kvar
  PROVE  Flow'
<1>1. Steps(t) /\ Calling(stack[t]) /\ Way(stack[t]) /\ Calling(stack'[t]) /\ Depth(t) \in Nat \ {0}
      /\ Top(t) = stack[t][Depth(t)]
  BY ShapesOfSteps, StacksKept, TopTyped DEF Flow, Onward
<1>2. /\ Len(stack'[t]) = Depth(t) + 1 /\ stack'[t][Depth(t)] = c /\ stack'[t][Depth(t) + 1] = d
      /\ \A i \in 1..(Depth(t) - 1) : stack'[t][i] = stack[t][i]
  BY DEF Grown, Beneath
<1> DEFINE q == Append(Front(stack[t]), c)
           n == Depth(t)
<1>3. /\ q \in Seq(Frames) /\ Len(q) = n /\ q[n] = c
      /\ \A i \in 1..(n - 1) : q[i] = stack[t][i]
  BY <1>1, NewTop DEF Calling, Depth, Onward
<1> HIDE DEF q
<1>4. Calling(q)
  <2>1. ASSUME NEW i \in 1..n PROVE FrameTyped(q[i])
    <3>1. i \in 1..(n - 1) \/ i = n
      BY <1>1
    <3> QED BY <1>1, <1>3, <3>1 DEF Calling, Depth, Onward
  <2> QED BY <1>3, <2>1 DEF Calling
<1>5. c.kvar = stack[t][n].kvar /\ c.by = stack[t][n].by /\ Tells(stack[t][n])
  BY <1>1 DEF Onward, Tells
<1>6. Way(q)
  <2>1. PICK s : s = stack[t]
    OBVIOUS
  <2>2. Calling(s) /\ Way(s) /\ n = Len(s) /\ s # <<>> /\ c.kvar = s[n].kvar /\ c.by = s[n].by
        /\ Tells(s[n]) /\ \A i \in 1..(n - 1) : q[i] = s[i]
    BY <1>1, <1>3, <1>5, <2>1 DEF Depth
  <2> HIDE DEF n
  <2> QED BY ONLY Family, <1>3, <1>4, <2>2, WayOver
<1>7. /\ q # <<>> /\ q[n].pc = "iterate" /\ \A i \in 1..n : stack'[t][i] = q[i]
      /\ d.by.of = q[n].kvar
      /\ Tells(d) => \A i \in 1..n : q[i].kvar # d.kvar
  <2>1. q # <<>>
    BY <1>1, <1>3
  <2>2. ASSUME NEW i \in 1..n PROVE stack'[t][i] = q[i] /\ q[i].kvar = stack[t][i].kvar
    <3>1. i \in 1..(n - 1) \/ i = n
      BY <1>1
    <3> QED BY <1>2, <1>3, <1>5, <3>1
  <2> QED BY <1>1, <1>3, <1>5, <2>1, <2>2
<1>8. Way(stack'[t])
  <2>1. PICK r : r = stack'[t]
    OBVIOUS
  <2>2. Calling(r) /\ Len(r) = n + 1 /\ (\A i \in 1..n : r[i] = q[i]) /\ d = r[n+1]
    BY <1>1, <1>2, <1>7, <2>1
  <2>3. n = Len(q)
    BY <1>3
  <2> HIDE DEF n
  <2>4. Way(r)
    BY ONLY Family, d.by \in Listeners, <1>4, <1>6, <1>7, <2>2, <2>3, WayUp
  <2> QED BY <2>1, <2>4
<1>9. ASSUME NEW i \in 1..Len(stack'[t]), NEW f, f = stack'[t][i] PROVE Telling(f)' /\ Setting(f)'
  <2>1. CASE i = Depth(t)
    <3>1. f = c
      BY <1>2, <1>9, <2>1
    <3> QED BY <3>1
  <2>2. CASE i = Depth(t) + 1
    <3>1. f = d
      BY <1>2, <1>9, <2>2
    <3> QED BY <3>1
  <2>3. CASE i # Depth(t) /\ i # Depth(t) + 1
    <3>1. i \in 1..(Depth(t) - 1) /\ f = stack[t][i]
      BY <1>1, <1>2, <1>9, <2>3
    <3> QED BY <3>1, BelowTells
  <2> QED BY <2>1, <2>2, <2>3
<1> QED BY <1>1, <1>8, <1>9, OthersFlow

-----------------------------------------------------------------------------
(***************************************************************************)
(* What a step leaves to be brought in step.                               *)
(***************************************************************************)
LEMMA StillPending ==
  ASSUME Typed, NEW t \in Threads, Steps(t), NEW p, Pending(p), p \notin Waiting(Top(t))
  PROVE  Pending(p)'
<1>0. PICK u \in Threads : \E i \in 1..Depth(u) : p \in Waiting(stack[u][i])
  BY DEF Pending
<1>1. PICK i \in 1..Depth(u) : p \in Waiting(stack[u][i])
  BY <1>0
<1>2. CASE u # t
  BY <1>1, <1>2 DEF Pending, Steps, OthersStay, Depth
<1>3. CASE u = t
  <2>1. Depth(t) \in Nat \ {0} /\ Top(t) = stack[t][Depth(t)]
    BY TopTyped DEF Steps
  <2>2. i # Depth(t)
    BY <1>1, <1>3, <2>1
  <2>3. i \in 1..(Depth(t) - 1) /\ i \in 1..Len(stack'[t])
    BY <1>1, <1>3, <2>1, <2>2 DEF Steps
  <2>4. p \in Waiting(stack'[t][i])
    BY <1>1, <1>3, <2>3 DEF Steps, Beneath
  <2> QED BY <2>3, <2>4 DEF Pending, Depth
<1> QED BY <1>2, <1>3

LEMMA NowPending ==
  ASSUME NEW t \in Threads, NEW c, NEW p, p \in Waiting(c),
         \E i \in 1..Len(stack'[t]) : stack'[t][i] = c
  PROVE  Pending(p)'
BY DEF Pending, Depth

LEMMA PlacesOfCalls ==
  ASSUME Typed, NEW t \in Threads, stack[t] # <<>>, NEW c
  PROVE  /\ Replaced(t, c) => \E i \in 1..Len(stack'[t]) : stack'[t][i] = c
         /\ \A d : Grown(t, c, d) =>
              /\ \E i \in 1..Len(stack'[t]) : stack'[t][i] = c
              /\ \E i \in 1..Len(stack'[t]) : stack'[t][i] = d
<1>1. Depth(t) \in Nat \ {0}
  BY TopTyped
<1>2. Depth(t) \in 1..Depth(t) /\ Depth(t) \in 1..(Depth(t) + 1) /\ Depth(t) + 1 \in 1..(Depth(t) + 1)
  BY <1>1
<1>3. Replaced(t, c) => \E i \in 1..Len(stack'[t]) : stack'[t][i] = c
  BY <1>2 DEF Replaced
<1>4. \A d : Grown(t, c, d) =>
              /\ \E i \in 1..Len(stack'[t]) : stack'[t][i] = c
              /\ \E i \in 1..Len(stack'[t]) : stack'[t][i] = d
  BY <1>2 DEF Grown
<1> QED BY <1>3, <1>4

\* What changes, and the listeners that are done, are taken care of; the others
\* wait on.
LEMMA Agreement ==
  ASSUME Family, Typed, KValsClose, EdgesAgree, BrowserKnows, NEW t \in Threads, Steps(t), NEW Done,
         \A p \in Waiting(Top(t)) \ Done : Ends(p) => Pending(p)',
         \A l \in Down :
           Ends(l) /\ Ends(l)' /\ ~Throws(l, value'[l.of])
             /\ (value'[l.of] # value[l.of] \/ value'[l.to] # value[l.to] \/ \E p \in Done : Edge(p) = l)
           => Shows(l, value') \/ \E p \in Listeners : Pending(p)' /\ Edge(p) = l,
         \A l \in Tellers :
           Ends(l) /\ Ends(l)' /\ (value'[l.of] # value[l.of] \/ told'[l] # told[l] \/ l \in Done)
           => told'[l] = value'[l.of] \/ Pending(l)'
  PROVE  EdgesAgree' /\ BrowserKnows'
<1>1. ASSUME NEW p \in Listeners, Pending(p), Ends(p), p \notin Done PROVE Pending(p)'
  BY <1>1, StillPending
<1>2. ASSUME NEW l \in Down, Ends(l)', ~Throws(l, value'[l.of])
      PROVE  Shows(l, value') \/ \E p \in Listeners : Pending(p)' /\ Edge(p) = l
  <2>1. l \in Listeners
    BY DEF Down
  <2>2. Ends(l)
    BY <1>2, <2>1, EndsStay
  <2>3. CASE value'[l.of] # value[l.of] \/ value'[l.to] # value[l.to] \/ \E p \in Done : Edge(p) = l
    BY <1>2, <2>2, <2>3
  <2>4. CASE value'[l.of] = value[l.of] /\ value'[l.to] = value[l.to] /\ \A p \in Done : Edge(p) # l
    <3>1. Shows(l, value) \/ \E p \in Listeners : Pending(p) /\ Edge(p) = l
      BY <1>2, <2>2, <2>4 DEF EdgesAgree
    <3>2. CASE Shows(l, value)
      BY <2>4, <3>2, ShowsIs
    <3>3. CASE \E p \in Listeners : Pending(p) /\ Edge(p) = l
      <4>1. PICK p \in Listeners : Pending(p) /\ Edge(p) = l
        BY <3>3
      <4>2. Ends(p) /\ p \notin Done
        BY <2>2, <2>4, <4>1, EndsOfBoth
      <4> QED BY <1>1, <4>1, <4>2
    <3> QED BY <3>1, <3>2, <3>3
  <2> QED BY <2>3, <2>4
<1>3. EdgesAgree'
  BY <1>2 DEF EdgesAgree, Shows
<1>4. ASSUME NEW l \in Tellers, Ends(l)'
      PROVE  told'[l] = value'[l.of] \/ Pending(l)'
  <2>1. l \in Listeners
    BY DEF Tellers
  <2>2. Ends(l)
    BY <1>4, <2>1, EndsStay
  <2>3. CASE value'[l.of] # value[l.of] \/ told'[l] # told[l] \/ l \in Done
    BY <1>4, <2>2, <2>3
  <2>4. CASE value'[l.of] = value[l.of] /\ told'[l] = told[l] /\ l \notin Done
    <3>1. told[l] = value[l.of] \/ Pending(l)
      BY <2>2 DEF BrowserKnows
    <3> QED BY <1>1, <2>1, <2>2, <2>4, <3>1
  <2> QED BY <2>3, <2>4
<1>5. BrowserKnows'
  BY <1>4 DEF BrowserKnows
<1> QED BY <1>3, <1>5

LEMMA WaitOn ==
  ASSUME Family, Typed, KValsClose, EdgesAgree, BrowserKnows, NEW t \in Threads, Steps(t),
         UNCHANGED <<value, told>>, \A p \in Waiting(Top(t)) : Ends(p) => Pending(p)'
  PROVE  EdgesAgree' /\ BrowserKnows'
<1>1. PICK Done : Done = {}
  OBVIOUS
<1>2. \A p \in Waiting(Top(t)) \ Done : Ends(p) => Pending(p)'
  OBVIOUS
<1>3. \A l \in Down :
         Ends(l) /\ Ends(l)' /\ ~Throws(l, value'[l.of])
           /\ (value'[l.of] # value[l.of] \/ value'[l.to] # value[l.to] \/ \E p \in Done : Edge(p) = l)
         => Shows(l, value') \/ \E p \in Listeners : Pending(p)' /\ Edge(p) = l
  BY <1>1
<1>4. \A l \in Tellers :
         Ends(l) /\ Ends(l)' /\ (value'[l.of] # value[l.of] \/ told'[l] # told[l] \/ l \in Done)
         => told'[l] = value'[l.of] \/ Pending(l)'
  BY <1>1
<1> QED BY <1>2, <1>3, <1>4, Agreement

\* The types, but for the values and what the browser was told.
LEMMA TypesKept ==
  ASSUME Typed, KValsClose, NEW t \in Threads, stack[t] # <<>>,
         \/ Shrunk(t)
         \/ \E c : FrameTyped(c) /\ Replaced(t, c)
         \/ \E c, d : FrameTyped(c) /\ FrameTyped(d) /\ Grown(t, c, d),
         DOMAIN value' = KVars, \A k \in KVars : value'[k] \in ValuesOf[k],
         DOMAIN told' = Tellers, \A l \in Tellers : told'[l] \in ValuesOf[l.of],
         sets' = sets
  PROVE  Typed'
<1>1. Stacks' /\ \A u \in Threads : Calling(stack'[u])
  BY StacksKept
<1>2. closeReason' \in [KVars -> {"open", "called", "source", "mapper"}] /\ listening' \subseteq Listeners
  BY DEF KValsClose, Typed
<1>3. sets' \in 0..MaxSets
  BY DEF Typed
<1> QED BY <1>1, <1>2, <1>3 DEF Typed

\* What is assigned; the values of the others.
LEMMA Assigned ==
  ASSUME Typed, NEW k \in KVars, NEW v, value' = [value EXCEPT ![k] = v]
  PROVE  /\ DOMAIN value' = KVars /\ value'[k] = v
         /\ \A m \in KVars : m # k => value'[m] = value[m]
         /\ v \in ValuesOf[k] => \A m \in KVars : value'[m] \in ValuesOf[m]
BY DEF Typed

LEMMA NothingAssigned ==
  ASSUME Typed, UNCHANGED value
  PROVE  DOMAIN value' = KVars /\ \A m \in KVars : value'[m] = value[m] /\ value'[m] \in ValuesOf[m]
BY DEF Typed

LEMMA NothingHeld ==
  ASSUME Typed, NEW t \in Threads, stack[t] # <<>>, \A m \in KVars : value'[m] = value[m]
  PROVE  HeldBelow(t)
<1>1. Calling(stack[t]) /\ Depth(t) \in Nat
  BY TopTyped
<1>2. ASSUME NEW i \in 1..(Depth(t) - 1) PROVE stack[t][i].kvar \in KVars
  <2>1. i \in 1..Len(stack[t])
    BY <1>1 DEF Depth
  <2> QED BY <1>1, <2>1, FrameFields DEF Calling
<1> QED BY <1>2, EndsAreKVars DEF HeldBelow

\* The invariant but for the way it is kept registered.
FInvKept == Typed' /\ Alone' /\ EdgesAgree' /\ BrowserKnows' /\ Flow'

LEMMA ReadKeeps ==
  ASSUME Family, FInv, NEW t \in Threads, Read(t)
  PROVE  FInvKept
<1>1. Typed /\ IInv /\ Alone /\ EdgesAgree /\ BrowserKnows /\ Flow
  BY DEF FInv
<1>2. /\ stack[t] # <<>> /\ Top(t).pc = "read"
      /\ UNCHANGED <<value, closeReason, listening, told, sets>>
  BY <1>1, ReadDoes
<1>3. PICK c : /\ Onward(t, c) /\ Replaced(t, c)
               /\ c.pc = "assign" /\ c.old = value[Top(t).kvar]
  BY <1>1, ReadDoes
<1>4. KValsClose /\ HeldBelow(t) /\ Steps(t)
  BY <1>1, <1>2, <1>3, NothingCloses, NothingHeld, ShapesOfSteps
<1>5. Top(t) = stack[t][Depth(t)] /\ Depth(t) \in 1..Depth(t) /\ Top(t) \in Frames
  BY <1>1, <1>2, TopTyped
<1>6. Setting(Top(t))
  BY <1>1, <1>5 DEF Flow
<1>7. Telling(c)' /\ Setting(c)'
  BY <1>2, <1>3, <1>6 DEF Telling, Setting, Tells, Onward, IsClosed
<1>8. ~Tells(c)
  BY <1>3 DEF Tells
<1>9. Flow'
  BY <1>1, <1>2, <1>3, <1>4, <1>7, <1>8, FlowReplaced
<1>10. Typed'
  BY <1>1, <1>2, <1>3, <1>4, NothingAssigned, TypesKept DEF Onward, Typed
<1>11. Alone'
  BY <1>1, <1>2, <1>4, AloneKept DEF Steps
<1>12. \A p \in Waiting(Top(t)) : Pending(p)'
  <2>1. Waiting(c) = Waiting(Top(t))
    BY <1>2, <1>3 DEF Waiting, Onward
  <2> QED BY <1>1, <1>2, <1>3, <2>1, NowPending, PlacesOfCalls
<1>13. EdgesAgree' /\ BrowserKnows'
  BY ONLY Family, t \in Threads, <1>1, <1>2, <1>4, <1>12, WaitOn
<1> QED BY <1>9, <1>10, <1>11, <1>13 DEF FInvKept

-----------------------------------------------------------------------------
(***************************************************************************)
(* The steps that set nothing.                                             *)
(***************************************************************************)
\* The call on top of a stack.
LEMMA TopFlows ==
  ASSUME Family, FInv, NEW t \in Threads, stack[t] # <<>>
  PROVE  /\ Typed /\ IInv /\ Alone /\ EdgesAgree /\ BrowserKnows /\ Flow
         /\ Top(t) = stack[t][Depth(t)] /\ Depth(t) \in Nat \ {0} /\ Depth(t) \in 1..Depth(t)
         /\ Top(t) \in Frames /\ FrameTyped(Top(t)) /\ Telling(Top(t)) /\ Setting(Top(t))
         /\ Waiting(Top(t)) \subseteq Listeners
<1>1. Typed /\ IInv /\ Alone /\ EdgesAgree /\ BrowserKnows /\ Flow
  BY DEF FInv
<1>2. /\ Top(t) = stack[t][Depth(t)] /\ Depth(t) \in Nat \ {0} /\ Depth(t) \in 1..Depth(t)
      /\ Top(t) \in Frames /\ FrameTyped(Top(t))
  BY <1>1, TopTyped
<1>3. Telling(Top(t)) /\ Setting(Top(t))
  BY <1>1, <1>2 DEF Flow
<1> QED BY <1>1, <1>2, <1>3, WaitingAre

\* A registered listener has open ends.
LEMMA RegisteredEnds ==
  ASSUME Typed, IInv, NEW l
  PROVE  /\ l \in listening => Ends(l)
         /\ l \in Listeners /\ Ends(l) => l \in listening
BY DEF IInv

LEMMA NotifyKeeps ==
  ASSUME Family, FInv, NEW t \in Threads, Notify(t)
  PROVE  FInvKept
<1>1. /\ stack[t] # <<>> /\ Top(t).pc = "notify"
      /\ UNCHANGED <<value, closeReason, listening, told, sets>>
  BY NotifyDoes DEF FInv
<1>2. /\ Typed /\ IInv /\ Alone /\ EdgesAgree /\ BrowserKnows /\ Flow
      /\ Top(t) \in Frames /\ FrameTyped(Top(t)) /\ Telling(Top(t))
      /\ Waiting(Top(t)) \subseteq Listeners
  BY <1>1, TopFlows
<1>3. KValsClose /\ HeldBelow(t)
  BY <1>1, <1>2, NothingCloses, NothingHeld
<1>4. \A p \in Waiting(Top(t)) : Ends(p) => p \in ListenersOf(Top(t).kvar)
  BY <1>1, <1>2, RegisteredEnds DEF Waiting, ListenersOf
<1>5. CASE ListenersOf(Top(t).kvar) = {} /\ Shrunk(t)
  <2>1. Steps(t)
    BY <1>1, <1>2, <1>5, ShapesOfSteps
  <2>2. Typed'
    BY <1>1, <1>2, <1>3, <1>5, NothingAssigned, TypesKept DEF Typed
  <2>3. Alone'
    BY <1>1, <1>2, <2>1, AloneKept DEF Steps
  <2>4. Flow'
    BY <1>1, <1>2, <1>3, <1>5, FlowShrunk
  <2>5. \A p \in Waiting(Top(t)) : Ends(p) => Pending(p)'
    BY <1>4, <1>5
  <2>6. EdgesAgree' /\ BrowserKnows'
    BY ONLY Family, t \in Threads, <1>1, <1>2, <1>3, <2>1, <2>5, WaitOn
  <2> QED BY <2>2, <2>3, <2>4, <2>6 DEF FInvKept
<1>6. ASSUME NEW c, Onward(t, c), Replaced(t, c), c.pc = "iterate", c.old = Top(t).old,
             Waiting(c) = ListenersOf(Top(t).kvar), c.next \in listening
      PROVE  FInvKept
  <2>1. Steps(t)
    BY <1>1, <1>2, <1>6, ShapesOfSteps
  <2>2. Typed'
    BY <1>1, <1>2, <1>3, <1>6, NothingAssigned, TypesKept DEF Typed, Onward
  <2>3. Alone'
    BY <1>1, <1>2, <2>1, AloneKept DEF Steps
  <2>4. Telling(c)'
    <3>1. c.next \in Listeners /\ c.next # None /\ Ends(c.next)
      BY <1>2, <1>6, RegisteredEnds, TheListeners DEF Typed
    <3>2. Waiting(c) \subseteq Waiting(Top(t))
      BY <1>1, <1>2, <1>6 DEF Typed, Waiting, ListenersOf
    <3>3. Tells(Top(t)) /\ c \in Frames /\ FrameTyped(c) /\ c.kvar = Top(t).kvar /\ c.by = Top(t).by
          /\ c.new = Top(t).new
      BY <1>1, <1>6 DEF Tells, Onward
    <3>4. PICK f : f = Top(t)
      OBVIOUS
    <3> QED BY ONLY Family, c.old = Top(t).old, <1>1, <1>2, <1>3, <3>1, <3>2, <3>3, <3>4, TellsOn
  <2>5. Setting(c)'
    BY <1>6 DEF Setting, Tells
  <2>6. Tells(Top(t))
    BY <1>1 DEF Tells
  <2>7. Flow'
    BY <1>1, <1>2, <1>3, <1>6, <2>4, <2>5, <2>6, FlowReplaced
  <2>8. \A p \in Waiting(Top(t)) : Ends(p) => Pending(p)'
    BY <1>1, <1>2, <1>4, <1>6, NowPending, PlacesOfCalls
  <2>9. EdgesAgree' /\ BrowserKnows'
    BY ONLY Family, t \in Threads, <1>1, <1>2, <1>3, <2>1, <2>8, WaitOn
  <2> QED BY <2>2, <2>3, <2>7, <2>9 DEF FInvKept
<1> QED BY <1>2, <1>5, <1>6, NotifyDoes

LEMMA NoneLeftKeeps ==
  ASSUME Family, FInv, NEW t \in Threads, NoneLeft(t)
  PROVE  FInvKept
<1>1. /\ stack[t] # <<>> /\ Top(t).pc = "iterate" /\ Top(t).next = None /\ Shrunk(t)
      /\ UNCHANGED <<value, closeReason, listening, told, sets>>
  BY NoneLeftDoes DEF FInv
<1>2. /\ Typed /\ IInv /\ Alone /\ EdgesAgree /\ BrowserKnows /\ Flow
      /\ Top(t) \in Frames /\ FrameTyped(Top(t)) /\ Telling(Top(t))
      /\ Waiting(Top(t)) \subseteq Listeners
  BY <1>1, TopFlows
<1>3. KValsClose /\ HeldBelow(t) /\ Steps(t)
  BY <1>1, <1>2, NothingCloses, NothingHeld, ShapesOfSteps
<1>4. Typed'
  BY <1>1, <1>2, <1>3, NothingAssigned, TypesKept DEF Typed
<1>5. Alone'
  BY <1>1, <1>2, <1>3, AloneKept DEF Steps
<1>6. Flow'
  BY <1>1, <1>2, <1>3, FlowShrunk
<1>7. \A p \in Waiting(Top(t)) : Ends(p) => Pending(p)'
  <2>1. Top(t).todo \cap listening = {} /\ Waiting(Top(t)) \subseteq Top(t).todo
    BY <1>1, <1>2 DEF Telling, Tells, Waiting
  <2> QED BY <1>2, <2>1, RegisteredEnds
<1>8. EdgesAgree' /\ BrowserKnows'
  BY ONLY Family, t \in Threads, <1>1, <1>2, <1>3, <1>7, WaitOn
<1> QED BY <1>4, <1>5, <1>6, <1>8 DEF FInvKept

\* The iterator goes on, while what the call depends on stays.
LEMMA IteratesOn ==
  ASSUME Family, FInv, KValsClose, NEW t \in Threads, stack[t] # <<>>, Top(t).pc = "iterate",
         NEW c, Iterated(t, c), \A k \in KVars \ KVals : value'[k] = value[k],
         value'[Top(t).kvar] = value[Top(t).kvar],
         \A l \in Waiting(c) : l.kind = "map" => value'[l.to] = value[l.to]
  PROVE  Telling(c)' /\ Setting(c)'
<1>1. /\ Typed /\ IInv /\ Flow
      /\ Top(t) \in Frames /\ FrameTyped(Top(t)) /\ Telling(Top(t))
  BY TopFlows
<1>2. /\ c \in Frames /\ FrameTyped(c) /\ c.kvar = Top(t).kvar /\ c.by = Top(t).by
      /\ c.new = Top(t).new /\ c.old = Top(t).old /\ c.pc = "iterate"
      /\ Waiting(c) \subseteq Waiting(Top(t))
      /\ c.next = None => c.todo \cap listening = {}
      /\ c.next # None => c.next \in listening
  BY DEF Iterated, Onward
<1>3. c.next.kind \in Both => Ends(c.next)
  <2>1. c.next = None => c.next.kind \notin Both
    BY DEF Both, None
  <2> QED BY <1>1, <1>2, <2>1, RegisteredEnds
<1>4. Top(t).by.kind \in Both => value'[Top(t).by.of] = value[Top(t).by.of]
  <2>1. SUFFICES ASSUME Top(t).by.kind \in Both PROVE value'[Top(t).by.of] = value[Top(t).by.of]
    OBVIOUS
  <2>2. Top(t).by \in Listeners
    BY <1>1, <2>1, FrameFields DEF Both, None
  <2>3. Top(t).by.of \in KVars /\ Top(t).by.of \notin KVals
    BY <2>1, <2>2, EndsOfLinks, TheListeners
  <2> QED BY <2>3
<1>5. Tells(Top(t)) /\ Tells(c)
  BY <1>2 DEF Tells
<1>6. Telling(c)'
  <2>1. PICK f : f = Top(t)
    OBVIOUS
  <2>2. \A l \in Waiting(c) : l.kind = "map" => value'[l.to] = value[l.to]
    OBVIOUS
  <2>3. value'[Top(t).kvar] = value[Top(t).kvar]
    OBVIOUS
  <2> QED BY ONLY Family, KValsClose, <1>1, <1>2, <1>3, <1>4, <1>5, <2>1, <2>2, <2>3, TellsOn
<1>7. Setting(c)'
  BY <1>5 DEF Setting
<1> QED BY <1>6, <1>7

LEMMA TellKeeps ==
  ASSUME Family, FInv, NEW t \in Threads, Tell(t)
  PROVE  FInvKept
<1>1. /\ stack[t] # <<>> /\ Top(t).pc = "iterate" /\ Called(t) \in Listeners
      /\ Called(t).kind = "tell" /\ Called(t).of = Top(t).kvar
      /\ told' = [told EXCEPT ![Called(t)] = Top(t).new]
      /\ UNCHANGED <<value, closeReason, listening, sets>>
  BY TellDoes DEF FInv
<1>2. PICK c : Iterated(t, c) /\ Replaced(t, c)
  BY TellDoes DEF FInv
<1>3. /\ Typed /\ IInv /\ Alone /\ EdgesAgree /\ BrowserKnows /\ Flow
      /\ Top(t) \in Frames /\ FrameTyped(Top(t)) /\ Telling(Top(t))
      /\ Waiting(Top(t)) \subseteq Listeners
  BY <1>1, TopFlows
<1>4. KValsClose /\ HeldBelow(t) /\ Steps(t)
  BY <1>1, <1>2, <1>3, NothingCloses, NothingHeld, ShapesOfSteps
<1>5. Onward(t, c) /\ c.pc = "iterate" /\ Waiting(c) = Waiting(Top(t)) \ {Called(t)} /\ Tells(Top(t))
  BY <1>1, <1>2 DEF Iterated, Tells
<1> DEFINE l == Called(t)
<1>6. l \in Tellers /\ Top(t).new \in ValuesOf[l.of]
  BY <1>1, <1>3 DEF Tellers, FrameTyped
<1>7. /\ DOMAIN told' = Tellers /\ told'[l] = Top(t).new
      /\ \A m \in Tellers : m # l => told'[m] = told[m]
  BY <1>1, <1>3, <1>6 DEF Typed
<1>8. \A m \in Tellers : told'[m] \in ValuesOf[m.of]
  BY <1>3, <1>6, <1>7 DEF Typed
<1>9. Typed'
  BY <1>1, <1>2, <1>3, <1>4, <1>5, <1>7, <1>8, NothingAssigned, TypesKept DEF Onward
<1>10. Alone'
  BY <1>1, <1>3, <1>4, AloneKept DEF Steps
<1>11. Telling(c)' /\ Setting(c)'
  BY <1>1, <1>2, <1>4, IteratesOn
<1>12. Flow'
  BY <1>1, <1>2, <1>3, <1>4, <1>5, <1>11, FlowReplaced
<1>13. EdgesAgree' /\ BrowserKnows'
  <2>1. PICK Done : Done = {l}
    OBVIOUS
  <2>2. \A p \in Waiting(Top(t)) \ Done : Ends(p) => Pending(p)'
    BY <1>1, <1>2, <1>3, <1>5, <2>1, NowPending, PlacesOfCalls
  <2>3. \A m \in Down :
          Ends(m) /\ Ends(m)' /\ ~Throws(m, value'[m.of])
            /\ (value'[m.of] # value[m.of] \/ value'[m.to] # value[m.to] \/ \E p \in Done : Edge(p) = m)
          => Shows(m, value') \/ \E p \in Listeners : Pending(p)' /\ Edge(p) = m
    <3>1. Edge(l) \notin Down
      BY <1>1 DEF Edge, Down, Downward
    <3> QED BY <1>1, <2>1, <3>1
  <2>4. \A m \in Tellers :
          Ends(m) /\ Ends(m)' /\ (value'[m.of] # value[m.of] \/ told'[m] # told[m] \/ m \in Done)
          => told'[m] = value'[m.of] \/ Pending(m)'
    <3>1. told'[l] = value'[l.of]
      BY <1>1, <1>3, <1>5, <1>7 DEF Telling
    <3> QED BY <1>1, <1>7, <2>1, <3>1
  <2> QED BY ONLY Family, t \in Threads, <1>3, <1>4, <2>2, <2>3, <2>4, Agreement
<1> QED BY <1>9, <1>10, <1>12, <1>13 DEF FInvKept

LEMMA ThrowsKeeps ==
  ASSUME Family, Lenses, FInv, NEW t \in Threads, ListenerThrows(t)
  PROVE  FInvKept
<1>1. /\ stack[t] # <<>> /\ Top(t).pc = "iterate" /\ Called(t) \in Listeners
      /\ Called(t).kind = "map" /\ Called(t).of = Top(t).kvar
      /\ Throws(Called(t), Top(t).new) \/ ~Ends(Called(t))
      /\ KValsClose /\ UNCHANGED <<value, told, sets>>
  BY ThrowsDoes DEF FInv
<1>2. PICK c : Iterated(t, c) /\ Replaced(t, c)
  BY ThrowsDoes DEF FInv
<1>3. /\ Typed /\ IInv /\ Alone /\ EdgesAgree /\ BrowserKnows /\ Flow
      /\ Top(t) \in Frames /\ FrameTyped(Top(t)) /\ Telling(Top(t))
      /\ Waiting(Top(t)) \subseteq Listeners
  BY <1>1, TopFlows
<1>4. HeldBelow(t) /\ Steps(t)
  BY <1>1, <1>2, <1>3, NothingHeld, ShapesOfSteps
<1>5. Onward(t, c) /\ c.pc = "iterate" /\ Waiting(c) = Waiting(Top(t)) \ {Called(t)} /\ Tells(Top(t))
  BY <1>1, <1>2 DEF Iterated, Tells
<1> DEFINE l == Called(t)
<1>6. Typed'
  BY <1>1, <1>2, <1>3, <1>4, <1>5, NothingAssigned, TypesKept DEF Onward, Typed
<1>7. Alone'
  BY <1>1, <1>3, <1>4, AloneKept DEF Steps
<1>8. Telling(c)' /\ Setting(c)'
  BY <1>1, <1>2, <1>4, IteratesOn
<1>9. Flow'
  BY <1>1, <1>2, <1>3, <1>4, <1>5, <1>8, FlowReplaced
<1>10. EdgesAgree' /\ BrowserKnows'
  <2>1. PICK Done : Done = {l}
    OBVIOUS
  <2>2. \A p \in Waiting(Top(t)) \ Done : Ends(p) => Pending(p)'
    BY <1>1, <1>2, <1>3, <1>5, <2>1, NowPending, PlacesOfCalls
  <2>3. \A m \in Down :
          Ends(m) /\ Ends(m)' /\ ~Throws(m, value'[m.of])
            /\ (value'[m.of] # value[m.of] \/ value'[m.to] # value[m.to] \/ \E p \in Done : Edge(p) = m)
          => Shows(m, value') \/ \E p \in Listeners : Pending(p)' /\ Edge(p) = m
    <3>1. Edge(l) = l
      BY <1>1 DEF Edge
    <3>2. value'[l.of] = Top(t).new
      BY <1>1, <1>3, <1>5 DEF Telling
    <3> QED BY <1>1, <2>1, <3>1, <3>2
  <2>4. \A m \in Tellers :
          Ends(m) /\ Ends(m)' /\ (value'[m.of] # value[m.of] \/ told'[m] # told[m] \/ m \in Done)
          => told'[m] = value'[m.of] \/ Pending(m)'
    BY <1>1, <2>1 DEF Tellers
  <2> QED BY ONLY Family, t \in Threads, <1>1, <1>3, <1>4, <2>2, <2>3, <2>4, Agreement
<1> QED BY <1>6, <1>7, <1>9, <1>10 DEF FInvKept

LEMMA SetOtherKeeps ==
  ASSUME Family, Lenses, FInv, NEW t \in Threads, SetOther(t)
  PROVE  FInvKept
<1>1. /\ stack[t] # <<>> /\ Top(t).pc = "iterate" /\ Called(t) \in Listeners
      /\ Called(t).kind \in Both /\ Called(t).of = Top(t).kvar
      /\ UNCHANGED <<value, closeReason, listening, told, sets>>
  BY SetOtherDoes DEF FInv
<1>2. PICK c, d :
        /\ Iterated(t, c) /\ Grown(t, c, d)
        /\ d \in Frames /\ FrameTyped(d) /\ d.pc = "read"
        /\ d.kvar = Called(t).to /\ d.by = Called(t)
        /\ d.new = Result(Called(t), value[Called(t).to], Top(t).new)
  BY SetOtherDoes DEF FInv
<1>3. /\ Typed /\ IInv /\ Alone /\ EdgesAgree /\ BrowserKnows /\ Flow
      /\ Top(t) \in Frames /\ FrameTyped(Top(t)) /\ Telling(Top(t))
      /\ Waiting(Top(t)) \subseteq Listeners
  BY <1>1, TopFlows
<1>4. KValsClose /\ HeldBelow(t) /\ Steps(t)
  BY <1>1, <1>2, <1>3, NothingCloses, NothingHeld, ShapesOfSteps
<1>5. /\ Onward(t, c) /\ c.pc = "iterate" /\ FrameTyped(c)
      /\ Waiting(c) = Waiting(Top(t)) \ {Called(t)} /\ Tells(Top(t))
  BY <1>1, <1>2 DEF Iterated, Tells, Onward
<1>6. Typed'
  BY <1>1, <1>2, <1>3, <1>4, <1>5, NothingAssigned, TypesKept DEF Typed
<1>7. Alone'
  BY <1>1, <1>3, <1>4, AloneKept DEF Steps
<1>8. Telling(c)' /\ Setting(c)'
  BY <1>1, <1>2, <1>4, IteratesOn
<1>9. Telling(d)' /\ Setting(d)'
  <2>1. ~Tells(d)
    BY <1>2 DEF Tells
  <2>2. d.kvar \in KVars /\ d.kvar \notin KVals
    BY <1>1, <1>2, EndsOfLinks, TheListeners
  <2>3. Ends(Called(t)) /\ Called(t).kind \in Links
    <3>1. Called(t).kind \in Links
      BY <1>1 DEF Both, Links
    <3> QED BY <1>1, <1>3, <1>5, <3>1 DEF Telling, Called
  <2>4. ~IsClosed(d.kvar)
    BY <1>2, <2>3 DEF Ends
  <2>5. value[Called(t).of] = Top(t).new
    BY <1>1, <1>3, <1>5 DEF Telling
  <2>6. d.new = Result(d.by, value[d.by.to], value[d.by.of])
    BY <1>2, <2>5
  <2>7. ~IsClosed(d.kvar)'
    BY <1>1, <2>4 DEF IsClosed
  <2> QED BY <1>1, <1>2, <2>1, <2>2, <2>6, <2>7 DEF Telling, Setting
<1>10. ~Tells(d) /\ d.by \in Listeners /\ d.by.of = Top(t).kvar
  BY <1>1, <1>2 DEF Tells
<1>11. Flow'
  BY ONLY Family, t \in Threads, <1>1, <1>2, <1>3, <1>4, <1>5, <1>8, <1>9, <1>10, FlowGrown
<1>12. \A p \in Waiting(Top(t)) : Ends(p) => Pending(p)'
  <2>1. ASSUME NEW p \in Waiting(Top(t)) PROVE p \in Waiting(c) \/ p \in Waiting(d)
    <3>1. Waiting(d) = {Called(t)} \ {None}
      BY <1>2 DEF Waiting
    <3> QED BY <1>1, <1>5, <2>1, <3>1, TheListeners
  <2>2. /\ \E i \in 1..Len(stack'[t]) : stack'[t][i] = c
        /\ \E i \in 1..Len(stack'[t]) : stack'[t][i] = d
    BY <1>1, <1>2, <1>3, PlacesOfCalls
  <2> QED BY <2>1, <2>2, NowPending
<1>13. EdgesAgree' /\ BrowserKnows'
  BY ONLY Family, t \in Threads, <1>1, <1>3, <1>4, <1>12, WaitOn
<1> QED BY <1>6, <1>7, <1>11, <1>13 DEF FInvKept

-----------------------------------------------------------------------------
(***************************************************************************)
(* The setter of a KVar.                                                   *)
(***************************************************************************)
\* The listener that made the call, and what it has brought in step.
LEMMA SetByListener ==
  ASSUME Family, Lenses, FInv, NEW t \in Threads, stack[t] # <<>>, Top(t).pc = "assign",
         Top(t).by # None, value' = [value EXCEPT ![Top(t).kvar] = Top(t).new]
  PROVE  /\ Top(t).by \in Listeners /\ Top(t).by.kind \in Both /\ Top(t).by.to = Top(t).kvar
         /\ Edge(Top(t).by) \in Down /\ Shows(Edge(Top(t).by), value')
         /\ Shows(Edge(Top(t).by), value) => Top(t).new = Top(t).old
<1> DEFINE f == Top(t)
           b == f.by
           e == Edge(b)
           k == f.kvar
<1>1. /\ Typed /\ f \in Frames /\ FrameTyped(f) /\ Setting(f)
  BY TopFlows
<1>2. ~Tells(f)
  BY DEF Tells
<1>3. /\ b \in Listeners /\ b.kind \in Both /\ b.to = k /\ k \in KVars
      /\ f.old = value[k] /\ f.new = Result(b, value[k], value[b.of])
  <2>1. b \in Listeners
    BY <1>1, FrameFields
  <2> QED BY <1>1, <1>2, <2>1, FrameFields DEF Setting, FrameTyped
<1>4. b.of \in KVars /\ b.of # k /\ e \in Down
  BY <1>3, TheListeners, EndsOfLinks DEF Both
<1>5. value[k] \in ValuesOf[k] /\ value[b.of] \in ValuesOf[b.of]
  BY <1>1, <1>3, <1>4 DEF Typed
<1>6. value'[k] = f.new /\ value'[b.of] = value[b.of]
  BY <1>1, <1>3, <1>4, Assigned
<1> DEFINE x == value[k]
           v == value[b.of]
<1>7. /\ b.kind = "forward" => f.new = Function(e, v)
      /\ b.kind = "reverse" => Function(e, f.new) = v /\ (v = Function(e, x) => f.new = x)
  <2>1. x \in ValuesOf[b.to] /\ v \in ValuesOf[b.of] /\ f.new = Result(b, x, v)
    BY <1>3, <1>5
  <2> HIDE DEF x, v
  <2> QED BY <1>3, <2>1, ResultsOf
<1>8. CASE b.kind = "forward"
  <2>1. e = b
    BY <1>8 DEF Edge
  <2>2. e.of = b.of /\ e.to = k
    BY <1>3, <2>1
  <2>3. Shows(e, value') <=> value'[k] = Function(e, value'[b.of])
    BY <1>4, <2>2, ShowsIs
  <2>4. Shows(e, value) <=> x = Function(e, v)
    BY <1>4, <2>2, ShowsIs
  <2> QED BY <1>3, <1>4, <1>6, <1>7, <1>8, <2>3, <2>4
<1>9. CASE b.kind = "reverse"
  <2>1. e.of = k /\ e.to = b.of
    BY <1>3, <1>9, TwoWays
  <2>2. Shows(e, value') <=> value'[b.of] = Function(e, value'[k])
    BY <1>4, <2>1, ShowsIs
  <2>3. Shows(e, value) <=> v = Function(e, x)
    BY <1>4, <2>1, ShowsIs
  <2> QED BY <1>3, <1>4, <1>6, <1>7, <1>9, <2>2, <2>3
<1> QED BY <1>3, <1>8, <1>9 DEF Both

\* A KVar that takes another value is not on the way the change has come.
LEMMA NewOnTheWay ==
  ASSUME Family, Lenses, FInv, NEW t \in Threads, stack[t] # <<>>, Top(t).pc = "assign",
         value' = [value EXCEPT ![Top(t).kvar] = Top(t).new], Top(t).old # Top(t).new,
         NEW i \in 1..(Depth(t) - 1)
  PROVE  stack[t][i].kvar # Top(t).kvar
<1>1. SUFFICES ASSUME stack[t][i].kvar = Top(t).kvar PROVE FALSE
  OBVIOUS
<1>2. PICK s, n : s = stack[t] /\ n = Depth(t)
  OBVIOUS
<1>3. /\ Calling(s) /\ Way(s) /\ n = Len(s) /\ n \in Nat \ {0} /\ Top(t) = s[n] /\ n \in 1..Len(s)
      /\ i \in 1..(n - 1) /\ n > 1 /\ n - 1 \in 1..Len(s)
  BY <1>2, TopFlows DEF Flow, Depth, Typed
<1>4. s[n].by \in Listeners /\ s[n].by.of = s[n-1].kvar /\ s[n].by.to = s[n].kvar /\ Tells(s[n-1])
      /\ s[n].by.kind \in {"map", "forward", "reverse"}
  BY ONLY Family, <1>3, MadeBy
<1>5. Top(t).by # None
  <2>1. s[n].by # None
    BY <1>4, TheListeners
  <2> QED BY <1>3, <2>1
<1>6. ~Shows(Edge(Top(t).by), value)
  BY <1>5, SetByListener
<1> DEFINE l == s[n].by
           m == n - 1
<1>7. /\ m \in 1..Len(s) /\ Tells(s[m]) /\ l \in Listeners /\ l.kind # "tell" /\ l.of = s[m].kvar
      /\ i \in 1..m /\ s[i].kvar = l.to
  BY <1>1, <1>2, <1>3, <1>4
<1> HIDE DEF l, m
<1>8. Edge(s[m].by) = Edge(l) /\ s[m].by.kind \in Both
  BY ONLY Family, <1>3, <1>7, Answer
<1>9. Telling(s[m])
  <2>1. m \in 1..Depth(t)
    BY <1>2, <1>3 DEF m
  <2> QED BY <1>2, <2>1, TopFlows DEF Flow
<1>10. Shows(Edge(l), value)
  BY <1>7, <1>8, <1>9 DEF Telling
<1> QED BY <1>3, <1>6, <1>10 DEF l

LEMMA AssignClosedNever ==
  ASSUME Family, FInv, NEW t \in Threads, AssignClosed(t)
  PROVE  Depth(t) = 1 /\ Top(t).by = None
<1>1. stack[t] # <<>> /\ Top(t).pc = "assign" /\ IsClosed(Top(t).kvar)
  BY DEF AssignClosed, AssignClosedBy, At
<1>2. /\ Setting(Top(t)) /\ Flow /\ Depth(t) \in Nat \ {0} /\ Top(t) = stack[t][Depth(t)]
      /\ Depth(t) \in 1..Depth(t)
  BY <1>1, TopFlows
<1>3. Top(t).by = None
  BY <1>1, <1>2 DEF Setting, Tells
<1>4. Linked(stack[t], Depth(t))
  BY <1>2 DEF Flow, Way, Depth
<1> QED BY <1>2, <1>3, <1>4 DEF Linked

\* The application sets what is closed.
LEMMA AssignClosedKeeps ==
  ASSUME Family, FInv, NEW t \in Threads, AssignClosed(t)
  PROVE  FInvKept
<1>1. Depth(t) = 1 /\ Top(t).by = None
  BY AssignClosedNever
<1>2. /\ stack[t] # <<>> /\ Top(t).pc = "assign" /\ IsClosed(Top(t).kvar)
      /\ value' = [value EXCEPT ![Top(t).kvar] = Top(t).new]
      /\ Shrunk(t)
      /\ UNCHANGED <<closeReason, listening, told, sets>>
  BY <1>1, AssignClosedDoes DEF FInv
<1>3. /\ Typed /\ IInv /\ Alone /\ EdgesAgree /\ BrowserKnows /\ Flow
      /\ Top(t) \in Frames /\ FrameTyped(Top(t)) /\ Setting(Top(t))
      /\ Waiting(Top(t)) \subseteq Listeners
  BY <1>2, TopFlows
<1>4. KValsClose /\ Steps(t) /\ HeldBelow(t)
  BY <1>1, <1>2, <1>3, NothingCloses, ShapesOfSteps DEF HeldBelow
<1> DEFINE k == Top(t).kvar
<1>5. /\ k \in KVars /\ Top(t).new \in ValuesOf[k] /\ DOMAIN value' = KVars
      /\ \A m \in KVars : m # k => value'[m] = value[m]
      /\ \A m \in KVars : value'[m] \in ValuesOf[m]
  BY <1>2, <1>3, Assigned, FrameFields DEF FrameTyped
<1>6. Typed'
  BY <1>2, <1>3, <1>4, <1>5, TypesKept DEF Typed
<1>7. Alone'
  BY <1>2, <1>3, <1>4, AloneKept DEF Steps
<1>8. Flow'
  BY <1>2, <1>3, <1>4, FlowShrunk
<1>9. EdgesAgree' /\ BrowserKnows'
  <2>1. PICK Done : Done = {}
    OBVIOUS
  <2>2. \A p \in Waiting(Top(t)) \ Done : Ends(p) => Pending(p)'
    BY <1>1, <1>2 DEF Waiting
  <2>3. \A m \in Down :
          Ends(m) /\ Ends(m)' /\ ~Throws(m, value'[m.of])
            /\ (value'[m.of] # value[m.of] \/ value'[m.to] # value[m.to] \/ \E p \in Done : Edge(p) = m)
          => Shows(m, value') \/ \E p \in Listeners : Pending(p)' /\ Edge(p) = m
    <3>1. SUFFICES ASSUME NEW m \in Down, Ends(m),
                          value'[m.of] # value[m.of] \/ value'[m.to] # value[m.to]
                   PROVE  FALSE
      BY <2>1
    <3>2. m \in Listeners /\ m.kind \in Links /\ m.of \in KVars /\ m.to \in KVars
      BY TheListeners DEF Down, Downward
    <3>3. m.of = k \/ m.to = k
      BY <1>5, <3>1, <3>2
    <3> QED BY <1>2, <3>1, <3>2, <3>3 DEF Ends
  <2>4. \A m \in Tellers :
          Ends(m) /\ Ends(m)' /\ (value'[m.of] # value[m.of] \/ told'[m] # told[m] \/ m \in Done)
          => told'[m] = value'[m.of] \/ Pending(m)'
    <3>1. \A m \in Tellers : m.of \in KVars
      BY TheListeners DEF Tellers
    <3> QED BY <1>2, <1>5, <2>1, <3>1 DEF Ends
  <2> QED BY ONLY Family, t \in Threads, <1>2, <1>3, <1>4, <2>2, <2>3, <2>4, Agreement
<1> QED BY <1>6, <1>7, <1>8, <1>9 DEF FInvKept

\* The KVar has that value already.
LEMMA AssignSameKeeps ==
  ASSUME Family, Lenses, FInv, NEW t \in Threads, stack[t] # <<>>, Top(t).pc = "assign",
         value' = [value EXCEPT ![Top(t).kvar] = Top(t).new], Top(t).old = Top(t).new, Shrunk(t),
         UNCHANGED <<closeReason, listening, told, sets>>
  PROVE  FInvKept
<1>1. /\ Typed /\ IInv /\ Alone /\ EdgesAgree /\ BrowserKnows /\ Flow
      /\ Top(t) \in Frames /\ FrameTyped(Top(t)) /\ Setting(Top(t))
      /\ Waiting(Top(t)) \subseteq Listeners
  BY TopFlows
<1> DEFINE k == Top(t).kvar
<1>2. k \in KVars /\ value[k] = Top(t).new
  BY <1>1, FrameFields DEF Setting, Tells
<1>3. DOMAIN value' = KVars /\ \A m \in KVars : value'[m] = value[m] /\ value'[m] \in ValuesOf[m]
  <2>1. value'[k] = value[k] /\ \A m \in KVars : m # k => value'[m] = value[m]
    BY <1>1, <1>2, Assigned
  <2>2. DOMAIN value' = KVars
    BY <1>1, <1>2, Assigned
  <2> QED BY <1>1, <2>1, <2>2 DEF Typed
<1>4. KValsClose /\ Steps(t) /\ HeldBelow(t)
  BY <1>1, <1>3, NothingCloses, ShapesOfSteps, NothingHeld
<1>5. Typed'
  BY <1>1, <1>3, <1>4, TypesKept DEF Typed
<1>6. Alone'
  BY <1>1, <1>4, AloneKept DEF Steps
<1>7. Flow'
  BY <1>1, <1>4, FlowShrunk
<1>8. EdgesAgree' /\ BrowserKnows'
  <2>1. PICK Done : Done = Waiting(Top(t))
    OBVIOUS
  <2>2. \A p \in Waiting(Top(t)) \ Done : Ends(p) => Pending(p)'
    BY <2>1
  <2>3. \A p \in Done : p = Top(t).by /\ p # None
    BY <2>1 DEF Waiting
  <2>4. \A m \in Down :
          Ends(m) /\ Ends(m)' /\ ~Throws(m, value'[m.of])
            /\ (value'[m.of] # value[m.of] \/ value'[m.to] # value[m.to] \/ \E p \in Done : Edge(p) = m)
          => Shows(m, value') \/ \E p \in Listeners : Pending(p)' /\ Edge(p) = m
    <3>1. ASSUME NEW p \in Done PROVE Shows(Edge(p), value')
      BY <2>3, <3>1, SetByListener
    <3>2. ASSUME NEW m \in Down PROVE value'[m.of] = value[m.of] /\ value'[m.to] = value[m.to]
      <4>1. m.of \in KVars /\ m.to \in KVars
        BY TheListeners DEF Down
      <4> QED BY <1>3, <4>1
    <3> QED BY <3>1, <3>2
  <2>5. \A m \in Tellers :
          Ends(m) /\ Ends(m)' /\ (value'[m.of] # value[m.of] \/ told'[m] # told[m] \/ m \in Done)
          => told'[m] = value'[m.of] \/ Pending(m)'
    <3>1. ASSUME NEW p \in Done PROVE p \notin Tellers
      <4>1. p.kind \in Both
        BY <2>3, <3>1, SetByListener
      <4> QED BY <4>1 DEF Both, Tellers
    <3>2. \A m \in Tellers : value'[m.of] = value[m.of] /\ told'[m] = told[m]
      BY <1>3, TheListeners DEF Tellers
    <3> QED BY <3>1, <3>2
  <2> QED BY ONLY Family, t \in Threads, <1>1, <1>4, <2>2, <2>4, <2>5, Agreement
<1> QED BY <1>5, <1>6, <1>7, <1>8 DEF FInvKept

\* A KVal shows what it is mapped from, unless that has just changed.
LEMMA MapsAgree ==
  ASSUME Family, FInv, NEW t \in Threads, stack[t] # <<>>, NEW l \in Listeners, l.kind = "map",
         Ends(l), ~Throws(l, value[l.of]),
         \A i \in 1..Depth(t) : Tells(stack[t][i]) => stack[t][i].kvar # l.of
  PROVE  value[l.to] = Function(l, value[l.of])
<1>1. /\ Typed /\ Alone /\ EdgesAgree /\ Flow
  BY TopFlows
<1>2. l \in Down
  BY TheListeners DEF Downward
<1>3. ASSUME NEW p \in Listeners, Pending(p), Edge(p) = l PROVE FALSE
  <2>1. p = l
    <3>1. p.kind # "reverse"
      BY <1>3, TwoWays
    <3> QED BY <1>3, <3>1 DEF Edge
  <2>2. PICK u \in Threads : \E i \in 1..Depth(u) : p \in Waiting(stack[u][i])
    BY <1>3 DEF Pending
  <2>3. PICK i \in 1..Depth(u) : p \in Waiting(stack[u][i])
    BY <2>2
  <2>4. u = t
    <3>1. stack[u] = <<>> => Depth(u) = 0
      BY DEF Depth
    <3> QED BY <1>1, <2>3, <3>1 DEF Alone
  <2> DEFINE f == stack[t][i]
  <2>5. f \in Frames /\ FrameTyped(f) /\ Setting(f) /\ p \in Waiting(f) /\ i \in 1..Depth(t)
    BY <1>1, <2>3, <2>4 DEF Typed, Calling, Depth, Flow
  <2>6. CASE Tells(f)
    BY <2>1, <2>5, <2>6, WaitingAre
  <2>7. CASE ~Tells(f)
    <3>1. p = f.by /\ f.by # None
      BY <2>5, <2>7 DEF Waiting, Tells
    <3>2. f.by.kind \in Both
      BY <2>5, <2>7, <3>1 DEF Setting
    <3> QED BY <2>1, <3>1, <3>2 DEF Both
  <2> QED BY <2>6, <2>7
<1>4. Shows(l, value)
  BY <1>1, <1>2, <1>3 DEF EdgesAgree
<1> QED BY <1>2, <1>4, ShowsIs

\* The KVar takes another value, and tells its listeners.
LEMMA AssignOtherKeeps ==
  ASSUME Family, Lenses, FInv, NEW t \in Threads, stack[t] # <<>>, Top(t).pc = "assign",
         value' = [value EXCEPT ![Top(t).kvar] = Top(t).new],
         Top(t).old # Top(t).new, ~IsClosed(Top(t).kvar),
         NEW c, Onward(t, c), Replaced(t, c), c.pc = "notify", c.old = Top(t).old, c.next = None,
         UNCHANGED <<closeReason, listening, told, sets>>
  PROVE  FInvKept
<1>1. /\ Typed /\ IInv /\ Alone /\ EdgesAgree /\ BrowserKnows /\ Flow
      /\ Top(t) \in Frames /\ FrameTyped(Top(t)) /\ Setting(Top(t))
      /\ Waiting(Top(t)) \subseteq Listeners /\ Depth(t) \in Nat \ {0} /\ Top(t) = stack[t][Depth(t)]
  BY TopFlows
<1> DEFINE k == Top(t).kvar
<1>2. /\ k \in KVars /\ k \notin KVals /\ value[k] = Top(t).old /\ Top(t).new \in ValuesOf[k]
      /\ c \in Frames /\ FrameTyped(c) /\ c.kvar = k /\ c.by = Top(t).by /\ c.new = Top(t).new
      /\ ~Tells(Top(t))
  BY <1>1, FrameFields DEF Setting, Tells, FrameTyped, Onward
<1>3. /\ DOMAIN value' = KVars /\ value'[k] = Top(t).new
      /\ \A m \in KVars : m # k => value'[m] = value[m]
      /\ \A m \in KVars : value'[m] \in ValuesOf[m]
  BY <1>1, <1>2, Assigned
<1>4. \A i \in 1..(Depth(t) - 1) : stack[t][i].kvar # k
  BY NewOnTheWay
<1>5. \A l \in Listeners : l.kind = "map" => value'[l.to] = value[l.to]
  BY <1>2, <1>3, EndsOfLinks, TheListeners
<1>6. KValsClose /\ Steps(t) /\ HeldBelow(t)
  <2>1. \A i \in 1..(Depth(t) - 1) : stack[t][i].kvar \in KVars
    <3>1. Calling(stack[t])
      BY <1>1 DEF Typed
    <3>2. ASSUME NEW i \in 1..(Depth(t) - 1) PROVE stack[t][i] \in Frames
      BY <1>1, <3>1 DEF Calling, Depth
    <3> QED BY <3>2, FrameFields
  <2> QED BY <1>1, <1>3, <1>4, <1>5, <2>1, NothingCloses, ShapesOfSteps DEF HeldBelow
<1>7. Waiting(c) = {l \in Listeners : l.of = k}
  BY <1>2 DEF Waiting
<1>8. \A l \in Listeners : l.of = k => Pending(l)'
  BY <1>1, <1>7, NowPending, PlacesOfCalls
<1>9. Telling(c)' /\ Setting(c)'
  <2>1. value'[c.kvar] = c.new
    BY <1>2, <1>3
  <2>2. c.by.kind \in Both => Shows(Edge(c.by), value')
    <3>1. c.by.kind \in Both => c.by # None
      BY DEF Both, None
    <3> QED BY <1>2, <3>1, SetByListener
  <2>3. ASSUME NEW l \in Waiting(c), l.kind = "map", Ends(l)', ~Throws(l, c.old)
        PROVE  value'[l.to] = Function(l, c.old)
    <3>1. l \in Listeners /\ l.of = k
      BY <1>7
    <3>2. Ends(l)
      BY <1>6, <2>3, <3>1, EndsStay
    <3>3. value[l.of] = c.old
      BY <1>2, <3>1
    <3>4. \A i \in 1..Depth(t) : Tells(stack[t][i]) => stack[t][i].kvar # l.of
      <4>1. \A i \in 1..Depth(t) : i \in 1..(Depth(t) - 1) \/ i = Depth(t)
        BY <1>1
      <4> QED BY <1>1, <1>2, <1>4, <3>1, <4>1
    <3>5. value[l.to] = Function(l, value[l.of])
      BY <2>3, <3>1, <3>2, <3>3, <3>4, MapsAgree
    <3> QED BY <1>5, <2>3, <3>1, <3>3, <3>5
  <2>4. c.next.kind \notin Both /\ c.pc # "iterate"
    BY DEF Both, None
  <2>5. Tells(c)
    BY DEF Tells
  <2> QED BY <2>1, <2>2, <2>3, <2>4, <2>5 DEF Telling, Setting, Shows
<1>10. Typed'
  BY <1>1, <1>2, <1>3, <1>6, TypesKept DEF Typed
<1>11. Alone'
  BY <1>1, <1>6, AloneKept DEF Steps
<1>12. Flow'
  BY <1>1, <1>2, <1>4, <1>6, <1>9, FlowReplaced
<1>13. EdgesAgree' /\ BrowserKnows'
  <2>1. PICK Done : Done = Waiting(Top(t))
    OBVIOUS
  <2>2. \A p \in Waiting(Top(t)) \ Done : Ends(p) => Pending(p)'
    BY <2>1
  <2>3. \A p \in Done : p = Top(t).by /\ p # None
    BY <1>2, <2>1 DEF Waiting, Tells
  <2>4. \A m \in Down :
          Ends(m) /\ Ends(m)' /\ ~Throws(m, value'[m.of])
            /\ (value'[m.of] # value[m.of] \/ value'[m.to] # value[m.to] \/ \E p \in Done : Edge(p) = m)
          => Shows(m, value') \/ \E p \in Listeners : Pending(p)' /\ Edge(p) = m
    <3>1. ASSUME NEW p \in Done PROVE Shows(Edge(p), value')
      BY <2>3, <3>1, SetByListener
    <3>2. ASSUME NEW m \in Down, value'[m.of] # value[m.of] \/ value'[m.to] # value[m.to]
          PROVE  \E p \in Listeners : Pending(p)' /\ Edge(p) = m
      <4>1. m \in Listeners /\ m.kind \in Downward /\ Edge(m) = m /\ m.of \in KVars /\ m.to \in KVars
        BY TheListeners DEF Down
      <4>2. CASE m.of = k
        BY <1>8, <4>1, <4>2
      <4>3. CASE m.of # k
        <5>1. m.to = k
          BY <1>3, <3>2, <4>1, <4>3
        <5>2. m.kind = "forward"
          BY <1>2, <4>1, <5>1, EndsOfLinks DEF Downward
        <5>3. Back(m) \in Listeners /\ Edge(Back(m)) = m /\ Back(m).of = k
          BY <4>1, <5>1, <5>2, TwoWays
        <5> QED BY <1>8, <5>3
      <4> QED BY <4>2, <4>3
    <3> QED BY <3>1, <3>2
  <2>5. \A m \in Tellers :
          Ends(m) /\ Ends(m)' /\ (value'[m.of] # value[m.of] \/ told'[m] # told[m] \/ m \in Done)
          => told'[m] = value'[m.of] \/ Pending(m)'
    <3>1. ASSUME NEW p \in Done PROVE p \notin Tellers
      <4>1. p.kind \in Both
        BY <2>3, <3>1, SetByListener
      <4> QED BY <4>1 DEF Both, Tellers
    <3>2. \A m \in Tellers : told'[m] = told[m] /\ (value'[m.of] # value[m.of] => Pending(m)')
      BY <1>3, <1>8, TheListeners DEF Tellers
    <3> QED BY <3>1, <3>2
  <2> QED BY ONLY Family, t \in Threads, <1>1, <1>6, <2>2, <2>4, <2>5, Agreement
<1> QED BY <1>10, <1>11, <1>12, <1>13 DEF FInvKept

LEMMA AssignKeeps ==
  ASSUME Family, Lenses, FInv, NEW t \in Threads, Assign(t)
  PROVE  FInvKept
<1>1. /\ stack[t] # <<>> /\ Top(t).pc = "assign"
      /\ value' = [value EXCEPT ![Top(t).kvar] = Top(t).new]
      /\ UNCHANGED <<closeReason, listening, told, sets>>
      /\ \/ Top(t).old = Top(t).new /\ Shrunk(t)
         \/ /\ Top(t).old # Top(t).new /\ ~IsClosed(Top(t).kvar)
            /\ \E c : /\ Onward(t, c) /\ Replaced(t, c)
                      /\ c.pc = "notify" /\ c.old = Top(t).old /\ c.next = None
  BY AssignDoes DEF FInv
<1>2. CASE Top(t).old = Top(t).new /\ Shrunk(t)
  BY <1>1, <1>2, AssignSameKeeps
<1>3. CASE /\ Top(t).old # Top(t).new /\ ~IsClosed(Top(t).kvar)
           /\ \E c : /\ Onward(t, c) /\ Replaced(t, c)
                     /\ c.pc = "notify" /\ c.old = Top(t).old /\ c.next = None
  BY <1>1, <1>3, AssignOtherKeeps
<1> QED BY <1>1, <1>2, <1>3

-----------------------------------------------------------------------------
(***************************************************************************)
(* A KVal takes its value.                                                 *)
(***************************************************************************)
\* What a KVal is mapped from is on the way the change has come, the KVal is not.
LEMMA MappedOffTheWay ==
  ASSUME Family, Lenses, FInv, NEW t \in Threads, UpdateMapped(t)
  PROVE  /\ \A i \in 1..Depth(t) : stack[t][i].kvar # Called(t).to
         /\ DOMAIN value' = KVars /\ value'[Called(t).to] = Function(Called(t), Top(t).new)
         /\ \A k \in KVars : k # Called(t).to => value'[k] = value[k]
         /\ \A k \in KVars : value'[k] \in ValuesOf[k]
         /\ HeldBelow(t)
         /\ \A l \in Listeners : l.kind = "map" /\ l # Called(t) => value'[l.to] = value[l.to]
<1> DEFINE m == Called(t)
<1>1. /\ stack[t] # <<>> /\ Top(t).pc = "iterate" /\ m \in Listeners
      /\ m.kind = "map" /\ m.of = Top(t).kvar /\ ~Throws(m, Top(t).new)
      /\ value' = [value EXCEPT ![m.to] = Function(m, Top(t).new)]
  BY UpdateMappedDoes DEF FInv
<1>2. /\ Typed /\ Flow /\ Top(t) = stack[t][Depth(t)] /\ Depth(t) \in Nat \ {0}
      /\ FrameTyped(Top(t)) /\ Calling(stack[t])
  BY <1>1, TopFlows, TopTyped
<1>3. m \in Down /\ m.of \in KVars /\ m.to \in KVars /\ m.kind # "tell"
  BY <1>1, TheListeners DEF Downward
<1>4. \A i \in 1..Depth(t) : stack[t][i].kvar # m.to
  <2>1. SUFFICES ASSUME NEW i \in 1..Depth(t), stack[t][i].kvar = m.to PROVE FALSE
    OBVIOUS
  <2>2. PICK s, n, l : s = stack[t] /\ n = Depth(t) /\ l = m
    OBVIOUS
  <2>3. /\ Calling(s) /\ Way(s) /\ n \in 1..Len(s) /\ Tells(s[n]) /\ l \in Listeners
        /\ l.kind # "tell" /\ l.of = s[n].kvar /\ i \in 1..n /\ s[i].kvar = l.to
    BY <1>1, <1>2, <1>3, <2>1, <2>2 DEF Flow, Tells, Depth
  <2>4. l.kind \in Both
    BY ONLY Family, <2>3, Answer
  <2> QED BY <1>1, <2>2, <2>4 DEF Both
<1>5. Function(m, Top(t).new) \in ValuesOf[m.to]
  BY <1>1, <1>2, <1>3 DEF Lenses, FrameTyped
<1>6. /\ DOMAIN value' = KVars /\ value'[m.to] = Function(m, Top(t).new)
      /\ \A k \in KVars : k # m.to => value'[k] = value[k]
      /\ \A k \in KVars : value'[k] \in ValuesOf[k]
  BY <1>1, <1>2, <1>3, <1>5, Assigned
<1>7. ASSUME NEW l \in Listeners, l.kind = "map", l # m PROVE value'[l.to] = value[l.to]
  <2>1. l \in Down /\ l.to \in KVars
    BY <1>7, TheListeners DEF Downward
  <2>2. l.to # m.to
    BY <1>3, <1>7, <2>1 DEF Family
  <2> QED BY <1>6, <2>1, <2>2
<1>8. HeldBelow(t)
  <2>1. ASSUME NEW i \in 1..(Depth(t) - 1)
        PROVE  /\ value'[stack[t][i].kvar] = value[stack[t][i].kvar] /\ stack[t][i].kvar # m.of
    <3>1. i \in 1..Depth(t) /\ Depth(t) \in 1..Depth(t) /\ i < Depth(t)
      BY <1>2
    <3>2. stack[t][i].kvar \in KVars
      BY <1>2, <3>1, FrameFields DEF Calling, Depth
    <3>3. Slopes(stack[t], i, Depth(t))
      BY <1>2, <3>1 DEF Flow, Way, Depth
    <3> QED BY <1>1, <1>2, <1>4, <1>6, <3>1, <3>2, <3>3 DEF Slopes, Tells
  <2> QED BY <1>7, <2>1 DEF HeldBelow
<1> QED BY <1>4, <1>6, <1>7, <1>8

\* The listener called is done, and the others wait on.
LEMMA MappedAgrees ==
  ASSUME Family, Lenses, FInv, NEW t \in Threads, UpdateMapped(t), KValsClose, Steps(t),
         NEW c, Iterated(t, c), \E i \in 1..Len(stack'[t]) : stack'[t][i] = c,
         value'[Called(t).to] # value[Called(t).to] =>
           \A l \in Listeners : l.of = Called(t).to => ~Ends(l)' \/ Pending(l)'
  PROVE  EdgesAgree' /\ BrowserKnows'
<1> DEFINE m == Called(t)
<1>1. /\ stack[t] # <<>> /\ Top(t).pc = "iterate" /\ m \in Listeners
      /\ m.kind = "map" /\ m.of = Top(t).kvar /\ UNCHANGED told
  BY UpdateMappedDoes DEF FInv
<1>2. /\ Typed /\ EdgesAgree /\ BrowserKnows /\ Telling(Top(t)) /\ Top(t) = stack[t][Depth(t)]
      /\ Depth(t) \in 1..Depth(t)
  BY <1>1, TopFlows
<1>3. m \in Down /\ Edge(m) = m /\ m.of \in KVars /\ m.to \in KVars /\ m.of # m.to
  BY <1>1, TheListeners, EndsOfLinks DEF Downward
<1>4. /\ value'[m.to] = Function(m, Top(t).new)
      /\ \A k \in KVars : k # m.to => value'[k] = value[k]
  BY MappedOffTheWay
<1>5. Shows(m, value')
  <2>1. value'[m.of] = Top(t).new
    BY <1>1, <1>2, <1>3, <1>4 DEF Telling, Tells
  <2> QED BY <1>3, <1>4, <2>1, ShowsIs
<1>6. PICK Done : Done = {m}
  OBVIOUS
<1>7. \A p \in Waiting(Top(t)) \ Done : Ends(p) => Pending(p)'
  BY <1>6, NowPending DEF Iterated
<1>8. ASSUME NEW l \in Down, Ends(l)',
             value'[l.of] # value[l.of] \/ value'[l.to] # value[l.to] \/ \E p \in Done : Edge(p) = l
      PROVE  Shows(l, value') \/ \E p \in Listeners : Pending(p)' /\ Edge(p) = l
  <2>1. l \in Listeners /\ l.of \in KVars /\ l.to \in KVars /\ Edge(l) = l
    BY TheListeners DEF Down
  <2>2. CASE l = m
    BY <1>5, <2>2
  <2>3. CASE l # m
    <3>1. l.to # m.to
      BY <1>3, <2>3 DEF Family
    <3>2. value'[l.of] # value[l.of] /\ l.of = m.to
      BY <1>3, <1>4, <1>6, <1>8, <2>1, <2>3, <3>1
    <3> QED BY <1>8, <2>1, <3>2
  <2> QED BY <2>2, <2>3
<1>9. \A l \in Tellers :
        Ends(l) /\ Ends(l)' /\ (value'[l.of] # value[l.of] \/ told'[l] # told[l] \/ l \in Done)
        => told'[l] = value'[l.of] \/ Pending(l)'
  <2>1. ASSUME NEW l \in Tellers PROVE l \in Listeners /\ l.of \in KVars /\ l \notin Done
    BY <1>1, <1>6, TheListeners DEF Tellers
  <2> QED BY <1>1, <1>4, <2>1
<1> QED BY ONLY Family, KValsClose, Steps(t), t \in Threads, <1>2, <1>7, <1>8, <1>9, Agreement

LEMMA UpdateMappedKeeps ==
  ASSUME Family, Lenses, FInv, NEW t \in Threads, UpdateMapped(t)
  PROVE  FInvKept
<1> DEFINE m == Called(t)
<1>1. /\ stack[t] # <<>> /\ Top(t).pc = "iterate" /\ m \in Listeners
      /\ m.kind = "map" /\ m.of = Top(t).kvar /\ Ends(m) /\ ~Throws(m, Top(t).new)
      /\ UNCHANGED <<told, sets>>
  BY UpdateMappedDoes DEF FInv
<1>2. PICK c :
        /\ Iterated(t, c)
        /\ \/ Replaced(t, c) /\ KValsClose /\ closeReason'[m.to] # "open"
           \/ /\ Replaced(t, c) /\ UNCHANGED <<closeReason, listening>>
              /\ \/ ListenersOf(m.to) = {}
                 \/ /\ ~Throws(m, Top(t).old)
                    /\ Function(m, Top(t).old) = Function(m, Top(t).new)
           \/ /\ UNCHANGED <<closeReason, listening>> /\ ~Throws(m, Top(t).old)
              /\ \E d :
                   /\ Grown(t, c, d) /\ d \in Frames /\ FrameTyped(d) /\ d.pc = "notify"
                   /\ d.kvar = m.to /\ d.by = m /\ d.next = None
                   /\ d.old = Function(m, Top(t).old)
                   /\ d.new = Function(m, Top(t).new)
  BY UpdateMappedDoes DEF FInv
<1>3. /\ Typed /\ IInv /\ Alone /\ EdgesAgree /\ BrowserKnows /\ Flow
      /\ Top(t) \in Frames /\ FrameTyped(Top(t)) /\ Telling(Top(t))
      /\ Top(t) = stack[t][Depth(t)] /\ Depth(t) \in Nat \ {0} /\ Depth(t) \in 1..Depth(t)
  BY <1>1, TopFlows
<1>4. m \in Down /\ m.of \in KVars /\ m.to \in KVars /\ m.to \in KVals /\ m.of # m.to
  BY <1>1, TheListeners, EndsOfLinks DEF Downward
<1>5. /\ \A i \in 1..Depth(t) : stack[t][i].kvar # m.to
      /\ DOMAIN value' = KVars /\ value'[m.to] = Function(m, Top(t).new)
      /\ \A k \in KVars : k # m.to => value'[k] = value[k]
      /\ \A k \in KVars : value'[k] \in ValuesOf[k]
      /\ HeldBelow(t)
      /\ \A l \in Listeners : l.kind = "map" /\ l # m => value'[l.to] = value[l.to]
  BY MappedOffTheWay
<1>6. KValsClose
  BY <1>2, <1>3, NothingCloses
<1>7. /\ Onward(t, c) /\ c.pc = "iterate" /\ FrameTyped(c)
      /\ Waiting(c) = Waiting(Top(t)) \ {m} /\ Tells(Top(t)) /\ Tells(c)
  BY <1>1, <1>2 DEF Iterated, Tells, Onward
<1>8. Steps(t) /\ \E i \in 1..Len(stack'[t]) : stack'[t][i] = c
  BY <1>1, <1>2, <1>3, ShapesOfSteps, PlacesOfCalls
<1>9. Typed'
  <2>1. \/ \E x : FrameTyped(x) /\ Replaced(t, x)
        \/ \E x, y : FrameTyped(x) /\ FrameTyped(y) /\ Grown(t, x, y)
    BY <1>2, <1>7
  <2>2. DOMAIN told' = Tellers /\ \A l \in Tellers : told'[l] \in ValuesOf[l.of]
    BY <1>1, <1>3 DEF Typed
  <2> QED BY <1>1, <1>3, <1>5, <1>6, <2>1, <2>2, TypesKept
<1>10. Alone'
  BY <1>1, <1>3, <1>8, AloneKept DEF Steps
<1>11. Telling(c)' /\ Setting(c)'
  <2>1. \A k \in KVars \ KVals : value'[k] = value[k]
    BY <1>4, <1>5
  <2>2. value'[Top(t).kvar] = value[Top(t).kvar]
    BY <1>1, <1>4, <1>5
  <2>3. \A l \in Waiting(c) : l.kind = "map" => value'[l.to] = value[l.to]
    <3>1. Waiting(c) \subseteq Listeners
      BY <1>1, <1>7, TopFlows
    <3> QED BY <1>5, <1>7, <3>1
  <2> QED BY ONLY Family, FInv, t \in Threads, <1>1, <1>2, <1>6, <2>1, <2>2, <2>3, IteratesOn
\* The listeners of the KVal go with it, or there are none.
<1>12. ASSUME Replaced(t, c),
              value'[m.to] # value[m.to] => \A l \in Listeners : l.of = m.to => ~Ends(l)' \/ Pending(l)'
       PROVE  FInvKept
  <2>1. Flow'
    BY <1>1, <1>3, <1>5, <1>6, <1>7, <1>11, <1>12, FlowReplaced
  <2>2. EdgesAgree' /\ BrowserKnows'
    BY <1>2, <1>6, <1>8, <1>12, MappedAgrees
  <2> QED BY <1>9, <1>10, <2>1, <2>2 DEF FInvKept
<1>13. CASE Replaced(t, c) /\ closeReason'[m.to] # "open"
  BY <1>12, <1>13 DEF Ends, IsClosed
<1>14. CASE Replaced(t, c) /\ UNCHANGED <<closeReason, listening>> /\ ListenersOf(m.to) = {}
  <2>1. ASSUME NEW l \in Listeners, l.of = m.to PROVE ~Ends(l)'
    <3>1. ~Ends(l)
      BY <1>3, <1>14, <2>1, RegisteredEnds DEF ListenersOf
    <3> QED BY <1>6, <3>1, EndsStay
  <2> QED BY <1>12, <1>14, <2>1
<1>15. CASE /\ Replaced(t, c) /\ ~Throws(m, Top(t).old)
            /\ Function(m, Top(t).old) = Function(m, Top(t).new)
  <2>1. m \in Waiting(Top(t))
    BY <1>1, TheListeners DEF Waiting, Called
  <2>2. value[m.to] = Function(m, Top(t).old)
    BY <1>1, <1>3, <1>7, <1>15, <2>1 DEF Telling
  <2> QED BY <1>5, <1>12, <1>15, <2>2
\* The KVal tells its listeners.
<1>16. ASSUME UNCHANGED <<closeReason, listening>>, ~Throws(m, Top(t).old),
              NEW d, Grown(t, c, d), d \in Frames, FrameTyped(d), d.pc = "notify",
              d.kvar = m.to, d.by = m, d.next = None,
              d.old = Function(m, Top(t).old), d.new = Function(m, Top(t).new)
       PROVE  FInvKept
  <2>1. Tells(d) /\ Waiting(d) = {l \in Listeners : l.of = m.to}
    BY <1>16 DEF Tells, Waiting
  <2>2. Telling(d)' /\ Setting(d)'
    <3>1. ASSUME NEW l \in Waiting(d), l.kind = "map", Ends(l)', ~Throws(l, d.old)
          PROVE  value'[l.to] = Function(l, d.old)
      <4>1. l \in Listeners /\ l.of = m.to /\ l # m
        BY <1>4, <2>1
      <4>2. Ends(l)
        BY <1>6, <3>1, <4>1, EndsStay
      <4>3. value[m.to] = d.old
        <5>1. m \in Waiting(Top(t))
          BY <1>1, TheListeners DEF Waiting, Called
        <5> QED BY <1>1, <1>3, <1>7, <1>16, <5>1 DEF Telling
      <4>4. value[l.to] = Function(l, value[l.of])
        BY <1>1, <1>5, <3>1, <4>1, <4>2, <4>3, MapsAgree
      <4> QED BY <1>5, <3>1, <4>1, <4>3, <4>4
    <3>2. d.by.kind \notin Both /\ d.next.kind \notin Both
      BY <1>1, <1>16 DEF Both, None
    <3>3. value'[d.kvar] = d.new
      BY <1>5, <1>16
    <3>4. Telling(d)'
      BY <1>16, <3>1, <3>2, <3>3 DEF Telling
    <3>5. Setting(d)'
      BY <2>1 DEF Setting
    <3> QED BY <3>4, <3>5
  <2>3. d.by \in Listeners /\ d.by.of = Top(t).kvar /\ \A i \in 1..Depth(t) : stack[t][i].kvar # d.kvar
    BY <1>1, <1>5, <1>16
  <2>4. Flow'
    BY ONLY Family, t \in Threads, <1>1, <1>3, <1>5, <1>6, <1>7, <1>11, <1>16, <2>2, <2>3, FlowGrown
  <2>5. \A l \in Listeners : l.of = m.to => Pending(l)'
    <3>1. \E i \in 1..Len(stack'[t]) : stack'[t][i] = d
      <4>1. Typed /\ stack[t] # <<>> /\ Grown(t, c, d)
        BY <1>1, <1>3, <1>16
      <4> QED BY ONLY t \in Threads, <4>1, PlacesOfCalls
    <3> QED BY <2>1, <3>1, NowPending
  <2>6. EdgesAgree' /\ BrowserKnows'
    BY <1>2, <1>6, <1>8, <2>5, MappedAgrees
  <2> QED BY <1>9, <1>10, <2>4, <2>6 DEF FInvKept
<1> QED BY <1>2, <1>13, <1>14, <1>15, <1>16

-----------------------------------------------------------------------------
(***************************************************************************)
(* The application sets or closes a KVar when no change is on its way.     *)
(***************************************************************************)
LEMMA NothingPending ==
  ASSUME \A u \in Threads : stack[u] = <<>>, NEW p
  PROVE  ~Pending(p)
<1>1. \A u \in Threads : Depth(u) = 0
  BY DEF Depth
<1> QED BY <1>1 DEF Pending

\* The threads take turns.
LEMMA TakingTurns ==
  ASSUME ~Concurrent, NEW t \in Threads, MayCall(t)
  PROVE  \A u \in Threads : stack[u] = <<>>
BY DEF MayCall, Idle

LEMMA SetValueKeeps ==
  ASSUME ~Concurrent, Family, FInv, NEW t \in Threads, NEW k \in Settable, NEW v \in ValuesOf[k],
         SetValue(t, k, v)
  PROVE  FInvKept
<1>1. Typed /\ EdgesAgree /\ BrowserKnows
  BY DEF FInv
<1>2. /\ MayCall(t) /\ sets' \in 0..MaxSets
      /\ UNCHANGED <<value, closeReason, listening, told>>
  BY <1>1, SetValueDoes
<1>3. PICK d : Started(t, d) /\ d.kvar = k /\ d.new = v
  BY <1>1, SetValueDoes
<1>4. \A u \in Threads : stack[u] = <<>>
  BY <1>2, TakingTurns
<1>5. /\ \A u \in Threads \ {t} : stack'[u] = <<>>
      /\ stack' \in [Threads -> Seq(Frames)]
      /\ Len(stack'[t]) = 1 /\ stack'[t][1] = d
      /\ d \in Frames /\ FrameTyped(d) /\ d.pc = "read" /\ d.by = None
  BY <1>3, <1>4 DEF Started, OthersStay
<1>6. \A u \in Threads : Calling(stack'[u])
  <2>1. Calling(<<>>)
    BY DEF Calling
  <2>2. Calling(stack'[t])
    BY <1>5 DEF Calling
  <2> QED BY <1>5, <2>1, <2>2
<1>7. Typed'
  BY <1>1, <1>2, <1>5, <1>6 DEF Typed, Stacks
<1>8. Alone'
  BY <1>5 DEF Alone
<1>9. EdgesAgree' /\ BrowserKnows'
  <2>1. \A l \in Down : Ends(l)' /\ ~Throws(l, value'[l.of]) => Shows(l, value')
    BY <1>1, <1>2, <1>4, NothingPending DEF EdgesAgree, Ends, IsClosed
  <2>2. \A l \in Tellers : Ends(l)' => told'[l] = value'[l.of]
    BY <1>1, <1>2, <1>4, NothingPending DEF BrowserKnows, Ends, IsClosed
  <2> QED BY <2>1, <2>2 DEF EdgesAgree, BrowserKnows, Shows
<1>10. Flow'
  <2>1. Telling(d)' /\ Setting(d)'
    <3>1. d.kvar \notin KVals
      BY <1>3 DEF Family
    <3> QED BY <1>5, <3>1 DEF Telling, Setting, Tells
  <2>2. Way(<<>>) /\ Way(stack'[t])
    <3>1. Way(<<>>)
      BY DEF Way
    <3>2. \A i \in 1..Len(stack'[t]) : i = 1
      BY <1>5
    <3>3. \A i \in 1..Len(stack'[t]) : Linked(stack'[t], i)
      BY <1>5, <3>2 DEF Linked
    <3>4. \A i, j \in 1..Len(stack'[t]) : Slopes(stack'[t], i, j)
      BY <3>2 DEF Slopes
    <3> QED BY <3>1, <3>3, <3>4 DEF Way
  <2>3. ASSUME NEW u \in Threads, NEW i \in 1..Len(stack'[u])
        PROVE  (Telling(stack[u][i]) /\ Setting(stack[u][i]))'
    <3>1. u = t
      <4>1. Len(<<>>) = 0
        OBVIOUS
      <4>2. stack'[u] # <<>>
        BY <2>3, <4>1
      <4> QED BY <1>5, <4>2
    <3>2. i = 1
      <4>1. Len(stack'[u]) = 1
        BY <1>5, <3>1
      <4> QED BY <2>3, <4>1
    <3> QED BY <1>5, <2>1, <3>1, <3>2 DEF Telling, Setting
  <2>4. \A u \in Threads : Way(stack'[u])
    BY <1>5, <2>2
  <2> QED BY <2>3, <2>4 DEF Flow, Depth
<1> QED BY <1>7, <1>8, <1>9, <1>10 DEF FInvKept

\* What follows the KVar that is closed is closed with it: what is still open was
\* in step and stays so.
LEMMA CloseCalledKeeps ==
  ASSUME ~Concurrent, Family, FInv, NEW t \in Threads, NEW k \in Closable, CloseCalled(t, k)
  PROVE  FInvKept
<1>1. Typed /\ Alone /\ EdgesAgree /\ BrowserKnows
  BY DEF FInv
<1>2. MayCall(t) /\ Close(k, "called") /\ UNCHANGED <<value, told, stack, sets>>
  BY DEF CloseCalled, CloseCalledBy
<1>3. \A u \in Threads : stack[u] = <<>>
  BY <1>2, TakingTurns
<1>4. /\ \A m \in KVars : IsClosed(m) => IsClosed(m)'
      /\ closeReason' \in [KVars -> {"open", "called", "source", "mapper"}]
      /\ listening' \subseteq listening
  BY <1>1, <1>2, Closing, GraphAssumption
<1>5. Typed'
  BY <1>1, <1>2, <1>4 DEF Typed, Stacks, Calling
<1>6. Alone'
  BY <1>1, <1>2 DEF Alone
<1>7. \A l \in Listeners : Ends(l)' => Ends(l)
  BY <1>4, TheListeners DEF Ends
<1>8. EdgesAgree' /\ BrowserKnows'
  <2>1. \A l \in Down : Ends(l)' /\ ~Throws(l, value'[l.of]) => Shows(l, value')
    BY <1>1, <1>2, <1>3, <1>7, NothingPending DEF EdgesAgree, Down
  <2>2. \A l \in Tellers : Ends(l)' => told'[l] = value'[l.of]
    BY <1>1, <1>2, <1>3, <1>7, NothingPending DEF BrowserKnows, Tellers
  <2> QED BY <2>1, <2>2 DEF EdgesAgree, BrowserKnows, Shows
<1>9. Flow'
  <2>1. \A u \in Threads : stack'[u] = <<>>
    BY <1>2, <1>3
  <2> QED BY <2>1 DEF Flow, Way, Depth
<1> QED BY <1>5, <1>6, <1>8, <1>9 DEF FInvKept

LEMMA NothingDone ==
  ASSUME FInv, UNCHANGED vars
  PROVE  FInvKept
<1> USE DEF vars
<1>1. Typed'
  BY DEF FInv, Typed, Stacks
<1>2. Alone' /\ EdgesAgree' /\ BrowserKnows'
  BY DEF FInv, Alone, EdgesAgree, BrowserKnows, Ends, IsClosed, Pending, Depth
<1>3. Flow'
  BY DEF FInv, Flow, Telling, Setting, Ends, IsClosed, Depth
<1> QED BY <1>1, <1>2, <1>3 DEF FInvKept

LEMMA StepFlows ==
  ASSUME ~Concurrent, Family, Lenses, FInv, [Next]_vars
  PROVE  FInv'
<1>1. FInvKept
  <2>1. ASSUME NEW t \in Threads, Proceed(t) PROVE FInvKept
    <3>1. ~(CloseListener(t) \/ SetBoth(t))
      BY NeverDone DEF FInv
    <3>2. CASE Read(t)
      BY <3>2, ReadKeeps
    <3>3. CASE Assign(t)
      BY <3>3, AssignKeeps
    <3>4. CASE AssignClosed(t)
      BY <3>4, AssignClosedKeeps
    <3>5. CASE Notify(t)
      BY <3>5, NotifyKeeps
    <3>6. CASE NoneLeft(t)
      BY <3>6, NoneLeftKeeps
    <3>7. CASE ListenerThrows(t)
      BY <3>7, ThrowsKeeps
    <3>8. CASE Tell(t)
      BY <3>8, TellKeeps
    <3>9. CASE SetOther(t)
      BY <3>9, SetOtherKeeps
    <3>10. CASE UpdateMapped(t)
      BY <3>10, UpdateMappedKeeps
    <3> QED BY <2>1, <3>1, <3>2, <3>3, <3>4, <3>5, <3>6, <3>7, <3>8, <3>9, <3>10 DEF Proceed
  <2>2. ASSUME NEW t \in Threads, NEW k \in Settable, NEW v \in ValuesOf[k], SetValue(t, k, v)
        PROVE  FInvKept
    BY <2>2, SetValueKeeps
  <2>3. ASSUME NEW t \in Threads, NEW k \in Closable, CloseCalled(t, k) PROVE FInvKept
    BY <2>3, CloseCalledKeeps
  <2>4. CASE UNCHANGED vars
    BY <2>4, NothingDone
  <2> QED BY <2>1, <2>2, <2>3, <2>4 DEF Next
<1>2. IInv'
  BY StepKeeps DEF FInv
<1> QED BY <1>1, <1>2 DEF FInvKept, FInv

LEMMA StartFlows ==
  ASSUME Family, Init
  PROVE  FInv
<1>1. IInv
  BY StartKeeps
<1>2. \A t \in Threads : stack[t] = <<>>
  BY DEF Init
<1>3. Typed
  <2>1. DOMAIN value = KVars /\ \A k \in KVars : value[k] \in ValuesOf[k]
    BY GraphAssumption DEF Init
  <2>2. DOMAIN told = Tellers /\ \A l \in Tellers : told[l] \in ValuesOf[l.of]
    BY <2>1, TheListeners DEF Init, Tellers
  <2>3. Stacks /\ \A t \in Threads : Calling(stack[t])
    BY DEF Init, Stacks, Calling
  <2>4. sets \in 0..MaxSets
    BY GraphAssumption DEF Init
  <2> QED BY <2>1, <2>2, <2>3, <2>4 DEF Init, Typed
<1>4. EdgesAgree
  <2>1. Down \subseteq Sources
    BY DEF Down, Downward, Sources
  <2> QED BY <2>1, GraphAssumption DEF Init, EdgesAgree
<1>5. BrowserKnows
  BY DEF Init, BrowserKnows
<1>6. Alone /\ Flow
  BY <1>2 DEF Alone, Flow, Way, Depth
<1> QED BY <1>1, <1>3, <1>4, <1>5, <1>6 DEF FInv

LEMMA Flows ==
  ASSUME ~Concurrent, Family, Lenses
  PROVE  Spec => []FInv
<1>1. Init => FInv
  BY StartFlows
<1>2. FInv /\ [Next]_vars => FInv'
  BY StepFlows
<1> QED BY <1>1, <1>2, PTL DEF Spec

-----------------------------------------------------------------------------
(***************************************************************************)
(* The theorems about such families.                                       *)
(***************************************************************************)
\* Every value stays what its KVar may hold, and every call on a stack one of a
\* setter or of KVal.map, of a KVar and listeners of the graph.
THEOREM TypeCorrect ==
  ASSUME ~Concurrent, Family, Lenses
  PROVE  Spec => []TypeOK
<1>1. FInv => TypeOK
  <2>1. SUFFICES ASSUME Typed PROVE TypeOK
    BY DEF FInv
  <2>2. ASSUME NEW t \in Threads, NEW i \in DOMAIN stack[t] PROVE IsCall(stack[t][i])
    <3>1. Calling(stack[t]) /\ i \in 1..Len(stack[t])
      <4>1. Calling(stack[t])
        BY <2>1 DEF Typed
      <4>2. PICK s : s = stack[t]
        OBVIOUS
      <4>3. s \in Seq(Frames) /\ i \in DOMAIN s
        BY <4>1, <4>2 DEF Calling
      <4> QED BY <4>1, <4>2, <4>3
    <3>2. stack[t][i] \in Frames /\ FrameTyped(stack[t][i])
      BY <3>1 DEF Calling
    <3> QED BY <3>2, FrameFields DEF IsCall, FrameTyped
  <2> QED BY <2>1, <2>2 DEF Typed, TypeOK
<1> QED BY <1>1, Flows, PTL

\* Settled holds of any family of KVars and KVals made from each other by map, of
\* whatever shape and size, that one thread at a time sets and closes: once a
\* setter is through, both directions of every reversible map agree and every KVal
\* shows what it is mapped from, whatever order the listeners were called in.
THEOREM ChangesArrive ==
  ASSUME ~Concurrent, Family, Lenses
  PROVE  Spec => []Settled
<1>1. FInv => Settled
  <2>1. SUFFICES ASSUME EdgesAgree, Quiet, NEW l \in Sources,
                        ~IsClosed(l.of), ~IsClosed(l.to), ~Throws(l, value[l.of])
                 PROVE  Shows(l, value)
    BY DEF FInv, Settled
  <2>2. l \in Down /\ Ends(l)
    <3>1. l \in Listeners /\ l.kind \in {"map", "forward"}
      BY TheListeners DEF Sources
    <3> QED BY <2>1, <3>1 DEF Down, Downward, Ends
  <2>3. \A p : ~Pending(p)
    BY <2>1, NothingPending DEF Quiet, Idle
  <2> QED BY <2>1, <2>2, <2>3 DEF EdgesAgree
<1> QED BY <1>1, Flows, PTL

\* ToldLast holds of them too: the listener that tells the browser is called for
\* every change that reaches its KVar, and for the last one last.
THEOREM BrowserIsTold ==
  ASSUME ~Concurrent, Family, Lenses
  PROVE  Spec => []ToldLast
<1>1. FInv => ToldLast
  <2>1. SUFFICES ASSUME BrowserKnows, Quiet, NEW l \in Tellers, ~IsClosed(l.of)
                 PROVE  told[l] = value[l.of]
    BY DEF FInv, ToldLast
  <2>2. Ends(l)
    BY <2>1 DEF Tellers, Ends, Links
  <2>3. ~Pending(l)
    BY <2>1, NothingPending DEF Quiet, Idle
  <2> QED BY <2>1, <2>2, <2>3 DEF BrowserKnows
<1> QED BY <1>1, Flows, PTL

\* NoReentry holds of them: the two listeners of a reversible map answer each
\* other once, with a value that is there already, and Delegates.observable stops
\* that answer.  No setter of a KVar that is telling its listeners tells them again.
THEOREM NoneIsReentered ==
  ASSUME ~Concurrent, Family, Lenses
  PROVE  Spec => []NoReentry
<1>1. FInv => NoReentry
  <2>1. SUFFICES ASSUME Typed, Flow, NEW t \in Threads,
                        NEW i \in DOMAIN stack[t], NEW j \in DOMAIN stack[t],
                        i < j, stack[t][i].kvar = stack[t][j].kvar
                 PROVE  stack[t][j].pc \in {"read", "assign"}
    BY DEF FInv, NoReentry
  <2>2. Calling(stack[t]) /\ i \in 1..Len(stack[t]) /\ j \in 1..Len(stack[t])
    BY <2>1 DEF Typed, Calling
  <2>3. Slopes(stack[t], i, j)
    BY <2>1, <2>2 DEF Flow, Way
  <2>4. stack[t][j].pc \in {"read", "assign", "notify", "iterate"}
    BY <2>2, FrameFields DEF Calling
  <2> QED BY <2>1, <2>3, <2>4 DEF Slopes, Tells
<1> QED BY <1>1, Flows, PTL

\* ClosedIsCutOff holds of them: of a KVar that has been closed only the value the
\* application itself sets is still assigned (before the setter throws), none that
\* a map makes of another.
THEOREM NothingReachesClosed ==
  ASSUME ~Concurrent, Family, Lenses
  PROVE  Spec => ClosedIsCutOff
<1> DEFINE CutOff ==
      \A k \in KVars : IsClosed(k) /\ value'[k] # value[k] =>
        \E t \in Threads : At(t, "assign") /\ Top(t).kvar = k
                             /\ Top(t).by.kind \notin Links \cup {"split"}
<1>1. ASSUME FInv, [Next]_vars PROVE CutOff
  <2>1. SUFFICES ASSUME NEW k \in KVars, IsClosed(k), value'[k] # value[k]
                 PROVE  \E t \in Threads : At(t, "assign") /\ Top(t).kvar = k
                                             /\ Top(t).by.kind \notin Links \cup {"split"}
    OBVIOUS
  <2>2. Typed
    BY <1>1 DEF FInv
  <2>3. PICK t \in Threads : Assign(t) \/ AssignClosed(t) \/ UpdateMapped(t)
    <3>1. ~UNCHANGED value
      BY <2>1
    <3> QED BY <1>1, <3>1 DEF Next, Proceed, vars, Read, Notify, NoneLeft, Tell, SetOther,
                 SetBoth, SetValue, ListenerThrows, ListenerThrowsBy, CloseListener, CloseListenerBy,
                 CloseCalled, CloseCalledBy
  <2>4. CASE Assign(t)
    <3>1. /\ stack[t] # <<>> /\ Top(t).pc = "assign"
          /\ Top(t).old = Top(t).new \/ ~IsClosed(Top(t).kvar)
          /\ value' = [value EXCEPT ![Top(t).kvar] = Top(t).new]
      BY <2>2, <2>4, AssignDoes
    <3> QED BY <1>1, <2>1, <2>2, <3>1, TopFlows DEF Typed, Setting, Tells
  <2>5. CASE AssignClosed(t)
    <3>1. At(t, "assign") /\ value' = [value EXCEPT ![Top(t).kvar] = Top(t).new]
      BY <2>5 DEF AssignClosed, AssignClosedBy
    <3>2. Top(t).kvar = k
      BY <2>1, <2>2, <3>1 DEF Typed
    <3>3. Top(t).by = None
      BY <1>1, <2>5, AssignClosedNever
    <3> QED BY <3>1, <3>2, <3>3 DEF None, Links
  <2>6. CASE UpdateMapped(t)
    <3>1. ~IsClosed(Called(t).to)
      BY <2>2, <2>6, UpdateMappedDoes DEF Ends, Links
    <3> QED BY <1>1, <2>1, <2>6, <3>1, MappedOffTheWay
  <2> QED BY <2>3, <2>4, <2>5, <2>6
<1>2. FInv /\ [Next]_vars => [CutOff]_vars
  BY <1>1
<1>3. [][CutOff]_vars => ClosedIsCutOff
  BY DEF ClosedIsCutOff
<1> HIDE DEF CutOff
<1> QED BY <1>2, <1>3, Flows, PTL DEF Spec

-----------------------------------------------------------------------------
(***************************************************************************)
(* Closing in steps.  Of any graph, what is closed and registered, and     *)
(* the handlers left, at every point of a close: r, L and H are the        *)
(* reasons, the listeners registered and the handlers left.                *)
(***************************************************************************)
\* What is closed with k: k, and all that is made from one of them; nothing else.
LEMMA ClosedWithIs ==
  ASSUME NEW k \in KVars
  PROVE  /\ k \in ClosedWith[k] /\ ClosedWith[k] \subseteq Made \cup {k} /\ Made \subseteq KVars
         /\ \A l \in Closers : l.of \in ClosedWith[k] => l.to \in ClosedWith[k]
         /\ \A S : k \in S /\ (\A l \in Closers : l.of \in S => l.to \in S) => ClosedWith[k] \subseteq S
<1>1. ClosedWith[k] = {k} \cup {m \in Made : \A S \in SUBSET Made :
        (\A l \in Closers : l.of \in S \cup {k} => l.to \in S) => m \in S}
  BY DEF ClosedWith
<1>2. Made \subseteq KVars
  BY EndsAreKVars DEF Made, Closers
<1>3. \A l \in Closers : l.of \in ClosedWith[k] => l.to \in ClosedWith[k]
  <2>1. SUFFICES ASSUME NEW l \in Closers, l.of \in ClosedWith[k],
                        NEW S \in SUBSET Made,
                        \A x \in Closers : x.of \in S \cup {k} => x.to \in S
                 PROVE  l.to \in S
    BY <1>1 DEF Made
  <2> QED BY <1>1, <2>1
<1>4. ASSUME NEW S, k \in S, \A l \in Closers : l.of \in S => l.to \in S,
             NEW m \in ClosedWith[k]
      PROVE  m \in S
  <2>1. CASE m = k
    BY <1>4, <2>1
  <2>2. CASE m # k
    <3>1. \A l \in Closers : l.of \in (S \cap Made) \cup {k} => l.to \in S \cap Made
      BY <1>4 DEF Made
    <3> QED BY <1>1, <1>4, <2>2, <3>1
  <2> QED BY <2>1, <2>2
<1> QED BY <1>1, <1>2, <1>3, <1>4

Reasons == {"open", "called", "source", "mapper"}
AllHandlers == {RemoveListener(l) : l \in Listeners} \cup {CloseEnd(l) : l \in Closers}

EndsOpen(r, l) == r[l.of] = "open" /\ (l.kind \in Links => r[l.to] = "open")

\* Closed, or to be closed by a handler.
ShutAtOnce(r, H) ==
  {k \in KVars : \/ r[k] # "open"
                 \/ \E l \in Closers : CloseEnd(l) \in H /\ k \in ClosedWith[l.to]}

\* What has still to be closed or removed, a handler is left for; and the handlers
\* remove none whose ends are open.
Consistent(r, L, H) ==
  /\ r \in [KVars -> Reasons] /\ L \subseteq Listeners /\ H \subseteq AllHandlers
  /\ \A l \in L : r[l.of] = "open" /\ (EndsOpen(r, l) \/ RemoveListener(l) \in H)
  /\ \A l \in Listeners : EndsOpen(r, l) => l \in L /\ RemoveListener(l) \notin H
  /\ \A l \in Closers : r[l.of] # "open" => r[l.to] # "open" \/ CloseEnd(l) \in H

LEMMA HandlersAre ==
  ASSUME NEW l, NEW k
  PROVE  /\ RemoveListener(l) \in Handlers(k) <=> l \in Listeners /\ Removes(l, k)
         /\ CloseEnd(l) \in Handlers(k) <=> l \in Closers /\ l.of = k
         /\ RemoveListener(l) \in AllHandlers <=> l \in Listeners
         /\ CloseEnd(l) \in AllHandlers <=> l \in Closers
         /\ Handlers(k) \subseteq AllHandlers
         /\ RemoveListener(l).does = "remove" /\ RemoveListener(l).listener = l
         /\ CloseEnd(l).does = "close" /\ CloseEnd(l).listener = l
<1>1. \A m : RemoveListener(m).does = "remove" /\ RemoveListener(m).listener = m
             /\ CloseEnd(m).does = "close" /\ CloseEnd(m).listener = m
  BY DEF RemoveListener, CloseEnd
<1>2. \A m : RemoveListener(m) # CloseEnd(l) /\ RemoveListener(l) # CloseEnd(m)
             /\ (RemoveListener(m) = RemoveListener(l) => m = l)
             /\ (CloseEnd(m) = CloseEnd(l) => m = l)
  BY <1>1
<1>3. Closers \subseteq Listeners
  BY DEF Closers
<1> QED BY <1>1, <1>2, <1>3 DEF Handlers, AllHandlers

\* All that would follow what is closed is closed or to be closed.
LEMMA ShutFollows ==
  ASSUME NEW r, NEW L, NEW H, Consistent(r, L, H), NEW k \in ShutAtOnce(r, H)
  PROVE  k \in KVars /\ ClosedWith[k] \subseteq ShutAtOnce(r, H)
<1> DEFINE S == ShutAtOnce(r, H)
<1>1. k \in KVars
  BY DEF ShutAtOnce
<1>2. ASSUME NEW l \in Closers, l.of \in S PROVE l.to \in S
  <2>1. l \in Listeners /\ l.of \in KVars /\ l.to \in KVars
    BY EndsAreKVars DEF Closers
  <2>2. CASE r[l.of] # "open"
    <3>1. r[l.to] # "open" \/ CloseEnd(l) \in H
      BY <2>2 DEF Consistent
    <3>2. l.to \in ClosedWith[l.to]
      BY <2>1, ClosedWithIs
    <3> QED BY <2>1, <3>1, <3>2 DEF ShutAtOnce
  <2>3. CASE r[l.of] = "open"
    <3>1. PICK x \in Closers : CloseEnd(x) \in H /\ l.of \in ClosedWith[x.to]
      BY <1>2, <2>3 DEF ShutAtOnce
    <3>2. x.to \in KVars
      BY EndsAreKVars DEF Closers
    <3>3. l.to \in ClosedWith[x.to]
      BY <3>1, <3>2, ClosedWithIs
    <3> QED BY <2>1, <3>1, <3>3 DEF ShutAtOnce
  <2> QED BY <2>2, <2>3
<1> HIDE DEF S
<1>3. ClosedWith[k] \subseteq S
  BY <1>1, <1>2, ClosedWithIs DEF S
<1> QED BY <1>1, <1>3 DEF S

\* A KVar is closed, and nothing done yet about what follows: of the handlers left,
\* none is gone but such as would close it.
LEMMA ShutKeeps ==
  ASSUME NEW r, NEW L, NEW H, Consistent(r, L, H),
         NEW k \in KVars, r[k] = "open", NEW reason \in Reasons \ {"open"},
         NEW H2, H2 \subseteq H \cup Handlers(k), Handlers(k) \subseteq H2,
         \A h \in H \ H2 : h.does = "close" /\ h.listener.to = k
  PROVE  Consistent([r EXCEPT ![k] = reason], {l \in L : l.of # k}, H2)
<1> DEFINE r2 == [r EXCEPT ![k] = reason]
           L2 == {l \in L : l.of # k}
<1>1. r \in [KVars -> Reasons] /\ L \subseteq Listeners /\ H \subseteq AllHandlers
  BY DEF Consistent
<1>2. r2 \in [KVars -> Reasons] /\ r2[k] # "open" /\ \A m \in KVars \ {k} : r2[m] = r[m]
  BY <1>1
<1>3. L2 \subseteq Listeners /\ H2 \subseteq AllHandlers
  BY <1>1, HandlersAre
<1>4. ASSUME NEW l \in Listeners
      PROVE  EndsOpen(r2, l) <=> EndsOpen(r, l) /\ l.of # k /\ (l.kind \in Links => l.to # k)
  BY <1>2, EndsAreKVars DEF EndsOpen
<1> HIDE DEF r2
<1>5. ASSUME NEW l \in L2 PROVE r2[l.of] = "open" /\ (EndsOpen(r2, l) \/ RemoveListener(l) \in H2)
  <2>1. l \in Listeners /\ l.of \in KVars \ {k} /\ r[l.of] = "open" /\ (EndsOpen(r, l) \/ RemoveListener(l) \in H)
    BY <1>1, EndsAreKVars DEF Consistent
  <2>2. RemoveListener(l) \in H => RemoveListener(l) \in H2
    BY HandlersAre
  <2>3. l.kind \in Links /\ l.to = k => RemoveListener(l) \in H2
    BY <2>1, HandlersAre DEF Removes
  <2> QED BY <1>2, <1>4, <2>1, <2>2, <2>3
<1>6. ASSUME NEW l \in Listeners, EndsOpen(r2, l) PROVE l \in L2 /\ RemoveListener(l) \notin H2
  <2>1. EndsOpen(r, l) /\ l.of # k /\ (l.kind \in Links => l.to # k)
    BY <1>4, <1>6
  <2>2. l \in L /\ RemoveListener(l) \notin H
    BY <2>1 DEF Consistent
  <2>3. RemoveListener(l) \notin Handlers(k)
    BY <2>1, HandlersAre DEF Removes
  <2> QED BY <2>1, <2>2, <2>3
<1>7. ASSUME NEW l \in Closers, r2[l.of] # "open" PROVE r2[l.to] # "open" \/ CloseEnd(l) \in H2
  <2>1. l.of \in KVars /\ l.to \in KVars
    BY EndsAreKVars DEF Closers
  <2>2. CASE l.of = k
    BY <2>2, HandlersAre
  <2>3. CASE l.of # k
    <3>1. r[l.to] # "open" \/ CloseEnd(l) \in H
      BY <1>2, <1>7, <2>1, <2>3 DEF Consistent
    <3>2. CloseEnd(l) \in H \ H2 => l.to = k
      BY HandlersAre
    <3> QED BY <1>2, <2>1, <3>1, <3>2
  <2> QED BY <2>2, <2>3
<1>8. Consistent(r2, L2, H2)
  BY <1>2, <1>3, <1>5, <1>6, <1>7 DEF Consistent
<1> QED BY <1>8 DEF r2

\* A handler has removed its listener, or had nothing to close.
LEMMA DoneKeeps ==
  ASSUME NEW r, NEW L, NEW H, Consistent(r, L, H), NEW h \in H, NEW H2, H2 \subseteq H, H \ {h} \subseteq H2,
         NEW L2, \/ h.does = "remove" /\ L2 = L \ {h.listener}
                 \/ h.does # "remove" /\ r[h.listener.to] # "open" /\ L2 = L
  PROVE  Consistent(r, L2, H2)
<1>1. r \in [KVars -> Reasons] /\ L \subseteq Listeners /\ H \subseteq AllHandlers
  BY DEF Consistent
<1>2. \/ \E m \in Listeners : h = RemoveListener(m) /\ L2 = L \ {m}
      \/ \E m \in Closers : h = CloseEnd(m) /\ r[m.to] # "open" /\ L2 = L
  BY <1>1, HandlersAre DEF AllHandlers
<1>3. ASSUME NEW l \in L2 PROVE r[l.of] = "open" /\ (EndsOpen(r, l) \/ RemoveListener(l) \in H2)
  BY <1>2, HandlersAre DEF Consistent
<1>4. ASSUME NEW l \in Listeners, EndsOpen(r, l) PROVE l \in L2 /\ RemoveListener(l) \notin H2
  BY <1>2, <1>4 DEF Consistent
<1>5. ASSUME NEW l \in Closers, r[l.of] # "open" PROVE r[l.to] # "open" \/ CloseEnd(l) \in H2
  BY <1>2, <1>5, HandlersAre DEF Consistent
<1> QED BY <1>1, <1>2, <1>3, <1>4, <1>5 DEF Consistent

-----------------------------------------------------------------------------
(***************************************************************************)
(* What that is seen as, at once.                                          *)
(***************************************************************************)
DoomedIn(r, H) ==
  {k \in Made : r[k] = "open" /\ \E h \in H : h.does = "close" /\ k \in ClosedWith[h.listener.to]}
ReasonIn(r, H) == [k \in KVars |-> IF k \in DoomedIn(r, H) THEN "source" ELSE r[k]]
ListeningIn(r, L, H) ==
  {l \in L : /\ l.of \notin DoomedIn(r, H) /\ RemoveListener(l) \notin H
             /\ \A k \in DoomedIn(r, H) : RemoveListener(l) \notin Handlers(k)}

LEMMA ViewIs ==
  ASSUME NEW r, NEW L, NEW H, Consistent(r, L, H)
  PROVE  /\ \A k \in KVars : ReasonIn(r, H)[k] = IF r[k] # "open" THEN r[k]
                               ELSE IF k \in ShutAtOnce(r, H) THEN "source" ELSE "open"
         /\ ListeningIn(r, L, H) = {l \in Listeners : EndsOpen(ReasonIn(r, H), l)}
<1>1. H \subseteq AllHandlers /\ L \subseteq Listeners
  BY DEF Consistent
<1>2. \A k : (\E h \in H : h.does = "close" /\ k \in ClosedWith[h.listener.to])
               <=> \E l \in Closers : CloseEnd(l) \in H /\ k \in ClosedWith[l.to]
  BY <1>1, HandlersAre DEF AllHandlers
<1>3. ASSUME NEW l \in Closers PROVE l.to \in KVars /\ ClosedWith[l.to] \subseteq Made
  <2>1. l.to \in KVars /\ l.to \in Made
    BY EndsAreKVars DEF Closers, Made
  <2> QED BY <2>1, ClosedWithIs
<1>4. \A k \in KVars : k \in DoomedIn(r, H) <=> r[k] = "open" /\ k \in ShutAtOnce(r, H)
  BY <1>2, <1>3 DEF DoomedIn, ShutAtOnce
<1>5. \A k \in KVars : ReasonIn(r, H)[k] = IF r[k] # "open" THEN r[k]
                         ELSE IF k \in ShutAtOnce(r, H) THEN "source" ELSE "open"
  BY <1>4 DEF ReasonIn
<1>6. \A l \in Listeners :
        EndsOpen(ReasonIn(r, H), l) <=>
          /\ EndsOpen(r, l) /\ l.of \notin DoomedIn(r, H)
          /\ l.kind \in Links => l.to \notin DoomedIn(r, H)
  BY <1>4, <1>5, EndsAreKVars DEF EndsOpen
<1>7. ASSUME NEW l \in ListeningIn(r, L, H) PROVE l \in Listeners /\ EndsOpen(ReasonIn(r, H), l)
  <2>1. /\ l \in L /\ l \in Listeners /\ l.of \notin DoomedIn(r, H) /\ RemoveListener(l) \notin H
        /\ \A k \in DoomedIn(r, H) : RemoveListener(l) \notin Handlers(k)
    BY <1>1 DEF ListeningIn
  <2>2. EndsOpen(r, l)
    BY <2>1 DEF Consistent
  <2>3. l.kind \in Links => l.to \notin DoomedIn(r, H)
    BY <2>1, HandlersAre DEF Removes
  <2> QED BY <1>6, <2>1, <2>2, <2>3
<1>8. ASSUME NEW l \in Listeners, EndsOpen(ReasonIn(r, H), l) PROVE l \in ListeningIn(r, L, H)
  <2>1. EndsOpen(r, l) /\ l.of \notin DoomedIn(r, H) /\ (l.kind \in Links => l.to \notin DoomedIn(r, H))
    BY <1>6, <1>8
  <2>2. l \in L /\ RemoveListener(l) \notin H
    BY <2>1 DEF Consistent
  <2>3. \A k \in DoomedIn(r, H) : RemoveListener(l) \notin Handlers(k)
    BY <2>1, HandlersAre DEF Removes
  <2> QED BY <2>1, <2>2, <2>3 DEF ListeningIn
<1> QED BY <1>5, <1>7, <1>8

\* What a handler closes was seen as closed with its source before.
LEMMA SameView ==
  ASSUME NEW r, NEW L, NEW H, Consistent(r, L, H), NEW r2, NEW L2, NEW H2, Consistent(r2, L2, H2),
         ShutAtOnce(r2, H2) = ShutAtOnce(r, H),
         \A k \in KVars : r2[k] = r[k] \/ (r[k] = "open" /\ r2[k] = "source")
  PROVE  ReasonIn(r2, H2) = ReasonIn(r, H) /\ ListeningIn(r2, L2, H2) = ListeningIn(r, L, H)
<1>1. \A k \in KVars : r[k] = "open" /\ r2[k] = "source" => k \in ShutAtOnce(r, H)
  BY DEF ShutAtOnce
<1>2. \A k \in KVars : ReasonIn(r2, H2)[k] = ReasonIn(r, H)[k]
  BY <1>1, ViewIs
<1>3. ReasonIn(r2, H2) = ReasonIn(r, H)
  BY <1>2 DEF ReasonIn
<1> QED BY <1>3, ViewIs

\* With a handler less, and perhaps a KVar more closed, that would have been.
LEMMA SameShut ==
  ASSUME NEW r, NEW L, NEW H, Consistent(r, L, H), NEW r2, NEW L2, NEW H2, Consistent(r2, L2, H2),
         NEW h \in H, H \ {h} \subseteq H2,
         \/ h.does = "remove" /\ r2 = r /\ H2 \subseteq H
         \/ h.does # "remove" /\ r2 = r /\ r[h.listener.to] # "open" /\ H2 \subseteq H
         \/ /\ h.does # "remove" /\ r[h.listener.to] = "open" /\ r2 = [r EXCEPT ![h.listener.to] = "source"]
            /\ H2 \subseteq H \cup Handlers(h.listener.to)
  PROVE  ShutAtOnce(r2, H2) = ShutAtOnce(r, H)
<1> DEFINE k == h.listener.to
<1>1. H \subseteq AllHandlers /\ r \in [KVars -> Reasons]
  BY DEF Consistent
<1>2. \/ \E m \in Listeners : h = RemoveListener(m)
      \/ \E m \in Closers : h = CloseEnd(m) /\ k = m.to
  BY <1>1, HandlersAre DEF AllHandlers
<1>3. \A l \in Closers : CloseEnd(l) # h => (CloseEnd(l) \in H => CloseEnd(l) \in H2)
  OBVIOUS
<1>4. h.does # "remove" => k \in KVars /\ k \in ShutAtOnce(r, H) /\ r2[k] # "open"
  <2>1. SUFFICES ASSUME h.does # "remove" PROVE k \in KVars /\ k \in ShutAtOnce(r, H) /\ r2[k] # "open"
    OBVIOUS
  <2>2. PICK m \in Closers : h = CloseEnd(m) /\ k = m.to
    BY <1>2, <2>1, HandlersAre
  <2>3. k \in KVars /\ k \in ClosedWith[k]
    BY <2>2, EndsAreKVars, ClosedWithIs DEF Closers
  <2>4. r2[k] # "open"
    BY <1>1, <2>1, <2>3
  <2> QED BY <2>2, <2>3, <2>4 DEF ShutAtOnce
<1>5. \A m \in KVars : r[m] # "open" => r2[m] # "open"
  BY <1>1
<1>6. ASSUME NEW m \in ShutAtOnce(r, H) PROVE m \in ShutAtOnce(r2, H2)
  <2>1. CASE r[m] # "open"
    BY <1>5, <1>6, <2>1 DEF ShutAtOnce
  <2>2. CASE \E l \in Closers : CloseEnd(l) \in H2 /\ m \in ClosedWith[l.to]
    BY <1>6, <2>2 DEF ShutAtOnce
  <2>3. CASE \E l \in Closers : CloseEnd(l) = h /\ m \in ClosedWith[l.to]
    <3>1. h.does # "remove" /\ m \in ClosedWith[k]
      BY <2>3, HandlersAre
    <3>2. k \in ShutAtOnce(r2, H2)
      BY <1>4, <3>1 DEF ShutAtOnce
    <3>3. ClosedWith[k] \subseteq ShutAtOnce(r2, H2)
      BY ONLY Consistent(r2, L2, H2), <3>2, ShutFollows
    <3> QED BY <3>1, <3>3
  <2> QED BY <1>3, <1>6, <2>1, <2>2, <2>3 DEF ShutAtOnce
<1>7. ASSUME NEW m \in ShutAtOnce(r2, H2) PROVE m \in ShutAtOnce(r, H)
  <2>1. CASE r2[m] # "open"
    <3>1. m \in KVars /\ (r[m] # "open" \/ (m = k /\ h.does # "remove"))
      BY <1>1, <1>7, <2>1 DEF ShutAtOnce
    <3> QED BY <1>4, <3>1 DEF ShutAtOnce
  <2>2. CASE \E l \in Closers : CloseEnd(l) \in H /\ m \in ClosedWith[l.to]
    BY <1>7, <2>2 DEF ShutAtOnce
  <2>3. ASSUME NEW l \in Closers, CloseEnd(l) \in Handlers(k), h.does # "remove", m \in ClosedWith[l.to]
        PROVE  m \in ShutAtOnce(r, H)
    <3>1. l.of = k
      BY <2>3, HandlersAre
    <3>2. ClosedWith[k] \subseteq ShutAtOnce(r, H) /\ k \in ClosedWith[k]
      BY <1>4, <2>3, ShutFollows, ClosedWithIs
    <3>3. l.to \in ShutAtOnce(r, H)
      BY <1>4, <2>3, <3>1, <3>2, ClosedWithIs
    <3> QED BY <2>3, <3>3, ShutFollows
  <2> QED BY <1>7, <2>1, <2>2, <2>3 DEF ShutAtOnce
<1> QED BY <1>6, <1>7

\* Where no handler is left, closing a KVar is seen as closing all that follows.
LEMMA ShutAtFirst ==
  ASSUME NEW r, NEW L, Consistent(r, L, {}), NEW k \in KVars, NEW r2, NEW L2, r2[k] # "open",
         Consistent(r2, L2, Handlers(k)), \A m \in KVars \ {k} : r2[m] = r[m]
  PROVE  ShutAtOnce(r2, Handlers(k)) = {m \in KVars : r[m] # "open" \/ m \in ClosedWith[k]}
<1>1. /\ k \in ClosedWith[k] /\ \A l \in Closers : l.of = k => l.to \in ClosedWith[k]
      /\ \A l \in Closers : l.of \in ClosedWith[k] => l.to \in ClosedWith[k]
  BY ClosedWithIs
<1>2. ClosedWith[k] \subseteq ShutAtOnce(r2, Handlers(k))
  <2>1. k \in ShutAtOnce(r2, Handlers(k))
    BY DEF ShutAtOnce
  <2> QED BY <2>1, ShutFollows
<1>3. ASSUME NEW m \in KVars, NEW l \in Closers, CloseEnd(l) \in Handlers(k), m \in ClosedWith[l.to]
      PROVE  m \in ClosedWith[k]
  <2>1. l.to \in ClosedWith[k] /\ l.to \in KVars
    BY <1>1, <1>3, HandlersAre, EndsAreKVars DEF Closers
  <2> QED BY <1>1, <1>3, <2>1, ClosedWithIs
<1>4. ASSUME NEW m \in ShutAtOnce(r2, Handlers(k)) PROVE m \in KVars /\ (r[m] # "open" \/ m \in ClosedWith[k])
  BY <1>1, <1>3 DEF ShutAtOnce
<1>5. ASSUME NEW m \in KVars, r[m] # "open" PROVE m \in ShutAtOnce(r2, Handlers(k))
  BY <1>5 DEF ShutAtOnce
<1> QED BY <1>2, <1>4, <1>5

-----------------------------------------------------------------------------
(***************************************************************************)
(* The handlers left.                                                      *)
(***************************************************************************)
Stacked == Seq(SUBSET AllHandlers)
InFrames(s) == UNION Range(s)
LeftIn(c) == UNION {InFrames(c[t]) : t \in Threads}

LEMMA FramesAre ==
  ASSUME NEW s \in Stacked
  PROVE  /\ InFrames(s) \subseteq AllHandlers /\ InFrames(<<>>) = {}
         /\ \A x \in SUBSET AllHandlers : /\ Append(s, x) \in Stacked
                                          /\ InFrames(Append(s, x)) = InFrames(s) \cup x
         /\ s # <<>> => /\ Front(s) \in Stacked /\ Last(s) \in SUBSET AllHandlers
                        /\ InFrames(s) = InFrames(Front(s)) \cup Last(s)
<1> DEFINE T == SUBSET AllHandlers
<1>1. ASSUME NEW q \in Seq(T) PROVE \A h : h \in InFrames(q) <=> \E i \in 1..Len(q) : h \in q[i]
  <2>1. DOMAIN q = 1..Len(q)
    OBVIOUS
  <2> QED BY <2>1 DEF InFrames, Range
<1>2. InFrames(<<>>) = {}
  BY DEF InFrames, Range
<1>3. InFrames(s) \subseteq AllHandlers
  <2>1. \A i \in 1..Len(s) : s[i] \in T
    BY DEF Stacked
  <2> QED BY <1>1, <2>1 DEF Stacked
<1>4. ASSUME NEW q \in Seq(T), NEW x \in T
      PROVE  Append(q, x) \in Seq(T) /\ InFrames(Append(q, x)) = InFrames(q) \cup x
  <2> HIDE DEF T
  <2>1. /\ Append(q, x) \in Seq(T) /\ Len(Append(q, x)) = Len(q) + 1 /\ Append(q, x)[Len(q) + 1] = x
        /\ \A i \in 1..Len(q) : Append(q, x)[i] = q[i]
        /\ Len(q) \in Nat
    BY <1>4
  <2> DEFINE a == Append(q, x)
  <2>2. a \in Seq(T) /\ Len(a) = Len(q) + 1 /\ a[Len(q) + 1] = x /\ \A i \in 1..Len(q) : a[i] = q[i]
    BY <2>1
  <2> HIDE DEF a
  <2>3. \A h : h \in InFrames(a) <=> h \in InFrames(q) \/ h \in x
    BY <1>1, <1>4, <2>1, <2>2 DEF T
  <2> QED BY <2>2, <2>3 DEF a
<1>5. ASSUME s # <<>>
      PROVE  Front(s) \in Seq(T) /\ Last(s) \in T /\ InFrames(s) = InFrames(Front(s)) \cup Last(s)
  <2>1. s \in Seq(T)
    BY DEF Stacked
  <2> HIDE DEF T
  <2> DEFINE f == Front(s)
             n == Len(s)
  <2>2. /\ Last(s) \in T /\ Last(s) = s[n] /\ n \in Nat \ {0}
        /\ f \in Seq(T) /\ Len(f) = n - 1 /\ \A i \in 1..(n - 1) : f[i] = s[i]
    BY <1>5, <2>1, TopOfStack
  <2> HIDE DEF f
  <2>3. \A h : h \in InFrames(f) <=> \E i \in 1..(n - 1) : h \in s[i]
    BY <1>1, <2>2 DEF T
  <2>4. \A h : h \in InFrames(s) <=> \E i \in 1..n : h \in s[i]
    BY <1>1, <2>1 DEF T
  <2>5. \A i : i \in 1..n <=> i \in 1..(n - 1) \/ i = n
    BY <2>2
  <2> HIDE DEF n
  <2> QED BY <2>2, <2>3, <2>4, <2>5 DEF f
<1> QED BY <1>2, <1>3, <1>4, <1>5 DEF Stacked

\* Of one thread the handlers left change.
LEMMA LeftChanges ==
  ASSUME NEW c \in [Threads -> Stacked], NEW t \in Threads, NEW s \in Stacked
  PROVE  /\ [c EXCEPT ![t] = s] \in [Threads -> Stacked]
         /\ LeftIn([c EXCEPT ![t] = s]) \subseteq LeftIn(c) \cup InFrames(s)
         /\ LeftIn(c) \ (InFrames(c[t]) \ InFrames(s)) \subseteq LeftIn([c EXCEPT ![t] = s])
         /\ InFrames(s) \subseteq LeftIn([c EXCEPT ![t] = s])
         /\ InFrames(c[t]) \subseteq LeftIn(c)
<1> DEFINE d == [c EXCEPT ![t] = s]
<1>1. d \in [Threads -> Stacked] /\ d[t] = s /\ \A u \in Threads \ {t} : d[u] = c[u]
  OBVIOUS
<1> HIDE DEF d
<1>2. \A h : h \in LeftIn(d) <=> \E u \in Threads : h \in InFrames(d[u])
  BY DEF LeftIn
<1>3. \A h : h \in LeftIn(c) <=> \E u \in Threads : h \in InFrames(c[u])
  BY DEF LeftIn
<1>4. LeftIn(d) \subseteq LeftIn(c) \cup InFrames(s)
  BY <1>1, <1>2, <1>3
<1>5. LeftIn(c) \ (InFrames(c[t]) \ InFrames(s)) \subseteq LeftIn(d)
  BY <1>1, <1>2, <1>3
<1>6. InFrames(s) \subseteq LeftIn(d) /\ InFrames(c[t]) \subseteq LeftIn(c)
  BY <1>1, <1>2, <1>3
<1> QED BY <1>1, <1>4, <1>5, <1>6 DEF d

LEMMA LeftIs ==
  /\ Left = LeftIn(closing) /\ Left' = LeftIn(closing')
  /\ ReasonAtOnce = ReasonIn(closeReason, Left) /\ ReasonAtOnce' = ReasonIn(closeReason', Left')
  /\ ListeningAtOnce = ListeningIn(closeReason, listening, Left)
  /\ ListeningAtOnce' = ListeningIn(closeReason', listening', Left')
<1>1. Left = LeftIn(closing) /\ Left' = LeftIn(closing')
  BY DEF Left, LeftIn, InFrames
<1>2. Doomed = DoomedIn(closeReason, Left) /\ Doomed' = DoomedIn(closeReason', Left')
  BY DEF Doomed, DoomedIn, IsClosed
<1>3. ReasonAtOnce = ReasonIn(closeReason, Left) /\ ReasonAtOnce' = ReasonIn(closeReason', Left')
  BY <1>2 DEF ReasonAtOnce, ReasonIn
<1>4. ListeningAtOnce = ListeningIn(closeReason, listening, Left)
  BY <1>2 DEF ListeningAtOnce, ListeningIn
<1>5. ListeningAtOnce' = ListeningIn(closeReason', listening', Left')
  BY <1>2 DEF ListeningAtOnce, ListeningIn
<1> QED BY <1>1, <1>3, <1>4, <1>5

Handled ==
  /\ closing \in [Threads -> Stacked]
  /\ Consistent(closeReason, listening, Left)

\* Where no close is under way, things are as they look.
LEMMA AtRest ==
  ASSUME Handled, Closed
  PROVE  Left = {} /\ ReasonAtOnce = closeReason /\ ListeningAtOnce = listening
<1>1. Left = {}
  BY LeftIs DEF Closed, LeftIn, InFrames, Range
<1>2. DoomedIn(closeReason, {}) = {}
  BY DEF DoomedIn
<1>3. ReasonIn(closeReason, {}) = closeReason
  BY <1>1, <1>2 DEF Handled, Consistent, ReasonIn
<1>4. ListeningIn(closeReason, listening, {}) = listening
  BY <1>2 DEF ListeningIn
<1> QED BY <1>1, <1>3, <1>4, LeftIs

\* The handlers left of a thread are now those in s, all of them left before.
Gone(t, s) == InFrames(closing[t]) \ InFrames(s)

LEMMA StaysIn ==
  ASSUME Handled, NEW t \in Threads, NEW s \in Stacked, Leave(t, s), UNCHANGED closeReason,
         InFrames(s) \subseteq InFrames(closing[t])
  PROVE  /\ closing' = [closing EXCEPT ![t] = s] /\ closing' \in [Threads -> Stacked]
         /\ Left' \subseteq Left /\ Left \ Gone(t, s) \subseteq Left'
<1>1. closing' = [closing EXCEPT ![t] = s]
  BY DEF Leave, IsClosed
<1>2. closing \in [Threads -> Stacked]
  BY DEF Handled
<1>4. /\ [closing EXCEPT ![t] = s] \in [Threads -> Stacked]
      /\ LeftIn([closing EXCEPT ![t] = s]) \subseteq LeftIn(closing) \cup InFrames(s)
      /\ LeftIn(closing) \ Gone(t, s) \subseteq LeftIn([closing EXCEPT ![t] = s])
      /\ InFrames(closing[t]) \subseteq LeftIn(closing)
  BY <1>2, LeftChanges DEF Gone
<1>5. Left = LeftIn(closing) /\ Left' = LeftIn(closing')
  BY LeftIs
<1> QED BY <1>1, <1>4, <1>5

\* A KVar is closed, but for its handlers, which are left.
LEMMA ClosesIn ==
  ASSUME Handled, NEW t \in Threads, NEW s \in Stacked, Leave(t, s),
         InFrames(s) \subseteq InFrames(closing[t]),
         NEW k \in KVars, ~IsClosed(k), NEW reason \in Reasons \ {"open"}, CloseAlone(k, reason),
         \A h \in Gone(t, s) : h.does = "close" /\ h.listener.to = k
  PROVE  /\ closing' = [closing EXCEPT ![t] = Append(s, Handlers(k))]
         /\ closeReason' = [closeReason EXCEPT ![k] = reason]
         /\ listening' = {l \in listening : l.of # k}
         /\ Left' \subseteq Left \cup Handlers(k) /\ Left \ Gone(t, s) \subseteq Left' /\ Handlers(k) \subseteq Left'
         /\ Handled'
<1> DEFINE r == closeReason
           r2 == [r EXCEPT ![k] = reason]
           L2 == {l \in listening : l.of # k}
           s2 == Append(s, Handlers(k))
<1>1. closeReason' = r2 /\ listening' = L2
  BY DEF CloseAlone, ListenersOf
<1>2. r \in [KVars -> Reasons] /\ Consistent(r, listening, Left) /\ closing \in [Threads -> Stacked]
  BY DEF Handled, Consistent
<1>3. closing' = [closing EXCEPT ![t] = s2]
  <2>1. closeReason' # closeReason
    BY <1>1, <1>2 DEF IsClosed
  <2>2. \A m \in KVars : ~IsClosed(m) /\ IsClosed(m)' => m = k
    BY <1>1, <1>2 DEF IsClosed
  <2> QED BY <2>1, <2>2 DEF Leave
<1>4. s2 \in Stacked /\ InFrames(s2) = InFrames(s) \cup Handlers(k)
  <2>1. Handlers(k) \in SUBSET AllHandlers
    BY HandlersAre
  <2> QED BY <2>1, FramesAre
<1> HIDE DEF s2
<1>5. s2 \in Stacked /\ closing \in [Threads -> Stacked]
  BY <1>2, <1>4
<1>6. /\ [closing EXCEPT ![t] = s2] \in [Threads -> Stacked]
      /\ LeftIn([closing EXCEPT ![t] = s2]) \subseteq LeftIn(closing) \cup InFrames(s2)
      /\ LeftIn(closing) \ (InFrames(closing[t]) \ InFrames(s2)) \subseteq LeftIn([closing EXCEPT ![t] = s2])
      /\ InFrames(s2) \subseteq LeftIn([closing EXCEPT ![t] = s2])
      /\ InFrames(closing[t]) \subseteq LeftIn(closing)
  BY ONLY t \in Threads, <1>5, LeftChanges
<1>7. Left = LeftIn(closing) /\ Left' = LeftIn(closing')
  BY LeftIs
<1>8. /\ closing' \in [Threads -> Stacked]
      /\ Left' \subseteq Left \cup Handlers(k) /\ Left \ Gone(t, s) \subseteq Left' /\ Handlers(k) \subseteq Left'
  BY <1>3, <1>4, <1>6, <1>7 DEF Gone
<1>9. Consistent(r2, L2, Left')
  <2>1. \A h \in Left \ Left' : h.does = "close" /\ h.listener.to = k
    BY <1>8
  <2>2. r[k] = "open"
    BY DEF IsClosed
  <2> QED BY ONLY <1>2, <1>8, <2>1, <2>2, k \in KVars, reason \in Reasons \ {"open"}, ShutKeeps
<1>10. Handled'
  BY <1>1, <1>8, <1>9 DEF Handled
<1> QED BY <1>1, <1>3, <1>8, <1>10 DEF s2

\* A step of a thread that is in no close, and closes nothing.
LEMMA NothingClosed ==
  ASSUME Handled, NEW t \in Threads, closing[t] = <<>>, Leave(t, <<>>), UNCHANGED <<closeReason, listening>>
  PROVE  Handled' /\ UNCHANGED <<closing, ReasonAtOnce, ListeningAtOnce>>
<1>1. closing' = closing
  <2>1. closing' = [closing EXCEPT ![t] = <<>>]
    BY DEF Leave, IsClosed
  <2> QED BY <2>1 DEF Handled
<1>2. Left' = Left
  BY <1>1, LeftIs
<1>3. Handled'
  BY <1>1, <1>2 DEF Handled
<1>4. UNCHANGED <<ReasonAtOnce, ListeningAtOnce>>
  BY <1>2, LeftIs
<1> QED BY <1>1, <1>3, <1>4

\* A thread that is in no close closes a KVar, or finds it closed.
LEMMA ClosingKeeps ==
  ASSUME Handled, NEW t \in Threads, closing[t] = <<>>, Leave(t, <<>>),
         NEW k \in KVars, NEW reason \in Reasons \ {"open"}, CloseAlone(k, reason)
  PROVE  /\ Handled'
         /\ IsClosed(k) => UNCHANGED <<closeReason, listening, ReasonAtOnce, ListeningAtOnce>>
         /\ ~IsClosed(k) =>
              /\ closeReason' = [closeReason EXCEPT ![k] = reason]
              /\ listening' = {l \in listening : l.of # k}
              /\ Left = {} => Left' = Handlers(k)
<1>1. CASE IsClosed(k)
  <2>1. UNCHANGED <<closeReason, listening>>
    BY <1>1 DEF CloseAlone
  <2> QED BY <1>1, <2>1, NothingClosed
<1>2. CASE ~IsClosed(k)
  <2> DEFINE s == <<>>
  <2>1. s \in Stacked /\ InFrames(s) \subseteq InFrames(closing[t]) /\ Leave(t, s) /\ Gone(t, s) = {}
    BY DEF Stacked, Gone
  <2>2. \A h \in Gone(t, s) : h.does = "close" /\ h.listener.to = k
    BY <2>1
  <2> HIDE DEF s
  <2>3. /\ closeReason' = [closeReason EXCEPT ![k] = reason]
        /\ listening' = {l \in listening : l.of # k}
        /\ Left' \subseteq Left \cup Handlers(k) /\ Left \ Gone(t, s) \subseteq Left' /\ Handlers(k) \subseteq Left'
        /\ Handled'
    BY ONLY <1>2, <2>1, <2>2, Handled, t \in Threads, k \in KVars,
            reason \in Reasons \ {"open"}, CloseAlone(k, reason), ClosesIn
  <2> QED BY <1>2, <2>3
<1> QED BY <1>1, <1>2

\* Where no close is under way, it is seen as closed at once.
LEMMA ClosesAtOnce ==
  ASSUME Handled, Closed, NEW t \in Threads, Leave(t, <<>>),
         NEW k \in KVars, NEW reason \in Reasons \ {"open"}, CloseAlone(k, reason)
  PROVE  AtOnce!Close(k, reason)
<1>1. Left = {} /\ ReasonAtOnce = closeReason /\ ListeningAtOnce = listening
  BY AtRest
<1>2. closeReason \in [KVars -> Reasons] /\ Consistent(closeReason, listening, {}) /\ closing[t] = <<>>
  BY <1>1 DEF Handled, Consistent, Closed
<1>3. CASE IsClosed(k)
  <2>1. UNCHANGED <<ReasonAtOnce, ListeningAtOnce>>
    BY <1>2, <1>3, ClosingKeeps
  <2>2. AtOnce!IsClosed(k)
    BY <1>1, <1>3 DEF AtOnce!IsClosed, IsClosed
  <2> QED BY <2>1, <2>2 DEF AtOnce!Close
<1>4. CASE ~IsClosed(k)
  <2> DEFINE r == closeReason
             r2 == [r EXCEPT ![k] = reason]
             L2 == {l \in listening : l.of # k}
  <2>1. closeReason' = r2 /\ listening' = L2 /\ Left' = Handlers(k) /\ Handled'
    BY <1>1, <1>2, <1>4, ClosingKeeps
  <2>5. Consistent(r2, L2, Handlers(k))
    BY <2>1 DEF Handled
  <2>7. r2[k] = reason /\ \A m \in KVars \ {k} : r2[m] = r[m]
    BY <1>2
  <2> HIDE DEF r2, L2
  <2>8. ShutAtOnce(r2, Handlers(k)) = {m \in KVars : r[m] # "open" \/ m \in ClosedWith[k]}
    BY <1>2, <2>5, <2>7, ShutAtFirst
  <2>9. ASSUME NEW m \in KVars
        PROVE  ReasonIn(r2, Handlers(k))[m] = IF m \in ClosedWith[k] /\ ~IsClosed(m)
                                              THEN IF m = k THEN reason ELSE "source" ELSE r[m]
    <3>1. k \in ClosedWith[k]
      BY ClosedWithIs
    <3> QED BY <1>4, <2>5, <2>7, <2>8, <3>1, ViewIs DEF IsClosed
  <2>10. /\ ReasonIn(r2, Handlers(k)) = [m \in KVars |-> IF m \in ClosedWith[k] /\ ~IsClosed(m)
                                              THEN IF m = k THEN reason ELSE "source" ELSE r[m]]
         /\ ReasonAtOnce' = ReasonIn(r2, Handlers(k))
    <3>1. ReasonAtOnce' = ReasonIn(r2, Handlers(k))
      BY <2>1, LeftIs
    <3> QED BY <2>9, <3>1 DEF ReasonIn
  <2>11. ListeningAtOnce' = {l \in listening : ~Removed(l, ClosedWith[k])}
    <3>1. ListeningAtOnce' = {l \in Listeners : EndsOpen(ReasonIn(r2, Handlers(k)), l)}
      BY <2>1, <2>5, LeftIs, ViewIs
    <3>2. ASSUME NEW l \in Listeners
          PROVE  EndsOpen(ReasonIn(r2, Handlers(k)), l) <=> EndsOpen(r, l) /\ ~Removed(l, ClosedWith[k])
      BY <2>7, <2>9, EndsAreKVars DEF EndsOpen, Removed, IsClosed
    <3>3. \A l \in Listeners : EndsOpen(r, l) <=> l \in listening
      BY <1>2 DEF Consistent
    <3>4. listening \subseteq Listeners
      BY <1>2 DEF Consistent
    <3> QED BY <3>1, <3>2, <3>3, <3>4
  <2>12. AtOnce!ClosedWith = ClosedWith /\ \A l, S : AtOnce!Removed(l, S) = Removed(l, S)
    BY DEF AtOnce!ClosedWith, ClosedWith, AtOnce!Closers, Closers, AtOnce!Made, Made, AtOnce!Closes, Closes,
           AtOnce!Removed, Removed, AtOnce!Links, Links
  <2>13. \A m : AtOnce!IsClosed(m) = IsClosed(m)
    BY <1>1 DEF AtOnce!IsClosed, IsClosed
  <2> QED BY <1>1, <1>4, <2>10, <2>11, <2>12, <2>13 DEF AtOnce!Close
<1> QED BY <1>3, <1>4

\* A handler runs: what is seen as done at once stays as it is.
LEMMA HandlerRuns ==
  ASSUME Handled, NEW t \in Threads, RunHandler(t)
  PROVE  Handled' /\ UNCHANGED <<ReasonAtOnce, ListeningAtOnce>>
<1> DEFINE top == Last(closing[t])
<1>1. closing[t] \in Stacked /\ closing[t] # <<>> /\ closing \in [Threads -> Stacked]
  BY DEF Handled, RunHandler
<1>2. /\ Front(closing[t]) \in Stacked /\ top \in SUBSET AllHandlers
      /\ InFrames(closing[t]) = InFrames(Front(closing[t])) \cup top
  BY <1>1, FramesAre
<1> DEFINE s(h) == Append(Front(closing[t]), top \ {h})
<1>3. PICK h \in top :
        /\ IF h.does = "remove"
           THEN listening' = listening \ {h.listener} /\ UNCHANGED closeReason
           ELSE CloseAlone(h.listener.to, "source")
        /\ Leave(t, s(h))
  BY DEF RunHandler
<1>4. s(h) \in Stacked /\ InFrames(s(h)) = InFrames(Front(closing[t])) \cup (top \ {h})
  <2>1. top \ {h} \in SUBSET AllHandlers
    BY <1>2
  <2> QED BY <1>2, <2>1, FramesAre
<1> DEFINE q == s(h)
<1> HIDE DEF top, s
<1>5. /\ q \in Stacked /\ InFrames(q) \subseteq InFrames(closing[t]) /\ Leave(t, q)
      /\ Gone(t, q) \subseteq {h} /\ h \in InFrames(closing[t]) /\ h \in AllHandlers
  BY <1>2, <1>3, <1>4 DEF Gone
<1> HIDE DEF q
<1>6. h \in Left /\ Consistent(closeReason, listening, Left) /\ closeReason \in [KVars -> Reasons]
  <2>1. InFrames(closing[t]) \subseteq LeftIn(closing)
    BY DEF LeftIn
  <2> QED BY <1>5, <2>1, LeftIs DEF Handled, Consistent
<1>7. h.does # "remove" => h.does = "close" /\ h.listener.to \in KVars
  <2>1. \A m \in Closers : m.to \in KVars
    BY EndsAreKVars DEF Closers
  <2> QED BY <1>5, <2>1, HandlersAre DEF AllHandlers
<1> DEFINE k == h.listener.to
<1>8. CASE ~(h.does # "remove" /\ ~IsClosed(k))
  <2>1. UNCHANGED closeReason
        /\ \/ h.does = "remove" /\ listening' = listening \ {h.listener}
           \/ h.does # "remove" /\ closeReason[k] # "open" /\ listening' = listening
    BY <1>3, <1>8 DEF CloseAlone, IsClosed
  <2>2. /\ closing' \in [Threads -> Stacked]
        /\ Left' \subseteq Left /\ Left \ Gone(t, q) \subseteq Left'
    BY <1>5, <2>1, StaysIn
  <2>3. Left \ {h} \subseteq Left'
    BY <1>5, <2>2
  <2>4. Consistent(closeReason, listening', Left')
    BY ONLY <1>6, <2>1, <2>2, <2>3, DoneKeeps
  <2>5. Handled'
    BY <2>1, <2>2, <2>4 DEF Handled
  <2>6. ShutAtOnce(closeReason, Left') = ShutAtOnce(closeReason, Left)
    BY ONLY <1>6, <2>1, <2>2, <2>3, <2>4, SameShut
  <2>7. /\ ReasonIn(closeReason, Left') = ReasonIn(closeReason, Left)
        /\ ListeningIn(closeReason, listening', Left') = ListeningIn(closeReason, listening, Left)
    BY ONLY <1>6, <2>4, <2>6, SameView
  <2> QED BY <2>1, <2>5, <2>7, LeftIs
<1>9. CASE h.does # "remove" /\ ~IsClosed(k)
  <2>1. /\ k \in KVars /\ "source" \in Reasons \ {"open"} /\ CloseAlone(k, "source")
        /\ \A x \in Gone(t, q) : x.does = "close" /\ x.listener.to = k
    BY <1>3, <1>5, <1>7, <1>9 DEF Reasons
  <2>2. /\ closeReason' = [closeReason EXCEPT ![k] = "source"]
        /\ Left' \subseteq Left \cup Handlers(k) /\ Left \ Gone(t, q) \subseteq Left'
        /\ Handled'
    BY <1>5, <1>9, <2>1, ClosesIn
  <2>3. Left \ {h} \subseteq Left' /\ closeReason[k] = "open"
    BY <1>5, <1>9, <2>2 DEF IsClosed
  <2>4. Consistent(closeReason', listening', Left')
    BY <2>2 DEF Handled
  <2>5. ShutAtOnce(closeReason', Left') = ShutAtOnce(closeReason, Left)
    <3>1. h \in Left /\ Left \ {h} \subseteq Left'
      BY <1>6, <2>3
    <3>2. Consistent(closeReason, listening, Left)
      BY <1>6
    <3>3. \/ h.does = "remove" /\ closeReason' = closeReason /\ Left' \subseteq Left
          \/ /\ h.does # "remove" /\ closeReason' = closeReason /\ closeReason[h.listener.to] # "open"
             /\ Left' \subseteq Left
          \/ /\ h.does # "remove" /\ closeReason[h.listener.to] = "open"
             /\ closeReason' = [closeReason EXCEPT ![h.listener.to] = "source"]
             /\ Left' \subseteq Left \cup Handlers(h.listener.to)
      BY <1>9, <2>2, <2>3
    <3> QED BY ONLY <2>4, <3>1, <3>2, <3>3, SameShut
  <2>6. \A m \in KVars : closeReason'[m] = closeReason[m]
                         \/ (closeReason[m] = "open" /\ closeReason'[m] = "source")
    BY <1>6, <2>2, <2>3
  <2>7. /\ ReasonIn(closeReason', Left') = ReasonIn(closeReason, Left)
        /\ ListeningIn(closeReason', listening', Left') = ListeningIn(closeReason, listening, Left)
    BY ONLY <1>6, <2>4, <2>5, <2>6, SameView
  <2> QED BY <2>2, <2>7, LeftIs
<1> QED BY <1>8, <1>9

LEMMA HandlersDone ==
  ASSUME Handled, NEW t \in Threads, CloseReturns(t)
  PROVE  Handled' /\ UNCHANGED <<ReasonAtOnce, ListeningAtOnce>>
<1>1. closing[t] \in Stacked /\ closing[t] # <<>> /\ Last(closing[t]) = {} /\ closing \in [Threads -> Stacked]
      /\ closing' = [closing EXCEPT ![t] = Front(closing[t])] /\ UNCHANGED <<closeReason, listening>>
  BY DEF Handled, CloseReturns, vars
<1>2. Front(closing[t]) \in Stacked /\ InFrames(closing[t]) = InFrames(Front(closing[t]))
  BY <1>1, FramesAre
<1> DEFINE s == Front(closing[t])
<1> HIDE DEF s
<1>3. closing' = [closing EXCEPT ![t] = s] /\ s \in Stacked /\ InFrames(s) = InFrames(closing[t])
  BY <1>1, <1>2 DEF s
<1>4. /\ [closing EXCEPT ![t] = s] \in [Threads -> Stacked]
      /\ LeftIn([closing EXCEPT ![t] = s]) \subseteq LeftIn(closing) \cup InFrames(s)
      /\ LeftIn(closing) \ (InFrames(closing[t]) \ InFrames(s)) \subseteq LeftIn([closing EXCEPT ![t] = s])
      /\ InFrames(closing[t]) \subseteq LeftIn(closing)
  BY <1>1, <1>3, LeftChanges
<1>5. closing' \in [Threads -> Stacked] /\ Left' = Left
  BY <1>3, <1>4, LeftIs
<1>6. Handled'
  BY <1>1, <1>5 DEF Handled
<1> QED BY <1>1, <1>5, <1>6, LeftIs

-----------------------------------------------------------------------------
(***************************************************************************)
(* Calls.  The listener that made a call is one of the graph, and the call *)
(* of that listener is below it.                                           *)
(***************************************************************************)
CallsWith(V) ==
  [pc : {"read", "assign", "notify", "iterate"}, kvar : KVars, by : Listeners \cup {None},
   old : V, new : V, next : Listeners \cup {None}, todo : SUBSET Listeners]
Shaped(f) == \E V : f \in CallsWith(V)

\* Where a stack starts, the application has set a KVar.
IsStack(s) ==
  /\ \E V : s \in Seq(CallsWith(V))
  /\ s # <<>> => s[1].by = None /\ (Len(s) > 1 => s[1].pc # "read")

ToTell(f) == [f EXCEPT !.pc = "notify"]

LEMMA ShapesOf ==
  ASSUME NEW f, Shaped(f)
  PROVE  /\ f.kvar \in KVars /\ f.by \in Listeners \cup {None} /\ f.next \in Listeners \cup {None}
         /\ f.todo \subseteq Listeners
         /\ \A o : Shaped(HasRead(f, o)) /\ HasRead(f, o).by = f.by
         /\ Shaped(ToTell(f)) /\ ToTell(f).by = f.by
         /\ \A n \in Listeners \cup {None} : \A r \in SUBSET Listeners :
              Shaped(Begun(f, n, r)) /\ Begun(f, n, r).by = f.by
         /\ \A n \in Listeners \cup {None} :
              Shaped(GoneOn(f, n)) /\ GoneOn(f, n).by = f.by /\ GoneOn(f, n).pc = f.pc
<1>1. PICK V : f \in CallsWith(V)
  BY DEF Shaped
<1>2. ASSUME NEW o PROVE Shaped(HasRead(f, o)) /\ HasRead(f, o).by = f.by
  <2>1. HasRead(f, o) \in CallsWith(V \cup {o}) /\ HasRead(f, o).by = f.by
    BY <1>1 DEF CallsWith, HasRead
  <2> QED BY <2>1 DEF Shaped
<1>3. Shaped(ToTell(f)) /\ ToTell(f).by = f.by
  <2>1. ToTell(f) \in CallsWith(V) /\ ToTell(f).by = f.by
    BY <1>1 DEF CallsWith, ToTell
  <2> QED BY <2>1 DEF Shaped
<1>4. ASSUME NEW n \in Listeners \cup {None}, NEW r \in SUBSET Listeners
      PROVE  Shaped(Begun(f, n, r)) /\ Begun(f, n, r).by = f.by
  <2>1. Begun(f, n, r) \in CallsWith(V) /\ Begun(f, n, r).by = f.by
    BY <1>1 DEF CallsWith, Begun
  <2> QED BY <2>1 DEF Shaped
<1>5. ASSUME NEW n \in Listeners \cup {None}
      PROVE  Shaped(GoneOn(f, n)) /\ GoneOn(f, n).by = f.by /\ GoneOn(f, n).pc = f.pc
  <2>1. GoneOn(f, n) \in CallsWith(V) /\ GoneOn(f, n).by = f.by /\ GoneOn(f, n).pc = f.pc
    BY <1>1 DEF CallsWith, GoneOn
  <2> QED BY <2>1 DEF Shaped
<1>6. /\ f.kvar \in KVars /\ f.by \in Listeners \cup {None} /\ f.next \in Listeners \cup {None}
      /\ f.todo \subseteq Listeners
  BY <1>1 DEF CallsWith
<1> QED BY <1>2, <1>3, <1>4, <1>5, <1>6

LEMMA CallShaped ==
  ASSUME NEW p \in {"read", "notify"}, NEW k \in KVars, NEW b \in Listeners \cup {None}, NEW o, NEW v
  PROVE  Shaped(Call(p, k, b, o, v)) /\ Call(p, k, b, o, v).by = b /\ Call(p, k, b, o, v).pc = p
<1>1. Call(p, k, b, o, v) \in CallsWith({o, v})
  BY DEF Call, CallsWith
<1>2. Call(p, k, b, o, v).by = b /\ Call(p, k, b, o, v).pc = p
  BY DEF Call
<1> QED BY <1>1, <1>2 DEF Shaped

LEMMA MoreValues ==
  ASSUME NEW V, NEW W
  PROVE  CallsWith(V) \subseteq CallsWith(V \cup W) /\ Seq(CallsWith(V)) \subseteq Seq(CallsWith(V \cup W))
<1>1. CallsWith(V) \subseteq CallsWith(V \cup W)
  BY DEF CallsWith
<1> DEFINE A == CallsWith(V)
           B == CallsWith(V \cup W)
<1>2. A \subseteq B
  BY <1>1
<1> HIDE DEF A, B
<1>3. Seq(A) \subseteq Seq(B)
  BY <1>2
<1> QED BY <1>2, <1>3 DEF A, B

\* The call on top, and what is below it.
LEMMA Tops ==
  ASSUME NEW s, IsStack(s), s # <<>>
  PROVE  /\ Shaped(Last(s)) /\ IsStack(Front(s)) /\ Front(s) # s
         /\ Last(s).by # None => Front(s) # <<>>
         /\ Front(s) # <<>> /\ Last(Front(s)).pc = "read" => Front(Front(s)) # <<>>
<1>0. PICK V : s \in Seq(CallsWith(V))
  BY DEF IsStack
<1> DEFINE r == Front(s)
           S == CallsWith(V)
<1>1. s \in Seq(S) /\ \A f \in S : Shaped(f)
  BY <1>0 DEF Shaped
<1> HIDE DEF S
<1>2. /\ Last(s) \in S /\ Last(s) = s[Len(s)] /\ Len(s) \in Nat \ {0}
      /\ r \in Seq(S) /\ Len(r) = Len(s) - 1 /\ \A i \in 1..(Len(s) - 1) : r[i] = s[i]
  BY <1>1, TopOfStack
<1>3. s[1].by = None /\ (Len(s) > 1 => s[1].pc # "read")
  BY DEF IsStack
<1> HIDE DEF r
<1>4. r # <<>> => Len(r) \in Nat \ {0} /\ Len(s) > 1 /\ r[1] = s[1]
  BY <1>2, EmptySeq
<1>5. IsStack(r)
  <2>1. r # <<>> => r[1].by = None /\ (Len(r) > 1 => r[1].pc # "read")
    BY <1>3, <1>4
  <2> QED BY <1>2, <2>1 DEF IsStack, S
<1>6. Last(s).by # None => r # <<>>
  <2>1. r = <<>> => Len(s) = 1
    BY <1>2
  <2> QED BY <1>2, <1>3, <2>1
<1>7. ASSUME r # <<>>, Last(r).pc = "read" PROVE Front(r) # <<>>
  <2>1. Last(r) = r[Len(r)] /\ Front(r) \in Seq(S) /\ Len(Front(r)) = Len(r) - 1
    BY <1>2, <1>7, TopOfStack
  <2>2. ASSUME Front(r) = <<>> PROVE Last(r).pc # "read"
    <3>1. Len(r) = 1
      <4>1. Len(Front(r)) = 0 /\ Len(r) \in Nat
        BY <1>4, <1>7, <2>2
      <4> QED BY <2>1, <4>1
    <3>2. Last(r) = s[1] /\ Len(s) > 1
      BY <1>4, <1>7, <2>1, <3>1
    <3> QED BY <1>3, <3>2
  <2> QED BY <1>7, <2>2
<1>8. r # s
  BY <1>2
<1> QED BY <1>1, <1>2, <1>5, <1>6, <1>7, <1>8 DEF r

\* The call on top goes on.
LEMMA TopGoesOn ==
  ASSUME NEW s, IsStack(s), s # <<>>, NEW c, Shaped(c), c.by = Last(s).by
  PROVE  /\ IsStack(Append(Front(s), c)) /\ Append(Front(s), c) # <<>>
         /\ c.pc # "read" => Append(Front(s), c)[1].pc # "read"
<1>1. PICK V, W : s \in Seq(CallsWith(V)) /\ c \in CallsWith(W)
  BY DEF IsStack, Shaped
<1> DEFINE T == CallsWith(V \cup W)
           a == Append(Front(s), c)
<1>2. s \in Seq(T) /\ c \in T
  <2>1. CallsWith(W) \subseteq CallsWith(W \cup V) /\ W \cup V = V \cup W
    BY MoreValues
  <2> QED BY <1>1, <2>1, MoreValues
<1> HIDE DEF T
<1>4. a \in Seq(T) /\ Len(a) = Len(s) /\ a[Len(s)] = c /\ \A i \in 1..(Len(s) - 1) : a[i] = s[i]
  BY <1>2, NewTop
<1>5. Len(s) \in Nat \ {0} /\ Last(s) = s[Len(s)]
  BY <1>2, TopOfStack
<1>6. s[1].by = None /\ (Len(s) > 1 => s[1].pc # "read")
  BY DEF IsStack
<1> HIDE DEF a
<1>7. a # <<>>
  BY <1>4, <1>5
<1>8. a[1].by = None /\ (Len(a) > 1 => a[1].pc # "read") /\ (c.pc # "read" => a[1].pc # "read")
  <2>1. CASE Len(s) = 1
    BY <1>4, <1>5, <1>6, <2>1
  <2>2. CASE Len(s) > 1
    <3>1. a[1] = s[1]
      BY <1>4, <1>5, <2>2
    <3> QED BY <1>4, <1>6, <2>2, <3>1
  <2>3. Len(s) = 1 \/ Len(s) > 1
    <3>1. \A n \in Nat \ {0} : n = 1 \/ n > 1
      OBVIOUS
    <3> QED BY <1>5, <3>1
  <2> QED BY <2>1, <2>2, <2>3
<1>9. IsStack(a)
  BY <1>4, <1>8 DEF IsStack, T
<1> QED BY <1>7, <1>8, <1>9 DEF a

\* It calls one or two others.
LEMMA CallsOthers ==
  ASSUME NEW s, IsStack(s), s # <<>>, s[1].pc # "read", NEW c, NEW d, Shaped(c), Shaped(d)
  PROVE  IsStack(s \o <<>>) /\ IsStack(s \o <<c>>) /\ IsStack(s \o <<d, c>>)
<1>1. PICK V, W, X : s \in Seq(CallsWith(V)) /\ c \in CallsWith(W) /\ d \in CallsWith(X)
  BY DEF IsStack, Shaped
<1> DEFINE Y == V \cup W \cup X
           T == CallsWith(Y)
<1>2. s \in Seq(T) /\ c \in T /\ d \in T
  <2>1. Y = V \cup Y /\ Y = W \cup Y /\ Y = X \cup Y
    OBVIOUS
  <2> HIDE DEF Y
  <2>2. Seq(CallsWith(V)) \subseteq Seq(T) /\ CallsWith(W) \subseteq T /\ CallsWith(X) \subseteq T
    BY <2>1, MoreValues
  <2> QED BY <1>1, <2>2
<1> HIDE DEF T, Y
<1>3. <<>> \in Seq(T) /\ <<c>> \in Seq(T) /\ <<d, c>> \in Seq(T) /\ Len(s) \in Nat \ {0} /\ s[1].by = None
  BY <1>2, EmptySeq DEF IsStack
<1>4. ASSUME NEW q \in Seq(T) PROVE IsStack(s \o q)
  <2> DEFINE a == s \o q
  <2>1. a \in Seq(T) /\ a[1] = s[1]
    BY <1>2, <1>3
  <2> HIDE DEF a
  <2>2. IsStack(a)
    BY <1>3, <2>1 DEF IsStack, T
  <2> QED BY <2>2 DEF a
<1> QED BY <1>3, <1>4

-----------------------------------------------------------------------------
(***************************************************************************)
(* The steps of a thread that is in no close.                              *)
(***************************************************************************)
CallsOk ==
  /\ stack = [u \in Threads |-> stack[u]]
  /\ \A u \in Threads : IsStack(stack[u])

LEMMA CallsChange ==
  ASSUME CallsOk, NEW t \in Threads, NEW s, IsStack(s), stack' = [stack EXCEPT ![t] = s]
  PROVE  CallsOk'
<1>1. \A u \in Threads : stack'[u] = IF u = t THEN s ELSE stack[u]
  BY DEF CallsOk
<1>2. stack' = [u \in Threads |-> stack'[u]]
  BY DEF CallsOk
<1> QED BY <1>1, <1>2 DEF CallsOk

LEMMA TopIs ==
  ASSUME CallsOk, NEW t \in Threads, stack[t] # <<>>
  PROVE  /\ IsStack(stack[t]) /\ Top(t) = Last(stack[t]) /\ Shaped(Top(t)) /\ Top(t).kvar \in KVars
         /\ Top(t).by \in Listeners \cup {None} /\ Called(t) \in Listeners \cup {None}
         /\ Top(t).todo \subseteq Listeners
<1>1. IsStack(stack[t]) /\ Top(t) = Last(stack[t])
  BY DEF CallsOk, Top
<1>2. Shaped(Top(t))
  BY <1>1, Tops
<1> QED BY <1>1, <1>2, ShapesOf DEF Called

LEMMA CallsGoOn ==
  ASSUME CallsOk, NEW t \in Threads, stack[t] # <<>>
  PROVE  /\ Return(t) => CallsOk'
         /\ \A c : Shaped(c) /\ c.by = Top(t).by /\ Become(t, c) => CallsOk'
<1>1. Return(t) => CallsOk'
  <2>1. IsStack(Front(stack[t]))
    BY TopIs, Tops
  <2> QED BY <2>1, CallsChange DEF Return
<1>2. ASSUME NEW c, Shaped(c), c.by = Top(t).by, Become(t, c) PROVE CallsOk'
  <2> DEFINE s == Append(Front(stack[t]), c)
  <2>1. IsStack(s)
    BY <1>2, TopIs, TopGoesOn
  <2>2. stack' = [stack EXCEPT ![t] = s]
    BY <1>2 DEF Become
  <2> HIDE DEF s
  <2> QED BY <2>1, <2>2, CallsChange
<1> QED BY <1>1, <1>2

\* The iterator goes on, and the listener makes no call, one or two.
LEMMA CallsAreMade ==
  ASSUME CallsOk, NEW t \in Threads, At(t, "iterate"), NEW cs, Make(t, cs),
         cs = <<>> \/ \E c, d : Shaped(c) /\ Shaped(d) /\ cs \in {<<c>>, <<d, c>>}
  PROVE  CallsOk'
<1> DEFINE g(n) == GoneOn(Top(t), n)
           p(n) == Append(Front(stack[t]), g(n))
<1>1. /\ stack[t] # <<>> /\ Top(t).pc = "iterate" /\ Shaped(Top(t)) /\ IsStack(stack[t])
      /\ Top(t) = Last(stack[t]) /\ Top(t).todo \subseteq Listeners
  BY TopIs DEF At
<1>2. PICK n \in Nexts(t) : stack' = [stack EXCEPT ![t] = p(n) \o cs]
  BY DEF Make, GoneOn
<1>3. n \in Listeners \cup {None}
  BY <1>1 DEF Nexts
<1>4. Shaped(g(n)) /\ g(n).by = Top(t).by /\ g(n).pc = "iterate"
  BY <1>1, <1>3, ShapesOf
<1> HIDE DEF g
<1>5. IsStack(p(n)) /\ p(n) # <<>> /\ p(n)[1].pc # "read"
  BY <1>1, <1>4, TopGoesOn
<1> DEFINE q == p(n)
           s == q \o cs
<1> HIDE DEF p
<1>6. IsStack(q) /\ q # <<>> /\ q[1].pc # "read"
  BY <1>5
<1> HIDE DEF q
<1>7. IsStack(s)
  <2>1. CASE cs = <<>>
    BY <1>1, <1>6, <2>1, CallsOthers
  <2>2. ASSUME NEW c, NEW d, Shaped(c), Shaped(d), cs \in {<<c>>, <<d, c>>} PROVE IsStack(s)
    <3>1. IsStack(q \o <<c>>) /\ IsStack(q \o <<d, c>>)
      BY <1>6, <2>2, CallsOthers
    <3> QED BY <2>2, <3>1
  <2> QED BY <2>1, <2>2
<1>8. stack' = [stack EXCEPT ![t] = s]
  BY <1>2 DEF q
<1> HIDE DEF s
<1> QED BY <1>7, <1>8, CallsChange

LEMMA SameNames ==
  /\ AtOnce!None = None
  /\ \A p, k, b, o, v : AtOnce!Call(p, k, b, o, v) = Call(p, k, b, o, v)
  /\ \A u : AtOnce!Top(u) = Top(u) /\ AtOnce!Called(u) = Called(u) /\ (AtOnce!Idle(u) <=> Idle(u))
            /\ (AtOnce!Return(u) <=> Return(u)) /\ (AtOnce!MayCall(u) <=> MayCall(u))
  /\ \A u, pc : AtOnce!At(u, pc) <=> At(u, pc)
  /\ \A u, kinds : AtOnce!Calls(u, kinds) <=> Calls(u, kinds)
  /\ \A u, c : AtOnce!Become(u, c) <=> Become(u, c)
  /\ \A l, c, n : AtOnce!Result(l, c, n) = Result(l, c, n)
<1>1. /\ AtOnce!None = None
      /\ \A p, k, b, o, v : AtOnce!Call(p, k, b, o, v) = Call(p, k, b, o, v)
  BY DEF AtOnce!None, None, AtOnce!Call, Call
<1>2. \A u : AtOnce!Top(u) = Top(u) /\ AtOnce!Called(u) = Called(u) /\ (AtOnce!Idle(u) <=> Idle(u))
            /\ (AtOnce!Return(u) <=> Return(u)) /\ (AtOnce!MayCall(u) <=> MayCall(u))
  BY DEF AtOnce!Top, Top, AtOnce!Last, Last, AtOnce!Called, Called, AtOnce!Idle, Idle, AtOnce!Return, Return,
         AtOnce!Front, Front, AtOnce!MayCall, MayCall
<1>3. /\ \A u, pc : AtOnce!At(u, pc) <=> At(u, pc)
      /\ \A u, kinds : AtOnce!Calls(u, kinds) <=> Calls(u, kinds)
  BY <1>2 DEF AtOnce!At, At, AtOnce!Calls, Calls
<1>4. \A u, c : AtOnce!Become(u, c) <=> Become(u, c)
  BY DEF AtOnce!Become, Become, AtOnce!Front, Front
<1>5. \A l, c, n : AtOnce!Result(l, c, n) = Result(l, c, n)
  BY DEF AtOnce!Result, Result
<1> QED BY <1>1, <1>2, <1>3, <1>4, <1>5

\* The same names for the same, where no close is under way.
LEMMA SameAtRest ==
  ASSUME Handled, Closed
  PROVE  /\ \A k : (AtOnce!IsClosed(k) <=> IsClosed(k)) /\ AtOnce!ListenersOf(k) = ListenersOf(k)
         /\ \A u : AtOnce!Nexts(u) = Nexts(u)
         /\ \A u, cs : AtOnce!Make(u, cs) <=> Make(u, cs)
         /\ \A u : AtOnce!Continue(u) <=> Continue(u)
         /\ \A l, c : AtOnce!Fails(l, c) <=> Fails(l, c)
<1>1. ReasonAtOnce = closeReason /\ ListeningAtOnce = listening
  BY AtRest
<1>2. \A k : (AtOnce!IsClosed(k) <=> IsClosed(k)) /\ AtOnce!ListenersOf(k) = ListenersOf(k)
  BY <1>1 DEF AtOnce!IsClosed, IsClosed, AtOnce!ListenersOf, ListenersOf
<1>3. \A u : AtOnce!Nexts(u) = Nexts(u)
  BY <1>1, SameNames DEF AtOnce!Nexts, Nexts
<1>4. \A u, cs : AtOnce!Make(u, cs) <=> Make(u, cs)
  BY <1>3, SameNames DEF AtOnce!Make, Make, AtOnce!Front, Front
<1>5. \A u : AtOnce!Continue(u) <=> Continue(u)
  BY <1>4 DEF AtOnce!Continue, Continue
<1>6. \A l, c : AtOnce!Fails(l, c) <=> Fails(l, c)
  BY <1>2 DEF AtOnce!Fails, Fails
<1> QED BY <1>2, <1>3, <1>4, <1>5, <1>6

\* What a step that closes nothing does to closes.
Lets(t) == closing[t] = <<>> /\ Leave(t, <<>>)

LEMMA LetsBe ==
  ASSUME Handled, NEW t \in Threads, Lets(t), UNCHANGED <<closeReason, listening>>
  PROVE  Handled' /\ UNCHANGED <<closing, ReasonAtOnce, ListeningAtOnce>>
BY NothingClosed DEF Lets

LEMMA ReadInSteps ==
  ASSUME CallsOk, Handled, NEW t \in Threads, Lets(t), Read(t)
  PROVE  CallsOk' /\ Handled' /\ AtOnce!Read(t)
<1>1. /\ At(t, "read") /\ stack[t] # <<>> /\ Become(t, HasRead(Top(t), value[Top(t).kvar]))
      /\ UNCHANGED <<value, closeReason, listening, told, sets>>
  BY DEF Read, At, HasRead
<1>2. CallsOk'
  BY <1>1, TopIs, ShapesOf, CallsGoOn
<1>3. Handled' /\ UNCHANGED <<ReasonAtOnce, ListeningAtOnce>>
  BY <1>1, LetsBe
<1>4. AtOnce!At(t, "read") /\ AtOnce!Become(t, HasRead(AtOnce!Top(t), value[AtOnce!Top(t).kvar]))
  BY <1>1, SameNames
<1> QED BY <1>1, <1>2, <1>3, <1>4 DEF AtOnce!Read, HasRead

LEMMA AssignInSteps ==
  ASSUME CallsOk, Handled, NEW t \in Threads, Lets(t), Assign(t)
  PROVE  CallsOk' /\ Handled' /\ (Closed => AtOnce!Assign(t))
<1> DEFINE k == Top(t).kvar
<1>1. /\ At(t, "assign") /\ stack[t] # <<>> /\ value' = [value EXCEPT ![k] = Top(t).new]
      /\ UNCHANGED <<closeReason, listening, told, sets>>
      /\ IF Differ(Top(t).old, Top(t).new) THEN ~IsClosed(k) /\ Become(t, ToTell(Top(t))) ELSE Return(t)
  BY DEF Assign, At, ToTell
<1>2. CallsOk'
  BY <1>1, TopIs, ShapesOf, CallsGoOn
<1>3. Handled' /\ UNCHANGED <<ReasonAtOnce, ListeningAtOnce>>
  BY <1>1, LetsBe
<1>4. ASSUME Closed PROVE AtOnce!Assign(t)
  <2>1. /\ AtOnce!At(t, "assign") /\ value' = [value EXCEPT ![AtOnce!Top(t).kvar] = AtOnce!Top(t).new]
        /\ IF AtOnce!Differ(AtOnce!Top(t).old, AtOnce!Top(t).new)
           THEN ~AtOnce!IsClosed(AtOnce!Top(t).kvar) /\ AtOnce!Become(t, ToTell(AtOnce!Top(t)))
           ELSE AtOnce!Return(t)
    BY <1>1, <1>4, SameNames, SameAtRest DEF AtOnce!Differ, Differ
  <2> QED BY <1>1, <1>3, <2>1 DEF AtOnce!Assign, ToTell
<1> QED BY <1>2, <1>3, <1>4

LEMMA NotifyInSteps ==
  ASSUME CallsOk, Handled, NEW t \in Threads, Lets(t), Notify(t)
  PROVE  CallsOk' /\ Handled' /\ (Closed => AtOnce!Notify(t))
<1> DEFINE ls == ListenersOf(Top(t).kvar)
<1>1. /\ At(t, "notify") /\ stack[t] # <<>> /\ UNCHANGED <<value, closeReason, listening, told, sets>>
      /\ IF ls = {} THEN Return(t) ELSE \E l \in ls : Become(t, Begun(Top(t), l, ls \ {l}))
  BY DEF Notify, At, Begun
<1>2. CallsOk'
  <2>1. ls \subseteq Listeners
    BY DEF ListenersOf, Handled, Consistent
  <2>2. ASSUME NEW l \in ls, Become(t, Begun(Top(t), l, ls \ {l})) PROVE CallsOk'
    <3>1. Shaped(Begun(Top(t), l, ls \ {l})) /\ Begun(Top(t), l, ls \ {l}).by = Top(t).by
      <4>1. l \in Listeners \cup {None} /\ ls \ {l} \in SUBSET Listeners
        BY <2>1
      <4> QED BY <1>1, <4>1, TopIs, ShapesOf
    <3> QED BY <1>1, <2>2, <3>1, CallsGoOn
  <2> QED BY <1>1, <2>2, CallsGoOn
<1>3. Handled' /\ UNCHANGED <<ReasonAtOnce, ListeningAtOnce>>
  BY <1>1, LetsBe
<1>4. ASSUME Closed PROVE AtOnce!Notify(t)
  <2>1. /\ AtOnce!At(t, "notify") /\ AtOnce!ListenersOf(AtOnce!Top(t).kvar) = ls
        /\ IF ls = {} THEN AtOnce!Return(t) ELSE \E l \in ls : AtOnce!Become(t, Begun(AtOnce!Top(t), l, ls \ {l}))
    BY <1>1, <1>4, SameNames, SameAtRest
  <2> QED BY <1>1, <1>3, <2>1 DEF AtOnce!Notify, Begun
<1> QED BY <1>2, <1>3, <1>4

LEMMA NoneLeftInSteps ==
  ASSUME CallsOk, Handled, NEW t \in Threads, Lets(t), NoneLeft(t)
  PROVE  CallsOk' /\ Handled' /\ AtOnce!NoneLeft(t)
<1>1. /\ Calls(t, {"none"}) /\ stack[t] # <<>> /\ Return(t) /\ UNCHANGED <<value, closeReason, listening, told, sets>>
  BY DEF NoneLeft, Calls, At
<1>2. CallsOk'
  BY <1>1, CallsGoOn
<1>3. Handled' /\ UNCHANGED <<ReasonAtOnce, ListeningAtOnce>>
  BY <1>1, LetsBe
<1> QED BY <1>1, <1>2, <1>3, SameNames DEF AtOnce!NoneLeft

LEMMA TellInSteps ==
  ASSUME CallsOk, Handled, NEW t \in Threads, Lets(t), Tell(t)
  PROVE  CallsOk' /\ Handled' /\ (Closed => AtOnce!Tell(t))
<1>1. /\ Calls(t, {"tell"}) /\ At(t, "iterate") /\ told' = [told EXCEPT ![Called(t)] = News(Top(t))]
      /\ Continue(t) /\ UNCHANGED <<value, closeReason, listening, sets>>
  BY DEF Tell, Calls
<1>2. CallsOk'
  BY <1>1, CallsAreMade DEF Continue
<1>3. Handled' /\ UNCHANGED <<ReasonAtOnce, ListeningAtOnce>>
  BY <1>1, LetsBe
<1>4. ASSUME Closed PROVE AtOnce!Tell(t)
  <2>1. /\ AtOnce!Calls(t, {"tell"}) /\ told' = [told EXCEPT ![AtOnce!Called(t)] = AtOnce!News(AtOnce!Top(t))]
        /\ AtOnce!Continue(t)
    BY <1>1, <1>4, SameNames, SameAtRest DEF AtOnce!News, News
  <2> QED BY <1>1, <1>3, <2>1 DEF AtOnce!Tell
<1> QED BY <1>2, <1>3, <1>4

LEMMA CalledIs ==
  ASSUME CallsOk, NEW t \in Threads, NEW kinds, Calls(t, kinds), "none" \notin kinds
  PROVE  /\ At(t, "iterate") /\ Called(t) \in Listeners /\ Called(t).kind \in kinds
         /\ Called(t).of \in KVars /\ Called(t).to \in KVars /\ Called(t).reads \in KVars
         /\ Shaped(Top(t)) /\ Top(t).kvar \in KVars /\ Top(t).by \in Listeners \cup {None}
<1>1. At(t, "iterate") /\ stack[t] # <<>> /\ Called(t).kind \in kinds
  BY DEF Calls, At
<1>2. Called(t) # None
  BY <1>1 DEF None
<1>3. Called(t) \in Listeners
  BY <1>1, <1>2, TopIs
<1>4. \A l \in Listeners : l.of \in KVars /\ l.to \in KVars /\ l.reads \in KVars
  BY GraphAssumption
<1> QED BY <1>1, <1>3, <1>4, TopIs

LEMMA SetOtherInSteps ==
  ASSUME CallsOk, Handled, NEW t \in Threads, Lets(t), SetOther(t)
  PROVE  CallsOk' /\ Handled' /\ (Closed => AtOnce!SetOther(t))
<1> DEFINE l == Called(t)
           c == Call("read", l.to, l, value[l.to], Result(l, value[l.reads], Top(t).new))
           kinds == (Links \ {"map"}) \cup {"set"}
<1>1. /\ Calls(t, kinds) /\ ~Fails(l, Top(t)) /\ Make(t, <<c>>)
      /\ UNCHANGED <<value, closeReason, listening, told, sets>>
  BY DEF SetOther
<1>2. "none" \notin kinds
  BY DEF Links
<1> HIDE DEF kinds
<1>3. At(t, "iterate") /\ l \in Listeners /\ l.to \in KVars
  BY <1>1, <1>2, CalledIs
<1>4. CallsOk'
  <2>1. Shaped(c)
    BY <1>3, CallShaped
  <2> HIDE DEF c
  <2> QED BY <1>1, <1>3, <2>1, CallsAreMade
<1>5. Handled' /\ UNCHANGED <<ReasonAtOnce, ListeningAtOnce>>
  BY <1>1, LetsBe
<1>6. ASSUME Closed PROVE AtOnce!SetOther(t)
  <2>1. /\ AtOnce!Calls(t, kinds) /\ AtOnce!Called(t) = l /\ AtOnce!Top(t) = Top(t)
        /\ ~AtOnce!Fails(l, Top(t)) /\ AtOnce!Make(t, <<c>>)
        /\ AtOnce!Call("read", l.to, l, value[l.to], AtOnce!Result(l, value[l.reads], Top(t).new)) = c
    BY <1>1, <1>6, SameNames, SameAtRest
  <2>2. kinds = (AtOnce!Links \ {"map"}) \cup {"set"}
    BY DEF AtOnce!Links, Links, kinds
  <2> HIDE DEF c, l
  <2> QED BY <1>1, <1>5, <2>1, <2>2 DEF AtOnce!SetOther
<1> QED BY <1>4, <1>5, <1>6

LEMMA SetBothInSteps ==
  ASSUME CallsOk, Handled, NEW t \in Threads, Lets(t), SetBoth(t)
  PROVE  CallsOk' /\ Handled' /\ (Closed => AtOnce!SetBoth(t))
<1> DEFINE l == Called(t)
           c == Call("read", l.to, l, value[l.to], Top(t).new[1])
           d == Call("read", l.reads, l, value[l.reads], Top(t).new[2])
<1>1. /\ Calls(t, {"split"}) /\ Make(t, <<d, c>>)
      /\ UNCHANGED <<value, closeReason, listening, told, sets>>
  BY DEF SetBoth
<1>3. At(t, "iterate") /\ l \in Listeners /\ l.to \in KVars /\ l.reads \in KVars
  BY <1>1, CalledIs
<1>4. CallsOk'
  <2>1. Shaped(c) /\ Shaped(d)
    BY <1>3, CallShaped
  <2> HIDE DEF c, d
  <2> QED BY <1>1, <1>3, <2>1, CallsAreMade
<1>5. Handled' /\ UNCHANGED <<ReasonAtOnce, ListeningAtOnce>>
  BY <1>1, LetsBe
<1>6. ASSUME Closed PROVE AtOnce!SetBoth(t)
  <2>1. /\ AtOnce!Calls(t, {"split"}) /\ AtOnce!Called(t) = l /\ AtOnce!Top(t) = Top(t)
        /\ AtOnce!Make(t, <<d, c>>)
        /\ AtOnce!Call("read", l.to, l, value[l.to], Top(t).new[1]) = c
        /\ AtOnce!Call("read", l.reads, l, value[l.reads], Top(t).new[2]) = d
    BY <1>1, <1>6, SameNames, SameAtRest
  <2> HIDE DEF c, d, l
  <2> QED BY <1>1, <1>5, <2>1 DEF AtOnce!SetBoth
<1> QED BY <1>4, <1>5, <1>6

LEMMA SetValueInSteps ==
  ASSUME CallsOk, Handled, NEW t \in Threads, Lets(t), NEW k \in Settable, NEW v, SetValue(t, k, v)
  PROVE  CallsOk' /\ Handled' /\ AtOnce!SetValue(t, k, v)
<1> DEFINE c == Call("read", k, None, value[k], v)
<1>1. /\ MayCall(t) /\ sets < MaxSets /\ sets' = sets + 1 /\ stack' = [stack EXCEPT ![t] = <<c>>]
      /\ UNCHANGED <<value, closeReason, listening, told>>
  BY DEF SetValue
<1>2. CallsOk'
  <2>1. Shaped(c) /\ c.by = None
    BY GraphAssumption, CallShaped
  <2> HIDE DEF c
  <2>2. PICK V : c \in CallsWith(V)
    BY <2>1 DEF Shaped
  <2>3. <<c>> \in Seq(CallsWith(V))
    BY <2>2
  <2>4. <<c>>[1] = c /\ Len(<<c>>) = 1
    OBVIOUS
  <2>5. IsStack(<<c>>)
    BY <2>1, <2>3, <2>4 DEF IsStack
  <2> QED BY <1>1, <2>5, CallsChange
<1>3. Handled' /\ UNCHANGED <<ReasonAtOnce, ListeningAtOnce>>
  BY <1>1, LetsBe
<1>4. AtOnce!MayCall(t) /\ AtOnce!Call("read", k, AtOnce!None, value[k], v) = c
  BY <1>1, SameNames
<1> QED BY <1>1, <1>2, <1>3, <1>4 DEF AtOnce!SetValue

-----------------------------------------------------------------------------
(***************************************************************************)
(* The steps in which a thread begins a close.                             *)
(***************************************************************************)
CatchAlone(l, c) == CatchBy(l, c, CloseAlone)
ClosesFirst(t, k) == CloseCalledBy(t, k, CloseAlone)
AssignsToClosed(t) == AssignClosedBy(t, CloseAlone)
CatchesFirst(t) == ListenerThrowsBy(t, CloseAlone)
ListenerCloses(t) == CloseListenerBy(t, CloseAlone)
UpdatesFirst(t) == UpdateMappedBy(t, CloseAlone)

LEMMA ClosesOne ==
  ASSUME Handled, NEW t \in Threads, Lets(t), NEW k \in KVars, NEW reason \in {"called", "mapper"},
         CloseAlone(k, reason)
  PROVE  Handled' /\ (Closed => AtOnce!Close(k, reason))
<1>1. reason \in Reasons \ {"open"}
  BY DEF Reasons
<1>2. Handled'
  BY <1>1, ClosingKeeps DEF Lets
<1>3. Closed => AtOnce!Close(k, reason)
  BY <1>1, ClosesAtOnce DEF Lets
<1> QED BY <1>2, <1>3

LEMMA CatchInSteps ==
  ASSUME Handled, NEW t \in Threads, Lets(t), NEW l \in Listeners, NEW c, Shaped(c), CatchAlone(l, c)
  PROVE  Handled' /\ (Closed => AtOnce!Catch(l, c))
<1>0. c.kvar \in KVars /\ l.to \in KVars
  BY EndsAreKVars, ShapesOf
<1>1. CASE l.kind = "forward"
  <2>1. CloseAlone(l.to, "mapper")
    BY <1>1 DEF CatchAlone, CatchBy
  <2>2. Handled' /\ (Closed => AtOnce!Close(l.to, "mapper"))
    BY <1>0, <2>1, ClosesOne
  <2> QED BY <1>1, <2>2 DEF AtOnce!Catch, AtOnce!CatchBy
<1>2. CASE l.kind # "forward" /\ c.by.kind = "map"
  <2>1. CloseAlone(c.kvar, "mapper")
    BY <1>2 DEF CatchAlone, CatchBy
  <2>2. Handled' /\ (Closed => AtOnce!Close(c.kvar, "mapper"))
    BY <1>0, <2>1, ClosesOne
  <2> QED BY <1>2, <2>2 DEF AtOnce!Catch, AtOnce!CatchBy
<1>3. CASE l.kind # "forward" /\ c.by.kind # "map"
  <2>1. UNCHANGED <<closeReason, listening>>
    BY <1>3 DEF CatchAlone, CatchBy
  <2>2. Handled' /\ UNCHANGED <<ReasonAtOnce, ListeningAtOnce>>
    BY <2>1, LetsBe
  <2> QED BY <1>3, <2>2 DEF AtOnce!Catch, AtOnce!CatchBy
<1> QED BY <1>1, <1>2, <1>3

LEMMA CloseCalledInSteps ==
  ASSUME CallsOk, Handled, NEW t \in Threads, Lets(t), NEW k \in Closable, ClosesFirst(t, k)
  PROVE  CallsOk' /\ Handled' /\ (Closed => AtOnce!CloseCalled(t, k))
<1>1. MayCall(t) /\ ~IsClosed(k) /\ CloseAlone(k, "called") /\ UNCHANGED <<value, told, stack, sets>>
  BY DEF ClosesFirst, CloseCalledBy
<1>2. k \in KVars
  BY GraphAssumption
<1>3. Handled' /\ (Closed => AtOnce!Close(k, "called"))
  BY <1>1, <1>2, ClosesOne
<1>4. CallsOk'
  BY <1>1 DEF CallsOk
<1>5. ASSUME Closed PROVE AtOnce!CloseCalled(t, k)
  BY <1>1, <1>3, <1>5, SameNames, SameAtRest DEF AtOnce!CloseCalled, AtOnce!CloseCalledBy
<1> QED BY <1>3, <1>4, <1>5

\* The listener that called the setter is called below it.
LEMMA AssignClosedInSteps ==
  ASSUME CallsOk, Handled, NEW t \in Threads, Lets(t), AssignsToClosed(t)
  PROVE  CallsOk' /\ Handled' /\ (Closed => AtOnce!AssignClosed(t))
<1> DEFINE c == Top(t)
           below == Front(stack[t])
           callers == IF below # <<>> /\ Last(below).pc = "read" THEN Front(below) ELSE below
<1>1. /\ At(t, "assign") /\ stack[t] # <<>> /\ Differ(c.old, c.new) /\ IsClosed(c.kvar)
      /\ value' = [value EXCEPT ![c.kvar] = c.new] /\ stack' = [stack EXCEPT ![t] = callers]
      /\ IF c.by = None THEN UNCHANGED <<closeReason, listening>> ELSE CatchAlone(c.by, Last(callers))
      /\ UNCHANGED <<told, sets>>
  BY DEF AssignsToClosed, AssignClosedBy, CatchAlone, CatchBy, At
<1>2. /\ c.by \in Listeners \cup {None} /\ IsStack(below) /\ (c.by # None => below # <<>>)
      /\ (below # <<>> /\ Last(below).pc = "read" => Front(below) # <<>>)
  BY <1>1, TopIs, Tops
<1> HIDE DEF below
<1>3. IsStack(callers) /\ (c.by # None => callers # <<>>)
  BY <1>2, Tops
<1> DEFINE s == callers
<1> HIDE DEF callers
<1>4. CallsOk'
  BY <1>1, <1>3, CallsChange
<1>5. CASE c.by = None
  <2>1. Handled' /\ UNCHANGED <<ReasonAtOnce, ListeningAtOnce>>
    BY <1>1, <1>5, LetsBe
  <2>2. ASSUME Closed PROVE AtOnce!AssignClosed(t)
    <3>1. /\ AtOnce!At(t, "assign") /\ AtOnce!Top(t) = c /\ AtOnce!None = None
          /\ AtOnce!Differ(c.old, c.new) /\ AtOnce!IsClosed(c.kvar)
      BY <1>1, <2>2, SameNames, SameAtRest DEF AtOnce!Differ, Differ
    <3>2. callers = IF AtOnce!Front(stack[t]) # <<>> /\ AtOnce!Last(AtOnce!Front(stack[t])).pc = "read"
                    THEN AtOnce!Front(AtOnce!Front(stack[t])) ELSE AtOnce!Front(stack[t])
      BY DEF callers, below, AtOnce!Front, Front, AtOnce!Last, Last
    <3> QED BY <1>1, <1>5, <2>1, <3>1, <3>2 DEF AtOnce!AssignClosed, AtOnce!AssignClosedBy, AtOnce!CatchBy
  <2> QED BY <1>4, <2>1, <2>2
<1>6. CASE c.by # None
  <2>1. c.by \in Listeners /\ Shaped(Last(callers))
    BY <1>2, <1>3, <1>6, Tops
  <2>2. Handled' /\ (Closed => AtOnce!Catch(c.by, Last(callers)))
    BY <1>1, <1>6, <2>1, CatchInSteps
  <2>3. ASSUME Closed PROVE AtOnce!AssignClosed(t)
    <3>1. /\ AtOnce!At(t, "assign") /\ AtOnce!Top(t) = c /\ AtOnce!None = None
          /\ AtOnce!Differ(c.old, c.new) /\ AtOnce!IsClosed(c.kvar)
      BY <1>1, <2>3, SameNames, SameAtRest DEF AtOnce!Differ, Differ
    <3>2. callers = IF AtOnce!Front(stack[t]) # <<>> /\ AtOnce!Last(AtOnce!Front(stack[t])).pc = "read"
                    THEN AtOnce!Front(AtOnce!Front(stack[t])) ELSE AtOnce!Front(stack[t])
      BY DEF callers, below, AtOnce!Front, Front, AtOnce!Last, Last
    <3>3. AtOnce!Last(callers) = Last(callers)
      BY DEF AtOnce!Last, Last
    <3>4. AtOnce!Catch(c.by, AtOnce!Last(callers))
      BY <2>2, <2>3, <3>3
    <3> QED BY <1>1, <1>6, <3>1, <3>2, <3>4
            DEF AtOnce!AssignClosed, AtOnce!AssignClosedBy, AtOnce!Catch, AtOnce!CatchBy
  <2> QED BY <1>4, <2>2, <2>3
<1> QED BY <1>5, <1>6

LEMMA ThrowsInSteps ==
  ASSUME CallsOk, Handled, NEW t \in Threads, Lets(t), CatchesFirst(t)
  PROVE  CallsOk' /\ Handled' /\ (Closed => AtOnce!ListenerThrows(t))
<1> DEFINE kinds == Links \cup {"set"}
<1>1. /\ Calls(t, kinds) /\ Fails(Called(t), Top(t)) /\ Continue(t)
      /\ CatchAlone(Called(t), Top(t)) /\ UNCHANGED <<value, told, sets>>
  BY DEF CatchesFirst, ListenerThrowsBy, CatchAlone, CatchBy, AfterFailure
<1>2. "none" \notin kinds
  BY DEF Links
<1> HIDE DEF kinds
<1>3. At(t, "iterate") /\ Called(t) \in Listeners /\ Shaped(Top(t))
  BY <1>1, <1>2, CalledIs
<1>4. CallsOk'
  BY <1>1, <1>3, CallsAreMade DEF Continue
<1>5. Handled' /\ (Closed => AtOnce!Catch(Called(t), Top(t)))
  BY <1>1, <1>3, CatchInSteps
<1>6. ASSUME Closed PROVE AtOnce!ListenerThrows(t)
  <2>1. /\ AtOnce!Calls(t, kinds) /\ AtOnce!Called(t) = Called(t) /\ AtOnce!Top(t) = Top(t)
        /\ AtOnce!Fails(Called(t), Top(t)) /\ AtOnce!Continue(t)
    BY <1>1, <1>6, SameNames, SameAtRest
  <2>2. kinds = AtOnce!Links \cup {"set"}
    BY DEF AtOnce!Links, Links, kinds
  <2> QED BY <1>1, <1>5, <1>6, <2>1, <2>2
          DEF AtOnce!ListenerThrows, AtOnce!ListenerThrowsBy, AtOnce!Catch, AtOnce!CatchBy, AtOnce!AfterFailure
<1> QED BY <1>4, <1>5, <1>6

LEMMA CloseListenerInSteps ==
  ASSUME CallsOk, Handled, NEW t \in Threads, Lets(t), ListenerCloses(t)
  PROVE  CallsOk' /\ Handled' /\ (Closed => AtOnce!CloseListener(t))
<1>1. /\ Calls(t, {"close"}) /\ CloseAlone(Called(t).to, "called") /\ Continue(t)
      /\ UNCHANGED <<value, told, sets>>
  BY DEF ListenerCloses, CloseListenerBy
<1>2. At(t, "iterate") /\ Called(t).to \in KVars
  BY <1>1, CalledIs
<1>3. CallsOk'
  BY <1>1, <1>2, CallsAreMade DEF Continue
<1>4. Handled' /\ (Closed => AtOnce!Close(Called(t).to, "called"))
  BY <1>1, <1>2, ClosesOne
<1>5. ASSUME Closed PROVE AtOnce!CloseListener(t)
  <2>1. AtOnce!Calls(t, {"close"}) /\ AtOnce!Called(t) = Called(t) /\ AtOnce!Continue(t)
    BY <1>1, <1>5, SameNames, SameAtRest
  <2> QED BY <1>1, <1>4, <1>5, <2>1 DEF AtOnce!CloseListener, AtOnce!CloseListenerBy
<1> QED BY <1>3, <1>4, <1>5

LEMMA UpdateMappedInSteps ==
  ASSUME CallsOk, Handled, NEW t \in Threads, Lets(t), UpdatesFirst(t)
  PROVE  CallsOk' /\ Handled' /\ (Closed => AtOnce!UpdateMapped(t))
<1> DEFINE l == Called(t)
           c == Top(t)
           mapped == Function(l, c.new)
           d == Call("notify", l.to, l, MappedOld(l, c.old), mapped)
           fails == ListenersOf(l.to) # {} /\ Throws(l, c.old)
           same == ListenersOf(l.to) = {} \/ MappedOld(l, c.old) = mapped
<1>1. /\ Calls(t, {"map"}) /\ ~Fails(l, c) /\ value' = [value EXCEPT ![l.to] = mapped]
      /\ UNCHANGED <<told, sets>>
      /\ IF fails THEN CloseAlone(l.to, "mapper") /\ Continue(t)
         ELSE /\ UNCHANGED <<closeReason, listening>>
              /\ IF same THEN Continue(t) ELSE Make(t, <<d>>)
  BY DEF UpdatesFirst, UpdateMappedBy
<1>2. At(t, "iterate") /\ l \in Listeners /\ l.to \in KVars
  BY <1>1, CalledIs
<1>3. CallsOk'
  <2>1. Shaped(d)
    BY <1>2, CallShaped
  <2> HIDE DEF d
  <2>2. Continue(t) => CallsOk'
    BY <1>2, CallsAreMade DEF Continue
  <2>3. Make(t, <<d>>) => CallsOk'
    BY <1>2, <2>1, CallsAreMade
  <2> HIDE DEF fails, same
  <2> QED BY <1>1, <2>2, <2>3
<1>4. CASE fails
  <2>1. Handled' /\ (Closed => AtOnce!Close(l.to, "mapper"))
    BY <1>1, <1>2, <1>4, ClosesOne
  <2>2. ASSUME Closed PROVE AtOnce!UpdateMapped(t)
    <3>1. /\ AtOnce!Calls(t, {"map"}) /\ AtOnce!Called(t) = l /\ AtOnce!Top(t) = c /\ ~AtOnce!Fails(l, c)
          /\ AtOnce!Continue(t) /\ AtOnce!ListenersOf(l.to) = ListenersOf(l.to)
      BY <1>1, <1>4, <2>2, SameNames, SameAtRest
    <3> QED BY <1>1, <1>4, <2>1, <2>2, <3>1 DEF AtOnce!UpdateMapped, AtOnce!UpdateMappedBy
  <2> QED BY <1>3, <2>1, <2>2
<1>5. CASE ~fails
  <2>1. Handled' /\ UNCHANGED <<ReasonAtOnce, ListeningAtOnce>>
    BY <1>1, <1>5, LetsBe
  <2>2. ASSUME Closed PROVE AtOnce!UpdateMapped(t)
    <3>1. /\ AtOnce!Calls(t, {"map"}) /\ AtOnce!Called(t) = l /\ AtOnce!Top(t) = c /\ ~AtOnce!Fails(l, c)
          /\ AtOnce!ListenersOf(l.to) = ListenersOf(l.to) /\ AtOnce!MappedOld(l, c.old) = MappedOld(l, c.old)
          /\ IF same THEN AtOnce!Continue(t) ELSE AtOnce!Make(t, <<d>>)
          /\ AtOnce!Call("notify", l.to, l, MappedOld(l, c.old), mapped) = d
      BY <1>1, <1>5, <2>2, SameNames, SameAtRest DEF AtOnce!MappedOld, MappedOld
    <3> QED BY <1>1, <1>5, <2>1, <3>1 DEF AtOnce!UpdateMapped, AtOnce!UpdateMappedBy
  <2> QED BY <1>3, <2>1, <2>2
<1> QED BY <1>4, <1>5

-----------------------------------------------------------------------------
(***************************************************************************)
(* All steps.                                                              *)
(***************************************************************************)
Proceeds(t) ==
  \/ Read(t) \/ Assign(t) \/ Notify(t) \/ NoneLeft(t) \/ Tell(t) \/ SetOther(t) \/ SetBoth(t)
  \/ AssignsToClosed(t) \/ CatchesFirst(t) \/ ListenerCloses(t) \/ UpdatesFirst(t)
Begins(t) ==
  \/ \E k \in Settable : \E v \in ValuesOf[k] : SetValue(t, k, v)
  \/ \E k \in Closable : ClosesFirst(t, k)

LEMMA StepsAre ==
  ASSUME NEW t \in Threads, Lets(t), Proceeds(t) \/ Begins(t), CallsOk, Handled
  PROVE  /\ CallsOk' /\ Handled'
         /\ Closed => AtOnce!Proceed(t) \/ (\E k \in Settable : \E v \in ValuesOf[k] : AtOnce!SetValue(t, k, v))
                      \/ \E k \in Closable : AtOnce!CloseCalled(t, k)
<1>1. CASE Read(t)
  BY <1>1, ReadInSteps DEF AtOnce!Proceed
<1>2. CASE Assign(t)
  BY <1>2, AssignInSteps DEF AtOnce!Proceed
<1>3. CASE Notify(t)
  BY <1>3, NotifyInSteps DEF AtOnce!Proceed
<1>4. CASE NoneLeft(t)
  BY <1>4, NoneLeftInSteps DEF AtOnce!Proceed
<1>5. CASE Tell(t)
  BY <1>5, TellInSteps DEF AtOnce!Proceed
<1>6. CASE SetOther(t)
  BY <1>6, SetOtherInSteps DEF AtOnce!Proceed
<1>7. CASE SetBoth(t)
  BY <1>7, SetBothInSteps DEF AtOnce!Proceed
<1>8. CASE AssignsToClosed(t)
  BY <1>8, AssignClosedInSteps DEF AtOnce!Proceed
<1>9. CASE CatchesFirst(t)
  BY <1>9, ThrowsInSteps DEF AtOnce!Proceed
<1>10. CASE ListenerCloses(t)
  BY <1>10, CloseListenerInSteps DEF AtOnce!Proceed
<1>11. CASE UpdatesFirst(t)
  BY <1>11, UpdateMappedInSteps DEF AtOnce!Proceed
<1>12. ASSUME NEW k \in Settable, NEW v \in ValuesOf[k], SetValue(t, k, v)
       PROVE  CallsOk' /\ Handled' /\ AtOnce!SetValue(t, k, v)
  BY <1>12, SetValueInSteps
<1>13. ASSUME NEW k \in Closable, ClosesFirst(t, k)
       PROVE  CallsOk' /\ Handled' /\ (Closed => AtOnce!CloseCalled(t, k))
  BY <1>13, CloseCalledInSteps
<1> QED BY <1>1, <1>2, <1>3, <1>4, <1>5, <1>6, <1>7, <1>8, <1>9, <1>10, <1>11, <1>12, <1>13 DEF Proceeds, Begins

\* What a step is.
LEMMA NextInSteps ==
  ASSUME [ClosingNext]_closingVars
  PROVE  \/ UNCHANGED <<vars, closing>>
         \/ \E t \in Threads : RunHandler(t) \/ CloseReturns(t)
         \/ \E t \in Threads : Lets(t) /\ (Proceeds(t) \/ ((Concurrent \/ Closed) /\ Begins(t)))
<1>1. CASE UNCHANGED closingVars
  BY <1>1 DEF closingVars
<1>2. CASE ClosingNext
  <2>1. \A t : ProceedInSteps(t) => Proceeds(t)
    BY DEF ProceedInSteps, Proceeds, AssignsToClosed, CatchesFirst, ListenerCloses, UpdatesFirst,
           AssignClosedBy, ListenerThrowsBy, CloseListenerBy, UpdateMappedBy, CatchBy
  <2>2. \A t : CallInSteps(t) => (Concurrent \/ Closed) /\ Begins(t)
    BY DEF CallInSteps, Begins, ClosesFirst, CloseCalledBy
  <2> QED BY <1>2, <2>1, <2>2 DEF ClosingNext, Lets
<1> QED BY <1>1, <1>2

LEMMA StepKeepsHandled ==
  ASSUME CallsOk, Handled, [ClosingNext]_closingVars
  PROVE  CallsOk' /\ Handled'
<1>1. CASE UNCHANGED <<vars, closing>>
  <2>1. UNCHANGED <<stack, closeReason, listening, closing>>
    BY <1>1 DEF vars
  <2> QED BY <2>1, LeftIs DEF CallsOk, Handled
<1>2. ASSUME NEW t \in Threads, RunHandler(t) \/ CloseReturns(t) PROVE CallsOk' /\ Handled'
  <2>1. UNCHANGED stack
    BY <1>2 DEF RunHandler, CloseReturns, vars
  <2>2. CallsOk'
    BY <2>1 DEF CallsOk
  <2> QED BY <1>2, <2>2, HandlerRuns, HandlersDone
<1>3. ASSUME NEW t \in Threads, Lets(t), Proceeds(t) \/ Begins(t) PROVE CallsOk' /\ Handled'
  BY <1>3, StepsAre
<1> QED BY <1>1, <1>2, <1>3, NextInSteps

LEMMA StartHandled ==
  ASSUME ClosingInit
  PROVE  CallsOk /\ Handled /\ Closed
<1>1. /\ closeReason = [k \in KVars |-> "open"] /\ listening = Listeners
      /\ stack = [t \in Threads |-> <<>>] /\ closing = [t \in Threads |-> <<>>]
  BY DEF ClosingInit, Init
<1>2. CallsOk
  <2>1. IsStack(<<>>)
    BY DEF IsStack
  <2> QED BY <1>1, <2>1 DEF CallsOk
<1>3. closing \in [Threads -> Stacked]
  <2>1. <<>> \in Stacked
    BY DEF Stacked
  <2> QED BY <1>1, <2>1
<1>4. Left = {}
  BY <1>1, LeftIs DEF LeftIn, InFrames, Range
<1>5. Consistent(closeReason, listening, {})
  BY <1>1, EndsAreKVars DEF Consistent, Reasons, EndsOpen, Closers
<1> QED BY <1>1, <1>2, <1>3, <1>4, <1>5 DEF Handled, Closed

LEMMA HandledIsClosed ==
  ASSUME Handled
  PROVE  NoneOutlives
<1>1. SUFFICES ASSUME Closed
               PROVE  /\ \A l \in Closers : IsClosed(l.of) => IsClosed(l.to)
                      /\ listening = {l \in Listeners : ~IsClosed(l.of) /\ (l.kind \in Links => ~IsClosed(l.to))}
  BY DEF NoneOutlives
<1>2. Consistent(closeReason, listening, {})
  BY <1>1, AtRest DEF Handled
<1>3. \A l \in Closers : IsClosed(l.of) => IsClosed(l.to)
  BY <1>2 DEF Consistent, IsClosed
<1>4. /\ listening \subseteq Listeners
      /\ \A l \in Listeners : l \in listening <=> EndsOpen(closeReason, l)
  BY <1>2 DEF Consistent
<1>5. \A l : EndsOpen(closeReason, l) <=> ~IsClosed(l.of) /\ (l.kind \in Links => ~IsClosed(l.to))
  BY DEF EndsOpen, IsClosed
<1> QED BY <1>3, <1>4, <1>5

\* NoneOutlives holds of every graph of KVars, in which any number of threads set and
\* close them at once: whatever the order of the close handlers of KVal.map, KVar.map
\* and combine, and whatever else closes between two of them, what is made from a
\* closed KVar ends up closed, and just the listeners between open ends remain.
THEOREM ListenersGoWithTheirEnds ==
  ClosingSpec => []NoneOutlives
<1>1. ClosingInit => CallsOk /\ Handled
  BY StartHandled
<1>2. CallsOk /\ Handled /\ [ClosingNext]_closingVars => (CallsOk /\ Handled)'
  BY StepKeepsHandled
<1>3. CallsOk /\ Handled => NoneOutlives
  BY HandledIsClosed
<1> QED BY <1>1, <1>2, <1>3, PTL DEF ClosingSpec

\* One thread at a time is at work.
Busy(t) == stack[t] # <<>> \/ closing[t] # <<>>
OneAtWork == \A t, u \in Threads : Busy(t) /\ Busy(u) => t = u

LEMMA StackOfOne ==
  ASSUME NEW t \in Threads, Proceeds(t) \/ Begins(t)
  PROVE  /\ stack' = stack \/ \E s : stack' = [stack EXCEPT ![t] = s]
         /\ Proceeds(t) => stack[t] # <<>>
         /\ Begins(t) => MayCall(t)
<1>1. \A c : Become(t, c) => \E s : stack' = [stack EXCEPT ![t] = s]
  BY DEF Become
<1>2. \A cs : Make(t, cs) => \E s : stack' = [stack EXCEPT ![t] = s]
  BY DEF Make
<1>3. Return(t) => \E s : stack' = [stack EXCEPT ![t] = s]
  BY DEF Return
<1>4. ASSUME Proceeds(t) PROVE stack[t] # <<>> /\ \E s : stack' = [stack EXCEPT ![t] = s]
  <2>1. CASE Read(t) \/ Assign(t) \/ Notify(t) \/ NoneLeft(t)
    BY <1>1, <1>3, <2>1 DEF Read, Assign, Notify, NoneLeft, Calls, At
  <2>2. CASE Tell(t) \/ SetOther(t) \/ SetBoth(t)
    BY <1>2, <2>2 DEF Tell, SetOther, SetBoth, Continue, Calls, At
  <2>3. CASE AssignsToClosed(t)
    BY <2>3 DEF AssignsToClosed, AssignClosedBy, CatchBy, At
  <2>4. CASE CatchesFirst(t)
    BY <1>2, <2>4 DEF CatchesFirst, ListenerThrowsBy, CatchBy, AfterFailure, Continue, Calls, At
  <2>5. CASE ListenerCloses(t)
    BY <1>2, <2>5 DEF ListenerCloses, CloseListenerBy, Continue, Calls, At
  <2>6. CASE UpdatesFirst(t)
    BY <1>2, <2>6 DEF UpdatesFirst, UpdateMappedBy, Continue, Calls, At
  <2> QED BY <1>4, <2>1, <2>2, <2>3, <2>4, <2>5, <2>6 DEF Proceeds
<1>5. ASSUME Begins(t) PROVE MayCall(t) /\ (stack' = stack \/ \E s : stack' = [stack EXCEPT ![t] = s])
  <2>1. ASSUME NEW k, NEW v, SetValue(t, k, v) PROVE MayCall(t) /\ \E s : stack' = [stack EXCEPT ![t] = s]
    BY <2>1 DEF SetValue
  <2>2. ASSUME NEW k, ClosesFirst(t, k) PROVE MayCall(t) /\ stack' = stack
    BY <2>2 DEF ClosesFirst, CloseCalledBy
  <2> QED BY <1>5, <2>1, <2>2 DEF Begins
<1> QED BY <1>4, <1>5

LEMMA ClosingOfOne ==
  ASSUME NEW t \in Threads, RunHandler(t) \/ CloseReturns(t) \/ Lets(t)
  PROVE  \E s : closing' = [closing EXCEPT ![t] = s]
<1>1. \A s : Leave(t, s) => \E r : closing' = [closing EXCEPT ![t] = r]
  BY DEF Leave
<1> QED BY <1>1 DEF RunHandler, CloseReturns, Lets

LEMMA StepAtOnce ==
  ASSUME ~Concurrent, CallsOk, Handled, OneAtWork, [ClosingNext]_closingVars
  PROVE  OneAtWork' /\ [AtOnce!Next]_(AtOnce!vars)
<1>0. stack = [u \in Threads |-> stack[u]] /\ closing \in [Threads -> Stacked]
  BY DEF CallsOk, Handled
<1>1. CASE UNCHANGED <<vars, closing>>
  <2>1. UNCHANGED <<value, closeReason, listening, told, stack, sets, closing>>
    BY <1>1 DEF vars
  <2>2. UNCHANGED <<ReasonAtOnce, ListeningAtOnce>>
    BY <2>1, LeftIs
  <2> QED BY <2>1, <2>2 DEF OneAtWork, Busy, AtOnce!vars
<1>2. ASSUME NEW t \in Threads, RunHandler(t) \/ CloseReturns(t) PROVE OneAtWork' /\ UNCHANGED AtOnce!vars
  <2>1. UNCHANGED <<value, told, stack, sets>> /\ closing[t] # <<>>
    BY <1>2 DEF RunHandler, CloseReturns, vars
  <2>2. UNCHANGED <<ReasonAtOnce, ListeningAtOnce>>
    BY <1>2, HandlerRuns, HandlersDone
  <2>3. \A u \in Threads \ {t} : closing'[u] = closing[u]
    BY <1>0, <1>2, ClosingOfOne
  <2>4. OneAtWork'
    BY <2>1, <2>3 DEF OneAtWork, Busy
  <2> QED BY <2>1, <2>2, <2>4 DEF AtOnce!vars
<1>3. ASSUME NEW t \in Threads, Lets(t), Proceeds(t) \/ (Closed /\ Begins(t)) PROVE OneAtWork' /\ AtOnce!Next
  <2>1. \A u \in Threads \ {t} : ~Busy(u)
    <3>1. CASE Proceeds(t)
      BY <3>1, StackOfOne DEF OneAtWork, Busy
    <3>2. CASE Closed /\ Begins(t)
      BY <3>2, StackOfOne DEF MayCall, Idle, Busy, Closed
    <3> QED BY <1>3, <3>1, <3>2
  <2>2. closing = [u \in Threads |-> <<>>]
    BY <1>0, <1>3, <2>1 DEF Busy, Lets
  <2>3. \A u \in Threads \ {t} : closing'[u] = closing[u] /\ stack'[u] = stack[u]
    BY <1>0, <1>3, ClosingOfOne, StackOfOne
  <2>4. OneAtWork'
    BY <2>1, <2>3 DEF OneAtWork, Busy
  <2>5. AtOnce!Next
    BY <1>3, <2>2, StepsAre DEF AtOnce!Next, Closed
  <2> QED BY <2>4, <2>5
<1> QED BY <1>1, <1>2, <1>3, NextInSteps

\* ClosingIsAtomic: if threads take turns, closing handler by handler implements the
\* close of KVarGraph, which takes away at once all that follows from a KVar, with its
\* listeners: what is proved of that close holds whenever none is under way.
THEOREM CloseIsAtomic ==
  ASSUME ~Concurrent
  PROVE  ClosingSpec => ClosingIsAtomic
<1>1. ClosingInit => CallsOk /\ Handled /\ OneAtWork /\ AtOnce!Init
  <2>1. ASSUME ClosingInit PROVE OneAtWork /\ AtOnce!Init
    <3>1. ReasonAtOnce = closeReason /\ ListeningAtOnce = listening
      BY <2>1, StartHandled, AtRest
    <3>2. OneAtWork
      BY <2>1 DEF ClosingInit, Init, OneAtWork, Busy
    <3>3. AtOnce!Tellers = Tellers
      BY DEF AtOnce!Tellers, Tellers
    <3> QED BY <2>1, <3>1, <3>2, <3>3 DEF ClosingInit, Init, AtOnce!Init
  <2> QED BY <2>1, StartHandled
<1>2. CallsOk /\ Handled /\ OneAtWork /\ [ClosingNext]_closingVars
        => (CallsOk /\ Handled /\ OneAtWork)' /\ [AtOnce!Next]_(AtOnce!vars)
  BY StepKeepsHandled, StepAtOnce
<1> QED BY <1>1, <1>2, PTL DEF ClosingSpec, ClosingIsAtomic, AtOnce!Spec
=============================================================================
