----------------------------- MODULE RenderEach -----------------------------
(***************************************************************************)
(* An ObservableList, the threads that modify it, and one renderEach that  *)
(* keeps a part of the DOM like it.                                        *)
(*                                                                         *)
(* A modification is applied to the items under the lock of the list and   *)
(* then, after that lock is released, handed to the listener, which        *)
(* applies it a second time: to renderHandles, under a lock of its own,    *)
(* and to the DOM, by JavaScript that names fragments by their markers.    *)
(* That JavaScript is taken to be executed: what a batch drops when an     *)
(* exception leaves it is in JsFunctionCalls.                              *)
(*                                                                         *)
(* Positions count from 0, as in the code.                                 *)
(***************************************************************************)
EXTENDS Integers, Sequences, SequencesExt

CONSTANTS
  Items,         \* values of the elements of the list
  Unrenderable,  \* those on which itemRenderer throws
  Blank,         \* what is shown for them
  Threads,       \* threads that use the list
  NoThread,      \* the holder of a lock that is free
  MaxLength,     \* bound: the list is not made longer than this
  MaxCalls,      \* bound: modifications in all, an addAll counted as one
  MaxBatch,      \* bound: modifications in one call of applyModifications
  Careless,      \* may the positions of a call be out of bounds?
  RetainAll,     \* may retainAll be called?
  EarlyCalls,    \* may the list be used before renderEach has returned?
  Concurrent     \* may two threads use the list at the same time?

ASSUME RenderEachAssumption ==
  /\ NoThread \notin Threads
  /\ Unrenderable \subseteq Items /\ Blank \notin Items
  /\ MaxLength \in Nat /\ MaxCalls \in Nat /\ MaxBatch \in Nat
  /\ {Careless, RetainAll, EarlyCalls, Concurrent} \subseteq BOOLEAN

VARIABLES
  items, closed,     \* the ObservableList
  itemsLock,         \* holder of synchronized(items)
  pc,                \* of each thread
  toAdd,             \* items that an addAll still has to add
  modifications,     \* what applyModifications has yet to tell the listener
  todo,              \* what is still to be applied, to the list or the DOM
  calls,             \* modifications so far
  rendering,         \* progress of renderEach
  renderHandles,     \* the fragments of the items, in order
  handlesLock,       \* holder of synchronized(renderHandles)
  fragments,         \* fragments made so far
  shown,             \* the item each of them shows
  dom                \* fragments in the DOM, in order, and then EndMarker

listVars == <<items, closed, itemsLock>>
callVars == <<toAdd, modifications, todo, calls>>
viewVars == <<renderHandles, handlesLock, fragments, shown, dom>>
vars == <<listVars, pc, callVars, rendering, viewVars>>

EndMarker == 0

Insertion(p, x) == [kind |-> "Insertion", position |-> p, item |-> x]
Change(p, x) == [kind |-> "Change", position |-> p, item |-> x]
Deletion(p) == [kind |-> "Deletion", position |-> p]
Move(p, q) == [kind |-> "Move", oldPosition |-> p, newPosition |-> q]
ModificationsAt(Positions) ==
  [kind : {"Insertion", "Change"}, position : Positions, item : Items]
    \cup [kind : {"Deletion"}, position : Positions]
    \cup [kind : {"Move"}, oldPosition : Positions, newPosition : Positions]
Modifications == ModificationsAt(Nat)

TypeOK ==
  /\ items \in Seq(Items)
  /\ closed \in BOOLEAN
  /\ itemsLock \in Threads \cup {NoThread}
  /\ pc \in [Threads -> {"idle", "apply", "notify"}]
  /\ toAdd \in [Threads -> Seq(Items)]
  /\ modifications \in [Threads -> Seq(Modifications)]
  /\ todo \in [Threads -> Seq(Modifications)]
  /\ calls \in 0..MaxCalls
  /\ rendering \in {"start", "drawn", "failed", "listening", "cleaned"}
  /\ fragments \in Nat
  /\ renderHandles \in Seq(1..fragments)
  /\ handlesLock \in Threads \cup {NoThread}
  /\ shown \in [1..fragments -> Items \cup {Blank}]
  /\ dom \in Seq({EndMarker} \cup 1..fragments)

Init ==
  /\ items \in SeqOf(Items, 2)
  /\ closed = FALSE
  /\ itemsLock = NoThread
  /\ pc = [t \in Threads |-> "idle"]
  /\ toAdd = [t \in Threads |-> <<>>]
  /\ modifications = [t \in Threads |-> <<>>]
  /\ todo = [t \in Threads |-> <<>>]
  /\ calls = 0
  /\ rendering = "start"
  /\ renderHandles = <<>> /\ handlesLock = NoThread
  /\ fragments = 0 /\ shown = <<>>
  /\ dom = <<EndMarker>>

(***************************************************************************)
(* The modifications, as the list applies them: what they make of it, and  *)
(* whether they run to their end (else: IndexOutOfBoundsException).        *)
(***************************************************************************)
\* Seeded fault: the item comes one place too early when it moves up.
MovedShort(s, p, q) ==
  IF p >= q THEN RemoveAt(InsertAt(s, q + 1, s[p + 1]), p + 2)
  ELSE InsertAt(RemoveAt(s, p + 1), q, s[p + 1])
Moved(s, p, q) ==
  IF p >= q THEN RemoveAt(InsertAt(s, q + 1, s[p + 1]), p + 2)
  ELSE InsertAt(RemoveAt(s, p + 1), q + 1, s[p + 1])

Completes(s, m) ==
  CASE m.kind = "Insertion" -> m.position <= Len(s)
    [] m.kind \in {"Change", "Deletion"} -> m.position < Len(s)
    [] m.kind = "Move" -> \/ m.oldPosition = m.newPosition
                          \/ m.oldPosition < Len(s) /\ m.newPosition < Len(s)

Applied(s, m) ==
  CASE m.kind = "Insertion" -> InsertAt(s, m.position + 1, m.item)
    [] m.kind = "Change" -> ReplaceAt(s, m.position + 1, m.item)
    [] m.kind = "Deletion" -> RemoveAt(s, m.position + 1)
    [] m.kind = "Move" -> IF m.oldPosition = m.newPosition THEN s
                          ELSE Moved(s, m.oldPosition, m.newPosition)

\* A move to a position past the end removes the item before it fails.
AfterFailure(s, m) ==
  IF /\ m.kind = "Move" /\ m.oldPosition < m.newPosition
     /\ m.oldPosition < Len(s)
  THEN RemoveAt(s, m.oldPosition + 1)
  ELSE s

(***************************************************************************)
(* Calls on the list.  The position an element is added at or removed from *)
(* is computed before the lock is taken.                                   *)
(***************************************************************************)
MayCall(t) ==
  /\ pc[t] = "idle"
  /\ EarlyCalls \/ rendering \notin {"start", "drawn"}
  /\ Concurrent \/ \A u \in Threads \ {t} : pc[u] = "idle" /\ toAdd[u] = <<>>

Refuses == closed

\* All of ms runs to its end when nothing else modifies the list.
Careful(ms) ==
  \A i \in DOMAIN ms :
     Completes(FoldLeft(Applied, items, SubSeq(ms, 1, i - 1)), ms[i])

ApplyModifications(t, ms) ==
  /\ ~Refuses
  /\ modifications' = [modifications EXCEPT ![t] = ms]
  /\ todo' = [todo EXCEPT ![t] = ms]
  /\ pc' = [pc EXCEPT ![t] = "apply"]

\* add(i, x), set, remove, removeAt, move and one round of clear come down to
\* one modification; applyModifications takes any number.
Modify(t, ms) ==
  /\ MayCall(t) /\ toAdd[t] = <<>>
  /\ calls + Len(ms) <= MaxCalls /\ calls' = calls + Len(ms)
  /\ \A i \in DOMAIN ms : ms[i].kind = "Insertion" => Len(items) + i <= MaxLength
  /\ Careless \/ Careful(ms)
  /\ ApplyModifications(t, ms)
  /\ UNCHANGED <<listVars, toAdd, rendering, viewVars>>

\* add(x) and addAll: an Insertion at items.size for one element after another.
AddAll(t, xs) ==
  /\ MayCall(t) /\ toAdd[t] = <<>>
  /\ calls < MaxCalls /\ calls' = calls + 1
  /\ Len(items) + Len(xs) <= MaxLength
  /\ toAdd' = [toAdd EXCEPT ![t] = xs]
  /\ UNCHANGED <<listVars, pc, modifications, todo, rendering, viewVars>>

AddNext(t) ==
  /\ pc[t] = "idle" /\ toAdd[t] # <<>>
  /\ IF closed
     THEN /\ toAdd' = [toAdd EXCEPT ![t] = <<>>]
          /\ UNCHANGED <<pc, modifications, todo>>
     ELSE /\ toAdd' = [toAdd EXCEPT ![t] = Tail(@)]
          /\ ApplyModifications(t, <<Insertion(Len(items), Head(toAdd[t]))>>)
  /\ UNCHANGED <<listVars, calls, rendering, viewVars>>

\* retainAll empties the list, by which no listener is notified, and then adds
\* its argument.
RetainOnly(t, xs) ==
  /\ RetainAll /\ MayCall(t) /\ toAdd[t] = <<>> /\ ~closed
  /\ calls < MaxCalls /\ calls' = calls + 1
  /\ items' = <<>>
  /\ toAdd' = [toAdd EXCEPT ![t] = xs]
  /\ UNCHANGED <<closed, itemsLock, pc, modifications, todo, rendering, viewVars>>

Close(t) ==
  /\ MayCall(t) /\ toAdd[t] = <<>> /\ ~closed
  /\ closed' = TRUE
  /\ UNCHANGED <<items, itemsLock, pc, callVars, rendering, viewVars>>

(***************************************************************************)
(* applyModifications: first the items, under their lock.                  *)
(***************************************************************************)
Apply(t) ==
  LET m == Head(todo[t]) IN
  /\ pc[t] = "apply" /\ itemsLock \in {NoThread, t} /\ todo[t] # <<>>
  /\ IF Completes(items, m)
     THEN /\ items' = Applied(items, m)
          /\ itemsLock' = t
          /\ todo' = [todo EXCEPT ![t] = Tail(@)]
          /\ UNCHANGED <<pc, toAdd, modifications>>
     ELSE /\ items' = AfterFailure(items, m)
          /\ itemsLock' = NoThread
          /\ todo' = [todo EXCEPT ![t] = <<>>]
          /\ toAdd' = [toAdd EXCEPT ![t] = <<>>]
          /\ pc' = [pc EXCEPT ![t] = "idle"]
          /\ modifications' = [modifications EXCEPT ![t] = <<>>]
  /\ UNCHANGED <<closed, calls, rendering, viewVars>>

\* Then the listener, if there is one by now.
Applies(t) ==
  /\ pc[t] = "apply" /\ todo[t] = <<>>
  /\ itemsLock' = NoThread
  /\ IF rendering = "listening"
     THEN /\ pc' = [pc EXCEPT ![t] = "notify"]
          /\ todo' = [todo EXCEPT ![t] = modifications[t]]
     ELSE /\ pc' = [pc EXCEPT ![t] = "idle"]
          /\ UNCHANGED todo
  /\ modifications' = [modifications EXCEPT ![t] = <<>>]
  /\ UNCHANGED <<items, closed, toAdd, calls, rendering, viewVars>>

(***************************************************************************)
(* The listener of renderEach, under the lock on renderHandles.            *)
(***************************************************************************)
\* insertBefore(fragment, marker), removeChild, and the two together
IndexIn(s, e) == CHOOSE i \in DOMAIN s : s[i] = e
InsertBefore(d, f, marker) == InsertAt(d, IndexIn(d, marker), f)
Without(d, f) == RemoveAt(d, IndexIn(d, f))

\* The marker of the fragment at position p, or the end marker of the list.
MarkerAt(p) == IF p = Len(renderHandles) THEN EndMarker ELSE renderHandles[p + 1]

\* Where a fragment goes that moves from p to q, q # p.
\* Seeded fault: the fragment now at q, whichever way it moves.
TargetHere(p, q) == MarkerAt(q)
Target(p, q) == IF p > q THEN MarkerAt(q) ELSE MarkerAt(q + 1)

\* Seeded fault: a fragment gets the id of the last one.
NextFragmentOld == fragments
NextFragment == fragments + 1

\* render writes the markers, and then draws the item between them.
InsertSpans(p, x) ==
  /\ fragments' = NextFragment
  /\ shown' = [f \in 1..fragments' |-> IF f = fragments' THEN x ELSE shown[f]]
  /\ dom' = InsertBefore(dom, fragments', MarkerAt(p))

InsertItem(p, x) ==
  /\ InsertSpans(p, x)
  /\ renderHandles' = InsertAt(renderHandles, p + 1, fragments')

\* If itemRenderer throws, nobody takes the markers out again.
InsertFails(p) ==
  /\ InsertSpans(p, Blank)
  /\ UNCHANGED renderHandles

DeleteItem(p) ==
  /\ dom' = Without(dom, renderHandles[p + 1])
  /\ renderHandles' = RemoveAt(renderHandles, p + 1)
  /\ UNCHANGED <<fragments, shown>>

\* The setter of the item's KVar catches what itemRenderer throws; the fragment is
\* not drawn again after that (RenderLoop).
ChangeItem(p, x) ==
  /\ shown' = [shown EXCEPT ![renderHandles[p + 1]] =
                  IF @ = Blank \/ x \in Unrenderable THEN Blank ELSE x]
  /\ UNCHANGED <<renderHandles, fragments, dom>>

MoveItem(p, q) ==
  LET f == renderHandles[p + 1] IN
  /\ dom' = InsertBefore(Without(dom, f), f, Target(p, q))
  /\ renderHandles' = IF p > q
                      THEN RemoveAt(InsertAt(renderHandles, q + 1, f), p + 2)
                      ELSE RemoveAt(InsertAt(renderHandles, q + 2, f), p + 1)
  /\ UNCHANGED <<fragments, shown>>

Render(m) ==
  \/ m.kind = "Insertion" /\ InsertItem(m.position, m.item)
  \/ m.kind = "Change" /\ ChangeItem(m.position, m.item)
  \/ m.kind = "Deletion" /\ DeleteItem(m.position)
  \/ /\ m.kind = "Move" /\ m.oldPosition # m.newPosition
     /\ MoveItem(m.oldPosition, m.newPosition)
  \/ /\ m.kind = "Move" /\ m.oldPosition = m.newPosition
     /\ UNCHANGED <<renderHandles, fragments, shown, dom>>

\* An index out of bounds throws before anything is changed; that exception and one
\* of itemRenderer reach the caller of the list.
RendererThrows(m) == m.kind = "Insertion" /\ m.item \in Unrenderable
RenderFails(m) ==
  IF Completes(renderHandles, m) THEN InsertFails(m.position)
  ELSE UNCHANGED <<renderHandles, fragments, shown, dom>>

Notify(t) ==
  LET m == Head(todo[t]) IN
  /\ pc[t] = "notify" /\ handlesLock \in {NoThread, t} /\ todo[t] # <<>>
  /\ IF Completes(renderHandles, m) /\ ~RendererThrows(m)
     THEN /\ Render(m)
          /\ handlesLock' = t
          /\ todo' = [todo EXCEPT ![t] = Tail(@)]
          /\ UNCHANGED <<pc, toAdd>>
     ELSE /\ RenderFails(m)
          /\ handlesLock' = NoThread
          /\ todo' = [todo EXCEPT ![t] = <<>>]
          /\ toAdd' = [toAdd EXCEPT ![t] = <<>>]
          /\ pc' = [pc EXCEPT ![t] = "idle"]
  /\ UNCHANGED <<listVars, modifications, calls, rendering>>

Notified(t) ==
  /\ pc[t] = "notify" /\ todo[t] = <<>>
  /\ handlesLock' = NoThread
  /\ pc' = [pc EXCEPT ![t] = "idle"]
  /\ UNCHANGED <<listVars, callVars, rendering, renderHandles, fragments, shown,
                 dom>>

(***************************************************************************)
(* renderEach: it draws a copy of the list, up to the first item on which  *)
(* itemRenderer throws, and adds its listener after.                       *)
(***************************************************************************)
RenderItems ==
  /\ rendering = "start" /\ itemsLock = NoThread
  /\ \E n \in 0..Len(items) :
       /\ \A i \in 1..n : items[i] \notin Unrenderable
       /\ \/ n = Len(items) /\ fragments' = n /\ rendering' = "drawn"
          \/ /\ n < Len(items) /\ items[n + 1] \in Unrenderable
             /\ fragments' = n + 1 /\ rendering' = "failed"
       /\ renderHandles' = [f \in 1..n |-> f]
       /\ shown' = [f \in 1..fragments' |-> IF f <= n THEN items[f] ELSE Blank]
  /\ dom' = Append([f \in 1..fragments' |-> f], EndMarker)
  /\ UNCHANGED <<listVars, pc, callVars, handlesLock>>

AddListener ==
  /\ rendering = "drawn" /\ ~closed
  /\ rendering' = "listening"
  /\ UNCHANGED <<listVars, pc, callVars, viewVars>>

\* The cleaner of renderEach; removeListener throws on a closed list.
CleanUp ==
  /\ rendering = "listening" /\ ~closed
  /\ rendering' = "cleaned"
  /\ UNCHANGED <<listVars, pc, callVars, viewVars>>

-----------------------------------------------------------------------------
Proceed(t) == AddNext(t) \/ Apply(t) \/ Applies(t) \/ Notify(t) \/ Notified(t)

Next ==
  \/ \E t \in Threads :
       \/ Proceed(t)
       \/ Close(t)
       \/ \E ms \in SeqOf(ModificationsAt(0..MaxLength), MaxBatch) \ {<<>>} : Modify(t, ms)
       \/ \E xs \in SeqOf(Items, 2) : AddAll(t, xs) \/ RetainOnly(t, xs)
  \/ RenderItems \/ AddListener \/ CleanUp

Spec == Init /\ [][Next]_vars

-----------------------------------------------------------------------------
Quiet == \A t \in Threads : pc[t] = "idle" /\ toAdd[t] = <<>>

\* What the browser shows is the list, whenever no call is in progress.
DomShowsItems ==
  (rendering = "listening" /\ Quiet) =>
     dom = Append(renderHandles, EndMarker)
       /\ [i \in DOMAIN renderHandles |-> shown[renderHandles[i]]] = items

\* However the calls of several threads interleave, and whether positions are out of
\* bounds or itemRenderer throws: the DOM has the fragments of renderHandles, each once
\* and in their order, and EndMarker after them, so that no JavaScript ever names a
\* marker that is not there.  All that it has besides is markers whose item was never
\* drawn.
Precedes(f, g) == \E i, j \in DOMAIN dom : i < j /\ dom[i] = f /\ dom[j] = g
HandlesMatchDom ==
  LET handles == Append(renderHandles, EndMarker) IN
  /\ IsInjective(dom) /\ Last(dom) = EndMarker
  /\ \A i, j \in DOMAIN handles : i < j => Precedes(handles[i], handles[j])
  /\ \A f \in ToSet(dom) \ ToSet(handles) : shown[f] = Blank

\* TRUE only of threads that take turns, for which it restates a guard, and checked
\* by no run: nothing changes the items of a list once it is closed.  The code
\* looks at closed before it takes the lock.
FrozenOnceClosed == [][closed => UNCHANGED items]_vars
=============================================================================
