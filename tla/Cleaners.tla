------------------------------ MODULE Cleaners ------------------------------
(***************************************************************************)
(* What is made while a page is drawn, and how it goes again.  An          *)
(* ElementCreator makes elements, KVars and other things to be closed, and *)
(* fragments that render draws from a KVar, and registers a cleaner for    *)
(* each.  Drawing a fragment again, or closing the page, has a creator run *)
(* its cleaners, some of which have the creators beneath it run theirs.    *)
(*                                                                         *)
(* Drawing and cleaning are calls on one stack; the application acts when  *)
(* none is in progress, in the block of a render, and in the cleaners it   *)
(* has registered.  That a KVar changes while its fragment is drawn, and   *)
(* that threads race for that, is the subject of RenderLoop.               *)
(***************************************************************************)
EXTENDS Naturals, Sequences, SequencesExt

CONSTANTS
  MaxMade,         \* bound: objects made
  CleanersThrow,   \* may a cleaner of the application throw?
  CleanersRedraw   \* may one have a fragment drawn again of which a round is just
                   \* being cleaned up, or one that is around such a fragment?

ASSUME CleanersAssumption ==
  /\ MaxMade \in Nat \ {0}
  /\ CleanersThrow \in BOOLEAN /\ CleanersRedraw \in BOOLEAN

VARIABLES
  objects,     \* all that was made, in order: objects[n] is object n
  queue,       \* cleanupListeners of each creator
  cleanedUp,   \* the creators that are cleaned up
  promised,    \* history: the cleaners those had when their cleanup began
  current,     \* previousElementCreator of each fragment
  listening,   \* the fragments that hear of changes of their KVar
  stuck,       \* those of them whose renderState says for ever that they are being drawn
  page,        \* elements and fragments (their marker spans) in the document
  released,    \* what has been closed
  aborted,     \* history: creators of which a cleaner threw
  late,        \* history: was a cleaner registered too late (with a creator that is
               \* cleaned up already) or, as a block threw, not at all?
  stack        \* calls in progress

cleaningVars == <<cleanedUp, promised>>
drawingVars == <<current, listening, stuck>>
historyVars == <<aborted, late>>
vars == <<objects, queue, cleaningVars, drawingVars, page, released, historyVars,
          stack>>

\* Nothing, or the body, in which the first creator makes its elements.
None == 0
Root == 1

\* A creator and those above it.  An element or fragment and those around it.
Above(c) == IF c = None THEN {} ELSE {c} \cup objects[c].under
Around(n) == IF n = None THEN {} ELSE {n} \cup objects[n].inside

\* An object is made by a creator (`by`, `under` are all above), in an element or
\* between the marker spans of a fragment (`in`, `inside` are all around).
Object(kind, by, in, inside) ==
  [kind |-> kind, by |-> by, under |-> Above(by), in |-> in, inside |-> inside]
Kinds == {"creator", "element", "fragment", "resource"}
All(kind) == {n \in DOMAIN objects : objects[n].kind = kind}
Made == Len(objects) + 1

\* Cleaners: close a resource, delete an element or a marker span, clean up what
\* a fragment shows and have it listen no more.
Cleaner(do, of) == [do |-> do, of |-> of]
Deeds == {"close", "delete", "clean"}

\* Calls: a cleanup of a creator, whose iterator has fetched the next cleaner
\* already; render's own cleaner; a cleaner of the application; a fragment that
\* is drawn again and one that runs its block, for the first time or not.
CleanupCall(c, next) == [do |-> "cleanup", of |-> c, next |-> next]
Frame(do, of) == [do |-> do, of |-> of, next |-> 0]
FrameKinds == {"cleanup", "unlisten", "user", "redraw", "block", "first"}

TypeOK ==
  /\ Len(objects) <= MaxMade
  /\ objects \in Seq([kind : Kinds, by : 0..MaxMade, under : SUBSET All("creator"),
                      in : 0..MaxMade, inside : SUBSET DOMAIN objects])
  /\ DOMAIN queue = All("creator") /\ DOMAIN promised = All("creator")
  /\ \A c \in All("creator") :
       /\ queue[c] \in Seq([do : Deeds, of : DOMAIN objects])
       /\ promised[c] \subseteq [do : Deeds, of : DOMAIN objects]
  /\ cleanedUp \subseteq All("creator") /\ aborted \subseteq cleanedUp
  /\ DOMAIN current = All("fragment")
  /\ \A f \in All("fragment") : current[f] \in All("creator") \cup {None}
  /\ listening \subseteq All("fragment") /\ stuck \subseteq All("fragment")
  /\ page \subseteq All("element") \cup All("fragment")
  /\ released \subseteq All("resource")
  /\ late \in BOOLEAN
  /\ stack \in Seq([do : FrameKinds, of : DOMAIN objects, next : 0..MaxMade])

Init ==
  /\ objects = <<Object("creator", None, None, {})>>
  /\ queue = [c \in {Root} |-> <<>>]
  /\ cleanedUp = {} /\ promised = [c \in {Root} |-> {}]
  /\ current = [f \in {} |-> None] /\ listening = {} /\ stuck = {}
  /\ page = {} /\ released = {}
  /\ aborted = {} /\ late = FALSE
  /\ stack = <<>>

Top == Last(stack)
At(do) == stack # <<>> /\ Top.do = do
InUserCode == stack = <<>> \/ \E do \in {"block", "first", "user"} : At(do)

(***************************************************************************)
(* onCleanup                                                               *)
(***************************************************************************)
\* Seeded fault: a cleaner is registered with the creator alone.
WithAlone(c, withParent) == {c}
With(c, withParent) == IF withParent THEN Above(c) ELSE {c}

OnCleanup(c, withParent, cleaner) ==
  /\ queue' = [a \in All("creator") |->
                 IF a \in With(c, withParent) THEN Append(queue[a], cleaner) ELSE queue[a]]
  /\ late' = (late \/ With(c, withParent) \cap cleanedUp # {})

-----------------------------------------------------------------------------
(***************************************************************************)
(* The application makes things with a creator, cleaned up or not.         *)
(***************************************************************************)
MayMake(c, n) == InUserCode /\ c \in All("creator") /\ Len(objects) + n <= MaxMade

\* kvar, kval, closeOnCleanup, elementScope, onCleanup(withParent = true).
MakeResource(c) ==
  /\ MayMake(c, 1)
  /\ objects' = Append(objects, Object("resource", c, None, {}))
  /\ OnCleanup(c, TRUE, Cleaner("close", Made))
  /\ UNCHANGED <<cleaningVars, drawingVars, page, released, aborted, stack>>

\* The element a creator makes elements in, before the end of its fragment if
\* that is there, and none if the browser does not find it.
HostOf(c) ==
  LET elements == objects[c].inside \cap All("element")
  IN  IF elements = {} THEN None ELSE Max(elements)

Place(c) == IF objects[c].in \in page THEN objects[c].in ELSE HostOf(c)
Placed(c, n) == IF HostOf(c) \in page \cup {None} THEN page \cup {n} ELSE page

MakeElement(c) ==
  /\ MayMake(c, 1)
  /\ objects' = Append(objects, Object("element", c, Place(c), Around(Place(c))))
  /\ page' = Placed(c, Made)
  /\ OnCleanup(c, FALSE, Cleaner("delete", Made))
  /\ UNCHANGED <<cleaningVars, drawingVars, released, aborted, stack>>

Extended(f, n, v) == [m \in DOMAIN f \cup {n} |-> IF m = n THEN v ELSE f[m]]

\* A new creator, for what is made in an element or for a round of a fragment.
Created(all, q) ==
  /\ objects' = all
  /\ queue' = Extended(q, Len(all), <<>>)
  /\ promised' = Extended(promised, Len(all), {})

\* element.new { }
New(e) ==
  /\ InUserCode /\ e \in All("element") /\ Made <= MaxMade
  /\ Created(Append(objects, Object("creator", objects[e].by, e, Around(e))), queue)
  /\ late' = (late \/ Above(objects[e].by) \cap cleanedUp # {})
  /\ UNCHANGED <<cleanedUp, drawingVars, page, released, aborted, stack>>

\* render(value) { block }: the marker spans, then the first round of the loop.
Render(c) ==
  /\ MayMake(c, 2)
  /\ Created(objects \o <<Object("fragment", c, Place(c), Around(Place(c))),
                          Object("creator", c, Made, {Made} \cup Around(Place(c)))>>,
             [queue EXCEPT ![c] = Append(@, Cleaner("delete", Made))])
  /\ late' = (late \/ Above(c) \cap cleanedUp # {})
  /\ page' = Placed(c, Made)
  /\ current' = Extended(current, Made, Made + 1)
  /\ listening' = listening \cup {Made}
  /\ stack' = Append(stack, Frame("first", Made))
  /\ UNCHANGED <<cleanedUp, stuck, released, aborted>>

BlockReturns ==
  /\ At("block")
  /\ stack' = Front(stack)
  /\ UNCHANGED <<objects, queue, cleaningVars, drawingVars, page, released, historyVars>>

\* The first round is drawn: render registers its cleaner, and returns.
Rendered ==
  /\ At("first")
  /\ OnCleanup(objects[Top.of].by, TRUE, Cleaner("clean", Top.of))
  /\ stack' = Front(stack)
  /\ UNCHANGED <<objects, cleaningVars, drawingVars, page, released, aborted>>

\* The block throws: no change of the KVar is drawn from now on.  In the first round
\* the exception leaves render, whose cleaner is never registered; in a later one it
\* is caught by the KVar.
BlockThrows ==
  /\ At("block") \/ At("first")
  /\ stuck' = stuck \cup {Top.of}
  /\ late' = (late \/ At("first"))
  /\ stack' = Front(stack)
  /\ UNCHANGED <<objects, queue, cleaningVars, current, listening, page, released, aborted>>

(***************************************************************************)
(* cleanup                                                                 *)
(***************************************************************************)
\* The calls of a cleanup of creator c, none if it is null or cleaned up already.
CallsToCleanUp(c) ==
  IF c \in {None} \cup cleanedUp THEN <<>>
  ELSE <<CleanupCall(c, IF queue[c] = <<>> THEN 0 ELSE 1)>>

\* isCleanedUp = true.  Seeded fault: it stays false.
BeginCleanupUnflagged(c) == UNCHANGED cleaningVars
BeginCleanup(c) ==
  /\ cleanedUp' = cleanedUp \cup ({c} \ {None})
  /\ promised' = IF c \in {None} \cup cleanedUp THEN promised
                 ELSE [promised EXCEPT ![c] = ToSet(queue[c])]

\* The page is closed: Document's body has a close listener.
ClosePage ==
  /\ stack = <<>> /\ Root \notin cleanedUp
  /\ BeginCleanup(Root)
  /\ stack' = CallsToCleanUp(Root)
  /\ UNCHANGED <<objects, queue, drawingVars, page, released, historyVars>>

Called == queue[Top.of][Top.next]
Runs(do) == At("cleanup") /\ Top.next # 0 /\ Called.do = do

\* The iterator fetches the next cleaner before the one fetched is called: what is
\* registered during the last one is not run.  Seeded fault: it stops one early.
NextCleanerEarly == IF Top.next + 1 < Len(queue[Top.of]) THEN Top.next + 1 ELSE 0
NextCleaner == IF Top.next < Len(queue[Top.of]) THEN Top.next + 1 ELSE 0
Continue(calls) == stack' = Append(Front(stack), [Top EXCEPT !.next = NextCleaner]) \o calls

\* What is in an element, itself included, or between the spans of a fragment.
Within(n) == {m \in page : n \in Around(m)}

DeleteElement ==
  /\ Runs("delete")
  /\ page' = page \ IF Called.of \in All("element") THEN Within(Called.of) ELSE {Called.of}
  /\ Continue(<<>>)
  /\ UNCHANGED <<objects, queue, cleaningVars, drawingVars, released, historyVars>>

CloseResource ==
  /\ Runs("close")
  /\ released' = released \cup {Called.of}
  /\ Continue(<<Frame("user", Called.of)>>)
  /\ UNCHANGED <<objects, queue, cleaningVars, drawingVars, page, historyVars>>

CleanerReturns ==
  /\ At("user")
  /\ stack' = Front(stack)
  /\ UNCHANGED <<objects, queue, cleaningVars, drawingVars, page, released, historyVars>>

\* previousElementCreator.getAndSet(null)?.cleanup(), and then removeListener.
CleanFragment ==
  LET f == Called.of
  IN  /\ Runs("clean")
      /\ current' = [current EXCEPT ![f] = None]
      /\ BeginCleanup(current[f])
      /\ Continue(<<Frame("unlisten", f)>> \o CallsToCleanUp(current[f]))
      /\ UNCHANGED <<objects, queue, listening, stuck, page, released, historyVars>>

Unlisten ==
  /\ At("unlisten")
  /\ listening' = listening \ {Top.of}
  /\ stack' = Front(stack)
  /\ UNCHANGED <<objects, queue, cleaningVars, current, stuck, page, released, historyVars>>

\* cleanupListeners.clear()
CleanupEnds ==
  /\ At("cleanup") /\ Top.next = 0
  /\ queue' = [queue EXCEPT ![Top.of] = <<>>]
  /\ stack' = Front(stack)
  /\ UNCHANGED <<objects, cleaningVars, drawingVars, page, released, historyVars>>

\* A cleaner throws.  The exception is caught by the cleanup, whose other cleaners
\* are not run.
CleanerThrows ==
  LET c == stack[Len(stack) - 1].of
  IN  /\ CleanersThrow /\ At("user")
      /\ aborted' = aborted \cup {c}
      /\ queue' = [queue EXCEPT ![c] = <<>>]
      /\ stack' = Front(Front(stack))
      /\ UNCHANGED <<objects, cleaningVars, drawingVars, page, released, late>>

(***************************************************************************)
(* A KVar changes, and its fragment is drawn again.                        *)
(***************************************************************************)
\* removeChildrenBetweenSpans, if the browser finds them.
Drawn(f) == IF f \in page THEN Within(f) \ {f} ELSE {}

\* Is the block of f running, or one of its rounds being cleaned up?
Busy(f) == \E i \in DOMAIN stack :
  LET g == stack[i].of
  IN  \/ stack[i].do \in {"block", "first"} /\ f = g
      \/ /\ ~CleanersRedraw /\ stack[i].do \in {"redraw", "unlisten"}
         /\ f = g \/ \E c \in Above(objects[g].by) : objects[c].in = f

\* Seeded fault: the creator of the last round is dropped.
LastRoundDropped(f) == None
LastRound(f) == current[f]

Redraw(f) ==
  /\ InUserCode /\ f \in listening \ stuck /\ ~Busy(f) /\ Made <= MaxMade
  /\ page' = page \ Drawn(f)
  /\ current' = [current EXCEPT ![f] = None]
  /\ BeginCleanup(LastRound(f))
  /\ stack' = Append(stack, Frame("redraw", f)) \o CallsToCleanUp(LastRound(f))
  /\ UNCHANGED <<objects, queue, listening, stuck, released, historyVars>>

DrawAgain ==
  LET f == Top.of
  IN  /\ At("redraw") /\ Made <= MaxMade
      /\ Created(Append(objects, Object("creator", objects[f].by, f, Around(f))), queue)
      /\ late' = (late \/ Above(objects[f].by) \cap cleanedUp # {})
      /\ current' = [current EXCEPT ![f] = Made]
      /\ stack' = Append(Front(stack), Frame("block", f))
      /\ UNCHANGED <<cleanedUp, listening, stuck, page, released, aborted>>

-----------------------------------------------------------------------------
Next ==
  \/ \E c \in All("creator") : MakeResource(c) \/ MakeElement(c) \/ Render(c)
  \/ \E e \in All("element") : New(e)
  \/ \E f \in All("fragment") : Redraw(f)
  \/ Rendered \/ DrawAgain \/ ClosePage \/ BlockReturns \/ BlockThrows
  \/ DeleteElement \/ CloseResource \/ CleanFragment \/ Unlisten
  \/ CleanerReturns \/ CleanerThrows \/ CleanupEnds

Spec == Init /\ [][Next]_vars

-----------------------------------------------------------------------------
Quiet == stack = <<>>
CleaningUp(c) == \E i \in DOMAIN stack : stack[i].do = "cleanup" /\ stack[i].of = c

Done(cleaner) ==
  CASE cleaner.do = "close" -> cleaner.of \in released
    [] cleaner.do = "delete" -> cleaner.of \notin page
    [] OTHER -> cleaner.of \notin listening /\ current[cleaner.of] = None

Unlistening(cleaner) ==
  cleaner.do = "clean" /\ Frame("unlisten", cleaner.of) \in ToSet(stack)

\* A creator that has been cleaned up keeps what it promised when the cleanup
\* began: all that was registered with it by then, by itself or by those beneath
\* it, is closed, deleted and cleaned up, unless a cleaner threw.
PromisesAreKept ==
  \A c \in cleanedUp \ aborted : ~CleaningUp(c) =>
    \A cleaner \in promised[c] : Done(cleaner) \/ Unlistening(cleaner)

\* When no cleaner has thrown and none came too late or, as a block threw in the
\* first round, not at all, nothing is left of what was
\* made by a creator that has been cleaned up, or by one beneath it, however the
\* fragments and elements are nested and in whatever order they went.
NothingIsLeft ==
  Quiet /\ aborted = {} /\ ~late =>
    \A c \in cleanedUp : \A n \in DOMAIN objects :
      n # c /\ c \in Above(n) =>
        CASE objects[n].kind = "resource" -> n \in released
          [] objects[n].kind = "element" -> n \notin page
          [] objects[n].kind = "fragment" -> n \notin page \cup listening
          [] OTHER -> TRUE

\* A fragment shows one round: the creators of earlier rounds are cleaned up.
OneRoundIsShown ==
  Quiet => \A f \in All("fragment") : \A c \in All("creator") :
    objects[c].in = f => c \in cleanedUp \cup {current[f]}

\* NOT TRUE: cleaners registered with a creator by one beneath it stay there when
\* that one is gone, and are run again.
QueuesForget ==
  Quiet => \A c \in All("creator") \ cleanedUp : \A i \in DOMAIN queue[c] :
    ~(queue[c][i].do = "close" /\ queue[c][i].of \in released)
=============================================================================
