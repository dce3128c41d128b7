--------------------------- MODULE UrlState_proofs ----------------------------
(***************************************************************************)
(* Theorems about UrlState, for any paths and queries, any number of       *)
(* threads, and histories of any length: its types; and, while changes are *)
(* not disturbed, that the address bar and the url of the server agree     *)
(* unless a push and a popstate have crossed, and that no popstate is      *)
(* pushed back to the browser it came from.                                *)
(***************************************************************************)
EXTENDS UrlState, SequenceTheorems, TLAPS

-----------------------------------------------------------------------------
(***************************************************************************)
(* The listeners.                                                          *)
(***************************************************************************)
FromSource == Listener("forward", "urlSource", "url", "url")
ToSource == Listener("reverse", "url", "urlSource", "urlSource")
ToPath == Listener("forward", "url", "path", "path")
FromPath == Listener("reverse", "path", "url", "url")
ToTemplate == Listener("map", "path", "template", "template")
Redirect == Listener("set", "template", "url", "url")

\* Those that keep two KVars in step.
Edges == {FromSource, ToSource, ToPath, FromPath, ToTemplate}

AnyValue == [url : Urls, source : {"Initial", "Client", "Server"}] \cup Urls \cup Paths

Frames == [pc : {"read", "assign", "notify", "iterate"}, kvar : UrlKVars,
           by : Listeners \cup {None}, old : AnyValue, new : AnyValue,
           next : Listeners \cup {None}, todo : SUBSET Listeners]

(***************************************************************************)
(* The types: nothing is ever closed, and a call is about the values of    *)
(* its KVar and the listeners of it.                                       *)
(***************************************************************************)
FrameTyped(f) ==
  /\ f.old \in UrlValues[f.kvar] /\ f.new \in UrlValues[f.kvar]
  /\ f.by # None => f.by.to = f.kvar
  /\ \A l \in {f.next} \cup f.todo : l # None => l.of = f.kvar
  /\ f.next = None => f.todo = {}

Messages == [kind : {"pushState"}, url : Urls] \cup [kind : {"draw"}, template : Paths]

Typed ==
  /\ value \in [UrlKVars -> AnyValue] /\ \A k \in UrlKVars : value[k] \in UrlValues[k]
  /\ closeReason = [k \in KVars |-> "open"] /\ listening = Listeners
  /\ DOMAIN told = Tellers /\ \A l \in Tellers : told[l] \in UrlValues[l.of]
  /\ stack \in [Threads -> Seq(Frames)]
  /\ \A t \in Threads : \A i \in 1..Len(stack[t]) : FrameTyped(stack[t][i])
  /\ sets \in 0..MaxSets
HistoryTyped ==
  /\ entries \in Seq(Urls) /\ index \in 1..Len(entries)
  /\ popstates \in Seq(Urls) /\ out \in Seq(Messages)
  /\ page \in Paths /\ crossed \in BOOLEAN

(***************************************************************************)
(* A change on its way through the KVars.                                  *)
(***************************************************************************)
Depth(t) == Len(stack[t])
Base(t) == stack[t][1]

\* The URL it leads to, and what each KVar is to hold.
Target(t) ==
  IF Base(t).kvar = "urlSource" THEN Base(t).new.url
  ELSE IF Base(t).kvar = "url" THEN Base(t).new
  ELSE [path |-> Base(t).new, query |-> value["url"].query]
Author(t) == IF Base(t).kvar = "urlSource" THEN "Client" ELSE "Server"
Wanted(target, author, k) ==
  CASE k = "urlSource" -> UrlSource(target, author)
    [] k = "url" -> target
    [] OTHER -> target.path
Want(t, k) == Wanted(Target(t), Author(t), k)

\* The listeners the call f has yet to call; if it is a call of a setter that has
\* not begun to tell them, the one that made it.
Waiting(f) ==
  CASE f.pc = "notify" -> {l \in Listeners : l.of = f.kvar}
    [] f.pc = "iterate" -> {f.next} \cup f.todo
    [] OTHER -> {f.by}
ToCome(t) == UNION {Waiting(stack[t][i]) : i \in 1..Len(stack[t])}

\* Two KVars agree, or a listener between them is still to come.
Agree(l) ==
  CASE l \in {FromSource, ToSource} -> value["urlSource"].url = value["url"]
    [] l \in {ToPath, FromPath} -> value["url"].path = value["path"]
    [] OTHER -> value["path"] = value["template"]
Answer(l) ==
  CASE l = FromSource -> ToSource [] l = ToSource -> FromSource
    [] l = ToPath -> FromPath [] l = FromPath -> ToPath [] OTHER -> l
AllAgree == \A l \in Edges : Agree(l)
Reaches(t) == \A l \in Edges : Agree(l) \/ l \in ToCome(t) \/ Answer(l) \in ToCome(t)

Tells(f) == f.pc \in {"notify", "iterate"}

\* A call f, the i-th of depth, made on behalf of a change of the KVar caller.
Fits(f, i, depth, caller, held, target, author) ==
  /\ f.new = Wanted(target, author, f.kvar)
  /\ Tells(f) => held[f.kvar] = f.new
  /\ f.pc = "assign" => f.old = held[f.kvar]
  /\ i < depth => f.pc = "iterate"
  /\ IF i = 1 THEN f.by = None ELSE f.by \in Edges /\ f.by.of = caller
  /\ f.kvar = "path" => held["url"].query = target.query
  /\ f.kvar = "template" => Tells(f)

FrameOn(t, i) ==
  Fits(stack[t][i], i, Depth(t), stack[t][i - 1].kvar, value, Target(t), Author(t))

\* The URL gets its author on the way.
Signed(t) ==
  Tells(Base(t)) => \/ value["urlSource"] = Want(t, "urlSource")
                    \/ Base(t).kvar # "urlSource" /\ value["urlSource"].url # Target(t)

Wave(t) ==
  /\ \A u \in Threads \ {t} : stack[u] = <<>>
  /\ Base(t).kvar # "template"
  /\ \A i \in 1..Len(stack[t]) : FrameOn(t, i)
  /\ Reaches(t) /\ Signed(t)

InStep ==
  /\ (\A t \in Threads : stack[t] = <<>>) => AllAgree
  /\ \A t \in Threads : stack[t] # <<>> => Wave(t)

(***************************************************************************)
(* The history of the browser.                                             *)
(***************************************************************************)
NoPush == \A i \in 1..Len(out) : out[i].kind # "pushState"

\* Once the browser has received what has been sent it is at u.
LeadsTo(u) ==
  \/ NoPush /\ entries[index] = u
  \/ \E i \in 1..Len(out) :
       /\ out[i].kind = "pushState" /\ out[i].url = u
       /\ \A j \in (i + 1)..Len(out) : out[j].kind # "pushState"

\* The change of thread t leads the browser to where it leads the KVars.
Leads(t) ==
  IF Base(t).kvar = "urlSource" THEN LeadsTo(Target(t))
  ELSE IF Tells(Base(t))
  THEN \/ value["urlSource"] # Want(t, "urlSource") \/ PushListener \in ToCome(t)
       \/ LeadsTo(Target(t))
  ELSE LeadsTo(value["url"]) \/ Base(t).new # value[Base(t).kvar]

InHistory ==
  IF popstates # <<>>
  THEN /\ NoPush /\ Last(popstates) = entries[index]
       /\ \A t \in Threads : stack[t] # <<>> => Base(t).kvar = "urlSource"
  ELSE /\ (\A t \in Threads : stack[t] = <<>>) => LeadsTo(value["url"])
       /\ \A t \in Threads : stack[t] # <<>> => Leads(t)

UrlInv == Typed /\ HistoryTyped /\ InStep /\ (~crossed => InHistory)
-----------------------------------------------------------------------------
(***************************************************************************)
(* The KVars of a URL, their values, and what their listeners make of them.*)
(***************************************************************************)
Sources3 == {"Initial", "Client", "Server"}
SourceValues == [url : Urls, source : Sources3]

LEMMA ValuesAre ==
  /\ UrlValues["urlSource"] = SourceValues /\ UrlValues["url"] = Urls
  /\ UrlValues["path"] = Paths /\ UrlValues["template"] = Paths
  /\ KVars = UrlKVars /\ ValuesOf = UrlValues
  /\ \A k \in UrlKVars : UrlValues[k] \subseteq AnyValue
BY UrlGraphAssumption DEF UrlValues, UrlKVars, SourceValues, Sources3, AnyValue

LEMMA TheListeners ==
  /\ Edges \cup {PushListener, RenderListener} \subseteq Listeners
  /\ Listeners \subseteq Edges \cup {PushListener, RenderListener, Redirect}
  /\ Redirect \in Listeners => Redirects
<1>1. Listeners = UrlListeners
  BY UrlGraphAssumption
<1>2. UrlListeners = {PushListener, RenderListener} \cup {FromSource, ToSource}
         \cup {ToPath, FromPath} \cup {ToTemplate} \cup (IF Redirects THEN {Redirect} ELSE {})
  BY DEF UrlListeners, ReversiblyMapped, Mapped, FromSource, ToSource, ToPath, FromPath,
         ToTemplate, Redirect
<1>3. Redirect \notin Edges \cup {PushListener, RenderListener}
  BY DEF Redirect, Edges, PushListener, RenderListener, FromSource, ToSource, ToPath, FromPath,
         ToTemplate, Listener
<1> QED BY <1>1, <1>2, <1>3 DEF Edges

LEMMA ListenersAre ==
  /\ PushListener = [kind |-> "tell", of |-> "urlSource", to |-> "urlSource", reads |-> "urlSource"]
  /\ RenderListener = [kind |-> "tell", of |-> "template", to |-> "template", reads |-> "template"]
  /\ FromSource = [kind |-> "forward", of |-> "urlSource", to |-> "url", reads |-> "url"]
  /\ ToSource = [kind |-> "reverse", of |-> "url", to |-> "urlSource", reads |-> "urlSource"]
  /\ ToPath = [kind |-> "forward", of |-> "url", to |-> "path", reads |-> "path"]
  /\ FromPath = [kind |-> "reverse", of |-> "path", to |-> "url", reads |-> "url"]
  /\ ToTemplate = [kind |-> "map", of |-> "path", to |-> "template", reads |-> "template"]
  /\ Redirect = [kind |-> "set", of |-> "template", to |-> "url", reads |-> "url"]
BY DEF PushListener, RenderListener, FromSource, ToSource, ToPath, FromPath, ToTemplate, Redirect,
       Listener

\* The listeners by kind, and their ends.
LEMMA ByKind ==
  ASSUME NEW l \in Listeners
  PROVE  /\ l.kind \in {"tell", "forward", "reverse", "map", "set"}
         /\ l.of \in UrlKVars /\ l.to \in UrlKVars /\ l.reads = l.to /\ l # None
         /\ l.kind = "tell" => l \in {PushListener, RenderListener}
         /\ l.kind = "forward" => l \in {FromSource, ToPath}
         /\ l.kind = "reverse" => l \in {ToSource, FromPath}
         /\ l.kind = "map" => l = ToTemplate
         /\ l.kind = "set" => l = Redirect /\ Redirects
<1>1. l \in Edges \cup {PushListener, RenderListener, Redirect}
  BY TheListeners
<1>2. l.kind \in {"tell", "forward", "reverse", "map", "set"}
  BY <1>1, ListenersAre DEF Edges
<1>3. l.of \in UrlKVars /\ l.to \in UrlKVars /\ l.reads = l.to
  BY <1>1, ListenersAre DEF Edges, UrlKVars
<1>4. l.kind = "tell" => l \in {PushListener, RenderListener}
  BY <1>1, ListenersAre DEF Edges
<1>5. l.kind = "forward" => l \in {FromSource, ToPath}
  BY <1>1, ListenersAre DEF Edges
<1>6. l.kind = "reverse" => l \in {ToSource, FromPath}
  BY <1>1, ListenersAre DEF Edges
<1>7. l.kind = "map" => l = ToTemplate
  BY <1>1, ListenersAre DEF Edges
<1>8. l.kind = "set" => l = Redirect /\ Redirects
  BY <1>1, ListenersAre, TheListeners DEF Edges
<1>9. l # None
  <2>1. DOMAIN l = {"kind", "of", "to", "reads"} /\ DOMAIN None = {"kind"}
    BY <1>1, ListenersAre DEF Edges, None
  <2> QED BY <2>1
<1> QED BY <1>2, <1>3, <1>4, <1>5, <1>6, <1>7, <1>8, <1>9

LEMMA UrlFacts ==
  /\ \A u \in Urls : u.path \in Paths /\ u.query \in Queries
  /\ \A p \in Paths : \A q \in Queries : [path |-> p, query |-> q] \in Urls
  /\ \A u \in Urls : u = [path |-> u.path, query |-> u.query]
  /\ \A s \in SourceValues : s.url \in Urls /\ s.source \in Sources3
  /\ \A u \in Urls : \A s \in Sources3 : UrlSource(u, s) \in SourceValues
  /\ \A s \in SourceValues : s = UrlSource(s.url, s.source)
  /\ \A u, s : UrlSource(u, s).url = u /\ UrlSource(u, s).source = s
BY DEF Urls, SourceValues, UrlSource

\* What each link makes of a value.
LEMMA Results ==
  /\ \A c \in Urls : \A v \in SourceValues : Result(FromSource, c, v) = v.url
  /\ \A c \in SourceValues : \A v \in Urls : Result(ToSource, c, v) = SourceOfChange(c, v)
  /\ \A c \in Paths : \A v \in Urls : Result(ToPath, c, v) = v.path
  /\ \A c \in Urls : \A v \in Paths : Result(FromPath, c, v) = Rebuilt(c, v)
  /\ \A v \in Paths : Function(ToTemplate, v) = v
  /\ Redirects => \A c \in Urls : \A v \in Paths :
       Result(Redirect, c, v) = IF v = Home THEN Elsewhere ELSE c
  /\ \A l \in Listeners : \A v \in UrlValues[l.of] : ~Throws(l, v)
<1>1. /\ FromSource \in Listeners /\ ToSource \in Listeners /\ ToPath \in Listeners
      /\ FromPath \in Listeners /\ ToTemplate \in Listeners
  BY TheListeners DEF Edges
<1>2. \A c \in Urls : \A v \in SourceValues : Result(FromSource, c, v) = v.url
  <2>1. \A v \in SourceValues : Function(FromSource, v) = UrlFunction(FromSource, v)
    BY <1>1, ListenersAre, ValuesAre, UrlGraphAssumption
  <2> QED BY <2>1, ListenersAre DEF Result, UrlFunction
<1>3. \A c \in SourceValues : \A v \in Urls : Result(ToSource, c, v) = SourceOfChange(c, v)
  <2>1. \A c \in SourceValues : \A v \in Urls :
           Backward(ToSource, c, v) = UrlBackward(ToSource, c, v)
    BY <1>1, ListenersAre, ValuesAre, UrlGraphAssumption
  <2> QED BY <2>1, ListenersAre DEF Result, UrlBackward
<1>4. \A c \in Paths : \A v \in Urls : Result(ToPath, c, v) = v.path
  <2>1. \A v \in Urls : Function(ToPath, v) = UrlFunction(ToPath, v)
    BY <1>1, ListenersAre, ValuesAre, UrlGraphAssumption
  <2> QED BY <2>1, ListenersAre DEF Result, UrlFunction
<1>5. \A c \in Urls : \A v \in Paths : Result(FromPath, c, v) = Rebuilt(c, v)
  <2>1. \A c \in Urls : \A v \in Paths :
           Backward(FromPath, c, v) = UrlBackward(FromPath, c, v)
    BY <1>1, ListenersAre, ValuesAre, UrlGraphAssumption
  <2> QED BY <2>1, ListenersAre DEF Result, UrlBackward
<1>6. \A v \in Paths : Function(ToTemplate, v) = v
  <2>1. \A v \in Paths : Function(ToTemplate, v) = UrlFunction(ToTemplate, v)
    BY <1>1, ListenersAre, ValuesAre, UrlGraphAssumption
  <2> QED BY <2>1, ListenersAre DEF UrlFunction
<1>7. ASSUME Redirects
      PROVE  \A c \in Urls : \A v \in Paths :
               Result(Redirect, c, v) = IF v = Home THEN Elsewhere ELSE c
  <2>1. Redirect \in Listeners
    BY <1>7, UrlGraphAssumption DEF UrlListeners, Redirect
  <2>2. \A c \in Urls : \A v \in Paths :
           Backward(Redirect, c, v) = UrlBackward(Redirect, c, v)
    BY <2>1, ListenersAre, ValuesAre, UrlGraphAssumption
  <2> QED BY <2>2, ListenersAre DEF Result, UrlBackward
<1>8. \A l \in Listeners : \A v \in UrlValues[l.of] : ~Throws(l, v)
  BY UrlGraphAssumption DEF UrlThrows
<1> QED BY <1>2, <1>3, <1>4, <1>5, <1>6, <1>7, <1>8

\* Every link sets its KVar to a value it may hold.
LEMMA ResultTypes ==
  ASSUME NEW l \in Listeners, l.kind # "tell",
         NEW c \in UrlValues[l.to], NEW v \in UrlValues[l.of]
  PROVE  /\ Result(l, c, v) \in UrlValues[l.to]
         /\ l.kind = "map" => Function(l, v) = v
<1>1. \A c1 \in SourceValues : \A u \in Urls : SourceOfChange(c1, u) \in SourceValues
  BY UrlFacts DEF SourceOfChange, Sources3
<1>2. \A c1 \in Urls : \A p \in Paths : Rebuilt(c1, p) \in Urls
  BY UrlFacts, UrlGraphAssumption DEF Rebuilt
<1>3. ASSUME Redirects, NEW u \in Urls PROVE Elsewhere \in Urls
  <2>1. PICK p \in Paths : p # Home
    BY <1>3, UrlGraphAssumption
  <2>2. [path |-> p, query |-> u.query] \in Urls
    BY <1>3, UrlFacts
  <2>3. \E w \in Urls : w.path # Home
    BY <2>1, <2>2
  <2> QED BY <2>3 DEF Elsewhere
<1>4. CASE l = FromSource
  <2>1. c \in Urls /\ v \in SourceValues /\ l.to = "url" /\ l.kind = "forward"
    BY <1>4, ListenersAre, ValuesAre
  <2>2. Result(l, c, v) = v.url
    BY ONLY <1>4, <2>1, Results
  <2> QED BY <2>1, <2>2, UrlFacts, ValuesAre
<1>5. CASE l = ToSource
  BY <1>5, <1>1, Results, ListenersAre, ValuesAre, UrlFacts
<1>6. CASE l = ToPath
  BY <1>6, Results, ListenersAre, ValuesAre, UrlFacts
<1>7. CASE l = FromPath
  <2>1. c \in Urls /\ v \in Paths /\ l.to = "url" /\ l.kind = "reverse"
    BY <1>7, ListenersAre, ValuesAre
  <2>2. Result(l, c, v) = Rebuilt(c, v)
    BY ONLY <1>7, <2>1, Results
  <2> QED BY <2>1, <2>2, <1>2, ValuesAre
<1>8. CASE l = ToTemplate
  BY <1>8, Results, ListenersAre, ValuesAre DEF Result
<1>9. CASE l = Redirect
  <2>1. Redirects
    BY <1>9, TheListeners
  <2> QED BY <1>9, <2>1, <1>3, Results, ListenersAre, ValuesAre
<1> QED BY <1>4, <1>5, <1>6, <1>7, <1>8, <1>9, ByKind

-----------------------------------------------------------------------------
(***************************************************************************)
(* How a step changes the calls of a thread.                               *)
(***************************************************************************)
LEMMA TopOfStack ==
  ASSUME NEW S, NEW s \in Seq(S), s # <<>>
  PROVE  /\ Last(s) \in S /\ Last(s) = s[Len(s)] /\ Len(s) \in Nat \ {0}
         /\ Front(s) \in Seq(S) /\ Len(Front(s)) = Len(s) - 1
         /\ \A i \in 1..(Len(s) - 1) : Front(s)[i] = s[i]
<1>1. Len(s) \in Nat \ {0} /\ DOMAIN s = 1..Len(s)
  BY EmptySeq
<1>2. Last(s) \in S /\ Last(s) = s[Len(s)]
  BY <1>1 DEF Last
<1>3. Front(s) = SubSeq(s, 1, Len(s) - 1)
  BY DEF Front
<1>4. SubSeq(s, 1, Len(s) - 1) \in Seq(S) /\ Len(SubSeq(s, 1, Len(s) - 1)) = Len(s) - 1
  BY <1>1
<1>5. \A i \in 1..(Len(s) - 1) : SubSeq(s, 1, Len(s) - 1)[i] = s[i]
  BY <1>1
<1>6. QED
  BY <1>1, <1>2, <1>3, <1>4, <1>5

LEMMA NewTop ==
  ASSUME NEW S, NEW s \in Seq(S), s # <<>>, NEW c \in S
  PROVE  /\ Append(Front(s), c) \in Seq(S) /\ Len(Append(Front(s), c)) = Len(s)
         /\ Append(Front(s), c)[Len(s)] = c
         /\ \A i \in 1..(Len(s) - 1) : Append(Front(s), c)[i] = s[i]
<1> DEFINE f == Front(s)
<1>1. /\ Len(s) \in Nat \ {0} /\ f \in Seq(S) /\ Len(f) = Len(s) - 1
      /\ \A i \in 1..(Len(s) - 1) : f[i] = s[i]
  BY TopOfStack
<1> HIDE DEF f
<1>2. /\ Append(f, c) \in Seq(S) /\ Len(Append(f, c)) = Len(s) /\ Append(f, c)[Len(s)] = c
      /\ \A i \in 1..(Len(s) - 1) : Append(f, c)[i] = f[i]
  BY <1>1
<1> QED BY <1>1, <1>2 DEF f

\* c in the place of the call on top, and d on top of that.
Raised(s, c, d) == Append(Front(s), c) \o <<d>>

IsRaised(r, s, c, d) ==
  /\ r \in Seq(Frames) /\ Len(r) = Len(s) + 1
  /\ r[Len(s)] = c /\ r[Len(s) + 1] = d
  /\ \A i \in 1..(Len(s) - 1) : r[i] = s[i]

LEMMA TwoOnTop ==
  ASSUME NEW s \in Seq(Frames), s # <<>>, NEW c \in Frames, NEW d \in Frames
  PROVE  IsRaised(Raised(s, c, d), s, c, d)
<1> DEFINE f == Append(Front(s), c)
<1>1. /\ Len(s) \in Nat \ {0} /\ f \in Seq(Frames) /\ Len(f) = Len(s)
      /\ f[Len(s)] = c /\ \A i \in 1..(Len(s) - 1) : f[i] = s[i]
  BY TopOfStack, NewTop
<1> HIDE DEF f
<1>2. /\ f \o <<d>> \in Seq(Frames) /\ Len(f \o <<d>>) = Len(s) + 1 /\ (f \o <<d>>)[Len(s) + 1] = d
      /\ \A i \in 1..Len(s) : (f \o <<d>>)[i] = f[i]
  BY <1>1
<1>3. Len(s) \in 1..Len(s) /\ \A i \in 1..(Len(s) - 1) : i \in 1..Len(s)
  BY <1>1
<1> QED BY <1>1, <1>2, <1>3 DEF f, Raised, IsRaised

OthersStay(t) ==
  stack' \in [Threads -> Seq(Frames)] /\ \A u \in Threads \ {t} : stack'[u] = stack[u]
Beneath(t) == \A i \in 1..(Depth(t) - 1) : stack'[t][i] = stack[t][i]

\* The call on top becomes c; makes the call d; returns.
Replaced(t, c) ==
  /\ OthersStay(t) /\ Beneath(t)
  /\ Len(stack'[t]) = Depth(t) /\ stack'[t][Depth(t)] = c
Grown(t, c, d) ==
  /\ OthersStay(t) /\ Beneath(t)
  /\ Len(stack'[t]) = Depth(t) + 1
  /\ stack'[t][Depth(t)] = c /\ stack'[t][Depth(t) + 1] = d
Shrunk(t) ==
  OthersStay(t) /\ Beneath(t) /\ Len(stack'[t]) = Depth(t) - 1

Stacks == stack \in [Threads -> Seq(Frames)]

LEMMA Becomes ==
  ASSUME Stacks, NEW t \in Threads, stack[t] # <<>>, NEW c \in Frames, Become(t, c)
  PROVE  Replaced(t, c)
<1>1. stack[t] \in Seq(Frames)
  BY DEF Stacks
<1>2. stack'[t] = Append(Front(stack[t]), c) /\ OthersStay(t)
  BY <1>1, NewTop DEF Stacks, Become, OthersStay
<1> QED BY <1>1, <1>2, NewTop DEF Replaced, Beneath, Depth

LEMMA Returns ==
  ASSUME Stacks, NEW t \in Threads, stack[t] # <<>>, Return(t)
  PROVE  Shrunk(t)
<1>1. stack[t] \in Seq(Frames)
  BY DEF Stacks
<1>2. stack'[t] = Front(stack[t]) /\ OthersStay(t)
  BY <1>1, TopOfStack DEF Stacks, Return, OthersStay
<1> QED BY <1>1, <1>2, TopOfStack DEF Shrunk, Beneath, Depth

\* The iterator goes on to listener n.
GoneOn(f, n) == [f EXCEPT !.next = n, !.todo = @ \ {n}]
GoesOnTo(t, n) == GoneOn(Top(t), n)

LEMMA Continues ==
  ASSUME Stacks, NEW t \in Threads, stack[t] # <<>>, \A n \in Nexts(t) : GoesOnTo(t, n) \in Frames,
         Continue(t)
  PROVE  \E n \in Nexts(t) : Replaced(t, GoesOnTo(t, n))
<1>1. stack[t] \in Seq(Frames)
  BY DEF Stacks
<1>2. PICK n \in Nexts(t) :
        stack' = [stack EXCEPT ![t] = Append(Front(stack[t]), GoesOnTo(t, n)) \o <<>>]
  BY ONLY Continue(t), Zenon DEF Continue, Make, GoesOnTo, GoneOn
<1>3. /\ Append(Front(stack[t]), GoesOnTo(t, n)) \in Seq(Frames)
      /\ \A s \in Seq(Frames) : s \o <<>> = s
  BY <1>1, NewTop
<1>4. Become(t, GoesOnTo(t, n))
  BY <1>2, <1>3 DEF Become, Stacks
<1> QED BY <1>4, Becomes

LEMMA Makes ==
  ASSUME Stacks, NEW t \in Threads, stack[t] # <<>>, \A n \in Nexts(t) : GoesOnTo(t, n) \in Frames,
         NEW d \in Frames, Make(t, <<d>>)
  PROVE  \E n \in Nexts(t) : Grown(t, GoesOnTo(t, n), d)
<1>1. stack[t] \in Seq(Frames)
  BY DEF Stacks
<1>2. PICK n \in Nexts(t) :
        stack' = [stack EXCEPT ![t] = Append(Front(stack[t]), GoesOnTo(t, n)) \o <<d>>]
  BY ONLY Make(t, <<d>>), Zenon DEF Make, GoesOnTo, GoneOn
<1> DEFINE c == GoesOnTo(t, n)
<1>3. c \in Frames
  OBVIOUS
<1>4. stack' = [stack EXCEPT ![t] = Raised(stack[t], c, d)]
  BY <1>2 DEF Raised
<1> HIDE DEF c
<1>5. IsRaised(Raised(stack[t], c, d), stack[t], c, d)
  BY <1>1, <1>3, TwoOnTop
<1>6. stack'[t] = Raised(stack[t], c, d) /\ OthersStay(t)
  BY <1>1, <1>4, <1>5 DEF Stacks, OthersStay, IsRaised
<1>7. Grown(t, c, d)
  BY <1>5, <1>6 DEF Grown, Beneath, Depth, IsRaised
<1> QED BY <1>7 DEF c

-----------------------------------------------------------------------------
(***************************************************************************)
(* What the steps of a thread do, one by one.                              *)
(***************************************************************************)
\* c goes on where the call on top of the stack of thread t is.
Onward(t, c) ==
  /\ c \in Frames /\ FrameTyped(c)
  /\ c.kvar = Top(t).kvar /\ c.by = Top(t).by /\ c.new = Top(t).new

LEMMA FrameFields ==
  ASSUME NEW f \in Frames
  PROVE  /\ f.pc \in {"read", "assign", "notify", "iterate"} /\ f.kvar \in UrlKVars
         /\ f.by \in Listeners \cup {None} /\ f.old \in AnyValue /\ f.new \in AnyValue
         /\ f.next \in Listeners \cup {None} /\ f.todo \in SUBSET Listeners
         /\ f = [pc |-> f.pc, kvar |-> f.kvar, by |-> f.by, old |-> f.old, new |-> f.new,
                 next |-> f.next, todo |-> f.todo]
BY DEF Frames

\* A call that has read the old value; one that begins to iterate.
HasRead(f, v) == [f EXCEPT !.pc = "assign", !.old = v]
Begun(f, n, r) == [f EXCEPT !.pc = "iterate", !.next = n, !.todo = r]

LEMMA HasReadFields ==
  ASSUME NEW f \in Frames, NEW v \in AnyValue
  PROVE  /\ HasRead(f, v) \in Frames
         /\ HasRead(f, v).pc = "assign"
         /\ HasRead(f, v).kvar = f.kvar
         /\ HasRead(f, v).by = f.by
         /\ HasRead(f, v).old = v
         /\ HasRead(f, v).new = f.new
         /\ HasRead(f, v).next = f.next
         /\ HasRead(f, v).todo = f.todo
BY DEF Frames, HasRead

LEMMA BegunFields ==
  ASSUME NEW f \in Frames, NEW n \in Listeners \cup {None}, NEW r \in SUBSET Listeners
  PROVE  /\ Begun(f, n, r) \in Frames
         /\ Begun(f, n, r).pc = "iterate"
         /\ Begun(f, n, r).kvar = f.kvar
         /\ Begun(f, n, r).by = f.by
         /\ Begun(f, n, r).old = f.old
         /\ Begun(f, n, r).new = f.new
         /\ Begun(f, n, r).next = n
         /\ Begun(f, n, r).todo = r
BY DEF Frames, Begun

LEMMA GoneOnFields ==
  ASSUME NEW f \in Frames, NEW n \in Listeners \cup {None}
  PROVE  /\ GoneOn(f, n) \in Frames
         /\ GoneOn(f, n).pc = f.pc
         /\ GoneOn(f, n).kvar = f.kvar
         /\ GoneOn(f, n).by = f.by
         /\ GoneOn(f, n).old = f.old
         /\ GoneOn(f, n).new = f.new
         /\ GoneOn(f, n).next = n
         /\ GoneOn(f, n).todo = f.todo \ {n}
BY DEF Frames, GoneOn

LEMMA TopTyped ==
  ASSUME Typed, NEW t \in Threads, stack[t] # <<>>
  PROVE  /\ Stacks /\ stack[t] \in Seq(Frames) /\ Depth(t) \in Nat \ {0}
         /\ Top(t) = stack[t][Depth(t)] /\ Top(t) \in Frames /\ FrameTyped(Top(t))
         /\ Depth(t) \in 1..Depth(t)
<1>1. Stacks /\ stack[t] \in Seq(Frames)
  BY DEF Typed, Stacks
<1>2. Depth(t) \in Nat \ {0} /\ Top(t) = stack[t][Depth(t)] /\ Top(t) \in Frames
  BY <1>1, TopOfStack DEF Top, Depth
<1>3. Depth(t) \in 1..Depth(t)
  BY <1>2
<1> QED BY <1>1, <1>2, <1>3 DEF Typed, Depth

LEMMA ReadDoes ==
  ASSUME Typed, NEW t \in Threads, Read(t)
  PROVE  /\ stack[t] # <<>> /\ Top(t).pc = "read"
         /\ \E c : /\ Onward(t, c) /\ Replaced(t, c)
                   /\ c.pc = "assign" /\ c.old = value[Top(t).kvar]
         /\ UNCHANGED <<value, closeReason, listening, told, sets>>
<1> DEFINE f == Top(t)
           c == HasRead(Top(t), value[Top(t).kvar])
<1>1. stack[t] # <<>> /\ Top(t).pc = "read" /\ Become(t, c)
  BY DEF Read, At, HasRead
<1>2. f \in Frames /\ FrameTyped(f) /\ Stacks
  BY <1>1, TopTyped
<1>3. f.kvar \in UrlKVars /\ value[f.kvar] \in UrlValues[f.kvar] /\ value[f.kvar] \in AnyValue
  BY <1>2, FrameFields, ValuesAre DEF Typed
<1>4. /\ c \in Frames /\ c.pc = "assign" /\ c.kvar = f.kvar /\ c.by = f.by
      /\ c.old = value[f.kvar] /\ c.new = f.new /\ c.next = f.next /\ c.todo = f.todo
  BY <1>2, <1>3, HasReadFields
<1> HIDE DEF c
<1>6. Onward(t, c) /\ c.pc = "assign" /\ c.old = value[Top(t).kvar]
  BY <1>2, <1>3, <1>4 DEF Onward, FrameTyped
<1>7. Replaced(t, c)
  BY <1>1, <1>2, <1>4, Becomes
<1> QED BY <1>1, <1>6, <1>7 DEF Read

LEMMA AssignDoes ==
  ASSUME Typed, NEW t \in Threads, Assign(t)
  PROVE  /\ stack[t] # <<>> /\ Top(t).pc = "assign"
         /\ value' = [value EXCEPT ![Top(t).kvar] = Top(t).new]
         /\ \/ Top(t).old = Top(t).new /\ Shrunk(t)
            \/ /\ Top(t).old # Top(t).new
               /\ \E c : Onward(t, c) /\ Replaced(t, c) /\ c.pc = "notify"
         /\ UNCHANGED <<closeReason, listening, told, sets>>
<1> DEFINE f == Top(t)
           c == [Top(t) EXCEPT !.pc = "notify"]
<1>1. /\ stack[t] # <<>> /\ Top(t).pc = "assign"
      /\ value' = [value EXCEPT ![Top(t).kvar] = Top(t).new]
      /\ UNCHANGED <<closeReason, listening, told, sets>>
      /\ \/ Top(t).old = Top(t).new /\ Return(t)
         \/ Top(t).old # Top(t).new /\ Become(t, c)
  BY DEF Assign, At, Differ
<1>2. f \in Frames /\ FrameTyped(f) /\ Stacks
  BY <1>1, TopTyped
<1>3. c = [pc |-> "notify", kvar |-> f.kvar, by |-> f.by, old |-> f.old, new |-> f.new,
           next |-> f.next, todo |-> f.todo]
  BY <1>2, FrameFields
<1>4. c \in Frames
  BY <1>2, <1>3, FrameFields DEF Frames
<1>5. Onward(t, c) /\ c.pc = "notify"
  BY <1>2, <1>3, <1>4 DEF Onward, FrameTyped
<1> HIDE DEF c
<1> QED BY <1>1, <1>2, <1>4, <1>5, Becomes, Returns

\* Those that listen to a KVar: at least one.
LEMMA ListenersThere ==
  ASSUME Typed, NEW k \in UrlKVars
  PROVE  ListenersOf(k) = {l \in Listeners : l.of = k} /\ ListenersOf(k) # {}
<1>1. ListenersOf(k) = {l \in Listeners : l.of = k}
  BY DEF Typed, ListenersOf
<1>2. \E l \in Edges \cup {PushListener, RenderListener} : l.of = k
  BY ListenersAre DEF UrlKVars, Edges
<1> QED BY <1>1, <1>2, TheListeners

LEMMA NotifyDoes ==
  ASSUME Typed, NEW t \in Threads, Notify(t)
  PROVE  /\ stack[t] # <<>> /\ Top(t).pc = "notify"
         /\ \E c : /\ Onward(t, c) /\ Replaced(t, c) /\ c.pc = "iterate"
                   /\ Waiting(c) = Waiting(Top(t))
         /\ UNCHANGED <<value, closeReason, listening, told, sets>>
<1> DEFINE f == Top(t)
<1>1. /\ stack[t] # <<>> /\ Top(t).pc = "notify"
      /\ UNCHANGED <<value, closeReason, listening, told, sets>>
  BY DEF Notify, At
<1>2. f \in Frames /\ FrameTyped(f) /\ Stacks /\ f.kvar \in UrlKVars
  BY <1>1, TopTyped, FrameFields
<1>3. PICK l \in ListenersOf(f.kvar) :
        Become(t, [Top(t) EXCEPT !.pc = "iterate", !.next = l,
                                 !.todo = ListenersOf(Top(t).kvar) \ {l}])
  BY <1>2, ListenersThere DEF Notify
<1> DEFINE rest == ListenersOf(f.kvar) \ {l}
           c == Begun(f, l, rest)
<1>4. /\ l \in Listeners /\ l.of = f.kvar /\ rest \in SUBSET Listeners
      /\ \A m \in rest : m.of = f.kvar
      /\ {l} \cup rest = {m \in Listeners : m.of = f.kvar} /\ l # None
  BY <1>2, ListenersThere, ByKind
<1> HIDE DEF rest
<1>5. /\ c \in Frames /\ c.pc = "iterate" /\ c.kvar = f.kvar /\ c.by = f.by
      /\ c.old = f.old /\ c.new = f.new /\ c.next = l /\ c.todo = rest
  BY <1>2, <1>4, BegunFields
<1>6. Become(t, c)
  BY <1>3 DEF rest, Begun
<1> HIDE DEF c
<1>7. Onward(t, c) /\ c.pc = "iterate"
  BY <1>2, <1>4, <1>5 DEF Onward, FrameTyped
<1>8. Waiting(c) = {l} \cup rest /\ Waiting(f) = {m \in Listeners : m.of = f.kvar}
  BY <1>1, <1>5 DEF Waiting
<1>9. Replaced(t, c)
  BY <1>1, <1>2, <1>5, <1>6, Becomes
<1> QED BY <1>1, <1>4, <1>7, <1>8, <1>9

LEMMA GoneOnFits ==
  ASSUME Typed, NEW t \in Threads, stack[t] # <<>>, Top(t).pc = "iterate", NEW n \in Nexts(t)
  PROVE  /\ GoesOnTo(t, n) \in Frames /\ Onward(t, GoesOnTo(t, n))
         /\ GoesOnTo(t, n).pc = "iterate"
         /\ Waiting(Top(t)) \ {Called(t)} \subseteq Waiting(GoesOnTo(t, n))
<1> DEFINE f == Top(t)
           c == GoneOn(f, n)
<1>1. f \in Frames /\ FrameTyped(f) /\ f.todo \in SUBSET Listeners
  BY TopTyped, FrameFields
<1>2. listening = Listeners
  BY DEF Typed
<1>3. f.todo \cap listening = f.todo
  BY <1>1, <1>2
<1>4. n \in IF f.todo = {} THEN {None} ELSE f.todo
  BY <1>3 DEF Nexts
<1>5. n \in Listeners \cup {None}
  BY <1>1, <1>4
<1>6. /\ c \in Frames /\ c.pc = f.pc /\ c.kvar = f.kvar /\ c.by = f.by /\ c.old = f.old
      /\ c.new = f.new /\ c.next = n /\ c.todo = f.todo \ {n}
  BY <1>1, <1>5, GoneOnFields
<1> HIDE DEF c
<1>7. FrameTyped(c)
  <2>1. \A l \in {c.next} \cup c.todo : l # None => l.of = c.kvar
    BY <1>1, <1>4, <1>6 DEF FrameTyped
  <2>2. c.next = None => c.todo = {}
    <3>1. None \notin Listeners
      BY ByKind
    <3>2. n = None => f.todo = {}
      BY <1>1, <1>4, <3>1
    <3> QED BY <1>6, <3>2
  <2> QED BY <1>1, <1>6, <2>1, <2>2 DEF FrameTyped
<1>8. Waiting(f) = {f.next} \cup f.todo /\ Waiting(c) = {n} \cup (f.todo \ {n})
  BY <1>6 DEF Waiting
<1>9. Waiting(f) \ {Called(t)} \subseteq Waiting(c)
  BY <1>8 DEF Called
<1> QED BY <1>6, <1>7, <1>9 DEF Onward, GoesOnTo, c

\* The listener called, by its kind.
LEMMA CalledFacts ==
  ASSUME Typed, NEW t \in Threads, NEW kinds, Calls(t, kinds)
  PROVE  /\ stack[t] # <<>> /\ Top(t).pc = "iterate" /\ Called(t).kind \in kinds
         /\ Called(t) \in Listeners \cup {None} /\ (Called(t).kind = "none" <=> Called(t) = None)
         /\ Called(t) # None => Called(t) \in Listeners /\ Called(t).of = Top(t).kvar
         /\ Called(t) \in Waiting(Top(t))
<1>1. stack[t] # <<>> /\ Top(t).pc = "iterate" /\ Called(t).kind \in kinds
  BY DEF Calls, At
<1>2. Top(t) \in Frames /\ FrameTyped(Top(t))
  BY <1>1, TopTyped
<1>3. Called(t) \in Listeners \cup {None}
  BY <1>2, FrameFields DEF Called
<1>4. None.kind = "none" /\ (Called(t) \in Listeners => Called(t).kind # "none")
  BY ByKind DEF None
<1>5. Called(t) # None => Called(t).of = Top(t).kvar
  BY <1>2 DEF FrameTyped, Called
<1>6. Called(t) \in Waiting(Top(t))
  BY <1>1 DEF Waiting, Called
<1> QED BY <1>1, <1>3, <1>4, <1>5, <1>6

LEMMA NoneLeftDoes ==
  ASSUME Typed, NEW t \in Threads, NoneLeft(t)
  PROVE  /\ stack[t] # <<>> /\ Top(t).pc = "iterate" /\ Waiting(Top(t)) = {None}
         /\ Shrunk(t)
         /\ UNCHANGED <<value, closeReason, listening, told, sets>>
<1>1. /\ Calls(t, {"none"}) /\ Return(t)
      /\ UNCHANGED <<value, closeReason, listening, told, sets>>
  BY DEF NoneLeft
<1>2. /\ stack[t] # <<>> /\ Top(t).pc = "iterate" /\ Called(t).kind \in {"none"}
      /\ (Called(t).kind = "none" <=> Called(t) = None)
  BY ONLY Typed, t \in Threads, <1>1, CalledFacts
<1>3. Top(t).next = None
  BY <1>2 DEF Called
<1>4. FrameTyped(Top(t)) /\ Stacks
  BY <1>2, TopTyped
<1>5. Waiting(Top(t)) = {None}
  BY <1>2, <1>3, <1>4 DEF Waiting, FrameTyped
<1> QED BY <1>1, <1>2, <1>4, <1>5, Returns

\* The iterator of thread t goes on, in c.
Iterated(t, c) ==
  Onward(t, c) /\ c.pc = "iterate" /\ Waiting(Top(t)) \ {Called(t)} \subseteq Waiting(c)

LEMMA ContinueDoes ==
  ASSUME Typed, NEW t \in Threads, stack[t] # <<>>, Top(t).pc = "iterate", Continue(t)
  PROVE  \E c : Iterated(t, c) /\ Replaced(t, c)
<1>1. Stacks
  BY DEF Typed, Stacks
<1>2. \A n \in Nexts(t) : GoesOnTo(t, n) \in Frames /\ Iterated(t, GoesOnTo(t, n))
  BY GoneOnFits DEF Iterated
<1>3. PICK n \in Nexts(t) : Replaced(t, GoesOnTo(t, n))
  BY <1>1, <1>2, Continues
<1> QED BY <1>2, <1>3

LEMMA MakeDoes ==
  ASSUME Typed, NEW t \in Threads, stack[t] # <<>>, Top(t).pc = "iterate", NEW d \in Frames,
         Make(t, <<d>>)
  PROVE  \E c : Iterated(t, c) /\ Grown(t, c, d)
<1>1. Stacks
  BY DEF Typed, Stacks
<1>2. \A n \in Nexts(t) : GoesOnTo(t, n) \in Frames /\ Iterated(t, GoesOnTo(t, n))
  BY GoneOnFits DEF Iterated
<1>3. PICK n \in Nexts(t) : Grown(t, GoesOnTo(t, n), d)
  BY <1>1, <1>2, Makes
<1> QED BY <1>2, <1>3

LEMMA TellDoes ==
  ASSUME Typed, NEW t \in Threads, Tell(t)
  PROVE  /\ stack[t] # <<>> /\ Top(t).pc = "iterate" /\ Calls(t, {"tell"})
         /\ Called(t) \in Listeners /\ Called(t) \in {PushListener, RenderListener}
         /\ Called(t).of = Top(t).kvar
         /\ told' = [told EXCEPT ![Called(t)] = Top(t).new]
         /\ \E c : Iterated(t, c) /\ Replaced(t, c)
         /\ UNCHANGED <<value, closeReason, listening, sets>>
<1>1. /\ Calls(t, {"tell"}) /\ Continue(t) /\ told' = [told EXCEPT ![Called(t)] = Top(t).new]
      /\ UNCHANGED <<value, closeReason, listening, sets>>
  BY DEF Tell, News
<1>2. /\ stack[t] # <<>> /\ Top(t).pc = "iterate" /\ Called(t).kind \in {"tell"}
      /\ Called(t) \in Listeners \cup {None} /\ (Called(t).kind = "none" <=> Called(t) = None)
      /\ Called(t) # None => Called(t).of = Top(t).kvar
  BY ONLY Typed, t \in Threads, <1>1, CalledFacts
<1>3. Called(t) \in Listeners /\ Called(t).kind = "tell"
  BY <1>2
<1>4. Called(t) \in {PushListener, RenderListener}
  BY <1>3, ByKind
<1> QED BY <1>1, <1>2, <1>3, <1>4, ContinueDoes

LEMMA NewCall ==
  ASSUME NEW pc \in {"read", "notify"}, NEW k \in UrlKVars, NEW by \in Listeners \cup {None},
         NEW old \in UrlValues[k], NEW new \in UrlValues[k], by # None => by.to = k
  PROVE  /\ Call(pc, k, by, old, new) \in Frames /\ FrameTyped(Call(pc, k, by, old, new))
         /\ Call(pc, k, by, old, new).pc = pc /\ Call(pc, k, by, old, new).kvar = k
         /\ Call(pc, k, by, old, new).by = by /\ Call(pc, k, by, old, new).new = new
<1> DEFINE c == Call(pc, k, by, old, new)
<1>1. c = [pc |-> pc, kvar |-> k, by |-> by, old |-> old, new |-> new, next |-> None, todo |-> {}]
  BY DEF Call
<1>2. old \in AnyValue /\ new \in AnyValue
  BY ValuesAre
<1> HIDE DEF c
<1>3. c \in Frames
  BY <1>1, <1>2 DEF Frames
<1>4. FrameTyped(c)
  BY <1>1 DEF FrameTyped
<1> QED BY <1>1, <1>3, <1>4 DEF c

\* A listener that sets the KVar it leads to.
LEMMA SetOtherDoes ==
  ASSUME Typed, NEW t \in Threads, SetOther(t)
  PROVE  /\ stack[t] # <<>> /\ Top(t).pc = "iterate"
         /\ Called(t) \in {FromSource, ToSource, ToPath, FromPath, Redirect}
         /\ Called(t) \in Listeners /\ Called(t).of = Top(t).kvar
         /\ \E c, d :
              /\ Iterated(t, c) /\ Grown(t, c, d)
              /\ d \in Frames /\ FrameTyped(d) /\ d.pc = "read"
              /\ d.kvar = Called(t).to /\ d.by = Called(t)
              /\ d.new = Result(Called(t), value[Called(t).to], Top(t).new)
         /\ UNCHANGED <<value, closeReason, listening, told, sets>>
<1> DEFINE l == Called(t)
           f == Top(t)
           d == Call("read", l.to, l, value[l.to], Result(l, value[l.to], f.new))
<1>1. Calls(t, (Links \ {"map"}) \cup {"set"})
  BY DEF SetOther
<1>2. /\ stack[t] # <<>> /\ f.pc = "iterate" /\ l.kind \in (Links \ {"map"}) \cup {"set"}
      /\ l \in Listeners \cup {None} /\ (l.kind = "none" <=> l = None)
      /\ l # None => l.of = f.kvar
  BY ONLY Typed, t \in Threads, <1>1, CalledFacts
<1>3. l.kind \notin {"none", "map", "tell"}
  BY <1>2 DEF Links
<1>4. l \in Listeners /\ l.of = f.kvar
  BY <1>2, <1>3
<1>5. l \in {FromSource, ToSource, ToPath, FromPath, Redirect} /\ l.reads = l.to /\ l.to \in UrlKVars
  BY <1>3, <1>4, ByKind
<1>6. f \in Frames /\ FrameTyped(f)
  BY <1>2, TopTyped
<1>7. f.new \in UrlValues[l.of] /\ value[l.to] \in UrlValues[l.to]
  BY <1>4, <1>5, <1>6 DEF FrameTyped, Typed
<1>8. Result(l, value[l.to], f.new) \in UrlValues[l.to]
  BY ONLY <1>3, <1>4, <1>7, ResultTypes
<1>9. /\ d \in Frames /\ FrameTyped(d) /\ d.pc = "read" /\ d.kvar = l.to /\ d.by = l
      /\ d.new = Result(l, value[l.to], f.new)
  <2> DEFINE v == Result(l, value[l.to], f.new)
             k == l.to
             old == value[l.to]
  <2>1. k \in UrlKVars /\ old \in UrlValues[k] /\ v \in UrlValues[k] /\ l \in Listeners \cup {None}
        /\ l.to = k
    BY <1>4, <1>5, <1>7, <1>8
  <2> HIDE DEF v, k, old, l
  <2> QED BY ONLY <2>1, NewCall DEF v, k, old
<1>10. Make(t, <<d>>)
  BY <1>5 DEF SetOther
<1> HIDE DEF d
<1>11. PICK c : Iterated(t, c) /\ Grown(t, c, d)
  BY <1>2, <1>9, <1>10, MakeDoes
<1>12. UNCHANGED <<value, closeReason, listening, told, sets>>
  BY DEF SetOther
<1> QED BY <1>2, <1>4, <1>5, <1>9, <1>11, <1>12

\* The template follows the path.
LEMMA UpdateMappedDoes ==
  ASSUME Typed, NEW t \in Threads, UpdateMapped(t)
  PROVE  /\ stack[t] # <<>> /\ Top(t).pc = "iterate"
         /\ Called(t) = ToTemplate /\ Top(t).kvar = "path"
         /\ value' = [value EXCEPT !["template"] = Top(t).new]
         /\ \E c : /\ Iterated(t, c)
                   /\ \/ Replaced(t, c)
                      \/ \E d : /\ Grown(t, c, d)
                                /\ d \in Frames /\ FrameTyped(d) /\ d.pc = "notify"
                                /\ d.kvar = "template" /\ d.by = ToTemplate
                                /\ d.new = Top(t).new
         /\ UNCHANGED <<closeReason, listening, told, sets>>
<1> DEFINE f == Top(t)
           d == Call("notify", "template", ToTemplate, f.old, f.new)
<1>1. Calls(t, {"map"})
  BY DEF UpdateMapped, UpdateMappedBy
<1>2. /\ stack[t] # <<>> /\ f.pc = "iterate" /\ Called(t).kind \in {"map"}
      /\ Called(t) \in Listeners \cup {None} /\ (Called(t).kind = "none" <=> Called(t) = None)
      /\ Called(t) # None => Called(t).of = f.kvar
  BY ONLY Typed, t \in Threads, <1>1, CalledFacts
<1>3. Called(t) \in Listeners /\ Called(t).kind = "map"
  BY <1>2
<1>4. Called(t) = ToTemplate /\ f.kvar = "path" /\ ToTemplate \in Listeners /\ ToTemplate # None
  BY <1>2, <1>3, ByKind, ListenersAre
<1>5. f \in Frames /\ FrameTyped(f)
  BY <1>2, TopTyped
<1>6. f.old \in Paths /\ f.new \in Paths
  BY <1>4, <1>5, ValuesAre DEF FrameTyped
<1>7. Function(ToTemplate, f.new) = f.new /\ Function(ToTemplate, f.old) = f.old
  BY <1>6, Results
<1>8. ~Throws(ToTemplate, f.old)
  BY <1>4, <1>6, Results, ValuesAre, ListenersAre
<1>9. ToTemplate.to = "template"
  BY ListenersAre
<1>10. /\ value' = [value EXCEPT !["template"] = f.new]
       /\ UNCHANGED <<closeReason, listening, told, sets>>
       /\ Continue(t) \/ Make(t, <<d>>)
  BY <1>4, <1>7, <1>8, <1>9 DEF UpdateMapped, UpdateMappedBy, MappedOld
<1>11. /\ d \in Frames /\ FrameTyped(d) /\ d.pc = "notify" /\ d.kvar = "template"
       /\ d.by = ToTemplate /\ d.new = f.new
  <2> DEFINE old == f.old
             v == f.new
  <2>1. /\ "template" \in UrlKVars /\ ToTemplate \in Listeners \cup {None}
        /\ old \in UrlValues["template"] /\ v \in UrlValues["template"]
    BY <1>4, <1>6, ValuesAre DEF UrlKVars
  <2> HIDE DEF old, v
  <2> QED BY ONLY <2>1, <1>9, NewCall DEF old, v
<1> HIDE DEF d
<1>12. Continue(t) => \E c : Iterated(t, c) /\ Replaced(t, c)
  BY <1>2, ContinueDoes
<1>13. Make(t, <<d>>) => \E c : Iterated(t, c) /\ Grown(t, c, d)
  BY <1>2, <1>11, MakeDoes
<1>14. \E c : /\ Iterated(t, c)
              /\ \/ Replaced(t, c)
                 \/ \E e : /\ Grown(t, c, e)
                           /\ e \in Frames /\ FrameTyped(e) /\ e.pc = "notify"
                           /\ e.kvar = "template" /\ e.by = ToTemplate /\ e.new = f.new
  <2>1. CASE Continue(t)
    BY <2>1, <1>12
  <2>2. CASE Make(t, <<d>>)
    <3>1. PICK c : Iterated(t, c) /\ Grown(t, c, d)
      BY <2>2, <1>13
    <3> QED BY <3>1, <1>11
  <2> QED BY <1>10, <2>1, <2>2
<1> HIDE DEF f
<1> QED BY <1>2, <1>4, <1>10, <1>14 DEF f

\* Nothing is ever closed, no function throws, and there are no pairs.
LEMMA NeverDone ==
  ASSUME Typed, NEW t \in Threads
  PROVE  ~(AssignClosed(t) \/ ListenerThrows(t) \/ CloseListener(t) \/ SetBoth(t))
<1>1. \A k \in UrlKVars : ~IsClosed(k)
  BY ValuesAre DEF Typed, IsClosed
<1>2. ~AssignClosed(t)
  <2>1. SUFFICES ASSUME AssignClosed(t) PROVE FALSE
    OBVIOUS
  <2>2. stack[t] # <<>> /\ IsClosed(Top(t).kvar)
    BY <2>1 DEF AssignClosed, AssignClosedBy, At
  <2> QED BY <2>2, <1>1, TopTyped, FrameFields
<1>3. ~ListenerThrows(t)
  <2>1. SUFFICES ASSUME ListenerThrows(t) PROVE FALSE
    OBVIOUS
  <2>2. Calls(t, Links \cup {"set"}) /\ Fails(Called(t), Top(t))
    BY <2>1 DEF ListenerThrows, ListenerThrowsBy
  <2>3. /\ stack[t] # <<>> /\ Called(t).kind \in Links \cup {"set"}
        /\ Called(t) \in Listeners \cup {None} /\ (Called(t).kind = "none" <=> Called(t) = None)
        /\ Called(t) # None => Called(t).of = Top(t).kvar
    BY ONLY Typed, t \in Threads, <2>2, CalledFacts
  <2>4. Called(t) \in Listeners /\ Called(t).of = Top(t).kvar
    BY <2>3 DEF Links
  <2>5. Top(t).new \in UrlValues[Called(t).of]
    BY <2>3, <2>4, TopTyped DEF FrameTyped
  <2>6. ~Throws(Called(t), Top(t).new)
    BY <2>4, <2>5, Results
  <2>7. ~IsClosed(Called(t).of) /\ ~IsClosed(Called(t).to)
    BY <2>4, <1>1, ByKind
  <2> QED BY <2>2, <2>6, <2>7 DEF Fails
<1>4. ~CloseListener(t) /\ ~SetBoth(t)
  <2>1. ASSUME NEW kind \in {"close", "split"}, Calls(t, {kind}) PROVE FALSE
    <3>1. /\ Called(t).kind \in {kind}
          /\ Called(t) \in Listeners \cup {None} /\ (Called(t).kind = "none" <=> Called(t) = None)
      BY ONLY Typed, t \in Threads, <2>1, CalledFacts
    <3> QED BY <3>1, ByKind
  <2> QED BY <2>1 DEF CloseListener, CloseListenerBy, SetBoth
<1> QED BY <1>2, <1>3, <1>4

\* Thread t calls a setter, in d.
Started(t, d) ==
  /\ OthersStay(t) /\ Len(stack'[t]) = 1 /\ stack'[t][1] = d
  /\ d \in Frames /\ FrameTyped(d) /\ d.pc = "read" /\ d.by = None

LEMMA SetValueDoes ==
  ASSUME Typed, NEW t \in Threads, NEW k \in UrlKVars, NEW v \in UrlValues[k], SetValue(t, k, v)
  PROVE  /\ MayCall(t) /\ stack[t] = <<>>
         /\ \E d : Started(t, d) /\ d.kvar = k /\ d.new = v
         /\ sets' \in 0..MaxSets
         /\ UNCHANGED <<value, closeReason, listening, told>>
<1> DEFINE d == Call("read", k, None, value[k], v)
<1>1. /\ MayCall(t) /\ sets < MaxSets /\ sets' = sets + 1
      /\ stack' = [stack EXCEPT ![t] = <<d>>]
      /\ UNCHANGED <<value, closeReason, listening, told>>
  BY DEF SetValue
<1>2. value[k] \in UrlValues[k]
  BY DEF Typed
<1>3. d \in Frames /\ FrameTyped(d) /\ d.pc = "read" /\ d.kvar = k /\ d.by = None /\ d.new = v
  <2> DEFINE old == value[k]
  <2> HIDE DEF old
  <2>1. old \in UrlValues[k] /\ None \in Listeners \cup {None}
    BY <1>2 DEF old
  <2> QED BY <2>1, NewCall DEF old
<1> HIDE DEF d
<1>4. <<d>> \in Seq(Frames) /\ Len(<<d>>) = 1 /\ <<d>>[1] = d
  BY <1>3
<1>5. OthersStay(t) /\ stack'[t] = <<d>>
  BY <1>1, <1>4 DEF Typed, OthersStay
<1>6. sets' \in 0..MaxSets
  BY <1>1, GraphAssumption DEF Typed
<1>7. stack[t] = <<>>
  BY <1>1 DEF MayCall, Idle
<1> QED BY <1>1, <1>3, <1>4, <1>5, <1>6, <1>7 DEF Started

-----------------------------------------------------------------------------
(***************************************************************************)
(* The types are kept.                                                     *)
(***************************************************************************)
FramesTyped == \A t \in Threads : \A i \in 1..Depth(t) : FrameTyped(stack[t][i])

LEMMA FramesKept ==
  ASSUME Stacks, FramesTyped, NEW t \in Threads,
         \/ \E c : FrameTyped(c) /\ Replaced(t, c)
         \/ \E c, d : FrameTyped(c) /\ FrameTyped(d) /\ Grown(t, c, d)
         \/ Shrunk(t)
         \/ \E d : Started(t, d)
  PROVE  Stacks' /\ FramesTyped'
<1>1. OthersStay(t)
  BY DEF Replaced, Grown, Shrunk, Started
<1>2. Stacks'
  BY <1>1 DEF OthersStay, Stacks
<1>3. Depth(t) \in Nat /\ \A i \in 1..Depth(t) : FrameTyped(stack[t][i])
  BY DEF Stacks, FramesTyped, Depth
<1>4. ASSUME NEW i \in 1..Len(stack'[t]) PROVE FrameTyped(stack'[t][i])
  <2>1. ASSUME NEW c, FrameTyped(c), Replaced(t, c) PROVE FrameTyped(stack'[t][i])
    <3>1. i \in 1..(Depth(t) - 1) \/ i = Depth(t)
      BY <1>3, <1>4, <2>1 DEF Replaced
    <3> QED BY <3>1, <1>3, <2>1 DEF Replaced, Beneath
  <2>2. ASSUME NEW c, NEW d, FrameTyped(c), FrameTyped(d), Grown(t, c, d)
        PROVE  FrameTyped(stack'[t][i])
    <3>1. i \in 1..(Depth(t) - 1) \/ i = Depth(t) \/ i = Depth(t) + 1
      BY <1>3, <1>4, <2>2 DEF Grown
    <3> QED BY <3>1, <1>3, <2>2 DEF Grown, Beneath
  <2>3. ASSUME Shrunk(t) PROVE FrameTyped(stack'[t][i])
    BY <2>3, <1>3, <1>4 DEF Shrunk, Beneath
  <2>4. ASSUME NEW d, Started(t, d) PROVE FrameTyped(stack'[t][i])
    <3>1. i = 1
      BY <2>4, <1>4 DEF Started
    <3> QED BY <3>1, <2>4 DEF Started
  <2> QED BY <2>1, <2>2, <2>3, <2>4
<1>5. ASSUME NEW u \in Threads, u # t, NEW i \in 1..Len(stack'[u]) PROVE FrameTyped(stack'[u][i])
  BY <1>1, <1>5 DEF OthersStay, FramesTyped, Depth
<1> QED BY <1>2, <1>4, <1>5 DEF FramesTyped, Depth

ValuesTyped == value \in [UrlKVars -> AnyValue] /\ \A k \in UrlKVars : value[k] \in UrlValues[k]
AllOpen == closeReason = [k \in KVars |-> "open"] /\ listening = Listeners
ToldTyped == DOMAIN told = Tellers /\ \A l \in Tellers : told[l] \in UrlValues[l.of]

LEMMA TypedParts ==
  Typed <=> ValuesTyped /\ AllOpen /\ ToldTyped /\ Stacks /\ FramesTyped /\ sets \in 0..MaxSets
BY DEF Typed, ValuesTyped, AllOpen, ToldTyped, Stacks, FramesTyped, Depth

LEMMA TypedNext ==
  ASSUME ValuesTyped', AllOpen', ToldTyped', Stacks', FramesTyped', sets' \in 0..MaxSets
  PROVE  Typed'
BY DEF Typed, ValuesTyped, AllOpen, ToldTyped, Stacks, FramesTyped, Depth

LEMMA Unchanged ==
  /\ ValuesTyped /\ UNCHANGED value => ValuesTyped'
  /\ AllOpen /\ UNCHANGED <<closeReason, listening>> => AllOpen'
  /\ ToldTyped /\ UNCHANGED told => ToldTyped'
  /\ Stacks /\ UNCHANGED stack => Stacks'
  /\ FramesTyped /\ UNCHANGED stack => FramesTyped'
BY DEF ValuesTyped, AllOpen, ToldTyped, Stacks, FramesTyped, Depth

LEMMA ValueSet ==
  ASSUME ValuesTyped, NEW k \in UrlKVars, NEW v \in UrlValues[k],
         value' = [value EXCEPT ![k] = v]
  PROVE  ValuesTyped'
BY ValuesAre DEF ValuesTyped

LEMMA ProceedTyped ==
  ASSUME Typed, NEW t \in Threads, Proceed(t)
  PROVE  Typed'
<1>1. ValuesTyped /\ AllOpen /\ ToldTyped /\ Stacks /\ FramesTyped /\ sets \in 0..MaxSets
  BY TypedParts
<1>2. \A c : Onward(t, c) \/ Iterated(t, c) => FrameTyped(c)
  BY DEF Onward, Iterated
<1>3. CASE Read(t)
  <2>1. /\ \E c : Onward(t, c) /\ Replaced(t, c)
        /\ UNCHANGED <<value, closeReason, listening, told, sets>>
    BY <1>3, ReadDoes
  <2>2. Stacks' /\ FramesTyped'
    BY <1>1, <1>2, <2>1, FramesKept
  <2> QED BY <1>1, <2>1, <2>2, Unchanged, TypedNext
<1>4. CASE Assign(t)
  <2>1. /\ stack[t] # <<>> /\ value' = [value EXCEPT ![Top(t).kvar] = Top(t).new]
        /\ Shrunk(t) \/ \E c : Onward(t, c) /\ Replaced(t, c)
        /\ UNCHANGED <<closeReason, listening, told, sets>>
    BY <1>4, AssignDoes
  <2>2. Stacks' /\ FramesTyped'
    BY <1>1, <1>2, <2>1, FramesKept
  <2>3. Top(t).kvar \in UrlKVars /\ Top(t).new \in UrlValues[Top(t).kvar]
    BY <2>1, TopTyped, FrameFields DEF FrameTyped
  <2>4. ValuesTyped'
    BY <1>1, <2>1, <2>3, ValueSet
  <2> QED BY <1>1, <2>1, <2>2, <2>4, Unchanged, TypedNext
<1>5. CASE Notify(t)
  <2>1. /\ \E c : Onward(t, c) /\ Replaced(t, c)
        /\ UNCHANGED <<value, closeReason, listening, told, sets>>
    BY <1>5, NotifyDoes
  <2>2. Stacks' /\ FramesTyped'
    BY <1>1, <1>2, <2>1, FramesKept
  <2> QED BY <1>1, <2>1, <2>2, Unchanged, TypedNext
<1>6. CASE NoneLeft(t)
  <2>1. Shrunk(t) /\ UNCHANGED <<value, closeReason, listening, told, sets>>
    BY <1>6, NoneLeftDoes
  <2>2. Stacks' /\ FramesTyped'
    BY <1>1, <2>1, FramesKept
  <2> QED BY <1>1, <2>1, <2>2, Unchanged, TypedNext
<1>7. CASE Tell(t)
  <2>1. /\ stack[t] # <<>> /\ Called(t) \in Listeners /\ Called(t) \in {PushListener, RenderListener}
        /\ Called(t).of = Top(t).kvar /\ told' = [told EXCEPT ![Called(t)] = Top(t).new]
        /\ \E c : Iterated(t, c) /\ Replaced(t, c)
        /\ UNCHANGED <<value, closeReason, listening, sets>>
    BY <1>7, TellDoes
  <2>2. Stacks' /\ FramesTyped'
    BY <1>1, <1>2, <2>1, FramesKept
  <2>3. Called(t) \in Tellers /\ Top(t).new \in UrlValues[Called(t).of]
    BY <2>1, TopTyped, ListenersAre DEF FrameTyped, Tellers
  <2>4. ToldTyped'
    BY <1>1, <2>1, <2>3 DEF ToldTyped
  <2> QED BY <1>1, <2>1, <2>2, <2>4, Unchanged, TypedNext
<1>8. CASE SetOther(t)
  <2>1. /\ \E c, d : Iterated(t, c) /\ Grown(t, c, d) /\ FrameTyped(d)
        /\ UNCHANGED <<value, closeReason, listening, told, sets>>
    BY <1>8, SetOtherDoes
  <2>2. Stacks' /\ FramesTyped'
    BY <1>1, <1>2, <2>1, FramesKept
  <2> QED BY <1>1, <2>1, <2>2, Unchanged, TypedNext
<1>9. CASE UpdateMapped(t)
  <2>1. /\ stack[t] # <<>> /\ Top(t).kvar = "path"
        /\ value' = [value EXCEPT !["template"] = Top(t).new]
        /\ \E c : /\ Iterated(t, c)
                  /\ Replaced(t, c) \/ \E d : Grown(t, c, d) /\ FrameTyped(d)
        /\ UNCHANGED <<closeReason, listening, told, sets>>
    BY <1>9, UpdateMappedDoes
  <2>2. Stacks' /\ FramesTyped'
    BY <1>1, <1>2, <2>1, FramesKept
  <2>3. "template" \in UrlKVars /\ Top(t).new \in UrlValues["template"]
    BY <2>1, TopTyped, ValuesAre DEF FrameTyped, UrlKVars
  <2>4. ValuesTyped'
    BY <1>1, <2>1, <2>3, ValueSet
  <2> QED BY <1>1, <2>1, <2>2, <2>4, Unchanged, TypedNext
<1> QED BY <1>3, <1>4, <1>5, <1>6, <1>7, <1>8, <1>9, NeverDone DEF Proceed

LEMMA SetTyped ==
  ASSUME Typed, NEW t \in Threads, NEW k \in UrlKVars, NEW v \in UrlValues[k], SetValue(t, k, v)
  PROVE  Typed'
<1>1. ValuesTyped /\ AllOpen /\ ToldTyped /\ Stacks /\ FramesTyped
  BY TypedParts
<1>2. /\ \E d : Started(t, d) /\ sets' \in 0..MaxSets
      /\ UNCHANGED <<value, closeReason, listening, told>>
  BY SetValueDoes
<1>3. Stacks' /\ FramesTyped'
  BY <1>1, <1>2, FramesKept
<1> QED BY <1>1, <1>2, <1>3, Unchanged, TypedNext

\* What a listener that is called sends.
LEMMA MessageTyped ==
  ASSUME Typed, NEW t \in Threads
  PROVE  /\ MessageOf(t) \in Seq(Messages)
         /\ MessageOf(t) # <<>> => Calls(t, {"tell"})
         /\ Calls(t, {"tell"}) /\ Called(t) # RenderListener =>
              /\ Called(t) = PushListener /\ Top(t).kvar = "urlSource"
              /\ Top(t).new \in SourceValues
              /\ MessageOf(t) = IF Top(t).new.source = "Server"
                                THEN <<[kind |-> "pushState", url |-> Top(t).new.url]>> ELSE <<>>
         /\ Calls(t, {"tell"}) /\ Called(t) = RenderListener =>
              MessageOf(t) = <<[kind |-> "draw", template |-> Top(t).new]>>
<1>1. CASE ~Calls(t, {"tell"})
  BY <1>1 DEF MessageOf
<1>2. CASE Calls(t, {"tell"})
  <2>1. /\ stack[t] # <<>> /\ Called(t).kind \in {"tell"}
        /\ Called(t) \in Listeners \cup {None} /\ (Called(t).kind = "none" <=> Called(t) = None)
        /\ Called(t) # None => Called(t).of = Top(t).kvar
    BY ONLY Typed, t \in Threads, <1>2, CalledFacts
  <2>2. Called(t) \in {PushListener, RenderListener} /\ Called(t).of = Top(t).kvar
    BY <2>1, ByKind
  <2>3. Top(t).new \in UrlValues[Called(t).of]
    BY <2>1, <2>2, TopTyped DEF FrameTyped
  <2>4. CASE Called(t) = RenderListener
    <3>1. Top(t).new \in Paths
      BY <2>3, <2>4, ListenersAre, ValuesAre
    <3>2. MessageOf(t) = <<[kind |-> "draw", template |-> Top(t).new]>>
      BY <1>2, <2>4 DEF MessageOf
    <3>3. [kind |-> "draw", template |-> Top(t).new] \in Messages
      BY <3>1 DEF Messages
    <3>4. MessageOf(t) \in Seq(Messages)
      BY <3>2, <3>3
    <3> QED BY <1>2, <2>4, <3>2, <3>4
  <2>5. CASE Called(t) # RenderListener
    <3>1. Called(t) = PushListener /\ Top(t).new \in SourceValues /\ Top(t).kvar = "urlSource"
      BY <2>2, <2>3, <2>5, ListenersAre, ValuesAre
    <3>2. MessageOf(t) = IF Top(t).new.source = "Server"
                         THEN <<[kind |-> "pushState", url |-> Top(t).new.url]>> ELSE <<>>
      BY <1>2, <2>5 DEF MessageOf, Pushed
    <3>3. [kind |-> "pushState", url |-> Top(t).new.url] \in Messages
      BY <3>1, UrlFacts DEF Messages
    <3>4. MessageOf(t) \in Seq(Messages)
      BY <3>2, <3>3
    <3> QED BY <1>2, <2>5, <3>1, <3>2, <3>4
  <2> QED BY <2>4, <2>5
<1> QED BY <1>1, <1>2

LEMMA PropagateTyped ==
  ASSUME Typed, HistoryTyped, NEW t \in Threads, Propagate(t)
  PROVE  Typed' /\ HistoryTyped'
<1>1. Typed'
  BY ProceedTyped DEF Propagate
<1>2. out' = out \o MessageOf(t) /\ UNCHANGED <<entries, index, popstates, page, crossed>>
  BY DEF Propagate, Enqueued, historyVars
<1>3. MessageOf(t) \in Seq(Messages)
  BY MessageTyped
<1>4. out' \in Seq(Messages)
  BY <1>2, <1>3 DEF HistoryTyped
<1> QED BY <1>1, <1>2, <1>4 DEF HistoryTyped

LEMMA SetUrlTyped ==
  ASSUME Typed, HistoryTyped, NEW t \in Threads, NEW k \in UrlKVars, NEW v \in UrlValues[k],
         SetUrl(t, k, v)
  PROVE  Typed' /\ HistoryTyped'
<1>1. Typed'
  BY SetTyped DEF SetUrl
<1>2. UNCHANGED <<entries, index, popstates, out, page>> /\ crossed' \in BOOLEAN
  BY DEF SetUrl, historyVars, HistoryTyped
<1> QED BY <1>1, <1>2 DEF HistoryTyped

LEMMA ReceivePopstateTyped ==
  ASSUME Typed, HistoryTyped, NEW t \in Threads, ReceivePopstate(t)
  PROVE  /\ Typed' /\ HistoryTyped' /\ popstates # <<>> /\ Head(popstates) \in Urls
         /\ UrlSource(Head(popstates), "Client") \in UrlValues["urlSource"]
<1>1. /\ popstates # <<>> /\ popstates' = Tail(popstates)
      /\ SetValue(t, "urlSource", UrlSource(Head(popstates), "Client"))
      /\ UNCHANGED <<entries, index, out, page, crossed>>
  BY DEF ReceivePopstate, historyVars
<1>2. Head(popstates) \in Urls /\ Tail(popstates) \in Seq(Urls)
  BY <1>1 DEF HistoryTyped
<1>3. UrlSource(Head(popstates), "Client") \in UrlValues["urlSource"] /\ "urlSource" \in UrlKVars
  BY <1>2, UrlFacts, ValuesAre DEF Sources3, UrlKVars
<1>4. Typed'
  BY <1>1, <1>3, SetTyped
<1> QED BY <1>1, <1>2, <1>3, <1>4 DEF HistoryTyped

LEMMA NavigateTyped ==
  ASSUME Typed, HistoryTyped, NEW i \in DOMAIN entries, Navigate(i)
  PROVE  Typed' /\ HistoryTyped'
<1>1. /\ index' = i /\ popstates' = Append(popstates, entries[i])
      /\ UNCHANGED <<value, closeReason, listening, told, stack, sets, entries, out, page>>
      /\ crossed' = (PushUnderWay \/ (popstates # <<>> /\ crossed))
  BY DEF Navigate, vars
<1>2. i \in 1..Len(entries) /\ entries[i] \in Urls
  BY DEF HistoryTyped
<1>3. Typed'
  <2>1. ValuesTyped /\ AllOpen /\ ToldTyped /\ Stacks /\ FramesTyped /\ sets \in 0..MaxSets
    BY TypedParts
  <2> QED BY <1>1, <2>1, Unchanged, TypedNext
<1> QED BY <1>1, <1>2, <1>3 DEF HistoryTyped

LEMMA ReceiveMessageTyped ==
  ASSUME Typed, HistoryTyped, ReceiveMessage
  PROVE  /\ Typed' /\ HistoryTyped' /\ out # <<>> /\ out' = Tail(out)
         /\ UNCHANGED <<value, stack, popstates, crossed>>
         /\ \/ Head(out).kind = "draw" /\ UNCHANGED <<entries, index>>
            \/ /\ Head(out).kind = "pushState"
               /\ index' \in DOMAIN entries' /\ entries'[index'] = Head(out).url
<1>1. /\ out # <<>> /\ out' = Tail(out)
      /\ UNCHANGED <<value, closeReason, listening, told, stack, sets, popstates, crossed>>
  BY DEF ReceiveMessage, vars
<1>2. Head(out) \in Messages /\ Tail(out) \in Seq(Messages)
  BY <1>1 DEF HistoryTyped
<1>3. Typed'
  <2>1. ValuesTyped /\ AllOpen /\ ToldTyped /\ Stacks /\ FramesTyped /\ sets \in 0..MaxSets
    BY TypedParts
  <2> QED BY <1>1, <2>1, Unchanged, TypedNext
<1>4. CASE Head(out).kind = "draw"
  <2>1. page' = Head(out).template /\ UNCHANGED <<entries, index>>
    BY <1>4 DEF ReceiveMessage, historyVars
  <2>2. page' \in Paths
    BY <1>2, <1>4, <2>1 DEF Messages
  <2> QED BY <1>1, <1>2, <1>3, <1>4, <2>1, <2>2 DEF HistoryTyped
<1>5. CASE Head(out).kind # "draw"
  <2>1. Head(out).kind = "pushState" /\ Head(out).url \in Urls
    BY <1>2, <1>5 DEF Messages
  <2> DEFINE s == SubSeq(entries, 1, index)
             u == Head(out).url
  <2>2. entries' = Append(s, u) /\ index' = index + 1 /\ page' = page
    BY <1>5 DEF ReceiveMessage
  <2>3. s \in Seq(Urls) /\ Len(s) = index /\ index \in Nat
    BY DEF HistoryTyped
  <2> HIDE DEF s, u
  <2>4. entries' \in Seq(Urls) /\ index' \in 1..Len(entries') /\ entries'[index'] = u
        /\ DOMAIN entries' = 1..Len(entries')
    BY <2>1, <2>2, <2>3 DEF u
  <2> QED BY <1>1, <1>2, <1>3, <2>1, <2>2, <2>4 DEF HistoryTyped, u
<1> QED BY <1>4, <1>5

-----------------------------------------------------------------------------
(***************************************************************************)
(* A change on its way.                                                    *)
(***************************************************************************)
\* Threads take turns, no page sets the URL while it is drawn, and no address ends in a
\* question mark, which the way to the path and back would take away.
Undisturbed == ~Concurrent /\ ~Redirects /\ "empty" \notin Queries

LEMMA WantIs ==
  ASSUME NEW t
  PROVE  /\ Want(t, "urlSource") = UrlSource(Target(t), Author(t))
         /\ Want(t, "url") = Target(t)
         /\ Want(t, "path") = Target(t).path /\ Want(t, "template") = Target(t).path
BY DEF Want, Wanted

LEMMA BaseTyped ==
  ASSUME Typed, NEW t \in Threads, stack[t] # <<>>
  PROVE  /\ 1 \in 1..Depth(t) /\ Base(t) \in Frames /\ FrameTyped(Base(t))
         /\ Base(t).kvar \in UrlKVars
         /\ Base(t).kvar # "template" => Target(t) \in Urls
<1>1. stack[t] \in Seq(Frames) /\ Depth(t) \in Nat \ {0}
  BY TopTyped
<1>2. 1 \in 1..Depth(t) /\ Base(t) \in Frames
  BY <1>1 DEF Base, Depth
<1>3. FrameTyped(Base(t))
  BY <1>2 DEF Typed, Base, Depth
<1>4. Base(t).kvar \in UrlKVars
  BY <1>2, FrameFields
<1>5. ASSUME Base(t).kvar # "template" PROVE Target(t) \in Urls
  <2>1. value["url"] \in Urls
    BY ValuesAre DEF Typed, UrlKVars
  <2>2. Base(t).new \in UrlValues[Base(t).kvar]
    BY <1>3 DEF FrameTyped
  <2>3. CASE Base(t).kvar = "urlSource"
    BY <2>2, <2>3, ValuesAre, UrlFacts DEF Target
  <2>4. CASE Base(t).kvar = "url"
    BY <2>2, <2>4, ValuesAre DEF Target
  <2>5. CASE Base(t).kvar = "path"
    BY <2>1, <2>2, <2>5, ValuesAre, UrlFacts DEF Target
  <2> QED BY <1>4, <1>5, <2>3, <2>4, <2>5 DEF UrlKVars
<1> QED BY <1>2, <1>3, <1>4, <1>5

LEMMA WantTyped ==
  ASSUME Typed, NEW t \in Threads, stack[t] # <<>>, Base(t).kvar # "template", NEW k \in UrlKVars
  PROVE  Want(t, k) \in UrlValues[k]
<1>1. Target(t) \in Urls /\ Author(t) \in Sources3
  BY BaseTyped DEF Author, Sources3
<1>2. Want(t, "urlSource") \in SourceValues /\ Want(t, "url") \in Urls
      /\ Want(t, "path") \in Paths /\ Want(t, "template") \in Paths
  BY <1>1, WantIs, UrlFacts
<1> QED BY <1>2, ValuesAre DEF UrlKVars

LEMMA AnswerFacts ==
  ASSUME NEW l \in Edges
  PROVE  /\ Answer(l) \in Edges /\ Answer(Answer(l)) = l /\ (Agree(l) <=> Agree(Answer(l)))
         /\ l # ToTemplate => Answer(l) # ToTemplate /\ Answer(l).of = l.to /\ Answer(l).to = l.of
         /\ l = ToTemplate => Answer(l) = l
         /\ l \notin {PushListener, RenderListener} /\ l # None
<1>1. l \in Listeners
  BY TheListeners
<1>2. l # None
  BY <1>1, ByKind
<1>3. CASE l = FromSource
  BY <1>2, <1>3, ListenersAre DEF Answer, Agree, Edges
<1>4. CASE l = ToSource
  BY <1>2, <1>4, ListenersAre DEF Answer, Agree, Edges
<1>5. CASE l = ToPath
  BY <1>2, <1>5, ListenersAre DEF Answer, Agree, Edges
<1>6. CASE l = FromPath
  BY <1>2, <1>6, ListenersAre DEF Answer, Agree, Edges
<1>7. CASE l = ToTemplate
  BY <1>2, <1>7, ListenersAre DEF Answer, Agree, Edges
<1> QED BY <1>3, <1>4, <1>5, <1>6, <1>7 DEF Edges

\* Where two KVars hold what they are to hold, they agree.
LEMMA WantAgrees ==
  ASSUME NEW t \in Threads, NEW l \in Edges,
         value[l.of] = Want(t, l.of), value[l.to] = Want(t, l.to)
  PROVE  Agree(l) /\ Agree(Answer(l))
<1>1. UrlSource(Target(t), Author(t)).url = Target(t)
  BY UrlFacts
<1>2. CASE l = FromSource \/ l = ToSource
  <2>1. value["urlSource"] = Want(t, "urlSource") /\ value["url"] = Want(t, "url")
    BY <1>2, ListenersAre
  <2>2. value["urlSource"].url = value["url"]
    <3>1. value["urlSource"] = UrlSource(Target(t), Author(t)) /\ value["url"] = Target(t)
      BY <2>1, WantIs
    <3> DEFINE s == value["urlSource"]
               u == value["url"]
               w == UrlSource(Target(t), Author(t))
               g == Target(t)
    <3>2. s = w /\ u = g /\ w.url = g
      BY <1>1, <3>1
    <3> HIDE DEF s, u, w, g
    <3>3. s.url = u
      BY <3>2
    <3> QED BY <3>3 DEF s, u
  <2>3. Agree(l)
    <3> DEFINE same == value["urlSource"].url = value["url"]
    <3>1. same
      BY <2>2
    <3>2. Agree(l) <=> same
      <4>1. l \notin {ToPath, FromPath}
        BY <1>2, ListenersAre
      <4> QED BY <1>2, <4>1 DEF Agree
    <3> QED BY <3>1, <3>2
  <2> QED BY <2>3, AnswerFacts
<1>3. CASE l = ToPath \/ l = FromPath
  <2>1. value["url"] = Want(t, "url") /\ value["path"] = Want(t, "path")
    BY <1>3, ListenersAre
  <2>2. l \notin {FromSource, ToSource}
    BY <1>3, ListenersAre
  <2>3. Agree(l)
    BY <1>3, <2>1, <2>2, WantIs DEF Agree
  <2> QED BY <2>3, AnswerFacts
<1>4. CASE l = ToTemplate
  <2>1. value["path"] = Want(t, "path") /\ value["template"] = Want(t, "template")
    BY <1>4, ListenersAre
  <2>2. l \notin {FromSource, ToSource, ToPath, FromPath} /\ Answer(l) = l
    BY <1>4, ListenersAre DEF Answer
  <2> QED BY <2>1, <2>2, WantIs DEF Agree
<1> QED BY <1>2, <1>3, <1>4 DEF Edges

\* What it means that all agree.
LEMMA TheyAgree ==
  ASSUME AllAgree
  PROVE  value["urlSource"].url = value["url"] /\ value["url"].path = value["path"]
<1>1. Agree(FromSource) /\ Agree(ToPath)
  BY DEF AllAgree, Edges
<1>2. FromSource \notin {ToPath, FromPath} /\ ToPath \notin {FromSource, ToSource}
  BY ListenersAre
<1> QED BY <1>1, <1>2 DEF Agree

\* Whether two KVars agree depends on nothing else.
LEMMA AgreeKept ==
  ASSUME NEW l \in Edges, value'[l.of] = value[l.of], value'[l.to] = value[l.to]
  PROVE  Agree(l)' <=> Agree(l)
<1>1. CASE l = FromSource \/ l = ToSource
  BY <1>1, ListenersAre DEF Agree
<1>2. CASE l = ToPath \/ l = FromPath
  <2>1. l \notin {FromSource, ToSource}
    BY <1>2, ListenersAre
  <2>2. value'["url"] = value["url"] /\ value'["path"] = value["path"]
    BY <1>2, ListenersAre
  <2> QED BY <1>2, <2>1, <2>2 DEF Agree
<1>3. CASE l = ToTemplate
  <2>1. l \notin {FromSource, ToSource, ToPath, FromPath}
    BY <1>3, ListenersAre
  <2>2. value'["path"] = value["path"] /\ value'["template"] = value["template"]
    BY <1>3, ListenersAre
  <2> QED BY <2>1, <2>2 DEF Agree
<1> QED BY <1>1, <1>2, <1>3 DEF Edges

LEMMA AllAgreeKept ==
  ASSUME UNCHANGED value
  PROVE  AllAgree' <=> AllAgree
<1>1. \A l \in Edges : Agree(l)' <=> Agree(l)
  BY AgreeKept
<1> QED BY <1>1 DEF AllAgree

-----------------------------------------------------------------------------
(***************************************************************************)
(* What stays as a step is taken.                                          *)
(***************************************************************************)
\* The call on top becomes c, or makes a call, or returns.
Goes(t) ==
  \/ \E c : Onward(t, c) /\ (Replaced(t, c) \/ \E d : Grown(t, c, d))
  \/ Shrunk(t)

LEMMA BaseKept ==
  ASSUME Typed, NEW t \in Threads, stack[t] # <<>>, Goes(t)
  PROVE  /\ stack'[t] \in Seq(Frames) /\ Depth(t)' \in Nat
         /\ stack'[t] # <<>> => Base(t)'.kvar = Base(t).kvar /\ Base(t)'.new = Base(t).new
         /\ Depth(t) > 1 => stack'[t] # <<>> /\ Base(t)' = Base(t)
<1>1. Depth(t) \in Nat \ {0} /\ Top(t) = stack[t][Depth(t)]
  BY TopTyped
<1>2. stack'[t] \in Seq(Frames)
  BY DEF Goes, Replaced, Grown, Shrunk, OthersStay
<1>3. Depth(t)' \in Nat /\ Depth(t)' = Len(stack'[t]) /\ (stack'[t] # <<>> <=> Depth(t)' > 0)
  BY <1>2, EmptySeq DEF Depth
<1>4. CASE Depth(t) > 1
  <2>1. Beneath(t) /\ Depth(t)' > 0
    BY <1>1, <1>3, <1>4 DEF Goes, Replaced, Grown, Shrunk
  <2>2. stack'[t][1] = stack[t][1]
    BY <1>1, <1>4, <2>1 DEF Beneath
  <2> QED BY <1>2, <1>3, <2>1, <2>2 DEF Base
<1>5. CASE Depth(t) = 1
  <2>1. CASE Shrunk(t)
    BY <1>2, <1>3, <1>5, <2>1 DEF Shrunk
  <2>2. ASSUME NEW c, Onward(t, c), Replaced(t, c) \/ \E d : Grown(t, c, d)
        PROVE  Base(t)'.kvar = Base(t).kvar /\ Base(t)'.new = Base(t).new
    <3>1. stack'[t][1] = c
      BY <1>5, <2>2 DEF Replaced, Grown
    <3>2. Top(t) = Base(t)
      BY <1>1, <1>5 DEF Base
    <3> QED BY <2>2, <3>1, <3>2 DEF Onward, Base
  <2> QED BY <1>2, <1>3, <1>5, <2>1, <2>2 DEF Goes
<1> QED BY <1>1, <1>4, <1>5

\* A KVar is set to what it is to hold, or none is.
ValueStep(t) ==
  \/ UNCHANGED value
  \/ \E k \in UrlKVars : value' = [value EXCEPT ![k] = Want(t, k)]

LEMMA ValueStepFacts ==
  ASSUME Typed, NEW t \in Threads, ValueStep(t), NEW k \in UrlKVars
  PROVE  value'[k] = value[k] \/ value'[k] = Want(t, k)
BY DEF ValueStep, Typed

LEMMA TargetKept ==
  ASSUME Typed, NEW t \in Threads, stack[t] # <<>>, Base(t).kvar # "template", Goes(t),
         ValueStep(t), stack'[t] # <<>>
  PROVE  Target(t)' = Target(t) /\ Author(t)' = Author(t)
<1>1. Base(t)'.kvar = Base(t).kvar /\ Base(t)'.new = Base(t).new
  BY BaseKept
<1>2. Author(t)' = Author(t)
  BY <1>1 DEF Author
<1>3. Target(t)' = Target(t)
  <2>1. CASE Base(t).kvar \in {"urlSource", "url"}
    BY <1>1, <2>1 DEF Target
  <2>2. CASE Base(t).kvar \notin {"urlSource", "url"}
    <3>1. Target(t) = [path |-> Base(t).new, query |-> value["url"].query]
      BY <2>2 DEF Target
    <3>2. Target(t)' = [path |-> Base(t)'.new, query |-> value'["url"].query]
      BY <1>1, <2>2 DEF Target
    <3>3. value'["url"] = value["url"] \/ value'["url"] = Target(t)
      BY ValueStepFacts, WantIs DEF UrlKVars
    <3>4. Target(t).query = value["url"].query
      BY <3>1
    <3>5. value'["url"].query = value["url"].query
      BY <3>3, <3>4
    <3> QED BY <1>1, <3>1, <3>2, <3>5
  <2> QED BY <2>1, <2>2
<1> QED BY <1>2, <1>3

-----------------------------------------------------------------------------
(***************************************************************************)
(* The calls of a change.                                                  *)
(***************************************************************************)
LEMMA WaveFacts ==
  ASSUME Typed, NEW t \in Threads, stack[t] # <<>>, Wave(t)
  PROVE  /\ Base(t).kvar # "template" /\ Target(t) \in Urls
         /\ \A i \in 1..Depth(t) : FrameOn(t, i)
         /\ FrameOn(t, Depth(t)) /\ Top(t) = stack[t][Depth(t)]
         /\ Top(t).kvar \in UrlKVars /\ Top(t).new = Want(t, Top(t).kvar)
         /\ Tells(Top(t)) => value[Top(t).kvar] = Top(t).new /\ Tells(Base(t))
         /\ Depth(t) > 1 => Tells(Base(t))
         /\ Depth(t) = 1 => Top(t) = Base(t)
<1>1. /\ Base(t).kvar # "template" /\ \A i \in 1..Depth(t) : FrameOn(t, i)
  BY DEF Wave, Depth
<1>2. Target(t) \in Urls
  BY <1>1, BaseTyped
<1>3. /\ Depth(t) \in Nat \ {0} /\ Top(t) = stack[t][Depth(t)] /\ Top(t) \in Frames
      /\ Depth(t) \in 1..Depth(t) /\ 1 \in 1..Depth(t)
  BY TopTyped
<1>4. FrameOn(t, Depth(t)) /\ FrameOn(t, 1)
  BY <1>1, <1>3
<1>5. Top(t).kvar \in UrlKVars
  BY <1>3, FrameFields
<1>6. Top(t).new = Want(t, Top(t).kvar) /\ (Tells(Top(t)) => value[Top(t).kvar] = Top(t).new)
  BY <1>3, <1>4 DEF FrameOn, Fits, Want
<1>7. Depth(t) > 1 => Tells(Base(t))
  BY <1>4 DEF FrameOn, Fits, Base, Tells
<1>8. Depth(t) = 1 => Top(t) = Base(t)
  BY <1>3 DEF Base
<1> QED BY <1>1, <1>2, <1>3, <1>4, <1>5, <1>6, <1>7, <1>8

\* The calls beneath the one on top.
LEMMA BeneathOn ==
  ASSUME Typed, NEW t \in Threads, stack[t] # <<>>, Wave(t), Goes(t), ValueStep(t),
         NEW i \in 1..(Depth(t) - 1), i \in 1..Depth(t)'
  PROVE  FrameOn(t, i)'
<1>1. /\ Depth(t) \in Nat \ {0} /\ FrameOn(t, i) /\ Base(t).kvar # "template"
  BY WaveFacts, TopTyped
<1>2. PICK f : f = stack[t][i]
  OBVIOUS
<1>3. PICK caller : caller = stack[t][i - 1].kvar
  OBVIOUS
<1>4. stack'[t][i] = f /\ (i # 1 => stack'[t][i - 1].kvar = caller)
  <2>1. Beneath(t)
    BY DEF Goes, Replaced, Grown, Shrunk
  <2> QED BY <2>1, <1>1, <1>2, <1>3 DEF Beneath
<1>5. Fits(f, i, Depth(t), caller, value, Target(t), Author(t)) /\ f.pc = "iterate"
  BY <1>1, <1>2, <1>3 DEF FrameOn, Fits
<1>6. stack'[t] # <<>>
  BY BaseKept, <1>1
<1>7. Target(t)' = Target(t) /\ Author(t)' = Author(t)
  BY <1>1, <1>6, TargetKept
<1>8. f.kvar \in UrlKVars /\ "url" \in UrlKVars
  <2>1. f \in Frames
    BY <1>1, <1>2, TopTyped DEF Depth
  <2> QED BY <2>1, FrameFields DEF UrlKVars
<1>9. value'[f.kvar] = f.new
  BY <1>5, <1>8, ValueStepFacts DEF Fits, Want, Tells
<1>10. f.kvar = "path" => value'["url"].query = Target(t).query
  <2>1. value'["url"] = value["url"] \/ value'["url"] = Target(t)
    BY <1>8, ValueStepFacts, WantIs
  <2> QED BY <2>1, <1>5 DEF Fits
<1>11. PICK target, author : target = Target(t) /\ author = Author(t)
  OBVIOUS
<1>12. Fits(f, i, Depth(t)', stack'[t][i - 1].kvar, value', target, author)
  BY <1>4, <1>5, <1>9, <1>10, <1>11 DEF Fits, Tells
<1> QED BY <1>4, <1>7, <1>11, <1>12 DEF FrameOn

\* The call on top, as it goes on.
LEMMA TopOn ==
  ASSUME Typed, NEW t \in Threads, stack[t] # <<>>, Wave(t), Goes(t), ValueStep(t),
         NEW c, Onward(t, c), Replaced(t, c) \/ \E d : Grown(t, c, d),
         Tells(c) => value'[c.kvar] = c.new,
         c.pc = "assign" => c.old = value'[c.kvar],
         c.pc = "iterate" \/ Replaced(t, c),
         c.kvar = "template" => Tells(c)
  PROVE  \A i : i = Depth(t) => FrameOn(t, i)'
<1> TAKE i
<1> HAVE i = Depth(t)
<1>1. /\ i \in Nat \ {0} /\ FrameOn(t, i) /\ Top(t) = stack[t][i] /\ Base(t).kvar # "template"
  BY WaveFacts, TopTyped
<1>2. PICK f : f = stack[t][i]
  OBVIOUS
<1>3. PICK caller : caller = stack[t][i - 1].kvar
  OBVIOUS
<1>4. /\ stack'[t][i] = c /\ (i # 1 => stack'[t][i - 1].kvar = caller)
      /\ Len(stack'[t]) \in {i, i + 1} /\ (Replaced(t, c) => Len(stack'[t]) = i)
  <2>1. Beneath(t) /\ stack'[t][i] = c /\ Len(stack'[t]) \in {i, i + 1}
    BY DEF Replaced, Grown
  <2> QED BY <2>1, <1>1, <1>3 DEF Beneath, Replaced
<1>5. Fits(f, i, Depth(t), caller, value, Target(t), Author(t))
  BY <1>1, <1>2, <1>3 DEF FrameOn
<1>6. stack'[t] # <<>>
  BY BaseKept, <1>1, <1>4, EmptySeq
<1>7. Target(t)' = Target(t) /\ Author(t)' = Author(t)
  BY <1>1, <1>6, TargetKept
<1>8. c.kvar = f.kvar /\ c.by = f.by /\ c.new = f.new
  BY <1>1, <1>2 DEF Onward
<1>9. f.kvar = "path" => value'["url"].query = Target(t).query
  <2>1. value'["url"] = value["url"] \/ value'["url"] = Target(t)
    BY ValueStepFacts, WantIs DEF UrlKVars
  <2> QED BY <2>1, <1>5 DEF Fits
<1>10. PICK target, author : target = Target(t) /\ author = Author(t)
  OBVIOUS
<1>11. i < Len(stack'[t]) => c.pc = "iterate"
  BY <1>1, <1>4
<1>12. Fits(c, i, Depth(t)', stack'[t][i - 1].kvar, value', target, author)
  BY <1>4, <1>5, <1>8, <1>9, <1>10, <1>11 DEF Fits, Depth
<1> QED BY <1>4, <1>7, <1>10, <1>12 DEF FrameOn

\* A new call.
LEMMA NewOn ==
  ASSUME Typed, NEW t \in Threads, stack[t] # <<>>, Wave(t), Goes(t), ValueStep(t),
         NEW c, NEW d, Onward(t, c), Grown(t, c, d),
         d.new = Want(t, d.kvar), d.by \in Edges, d.by.of = Top(t).kvar,
         d.pc # "assign", Tells(d) => value'[d.kvar] = d.new,
         d.kvar = "path" => value'["url"].query = Target(t).query,
         d.kvar = "template" => Tells(d)
  PROVE  \A i : i = Depth(t) + 1 => FrameOn(t, i)'
<1> TAKE i
<1> HAVE i = Depth(t) + 1
<1>1. /\ Depth(t) \in Nat \ {0} /\ Base(t).kvar # "template"
  BY WaveFacts, TopTyped
<1>2. /\ stack'[t][i - 1] = c /\ stack'[t][i] = d /\ Len(stack'[t]) = i /\ i # 1
  BY <1>1 DEF Grown
<1>3. stack'[t] # <<>>
  BY BaseKept, <1>1, <1>2, EmptySeq
<1>4. Target(t)' = Target(t) /\ Author(t)' = Author(t)
  BY <1>1, <1>3, TargetKept
<1>5. d.by.of = stack'[t][i - 1].kvar
  BY <1>2 DEF Onward
<1>6. PICK target, author : target = Target(t) /\ author = Author(t)
  OBVIOUS
<1>7. d.new = Wanted(target, author, d.kvar)
  BY <1>6 DEF Want
<1>8. ~(i < Depth(t)')
  BY <1>1, <1>2 DEF Depth
<1>9. Fits(d, i, Depth(t)', stack'[t][i - 1].kvar, value', target, author)
  BY <1>2, <1>5, <1>6, <1>7, <1>8 DEF Fits
<1> QED BY <1>2, <1>4, <1>6, <1>9 DEF FrameOn

-----------------------------------------------------------------------------
(***************************************************************************)
(* The listeners still to come.                                            *)
(***************************************************************************)
LEMMA StillToCome ==
  ASSUME Typed, NEW t \in Threads, stack[t] # <<>>, Goes(t), NEW l \in ToCome(t),
         l \notin Waiting(Top(t))
  PROVE  l \in ToCome(t)'
<1>1. Depth(t) \in Nat \ {0} /\ Top(t) = stack[t][Depth(t)]
  BY TopTyped
<1>2. PICK i \in 1..Depth(t) : l \in Waiting(stack[t][i])
  BY DEF ToCome, Depth
<1>3. i \in 1..(Depth(t) - 1)
  BY <1>1, <1>2
<1>4. stack'[t][i] = stack[t][i] /\ i \in 1..Len(stack'[t])
  <2>1. Beneath(t) /\ Len(stack'[t]) \in {Depth(t) - 1, Depth(t), Depth(t) + 1}
    BY DEF Goes, Replaced, Grown, Shrunk
  <2> QED BY <1>1, <1>3, <2>1 DEF Beneath
<1>5. l \in Waiting(stack'[t][i])
  BY <1>2, <1>4
<1> QED BY <1>4, <1>5 DEF ToCome

LEMMA NewToCome ==
  ASSUME Typed, NEW t \in Threads, stack[t] # <<>>
  PROVE  /\ \A c : Replaced(t, c) => Waiting(c) \subseteq ToCome(t)'
         /\ \A c, d : Grown(t, c, d) =>
              Waiting(c) \subseteq ToCome(t)' /\ Waiting(d) \subseteq ToCome(t)'
<1>1. Depth(t) \in Nat \ {0}
  BY TopTyped
<1>2. \A i \in 1..Len(stack'[t]) : Waiting(stack'[t][i]) \subseteq ToCome(t)'
  BY DEF ToCome
<1>3. ASSUME NEW c, Replaced(t, c) PROVE Waiting(c) \subseteq ToCome(t)'
  <2>1. Depth(t) \in 1..Len(stack'[t]) /\ stack'[t][Depth(t)] = c
    BY <1>1, <1>3 DEF Replaced
  <2> QED BY <1>2, <2>1
<1>4. ASSUME NEW c, NEW d, Grown(t, c, d)
      PROVE  Waiting(c) \subseteq ToCome(t)' /\ Waiting(d) \subseteq ToCome(t)'
  <2>1. /\ Depth(t) \in 1..Len(stack'[t]) /\ stack'[t][Depth(t)] = c
        /\ Depth(t) + 1 \in 1..Len(stack'[t]) /\ stack'[t][Depth(t) + 1] = d
    BY <1>1, <1>4 DEF Grown
  <2> QED BY <1>2, <2>1
<1> QED BY <1>3, <1>4

\* Those that agreed still do, and those of the call on top come or agree.
LEMMA ReachesOn ==
  ASSUME Typed, NEW t \in Threads, stack[t] # <<>>, Goes(t), Reaches(t),
         \A l \in Edges : Agree(l) => Agree(l)',
         \A l \in Edges : l \in Waiting(Top(t)) =>
           l \in ToCome(t)' \/ (Agree(l)' /\ Agree(Answer(l))')
  PROVE  Reaches(t)'
<1>1. SUFFICES ASSUME NEW l \in Edges
               PROVE  Agree(l)' \/ l \in ToCome(t)' \/ Answer(l) \in ToCome(t)'
  BY DEF Reaches
<1>2. Answer(l) \in Edges /\ Answer(Answer(l)) = l
  BY AnswerFacts
<1>3. Agree(l) \/ l \in ToCome(t) \/ Answer(l) \in ToCome(t)
  BY DEF Reaches
<1>4. CASE Agree(l)
  BY <1>4
<1>5. CASE l \in ToCome(t)
  BY <1>5, StillToCome
<1>6. CASE Answer(l) \in ToCome(t)
  <2>1. CASE Answer(l) \in Waiting(Top(t))
    <3>1. PICK m \in Edges : m = Answer(l) /\ Answer(m) = l
      BY <1>2
    <3>2. m \in ToCome(t)' \/ (Agree(m)' /\ Agree(Answer(m))')
      BY <2>1, <3>1
    <3> QED BY <3>1, <3>2
  <2>2. CASE Answer(l) \notin Waiting(Top(t))
    <3>1. PICK m \in ToCome(t) : m = Answer(l) /\ m \notin Waiting(Top(t))
      BY <1>6, <2>2
    <3>2. m \in ToCome(t)'
      BY <3>1, StillToCome
    <3> QED BY <3>1, <3>2
  <2> QED BY <2>1, <2>2
<1> QED BY <1>3, <1>4, <1>5, <1>6

-----------------------------------------------------------------------------
(***************************************************************************)
(* A change goes on, or is through.                                        *)
(***************************************************************************)
LEMMA SignedKept ==
  ASSUME Typed, NEW t \in Threads, stack[t] # <<>>, Wave(t), Goes(t), ValueStep(t),
         stack'[t] # <<>>, Tells(Base(t))
  PROVE  Signed(t)'
<1>1. Target(t)' = Target(t) /\ Author(t)' = Author(t) /\ Base(t)'.kvar = Base(t).kvar
  BY WaveFacts, TargetKept, BaseKept
<1>2. PICK target, author, base : target = Target(t) /\ author = Author(t) /\ base = Base(t)
  OBVIOUS
<1> DEFINE wanted == Wanted(target, author, "urlSource")
<1>3. value["urlSource"] = wanted \/ (base.kvar # "urlSource" /\ value["urlSource"].url # target)
  BY <1>2 DEF Wave, Signed, Want
<1>4. value'["urlSource"] = value["urlSource"] \/ value'["urlSource"] = wanted
  BY <1>2, ValueStepFacts DEF Want, UrlKVars
<1>5. value'["urlSource"] = wanted
      \/ (base.kvar # "urlSource" /\ value'["urlSource"].url # target)
  BY <1>3, <1>4
<1> QED BY <1>1, <1>2, <1>5 DEF Signed, Want

LEMMA GoesAlone ==
  ASSUME Typed, NEW t \in Threads, Wave(t), Goes(t)
  PROVE  \A u \in Threads \ {t} : stack'[u] = <<>>
<1>1. OthersStay(t)
  BY DEF Goes, Replaced, Grown, Shrunk
<1> QED BY <1>1 DEF OthersStay, Wave

LEMMA WaveGoesOn ==
  ASSUME Typed, NEW t \in Threads, stack[t] # <<>>, Wave(t), Goes(t), ValueStep(t),
         \A i \in 1..Depth(t)' : i \geq Depth(t) => FrameOn(t, i)',
         Reaches(t)',
         stack'[t] # <<>> /\ ~Tells(Base(t)) => Signed(t)'
  PROVE  InStep'
<1>1. \A u \in Threads \ {t} : stack'[u] = <<>>
  BY GoesAlone
<1>2. ASSUME stack'[t] # <<>> PROVE Wave(t)'
  <2>1. Base(t)'.kvar # "template"
    BY <1>2, BaseKept, WaveFacts
  <2>2. ASSUME NEW i \in 1..Len(stack'[t]) PROVE FrameOn(t, i)'
    <3>1. i \in 1..Depth(t)' /\ Depth(t) \in Nat
      BY TopTyped DEF Depth
    <3>2. CASE i \geq Depth(t)
      BY <3>1, <3>2
    <3>3. CASE ~(i \geq Depth(t))
      <4>1. i \in 1..(Depth(t) - 1)
        BY <3>1, <3>3
      <4> QED BY <3>1, <4>1, BeneathOn
    <3> QED BY <3>2, <3>3
  <2>3. Signed(t)'
    BY <1>2, SignedKept
  <2> QED BY <1>1, <2>1, <2>2, <2>3 DEF Wave
<1>3. ASSUME stack'[t] = <<>> PROVE AllAgree'
  <2>1. ToCome(t)' = {}
    BY <1>3 DEF ToCome
  <2> QED BY <2>1 DEF Reaches, AllAgree
<1> QED BY <1>1, <1>2, <1>3 DEF InStep

\* What each step of a thread does to a change, while it leaves the values alone.
LEMMA QuietStep ==
  ASSUME Typed, NEW t \in Threads, stack[t] # <<>>, Wave(t), UNCHANGED value, Goes(t),
         \A i \in 1..Depth(t)' : i \geq Depth(t) => FrameOn(t, i)',
         \A l \in Edges : l \in Waiting(Top(t)) => l \in ToCome(t)',
         stack'[t] # <<>> /\ ~Tells(Base(t)) => Signed(t)'
  PROVE  InStep'
<1>1. ValueStep(t)
  BY DEF ValueStep
<1>2. Reaches(t)
  BY DEF Wave
<1>3. \A l \in Edges : Agree(l) => Agree(l)'
  BY AgreeKept
<1>4. Reaches(t)'
  BY <1>2, <1>3, ReachesOn
<1> QED BY <1>1, <1>4, WaveGoesOn

\* The call on top goes on, and sets nothing.
LEMMA TopStep ==
  ASSUME Typed, NEW t \in Threads, stack[t] # <<>>, Wave(t), UNCHANGED value,
         NEW c, Onward(t, c), Replaced(t, c),
         \A l \in Edges : l \in Waiting(Top(t)) => l \in Waiting(c),
         Tells(c) <=> Tells(Top(t)),
         c.pc = "assign" => c.old = value[c.kvar]
  PROVE  InStep'
<1>1. Goes(t) /\ ValueStep(t)
  BY DEF Goes, ValueStep
<1>2. Depth(t) \in Nat \ {0} /\ Top(t) = stack[t][Depth(t)] /\ FrameOn(t, Depth(t))
  BY TopTyped, WaveFacts
<1>3. Tells(c) => value'[c.kvar] = c.new
  BY WaveFacts DEF Onward
<1>4. c.kvar = "template" => Tells(c)
  BY <1>2 DEF FrameOn, Fits, Onward
<1>5. \A i : i = Depth(t) => FrameOn(t, i)'
  BY <1>1, <1>3, <1>4, TopOn
<1>6. \A i \in 1..Depth(t)' : i \geq Depth(t) => FrameOn(t, i)'
  <2>1. Depth(t)' = Depth(t)
    BY DEF Replaced, Depth
  <2> QED BY <1>2, <1>5, <2>1
<1>7. \A l \in Edges : l \in Waiting(Top(t)) => l \in ToCome(t)'
  BY NewToCome
<1>8. ~Tells(Base(t)) => Signed(t)'
  <2>1. ASSUME ~Tells(Base(t)) PROVE Base(t)' = c /\ ~Tells(c)
    <3>1. Depth(t) = 1 /\ Top(t) = Base(t)
      BY <2>1, <1>2, WaveFacts
    <3> QED BY <2>1, <3>1 DEF Base, Replaced
  <2> QED BY <2>1 DEF Signed
<1> QED BY <1>1, <1>6, <1>7, <1>8, QuietStep

\* The call on top returns, and sets nothing.
LEMMA ReturnStep ==
  ASSUME Typed, NEW t \in Threads, stack[t] # <<>>, Wave(t), UNCHANGED value, Shrunk(t),
         \A l \in Edges : l \in Waiting(Top(t)) => Agree(l) /\ Agree(Answer(l))
  PROVE  InStep'
<1>1. Goes(t) /\ ValueStep(t)
  BY DEF Goes, ValueStep
<1>2. Depth(t) \in Nat \ {0} /\ Depth(t)' = Depth(t) - 1
  BY TopTyped DEF Shrunk, Depth
<1>3. \A i \in 1..Depth(t)' : i \geq Depth(t) => FrameOn(t, i)'
  BY <1>2
<1>4. \A l \in Edges : Agree(l) => Agree(l)'
  BY AgreeKept
<1>5. \A l \in Edges : l \in Waiting(Top(t)) =>
           l \in ToCome(t)' \/ (Agree(l)' /\ Agree(Answer(l))')
  <2> SUFFICES ASSUME NEW l \in Edges, l \in Waiting(Top(t))
               PROVE  Agree(l)' /\ Agree(Answer(l))'
    OBVIOUS
  <2>1. PICK m \in Edges : m = Answer(l)
    BY AnswerFacts
  <2>2. Agree(l)' /\ Agree(m)'
    BY <1>4, <2>1
  <2> QED BY <2>1, <2>2
<1>6. Reaches(t)'
  BY <1>1, <1>4, <1>5, ReachesOn DEF Wave
<1>7. stack'[t] # <<>> => Tells(Base(t))
  <2>1. stack'[t] \in Seq(Frames)
    BY DEF Shrunk, OthersStay
  <2>2. stack'[t] # <<>> => Depth(t)' > 0
    BY <2>1, EmptySeq DEF Depth
  <2>3. stack'[t] # <<>> => Depth(t) > 1
    BY <1>2, <2>2
  <2> QED BY <2>3, WaveFacts
<1> QED BY <1>1, <1>3, <1>6, <1>7, WaveGoesOn

LEMMA ReadInStep ==
  ASSUME Typed, NEW t \in Threads, stack[t] # <<>>, Wave(t), Read(t)
  PROVE  InStep'
<1>1. PICK c : /\ Onward(t, c) /\ Replaced(t, c) /\ Top(t).pc = "read"
               /\ c.pc = "assign" /\ c.old = value[Top(t).kvar] /\ UNCHANGED value
  BY ReadDoes
<1>2. c.kvar = Top(t).kvar /\ c.by = Top(t).by
  BY <1>1 DEF Onward
<1>3. Waiting(c) = {c.by} /\ Waiting(Top(t)) = {Top(t).by}
  BY <1>1 DEF Waiting
<1>4. ~Tells(c) /\ ~Tells(Top(t))
  BY <1>1 DEF Tells
<1> QED BY <1>1, <1>2, <1>3, <1>4, TopStep

LEMMA NotifyInStep ==
  ASSUME Typed, NEW t \in Threads, stack[t] # <<>>, Wave(t), Notify(t)
  PROVE  InStep'
<1>1. PICK c : /\ Onward(t, c) /\ Replaced(t, c) /\ Top(t).pc = "notify"
               /\ c.pc = "iterate" /\ Waiting(c) = Waiting(Top(t)) /\ UNCHANGED value
  BY NotifyDoes
<1>2. Tells(c) /\ Tells(Top(t)) /\ c.pc # "assign"
  BY <1>1 DEF Tells
<1> QED BY <1>1, <1>2, TopStep

LEMMA TellInStep ==
  ASSUME Typed, NEW t \in Threads, stack[t] # <<>>, Wave(t), Tell(t)
  PROVE  InStep'
<1>1. /\ Called(t) \in {PushListener, RenderListener} /\ Top(t).pc = "iterate"
      /\ UNCHANGED value /\ \E c : Iterated(t, c) /\ Replaced(t, c)
  BY TellDoes
<1>2. PICK c : Iterated(t, c) /\ Replaced(t, c)
  BY <1>1
<1>3. /\ Onward(t, c) /\ c.pc = "iterate" /\ Waiting(Top(t)) \ {Called(t)} \subseteq Waiting(c)
  BY <1>2 DEF Iterated
<1>4. \A l \in Edges : l \in Waiting(Top(t)) => l \in Waiting(c)
  <2>1. \A l \in Edges : l # Called(t)
    BY <1>1, AnswerFacts
  <2> QED BY <1>3, <2>1
<1>5. Tells(c) /\ Tells(Top(t)) /\ c.pc # "assign"
  BY <1>1, <1>3 DEF Tells
<1> QED BY <1>1, <1>2, <1>3, <1>4, <1>5, TopStep

LEMMA NoneLeftInStep ==
  ASSUME Typed, NEW t \in Threads, stack[t] # <<>>, Wave(t), NoneLeft(t)
  PROVE  InStep'
<1>1. Waiting(Top(t)) = {None} /\ Shrunk(t) /\ UNCHANGED value
  BY NoneLeftDoes
<1>2. \A l \in Edges : l \notin Waiting(Top(t))
  BY <1>1, AnswerFacts
<1> QED BY <1>1, <1>2, ReturnStep

\* A KVar is set to what it holds already: the setter returns.
LEMMA AssignSame ==
  ASSUME Typed, NEW t \in Threads, stack[t] # <<>>, Wave(t), Assign(t), Top(t).old = Top(t).new
  PROVE  InStep'
<1>1. /\ Top(t).pc = "assign" /\ value' = [value EXCEPT ![Top(t).kvar] = Top(t).new]
      /\ Shrunk(t)
  BY AssignDoes
<1>2. PICK d : d = Depth(t)
  OBVIOUS
<1>3. PICK f : f = Top(t)
  OBVIOUS
<1>4. d \in Nat \ {0} /\ f = stack[t][d] /\ f \in Frames /\ FrameTyped(f) /\ FrameOn(t, d)
  BY <1>2, <1>3, TopTyped, WaveFacts
<1>5. Fits(f, d, d, stack[t][d - 1].kvar, value, Target(t), Author(t))
  BY <1>2, <1>4 DEF FrameOn
<1>6. f.new = Want(t, f.kvar) /\ f.old = value[f.kvar] /\ f.kvar \in UrlKVars
  BY <1>1, <1>3, <1>4, <1>5, FrameFields DEF Fits, Want
<1>7. value[f.kvar] = Want(t, f.kvar) /\ UNCHANGED value
  <2>1. value' = [value EXCEPT ![f.kvar] = value[f.kvar]] /\ value \in [UrlKVars -> AnyValue]
    BY <1>1, <1>3, <1>6 DEF Typed
  <2> QED BY <1>1, <1>3, <1>6, <2>1
<1>8. ASSUME NEW l \in Edges, l \in Waiting(Top(t)) PROVE Agree(l) /\ Agree(Answer(l))
  <2>1. l = f.by
    BY <1>1, <1>3, <1>8 DEF Waiting
  <2>2. d # 1 /\ l.of = stack[t][d - 1].kvar
    BY <1>5, <2>1, AnswerFacts DEF Fits
  <2>3. l.to = f.kvar
    BY <1>4, <2>1, AnswerFacts DEF FrameTyped
  <2>4. PICK g : g = stack[t][d - 1]
    OBVIOUS
  <2>5. d - 1 \in 1..Depth(t) /\ d - 1 < Depth(t)
    BY <1>2, <1>4, <2>2
  <2>6. FrameOn(t, d - 1)
    BY <2>5, WaveFacts
  <2>7. g.new = Want(t, g.kvar) /\ value[g.kvar] = g.new
    BY <2>4, <2>5, <2>6 DEF FrameOn, Fits, Want, Tells
  <2>8. value[l.of] = Want(t, l.of) /\ value[l.to] = Want(t, l.to)
    BY <1>7, <2>2, <2>3, <2>4, <2>7
  <2> QED BY <2>8, WantAgrees
<1> QED BY <1>1, <1>7, <1>8, ReturnStep

\* A setter the application called is about to assign what is new: before, all
\* agree, and on another URL.
LEMMA NotThereYet ==
  ASSUME Typed, NEW t \in Threads, stack[t] # <<>>, Wave(t), Depth(t) = 1,
         Base(t).pc = "assign", Base(t).kvar # "urlSource",
         Base(t).new # value[Base(t).kvar]
  PROVE  value["urlSource"].url # Target(t)
<1>1. PICK f : f = Base(t)
  OBVIOUS
<1>2. f = Top(t) /\ f = stack[t][1] /\ FrameOn(t, 1) /\ f.kvar \in UrlKVars
  BY <1>1, WaveFacts DEF Base
<1>3. f.by = None /\ f.new = Want(t, f.kvar) /\ ~Tells(f)
  BY <1>1, <1>2, WaveFacts DEF FrameOn, Fits, Tells
<1>4. AllAgree
  <2>1. ToCome(t) = {None}
    <3>1. 1..Len(stack[t]) = {1} /\ Waiting(stack[t][1]) = {None}
      BY <1>1, <1>2, <1>3 DEF Waiting, Depth
    <3> QED BY <3>1 DEF ToCome
  <2>2. \A l \in Edges : l # None /\ Answer(l) # None
    BY AnswerFacts
  <2> QED BY <2>1, <2>2 DEF Wave, Reaches, AllAgree
<1>5. value["urlSource"].url = value["url"] /\ value["url"].path = value["path"]
  BY <1>4, TheyAgree
<1>6. f.kvar # "template"
  BY <1>1, WaveFacts
<1>7. value["url"] # Target(t)
  <2>1. CASE f.kvar = "url"
    BY <1>1, <1>3, <2>1, WantIs
  <2>2. CASE f.kvar = "path"
    <3>1. value["url"].path # Target(t).path
      BY <1>1, <1>3, <1>5, <2>2, WantIs
    <3> QED BY <3>1
  <2> QED BY <1>1, <1>2, <1>6, <2>1, <2>2 DEF UrlKVars
<1> QED BY <1>5, <1>7

\* A KVar is set to something else: all that listen to it are to come.
LEMMA AssignOther ==
  ASSUME Typed, NEW t \in Threads, stack[t] # <<>>, Wave(t), Assign(t), Top(t).old # Top(t).new
  PROVE  InStep'
<1>1. PICK c : /\ Top(t).pc = "assign" /\ value' = [value EXCEPT ![Top(t).kvar] = Top(t).new]
               /\ Onward(t, c) /\ Replaced(t, c) /\ c.pc = "notify"
  BY AssignDoes
<1>2. PICK f : f = Top(t)
  OBVIOUS
<1>3. PICK d : d = Depth(t)
  OBVIOUS
<1>4. d \in Nat \ {0} /\ f = stack[t][d] /\ f \in Frames /\ FrameTyped(f) /\ FrameOn(t, d)
  BY <1>2, <1>3, TopTyped, WaveFacts
<1>5. Fits(f, d, d, stack[t][d - 1].kvar, value, Target(t), Author(t))
  BY <1>3, <1>4 DEF FrameOn
<1>6. /\ f.new = Want(t, f.kvar) /\ f.old = value[f.kvar] /\ f.kvar \in UrlKVars
      /\ f.kvar # "template" /\ ~Tells(f)
  BY <1>1, <1>2, <1>4, <1>5, FrameFields DEF Fits, Want, Tells
<1>7. c.kvar = f.kvar /\ c.new = f.new /\ c.by = f.by
  BY <1>1, <1>2 DEF Onward
<1>8. /\ value'[f.kvar] = f.new /\ value[f.kvar] # f.new
      /\ \A k \in UrlKVars : k # f.kvar => value'[k] = value[k]
  BY <1>1, <1>2, <1>6 DEF Typed
<1>9. Goes(t) /\ ValueStep(t)
  BY <1>1, <1>2, <1>6 DEF Goes, ValueStep
<1>10. \A i \in 1..Depth(t)' : i \geq Depth(t) => FrameOn(t, i)'
  <2>1. Tells(c) /\ c.pc # "assign" /\ value'[c.kvar] = c.new
    BY <1>1, <1>7, <1>8 DEF Tells
  <2>2. \A i : i = Depth(t) => FrameOn(t, i)'
    BY <1>1, <1>9, <2>1, TopOn
  <2>3. Depth(t)' = Depth(t)
    BY <1>1 DEF Replaced, Depth
  <2> QED BY <1>3, <1>4, <2>2, <2>3
<1>11. Reaches(t)'
  <2>1. Reaches(t) /\ Waiting(c) = {l \in Listeners : l.of = f.kvar}
    BY <1>1, <1>7 DEF Wave, Waiting
  <2>2. \A l \in Listeners : l.of = f.kvar => l \in ToCome(t)'
    BY <1>1, <2>1, NewToCome
  <2>3. SUFFICES ASSUME NEW l \in Edges
                 PROVE  Agree(l)' \/ l \in ToCome(t)' \/ Answer(l) \in ToCome(t)'
    BY DEF Reaches
  <2>4. /\ Answer(l) \in Edges /\ Answer(Answer(l)) = l /\ l \in Listeners /\ Answer(l) \in Listeners
        /\ l # ToTemplate => Answer(l).of = l.to /\ Answer(l).to = l.of
        /\ l = ToTemplate => Answer(l) = l /\ l.to = "template"
    BY AnswerFacts, TheListeners, ListenersAre
  <2>5. CASE l.of = f.kvar \/ l.to = f.kvar
    <3>1. l.of = f.kvar \/ Answer(l).of = f.kvar
      BY <1>6, <2>4, <2>5
    <3> QED BY <2>2, <2>4, <3>1
  <2>6. CASE l.of # f.kvar /\ l.to # f.kvar
    <3>1. l.of \in UrlKVars /\ l.to \in UrlKVars
      BY <2>4, ByKind
    <3>2. Agree(l)' <=> Agree(l)
      BY <1>8, <2>6, <3>1, AgreeKept
    <3>3. Waiting(Top(t)) = {f.by} /\ (f.by # None => f.by.to = f.kvar)
      BY <1>1, <1>2, <1>4 DEF Waiting, FrameTyped
    <3>4. l \notin Waiting(Top(t)) /\ Answer(l) \notin Waiting(Top(t))
      BY <2>4, <2>6, <3>3, AnswerFacts
    <3>5. CASE Agree(l)
      BY <3>2, <3>5
    <3>6. CASE l \in ToCome(t)
      BY <1>9, <3>4, <3>6, StillToCome
    <3>7. CASE Answer(l) \in ToCome(t)
      <4>1. PICK m : m = Answer(l)
        OBVIOUS
      <4>2. m \in ToCome(t)'
        BY <1>9, <3>4, <3>7, <4>1, StillToCome
      <4> QED BY <4>1, <4>2
    <3> QED BY <2>1, <3>5, <3>6, <3>7 DEF Reaches
  <2> QED BY <2>5, <2>6
<1>12. ASSUME stack'[t] # <<>>, ~Tells(Base(t)) PROVE Signed(t)'
  <2>1. d = 1 /\ f = Base(t)
    BY <1>2, <1>3, <1>4, <1>12, WaveFacts
  <2>2. PICK target, author : target = Target(t) /\ author = Author(t)
    OBVIOUS
  <2>3. target = Target(t)' /\ author = Author(t)' /\ Base(t)'.kvar = f.kvar
    BY <1>9, <1>12, <2>1, <2>2, WaveFacts, TargetKept, BaseKept
  <2>4. CASE f.kvar = "urlSource"
    <3>1. value'["urlSource"] = Wanted(target, author, "urlSource")
      BY <1>6, <1>8, <2>2, <2>4 DEF Want
    <3> QED BY <2>3, <3>1 DEF Signed, Want
  <2>5. CASE f.kvar # "urlSource"
    <3>1. value'["urlSource"] = value["urlSource"]
      BY <1>8, <2>5 DEF UrlKVars
    <3>2. value["urlSource"].url # target
      BY <1>1, <1>2, <1>3, <1>6, <1>8, <2>1, <2>2, <2>5, NotThereYet
    <3> QED BY <2>3, <2>5, <3>1, <3>2 DEF Signed
  <2> QED BY <2>4, <2>5
<1> QED BY <1>9, <1>10, <1>11, <1>12, WaveGoesOn

\* A listener that sets another KVar sets it to what it is to hold.
LEMMA SetOtherInStep ==
  ASSUME Undisturbed, Typed, NEW t \in Threads, stack[t] # <<>>, Wave(t), SetOther(t)
  PROVE  InStep'
<1>1. /\ Top(t).pc = "iterate" /\ Called(t) \in {FromSource, ToSource, ToPath, FromPath, Redirect}
      /\ Called(t) \in Listeners /\ Called(t).of = Top(t).kvar /\ UNCHANGED value
      /\ \E c, d :
           /\ Iterated(t, c) /\ Grown(t, c, d)
           /\ d \in Frames /\ FrameTyped(d) /\ d.pc = "read"
           /\ d.kvar = Called(t).to /\ d.by = Called(t)
           /\ d.new = Result(Called(t), value[Called(t).to], Top(t).new)
  BY SetOtherDoes
<1>2. PICK l : l = Called(t)
  OBVIOUS
<1>3. PICK c, d : /\ Iterated(t, c) /\ Grown(t, c, d) /\ d.pc = "read" /\ d.kvar = l.to /\ d.by = l
                  /\ d.new = Result(l, value[l.to], Top(t).new)
  BY <1>1, <1>2
<1>4. l \in {FromSource, ToSource, ToPath, FromPath}
  BY <1>1, <1>2, TheListeners DEF Undisturbed
<1>5. l \in Edges /\ l.of = Top(t).kvar
  BY <1>1, <1>2, <1>4 DEF Edges
<1>6. /\ Onward(t, c) /\ c.pc = "iterate" /\ Waiting(Top(t)) \ {l} \subseteq Waiting(c)
  BY <1>2, <1>3 DEF Iterated
<1>7. Goes(t) /\ ValueStep(t)
  BY <1>1, <1>3, <1>6 DEF Goes, ValueStep
<1>8. /\ Tells(Top(t)) /\ Tells(Base(t)) /\ Top(t).new = Want(t, l.of) /\ value[l.of] = Want(t, l.of)
      /\ Target(t) \in Urls /\ Top(t) = stack[t][Depth(t)] /\ FrameOn(t, Depth(t))
  BY <1>1, <1>5, WaveFacts DEF Tells
<1>9. /\ value["url"] \in Urls /\ value["urlSource"] \in SourceValues /\ value["path"] \in Paths
      /\ Author(t) \in Sources3
  BY ValuesAre DEF Typed, UrlKVars, Author, Sources3
<1>10. PICK target, author : target = Target(t) /\ author = Author(t)
  OBVIOUS
<1>11. d.new = Want(t, l.to) /\ (l.to = "path" => value["url"].query = target.query)
       /\ l.to # "template"
  <2>1. UrlSource(target, author) \in SourceValues /\ target.path \in Paths /\ target \in Urls
    BY <1>8, <1>9, <1>10, UrlFacts
  <2>2. /\ Want(t, "urlSource") = UrlSource(target, author) /\ Want(t, "url") = target
        /\ Want(t, "path") = target.path
    BY <1>10, WantIs
  <2>3. CASE l = FromSource
    <3>1. Top(t).new = UrlSource(target, author) /\ l.to = "url"
      BY <1>8, <2>2, <2>3, ListenersAre
    <3>2. Result(FromSource, value["url"], UrlSource(target, author)) = UrlSource(target, author).url
      BY <1>9, <2>1, Results
    <3>3. UrlSource(target, author).url = target
      BY UrlFacts
    <3> QED BY <1>3, <2>2, <2>3, <3>1, <3>2, <3>3
  <2>4. CASE l = ToSource
    <3>1. Top(t).new = target /\ l.to = "urlSource"
      BY <1>8, <2>2, <2>4, ListenersAre
    <3>2. Result(ToSource, value["urlSource"], target) = SourceOfChange(value["urlSource"], target)
      BY <1>9, <2>1, Results
    <3>3. SourceOfChange(value["urlSource"], target) = UrlSource(target, author)
      <4>1. \/ value["urlSource"] = UrlSource(target, author)
            \/ author = "Server" /\ value["urlSource"].url # target
        BY <1>8, <1>10, <2>2 DEF Wave, Signed, Author
      <4>2. CASE value["urlSource"] = UrlSource(target, author)
        <5>1. PICK s : s = value["urlSource"]
          OBVIOUS
        <5>2. s.url = target /\ s.source = author
          BY <4>2, <5>1, UrlFacts
        <5> QED BY <5>1, <5>2 DEF SourceOfChange
      <4>3. CASE author = "Server" /\ value["urlSource"].url # target
        BY <4>3 DEF SourceOfChange
      <4> QED BY <4>1, <4>2, <4>3
    <3> QED BY <1>3, <2>2, <2>4, <3>1, <3>2, <3>3
  <2>5. CASE l = ToPath
    <3>1. Top(t).new = target /\ l.to = "path" /\ value["url"] = target
      BY <1>8, <2>2, <2>5, ListenersAre
    <3>2. Result(ToPath, value["path"], target) = target.path
      BY <1>9, <2>1, Results
    <3> QED BY <1>3, <2>2, <2>5, <3>1, <3>2
  <2>6. CASE l = FromPath
    <3>1. Top(t).new = target.path /\ l.to = "url" /\ Top(t).kvar = "path"
      BY <1>5, <1>8, <2>2, <2>6, ListenersAre
    <3>2. Result(FromPath, value["url"], target.path) = Rebuilt(value["url"], target.path)
      BY <1>9, <2>1, Results
    <3>3. value["url"].query = target.query
      BY <1>8, <1>10, <3>1 DEF FrameOn, Fits
    <3>4. target.query # "empty" /\ target = [path |-> target.path, query |-> target.query]
      BY <2>1, UrlFacts DEF Undisturbed
    <3>5. Rebuilt(value["url"], target.path) = target
      BY <3>3, <3>4 DEF Rebuilt
    <3> QED BY <1>3, <2>2, <2>6, <3>1, <3>2, <3>5
  <2> QED BY <1>4, <2>3, <2>4, <2>5, <2>6
<1>12. \A i : i = Depth(t) => FrameOn(t, i)'
  <2>1. c.pc # "assign" /\ Tells(c) /\ value'[c.kvar] = c.new
    BY <1>1, <1>6, <1>8, <1>5 DEF Tells, Onward
  <2> QED BY <1>3, <1>6, <1>7, <2>1, TopOn
<1>13. \A i : i = Depth(t) + 1 => FrameOn(t, i)'
  <2>1. d.pc # "assign" /\ ~Tells(d)
    BY <1>3 DEF Tells
  <2> QED BY <1>1, <1>3, <1>5, <1>6, <1>7, <1>10, <1>11, <2>1, NewOn
<1>14. \A i \in 1..Depth(t)' : i \geq Depth(t) => FrameOn(t, i)'
  <2>1. Depth(t)' = Depth(t) + 1 /\ Depth(t) \in Nat
    BY <1>3, TopTyped DEF Grown, Depth
  <2>2. \A i \in 1..Depth(t)' : i \geq Depth(t) => i = Depth(t) \/ i = Depth(t) + 1
    BY <2>1
  <2> QED BY <1>12, <1>13, <2>2
<1>15. \A m \in Edges : m \in Waiting(Top(t)) => m \in ToCome(t)'
  <2>1. Waiting(d) = {l}
    BY <1>3 DEF Waiting
  <2> QED BY <1>3, <1>6, <2>1, NewToCome
<1> QED BY <1>1, <1>7, <1>8, <1>14, <1>15, QuietStep

\* The template takes the path.
LEMMA UpdateMappedInStep ==
  ASSUME Typed, NEW t \in Threads, stack[t] # <<>>, Wave(t), UpdateMapped(t)
  PROVE  InStep'
<1>1. /\ Top(t).pc = "iterate" /\ Called(t) = ToTemplate /\ Top(t).kvar = "path"
      /\ value' = [value EXCEPT !["template"] = Top(t).new]
      /\ \E c : /\ Iterated(t, c)
                /\ \/ Replaced(t, c)
                   \/ \E d : /\ Grown(t, c, d)
                             /\ d \in Frames /\ FrameTyped(d) /\ d.pc = "notify"
                             /\ d.kvar = "template" /\ d.by = ToTemplate
                             /\ d.new = Top(t).new
  BY UpdateMappedDoes
<1>2. PICK c : /\ Iterated(t, c)
               /\ \/ Replaced(t, c)
                  \/ \E d : /\ Grown(t, c, d) /\ d.pc = "notify" /\ d.kvar = "template"
                            /\ d.by = ToTemplate /\ d.new = Top(t).new
  BY <1>1
<1>3. /\ Onward(t, c) /\ c.pc = "iterate" /\ Waiting(Top(t)) \ {ToTemplate} \subseteq Waiting(c)
  BY <1>1, <1>2 DEF Iterated
<1>4. /\ Tells(Base(t)) /\ Top(t).new = Want(t, "path") /\ value["path"] = Want(t, "path")
      /\ Want(t, "template") = Want(t, "path")
  BY <1>1, WaveFacts, WantIs DEF Tells
<1>5. /\ value'["template"] = Top(t).new
      /\ \A k \in UrlKVars \ {"template"} : value'[k] = value[k]
  BY <1>1 DEF Typed, UrlKVars
<1>6. Goes(t) /\ ValueStep(t)
  <2>1. "template" \in UrlKVars /\ value' = [value EXCEPT !["template"] = Want(t, "template")]
    BY <1>1, <1>4 DEF UrlKVars
  <2> QED BY <1>2, <1>3, <2>1 DEF Goes, ValueStep
<1>7. \A i : i = Depth(t) => FrameOn(t, i)'
  <2>1. c.kvar = "path" /\ c.new = Top(t).new /\ c.pc # "assign" /\ Tells(c)
    BY <1>1, <1>3 DEF Onward, Tells
  <2>2. value'[c.kvar] = c.new
    BY <1>4, <1>5, <2>1 DEF UrlKVars
  <2>3. Replaced(t, c) \/ \E d : Grown(t, c, d)
    BY <1>2
  <2> QED BY <1>3, <1>6, <2>1, <2>2, <2>3, TopOn
<1>8. \A d : Grown(t, c, d) /\ d.pc = "notify" /\ d.kvar = "template" /\ d.by = ToTemplate
               /\ d.new = Top(t).new
             => \A i : i = Depth(t) + 1 => FrameOn(t, i)'
  <2> SUFFICES ASSUME NEW d, Grown(t, c, d), d.pc = "notify", d.kvar = "template",
                      d.by = ToTemplate, d.new = Top(t).new
               PROVE  \A i : i = Depth(t) + 1 => FrameOn(t, i)'
    OBVIOUS
  <2>1. d.by \in Edges /\ d.by.of = Top(t).kvar
    BY <1>1, ListenersAre DEF Edges
  <2>2. d.pc # "assign" /\ Tells(d) /\ d.new = Want(t, d.kvar) /\ value'[d.kvar] = d.new
    BY <1>4, <1>5 DEF Tells
  <2> QED BY <1>3, <1>6, <2>1, <2>2, NewOn
<1>9. \A i \in 1..Depth(t)' : i \geq Depth(t) => FrameOn(t, i)'
  <2>1. Depth(t) \in Nat
    BY TopTyped
  <2>2. CASE Replaced(t, c)
    <3>1. Depth(t)' = Depth(t)
      BY <2>2 DEF Replaced, Depth
    <3> QED BY <1>7, <2>1, <3>1
  <2>3. ASSUME NEW d, Grown(t, c, d), d.pc = "notify", d.kvar = "template", d.by = ToTemplate,
               d.new = Top(t).new
        PROVE  \A i \in 1..Depth(t)' : i \geq Depth(t) => FrameOn(t, i)'
    <3>1. Depth(t)' = Depth(t) + 1
      BY <2>3 DEF Grown, Depth
    <3>2. \A i \in 1..Depth(t)' : i \geq Depth(t) => i = Depth(t) \/ i = Depth(t) + 1
      BY <2>1, <3>1
    <3> QED BY <1>7, <1>8, <2>3, <3>2
  <2> QED BY <1>2, <2>2, <2>3
<1>10. \A l \in Edges : l # ToTemplate => (Agree(l)' <=> Agree(l))
  <2> SUFFICES ASSUME NEW l \in Edges, l # ToTemplate PROVE Agree(l)' <=> Agree(l)
    OBVIOUS
  <2>1. l.of \in UrlKVars \ {"template"} /\ l.to \in UrlKVars \ {"template"}
    BY ListenersAre DEF Edges, UrlKVars
  <2> QED BY <1>5, <2>1, AgreeKept
<1>11. Agree(ToTemplate)' /\ Answer(ToTemplate) = ToTemplate /\ ToTemplate \in Edges
  <2>1. ToTemplate \notin {FromSource, ToSource, ToPath, FromPath}
    BY ListenersAre
  <2>2. value'["path"] = value'["template"]
    BY <1>4, <1>5 DEF UrlKVars
  <2> QED BY <2>1, <2>2 DEF Agree, Answer, Edges
<1>12. \A l \in Edges : l \in Waiting(Top(t)) =>
         l \in ToCome(t)' \/ (Agree(l)' /\ Agree(Answer(l))')
  <2>1. Waiting(c) \subseteq ToCome(t)'
    BY <1>2, NewToCome
  <2>2. \A l \in Edges : l = ToTemplate => Agree(l)' /\ Agree(Answer(l))'
    BY <1>11
  <2> QED BY <1>3, <2>1, <2>2
<1>13. Reaches(t)'
  <2>1. \A l \in Edges : Agree(l) => Agree(l)'
    BY <1>10, <1>11
  <2> QED BY <1>6, <1>12, <2>1, ReachesOn DEF Wave
<1> QED BY <1>4, <1>6, <1>9, <1>13, WaveGoesOn

LEMMA ProceedInStep ==
  ASSUME Undisturbed, Typed, InStep, NEW t \in Threads, Proceed(t)
  PROVE  InStep' /\ stack[t] # <<>> /\ Wave(t)
<1>1. stack[t] # <<>>
  BY NeverDone DEF Proceed, Read, Assign, Notify, NoneLeft, Tell, SetOther, UpdateMapped, UpdateMappedBy, Calls, At
<1>2. Wave(t)
  BY <1>1 DEF InStep
<1>3. CASE Assign(t)
  BY <1>1, <1>2, <1>3, AssignSame, AssignOther
<1> QED BY <1>1, <1>2, <1>3, NeverDone, ReadInStep, NotifyInStep, NoneLeftInStep, TellInStep,
           SetOtherInStep, UpdateMappedInStep DEF Proceed

\* A change begins where all is still.
LEMMA SetInStep ==
  ASSUME Undisturbed, Typed, InStep, NEW t \in Threads,
         NEW k \in UrlKVars \ {"template"}, NEW v \in UrlValues[k],
         k = "urlSource" => v.source = "Client", SetValue(t, k, v)
  PROVE  /\ InStep' /\ AllAgree /\ UNCHANGED value
         /\ \A u \in Threads : stack[u] = <<>>
         /\ stack'[t] # <<>> /\ Base(t)'.kvar = k /\ Base(t)'.new = v /\ ~Tells(Base(t)')
         /\ \A u \in Threads \ {t} : stack'[u] = <<>>
<1>1. MayCall(t) /\ UNCHANGED value
  BY SetValueDoes
<1>2. PICK d : Started(t, d) /\ d.kvar = k /\ d.new = v
  BY SetValueDoes
<1>3. \A u \in Threads : stack[u] = <<>>
  BY <1>1 DEF MayCall, Idle, Undisturbed
<1>4. AllAgree
  BY <1>3 DEF InStep
<1>5. /\ stack'[t] \in Seq(Frames) /\ Len(stack'[t]) = 1 /\ stack'[t][1] = d /\ stack'[t] # <<>>
      /\ \A u \in Threads \ {t} : stack'[u] = <<>>
  <2>1. stack'[t] \in Seq(Frames) /\ Len(stack'[t]) = 1 /\ stack'[t][1] = d
    BY <1>2 DEF Started, OthersStay
  <2>2. stack'[t] # <<>>
    BY <2>1
  <2>3. \A u \in Threads \ {t} : stack'[u] = <<>>
    BY <1>2, <1>3 DEF Started, OthersStay
  <2> QED BY <2>1, <2>2, <2>3
<1>6. d.pc = "read" /\ d.by = None /\ ~Tells(d)
  BY <1>2 DEF Started, Tells
<1>7. Base(t)' = d
  BY <1>5 DEF Base
<1>8. PICK target, author : target = Target(t)' /\ author = Author(t)'
  OBVIOUS
<1>9. d.new = Wanted(target, author, d.kvar) /\ (d.kvar = "path" => value'["url"].query = target.query)
  <2>1. CASE k = "urlSource"
    <3>1. target = v.url /\ author = "Client"
      BY <1>2, <1>7, <1>8, <2>1 DEF Target, Author
    <3>2. v = UrlSource(v.url, "Client")
      BY <2>1, ValuesAre, UrlFacts
    <3> QED BY <1>2, <2>1, <3>1, <3>2 DEF Wanted
  <2>2. CASE k = "url"
    <3>1. target = v
      BY <1>2, <1>7, <1>8, <2>2 DEF Target
    <3> QED BY <1>2, <2>2, <3>1 DEF Wanted
  <2>3. CASE k = "path"
    <3>1. target = [path |-> v, query |-> value'["url"].query]
      BY <1>2, <1>7, <1>8, <2>3 DEF Target
    <3> QED BY <1>2, <2>3, <3>1 DEF Wanted
  <2> QED BY <2>1, <2>2, <2>3 DEF UrlKVars
<1>10. Wave(t)'
  <2>1. ASSUME NEW i \in 1..Len(stack'[t]) PROVE FrameOn(t, i)'
    <3>1. i = 1 /\ Depth(t)' = 1
      BY <1>5 DEF Depth
    <3>2. Fits(d, i, 1, stack'[t][i - 1].kvar, value', target, author)
      BY <1>2, <1>6, <1>9, <3>1 DEF Fits
    <3> QED BY <1>5, <1>8, <3>1, <3>2 DEF FrameOn
  <2>2. Reaches(t)'
    <3>1. \A l \in Edges : Agree(l)'
      BY <1>1, <1>4, AgreeKept DEF AllAgree
    <3> QED BY <3>1 DEF Reaches
  <2>3. Signed(t)'
    BY <1>6, <1>7 DEF Signed
  <2> QED BY <1>2, <1>5, <1>7, <2>1, <2>2, <2>3 DEF Wave
<1>11. InStep'
  BY <1>5, <1>10 DEF InStep
<1> QED BY <1>1, <1>2, <1>3, <1>4, <1>5, <1>6, <1>7, <1>11

LEMMA InStepKept ==
  ASSUME InStep, UNCHANGED <<value, stack>>
  PROVE  InStep'
<1>1. \A l \in Edges : Agree(l)' <=> Agree(l)
  BY AgreeKept
<1>2. AllAgree' <=> AllAgree
  BY AllAgreeKept
<1>3. ASSUME NEW t \in Threads, Wave(t) PROVE Wave(t)'
  <2>1. Base(t)' = Base(t) /\ Depth(t)' = Depth(t) /\ Target(t)' = Target(t)
        /\ Author(t)' = Author(t) /\ ToCome(t)' = ToCome(t)
    BY DEF Base, Depth, Target, Author, ToCome
  <2>2. \A i : FrameOn(t, i)' <=> FrameOn(t, i)
    BY <2>1 DEF FrameOn
  <2>3. Reaches(t)'
    BY <1>1, <1>3, <2>1 DEF Wave, Reaches
  <2>4. Signed(t)'
    BY <1>3, <2>1 DEF Wave, Signed, Want
  <2> QED BY <1>3, <2>1, <2>2, <2>3, <2>4 DEF Wave
<1> QED BY <1>2, <1>3 DEF InStep

-----------------------------------------------------------------------------
(***************************************************************************)
(* The types.                                                              *)
(***************************************************************************)
LEMMA InitTyped ==
  ASSUME UrlInit
  PROVE  Typed /\ HistoryTyped /\ AllAgree /\ (\A t \in Threads : stack[t] = <<>>)
<1>1. PICK u \in Urls : value = UrlInitially(u)
  BY UrlGraphAssumption DEF UrlInit, Init, UrlInitialValues
<1>2. /\ value["urlSource"] = UrlSource(u, "Initial") /\ value["url"] = u
      /\ value["path"] = u.path /\ value["template"] = u.path
  BY <1>1 DEF UrlInitially, UrlKVars
<1>3. /\ UrlSource(u, "Initial") \in SourceValues /\ u.path \in Paths
  BY UrlFacts DEF Sources3
<1>4. \A k \in UrlKVars : value[k] \in UrlValues[k] /\ value[k] \in AnyValue
  BY <1>2, <1>3, ValuesAre DEF UrlKVars
<1>5. ValuesTyped
  BY <1>1, <1>4 DEF ValuesTyped, UrlInitially
<1>6. /\ AllOpen /\ told = [l \in Tellers |-> value[l.of]] /\ sets = 0
      /\ stack = [t \in Threads |-> <<>>]
  BY DEF UrlInit, Init, AllOpen
<1>7. ToldTyped
  <2>1. \A l \in Tellers : l.of \in UrlKVars
    BY ByKind DEF Tellers
  <2> QED BY <1>4, <1>6, <2>1 DEF ToldTyped
<1>8. Stacks /\ FramesTyped /\ \A t \in Threads : stack[t] = <<>>
  BY <1>6 DEF Stacks, FramesTyped, Depth
<1>9. Typed
  BY <1>5, <1>6, <1>7, <1>8, TypedParts, GraphAssumption
<1>10. HistoryTyped
  <2>1. /\ entries = <<u>> /\ index = 1 /\ popstates = <<>> /\ out = <<>>
        /\ page = u.path /\ crossed = FALSE
    BY <1>2 DEF UrlInit
  <2>2. entries \in Seq(Urls) /\ index \in 1..Len(entries)
    BY <2>1
  <2>3. popstates \in Seq(Urls) /\ out \in Seq(Messages)
    BY <2>1
  <2> QED BY <1>3, <2>1, <2>2, <2>3 DEF HistoryTyped
<1>11. AllAgree
  <2>1. UrlSource(u, "Initial").url = u
    BY UrlFacts
  <2>2. value["urlSource"].url = value["url"] /\ value["url"].path = value["path"]
        /\ value["path"] = value["template"]
    BY <1>2, <2>1
  <2> QED BY <2>2 DEF AllAgree, Agree, Edges
<1> QED BY <1>8, <1>9, <1>10, <1>11

\* What a step of the page's URL is.
LEMMA StepsAre ==
  ASSUME Typed, HistoryTyped, UrlNext
  PROVE  \/ \E t \in Threads : Propagate(t) \/ ReceivePopstate(t)
         \/ \E t \in Threads : \E k \in {"url", "path"} : \E v \in UrlValues[k] : SetUrl(t, k, v)
         \/ \E i \in DOMAIN entries : Navigate(i)
         \/ ReceiveMessage
BY ValuesAre DEF UrlNext

LEMMA NextTyped ==
  ASSUME Typed, HistoryTyped, UrlNext
  PROVE  Typed' /\ HistoryTyped'
<1>1. ASSUME NEW t \in Threads, Propagate(t) \/ ReceivePopstate(t) PROVE Typed' /\ HistoryTyped'
  BY <1>1, PropagateTyped, ReceivePopstateTyped
<1>2. ASSUME NEW t \in Threads, NEW k \in {"url", "path"}, NEW v \in UrlValues[k], SetUrl(t, k, v)
      PROVE  Typed' /\ HistoryTyped'
  BY <1>2, SetUrlTyped DEF UrlKVars
<1>3. ASSUME NEW i \in DOMAIN entries, Navigate(i) PROVE Typed' /\ HistoryTyped'
  BY <1>3, NavigateTyped
<1> QED BY <1>1, <1>2, <1>3, StepsAre, ReceiveMessageTyped

LEMMA StutterTyped ==
  ASSUME Typed, HistoryTyped, UNCHANGED <<vars, urlVars>>
  PROVE  Typed' /\ HistoryTyped'
<1>1. /\ UNCHANGED <<value, closeReason, listening, told, stack, sets>>
      /\ UNCHANGED <<entries, index, popstates, out, page, crossed>>
  BY DEF vars, urlVars, historyVars
<1>2. ValuesTyped /\ AllOpen /\ ToldTyped /\ Stacks /\ FramesTyped /\ sets \in 0..MaxSets
  BY TypedParts
<1>3. Typed'
  BY <1>1, <1>2, Unchanged, TypedNext
<1> QED BY <1>1, <1>3 DEF HistoryTyped

LEMMA TypesFollow ==
  ASSUME Typed, HistoryTyped
  PROVE  UrlTypeOK
<1>1. KVars = UrlKVars /\ ValuesOf = UrlValues
  BY ValuesAre
<1>2. TypeOK
  <2>1. \A k \in KVars : value[k] \in ValuesOf[k]
    BY <1>1 DEF Typed
  <2>2. closeReason \in [KVars -> {"open", "called", "source", "mapper"}]
    BY DEF Typed
  <2>3. \A l \in Tellers : told[l] \in ValuesOf[l.of]
    BY <1>1 DEF Typed
  <2>4. ASSUME NEW t \in Threads, NEW i \in DOMAIN stack[t] PROVE IsCall(stack[t][i])
    <3>1. stack[t] \in Seq(Frames)
      BY DEF Typed
    <3>2. i \in 1..Len(stack[t]) /\ stack[t][i] \in Frames
      BY <3>1
    <3>3. FrameTyped(stack[t][i])
      BY <3>2 DEF Typed
    <3> QED BY <1>1, <3>2, <3>3, FrameFields DEF IsCall, FrameTyped
  <2> QED BY <2>1, <2>2, <2>3, <2>4 DEF TypeOK, Typed
<1>3. entries \in Seq(Urls) /\ index \in DOMAIN entries /\ popstates \in Seq(Urls)
      /\ page \in Paths /\ crossed \in BOOLEAN
  BY DEF HistoryTyped
<1>4. ASSUME NEW i \in DOMAIN out
      PROVE  \/ out[i].kind = "pushState" /\ out[i].url \in Urls
             \/ out[i].kind = "draw" /\ out[i].template \in Paths
  <2>1. out[i] \in Messages
    BY DEF HistoryTyped
  <2> QED BY <2>1 DEF Messages
<1> QED BY <1>2, <1>3, <1>4 DEF UrlTypeOK

\* Every variable has its type, however many threads there are, whether or not
\* they take turns, and with a page that redirects: the calls on every stack are
\* of a KVar, about values it may hold and listeners that are its own.
THEOREM TypesCorrect == UrlSpec => []UrlTypeOK
<1>1. UrlInit => Typed /\ HistoryTyped
  BY InitTyped
<1>2. Typed /\ HistoryTyped /\ [UrlNext]_<<vars, urlVars>> => Typed' /\ HistoryTyped'
  BY NextTyped, StutterTyped
<1>3. Typed /\ HistoryTyped => UrlTypeOK
  BY TypesFollow
<1> QED BY <1>1, <1>2, <1>3, PTL DEF UrlSpec

-----------------------------------------------------------------------------
(***************************************************************************)
(* Where what is on its way leads the browser.                             *)
(***************************************************************************)
LEMMA DrawingsLead ==
  ASSUME HistoryTyped, NEW m \in Seq(Messages), out' = out \o m, UNCHANGED <<entries, index>>,
         \A i \in 1..Len(m) : m[i].kind # "pushState"
  PROVE  /\ NoPush => NoPush'
         /\ \A u : LeadsTo(u) => LeadsTo(u)'
<1>1. /\ out \in Seq(Messages) /\ Len(out) \in Nat /\ Len(m) \in Nat /\ Len(out') = Len(out) + Len(m)
      /\ \A i \in 1..Len(out) : out'[i] = out[i]
      /\ \A i \in Len(out) + 1..Len(out') : out'[i] = m[i - Len(out)]
  BY DEF HistoryTyped
<1>2. \A i \in Len(out) + 1..Len(out') : out'[i].kind # "pushState"
  <2> SUFFICES ASSUME NEW i \in Len(out) + 1..Len(out') PROVE out'[i].kind # "pushState"
    OBVIOUS
  <2>1. i - Len(out) \in 1..Len(m)
    BY <1>1
  <2> QED BY <1>1, <2>1
<1>3. ASSUME NoPush PROVE NoPush'
  <2> SUFFICES ASSUME NEW i \in 1..Len(out') PROVE out'[i].kind # "pushState"
    BY DEF NoPush
  <2>1. i \in 1..Len(out) \/ i \in Len(out) + 1..Len(out')
    BY <1>1
  <2> QED BY <1>1, <1>2, <1>3, <2>1 DEF NoPush
<1>4. ASSUME NEW u, LeadsTo(u) PROVE LeadsTo(u)'
  <2>1. CASE NoPush /\ entries[index] = u
    BY <1>3, <2>1 DEF LeadsTo
  <2>2. ASSUME NEW i \in 1..Len(out), out[i].kind = "pushState", out[i].url = u,
               \A j \in (i + 1)..Len(out) : out[j].kind # "pushState"
        PROVE  LeadsTo(u)'
    <3>1. i \in 1..Len(out') /\ out'[i] = out[i]
      BY <1>1, <2>2
    <3>2. ASSUME NEW j \in (i + 1)..Len(out') PROVE out'[j].kind # "pushState"
      <4>1. j \in (i + 1)..Len(out) \/ j \in Len(out) + 1..Len(out')
        BY <1>1, <2>2
      <4>2. CASE j \in (i + 1)..Len(out)
        <5>1. j \in 1..Len(out)
          BY <4>2, <2>2
        <5> QED BY <1>1, <2>2, <4>2, <5>1
      <4> QED BY <1>2, <4>1, <4>2
    <3> QED BY <2>2, <3>1, <3>2 DEF LeadsTo
  <2> QED BY <1>4, <2>1, <2>2 DEF LeadsTo
<1> QED BY <1>3, <1>4

LEMMA PushLeads ==
  ASSUME HistoryTyped, NEW u \in Urls, out' = out \o <<[kind |-> "pushState", url |-> u]>>
  PROVE  LeadsTo(u)'
<1> DEFINE m == [kind |-> "pushState", url |-> u]
<1>1. m \in Messages /\ m.kind = "pushState" /\ m.url = u
  BY DEF Messages
<1> HIDE DEF m
<1>2. /\ Len(out) \in Nat /\ Len(out') = Len(out) + 1 /\ out'[Len(out) + 1] = m
  BY <1>1 DEF HistoryTyped, m
<1>3. PICK i : i = Len(out) + 1
  OBVIOUS
<1>4. i \in 1..Len(out') /\ out'[i].kind = "pushState" /\ out'[i].url = u
      /\ \A j \in (i + 1)..Len(out') : out'[j].kind # "pushState"
  BY <1>1, <1>2, <1>3
<1> QED BY <1>4 DEF LeadsTo

LEMMA ReceivedLeads ==
  ASSUME Typed, HistoryTyped, ReceiveMessage
  PROVE  /\ NoPush => NoPush' /\ UNCHANGED <<entries, index>>
         /\ \A u : LeadsTo(u) => LeadsTo(u)'
<1>1. /\ out # <<>> /\ out' = Tail(out)
      /\ \/ Head(out).kind = "draw" /\ UNCHANGED <<entries, index>>
         \/ Head(out).kind = "pushState" /\ entries'[index'] = Head(out).url
  BY ReceiveMessageTyped
<1>2. /\ Len(out) \in Nat \ {0} /\ Len(out') = Len(out) - 1 /\ Head(out) = out[1]
      /\ \A i \in 1..Len(out') : out'[i] = out[i + 1]
  BY <1>1, EmptySeq DEF HistoryTyped
<1>3. ASSUME NoPush PROVE NoPush' /\ UNCHANGED <<entries, index>>
  <2>1. out[1].kind # "pushState"
    BY <1>2, <1>3 DEF NoPush
  <2>2. \A i \in 1..Len(out') : out'[i].kind # "pushState"
    <3> SUFFICES ASSUME NEW i \in 1..Len(out') PROVE out'[i].kind # "pushState"
      OBVIOUS
    <3>1. i + 1 \in 1..Len(out)
      BY <1>2
    <3> QED BY <1>2, <1>3, <3>1 DEF NoPush
  <2> QED BY <1>1, <1>2, <2>1, <2>2 DEF NoPush
<1>4. ASSUME NEW u, LeadsTo(u) PROVE LeadsTo(u)'
  <2>1. CASE NoPush /\ entries[index] = u
    BY <1>3, <2>1 DEF LeadsTo
  <2>2. ASSUME NEW i \in 1..Len(out), out[i].kind = "pushState", out[i].url = u,
               \A j \in (i + 1)..Len(out) : out[j].kind # "pushState"
        PROVE  LeadsTo(u)'
    <3>1. CASE i = 1
      <4>1. entries'[index'] = u
        BY <1>1, <1>2, <2>2, <3>1
      <4>2. NoPush'
        <5> SUFFICES ASSUME NEW j \in 1..Len(out') PROVE out'[j].kind # "pushState"
          BY DEF NoPush
        <5>1. j + 1 \in (i + 1)..Len(out)
          BY <1>2, <3>1
        <5> QED BY <1>2, <2>2, <5>1
      <4> QED BY <4>1, <4>2 DEF LeadsTo
    <3>2. CASE i # 1
      <4>1. PICK n : n = i - 1
        OBVIOUS
      <4>2. n \in 1..Len(out') /\ out'[n] = out[i]
        BY <1>2, <3>2, <4>1
      <4>3. ASSUME NEW j \in (n + 1)..Len(out') PROVE out'[j].kind # "pushState"
        <5>1. j + 1 \in (i + 1)..Len(out) /\ j \in 1..Len(out')
          BY <1>2, <2>2, <3>2, <4>1
        <5> QED BY <1>2, <2>2, <5>1
      <4> QED BY <2>2, <4>2, <4>3 DEF LeadsTo
    <3> QED BY <3>1, <3>2
  <2> QED BY <1>4, <2>1, <2>2 DEF LeadsTo
<1> QED BY <1>3, <1>4

-----------------------------------------------------------------------------
(***************************************************************************)
(* What a step of a change does, as far as the browser is concerned.       *)
(***************************************************************************)
LEMMA ProceedGoes ==
  ASSUME Typed, NEW t \in Threads, stack[t] # <<>>, Wave(t), Proceed(t)
  PROVE  Goes(t) /\ ValueStep(t)
<1>1. Top(t).kvar \in UrlKVars /\ Top(t).new = Want(t, Top(t).kvar)
  BY WaveFacts
<1>2. CASE Read(t)
  BY <1>2, ReadDoes DEF Goes, ValueStep
<1>3. CASE Assign(t)
  BY <1>1, <1>3, AssignDoes DEF Goes, ValueStep
<1>4. CASE Notify(t)
  BY <1>4, NotifyDoes DEF Goes, ValueStep
<1>5. CASE NoneLeft(t)
  BY <1>5, NoneLeftDoes DEF Goes, ValueStep
<1>6. CASE Tell(t)
  BY <1>6, TellDoes DEF Goes, ValueStep, Iterated
<1>7. CASE SetOther(t)
  BY <1>7, SetOtherDoes DEF Goes, ValueStep, Iterated
<1>8. CASE UpdateMapped(t)
  <2>1. /\ Top(t).kvar = "path" /\ value' = [value EXCEPT !["template"] = Top(t).new]
        /\ \E c : Iterated(t, c) /\ (Replaced(t, c) \/ \E d : Grown(t, c, d))
    BY <1>8, UpdateMappedDoes
  <2>2. "template" \in UrlKVars /\ Top(t).new = Want(t, "template")
    BY <1>1, <2>1, WantIs DEF UrlKVars
  <2>3. ValueStep(t)
    BY <2>1, <2>2 DEF ValueStep
  <2> QED BY <2>1, <2>3 DEF Goes, Iterated
<1> QED BY <1>2, <1>3, <1>4, <1>5, <1>6, <1>7, <1>8, NeverDone DEF Proceed

\* Only a change of the server's is pushed, and as the URL it leads to.
LEMMA Sends ==
  ASSUME Typed, NEW t \in Threads, stack[t] # <<>>, Wave(t)
  PROVE  /\ MessageOf(t) \in Seq(Messages)
         /\ \/ \A i \in 1..Len(MessageOf(t)) : MessageOf(t)[i].kind # "pushState"
            \/ /\ Base(t).kvar # "urlSource"
               /\ MessageOf(t) = <<[kind |-> "pushState", url |-> Target(t)]>>
         /\ Calls(t, {"tell"}) /\ Called(t) = PushListener /\ Base(t).kvar # "urlSource" =>
              MessageOf(t) = <<[kind |-> "pushState", url |-> Target(t)]>>
<1>1. MessageOf(t) \in Seq(Messages)
  BY MessageTyped
<1>2. CASE MessageOf(t) = <<>> /\ ~Calls(t, {"tell"})
  BY <1>1, <1>2
<1>3. CASE Calls(t, {"tell"}) /\ Called(t) = RenderListener
  <2>1. MessageOf(t) = <<[kind |-> "draw", template |-> Top(t).new]>>
    BY <1>3, MessageTyped
  <2>2. \A i \in 1..Len(MessageOf(t)) : MessageOf(t)[i].kind # "pushState"
    BY <2>1
  <2>3. Called(t) # PushListener
    BY <1>3, ListenersAre
  <2> QED BY <1>1, <2>2, <2>3
<1>4. CASE Calls(t, {"tell"}) /\ Called(t) # RenderListener
  <2>1. /\ Top(t).kvar = "urlSource"
        /\ MessageOf(t) = IF Top(t).new.source = "Server"
                          THEN <<[kind |-> "pushState", url |-> Top(t).new.url]>> ELSE <<>>
    BY <1>4, MessageTyped
  <2>2. Top(t).new = UrlSource(Target(t), Author(t))
    BY <2>1, WaveFacts, WantIs
  <2>3. Top(t).new.source = Author(t) /\ Top(t).new.url = Target(t)
    BY <2>2, UrlFacts
  <2>4. CASE Base(t).kvar = "urlSource"
    <3>1. MessageOf(t) = <<>>
      BY <2>1, <2>3, <2>4 DEF Author
    <3> QED BY <1>1, <2>4, <3>1
  <2>5. CASE Base(t).kvar # "urlSource"
    <3>1. MessageOf(t) = <<[kind |-> "pushState", url |-> Target(t)]>>
      BY <2>1, <2>3, <2>5 DEF Author
    <3> QED BY <1>1, <2>5, <3>1
  <2> QED BY <2>4, <2>5
<1> QED BY <1>2, <1>3, <1>4, MessageTyped

\* The listener that pushes is called, or still to come; and it is, once the source
\* of the URL has been set.
LEMMA PushToCome ==
  ASSUME Typed, NEW t \in Threads, stack[t] # <<>>, Wave(t), Proceed(t)
  PROVE  /\ PushListener \in ToCome(t) =>
              \/ PushListener \in ToCome(t)'
              \/ Calls(t, {"tell"}) /\ Called(t) = PushListener
         /\ value'["urlSource"] # value["urlSource"] => PushListener \in ToCome(t)'
<1>1. Goes(t)
  BY ProceedGoes
<1>2. PushListener \notin Edges /\ PushListener # None /\ PushListener \in Listeners
      /\ PushListener.of = "urlSource"
  BY TheListeners, ListenersAre, ByKind, AnswerFacts
<1>3. Top(t).by \in Edges \cup {None}
  <2>1. FrameOn(t, Depth(t)) /\ Top(t) = stack[t][Depth(t)]
    BY WaveFacts
  <2> QED BY <2>1 DEF FrameOn, Fits
<1> DEFINE Kept == PushListener \in Waiting(Top(t)) =>
                     \/ PushListener \in ToCome(t)'
                     \/ Calls(t, {"tell"}) /\ Called(t) = PushListener
           Set == value'["urlSource"] # value["urlSource"] => PushListener \in ToCome(t)'
<1>4. CASE Read(t)
  <2>1. Waiting(Top(t)) = {Top(t).by} /\ UNCHANGED value
    BY <1>4, ReadDoes DEF Waiting
  <2> QED BY <1>1, <1>2, <1>3, <2>1, StillToCome
<1>5. CASE Assign(t)
  <2>1. /\ Top(t).pc = "assign" /\ value' = [value EXCEPT ![Top(t).kvar] = Top(t).new]
        /\ \/ Top(t).old = Top(t).new
           \/ \E c : Onward(t, c) /\ Replaced(t, c) /\ c.pc = "notify"
    BY <1>5, AssignDoes
  <2>2. Waiting(Top(t)) = {Top(t).by}
    BY <2>1 DEF Waiting
  <2>3. Set
    <3> SUFFICES ASSUME value'["urlSource"] # value["urlSource"]
                 PROVE  PushListener \in ToCome(t)'
      OBVIOUS
    <3>1. Top(t).kvar = "urlSource" /\ Top(t).new # value["urlSource"]
      BY <2>1 DEF Typed, UrlKVars
    <3>2. Top(t).old = value["urlSource"]
      <4>1. FrameOn(t, Depth(t)) /\ Top(t) = stack[t][Depth(t)]
        BY WaveFacts
      <4> QED BY <2>1, <3>1, <4>1 DEF FrameOn, Fits
    <3>3. PICK c : Onward(t, c) /\ Replaced(t, c) /\ c.pc = "notify"
      BY <2>1, <3>1, <3>2
    <3>4. PushListener \in Waiting(c)
      BY <1>2, <3>1, <3>3 DEF Waiting, Onward
    <3> QED BY <3>3, <3>4, NewToCome
  <2> QED BY <1>1, <1>2, <1>3, <2>2, <2>3, StillToCome
<1>6. CASE Notify(t)
  <2>1. UNCHANGED value /\ \E c : Replaced(t, c) /\ Waiting(c) = Waiting(Top(t))
    BY <1>6, NotifyDoes
  <2>2. Waiting(Top(t)) \subseteq ToCome(t)'
    BY <2>1, NewToCome
  <2> QED BY <1>1, <2>1, <2>2, StillToCome
<1>7. CASE NoneLeft(t)
  <2>1. Waiting(Top(t)) = {None} /\ UNCHANGED value
    BY <1>7, NoneLeftDoes
  <2> QED BY <1>1, <1>2, <2>1, StillToCome
<1>8. CASE Tell(t)
  <2>1. /\ UNCHANGED value /\ Calls(t, {"tell"})
        /\ \E c : Iterated(t, c) /\ Replaced(t, c)
    BY <1>8, TellDoes
  <2>2. Waiting(Top(t)) \ {Called(t)} \subseteq ToCome(t)'
    BY <2>1, NewToCome DEF Iterated
  <2> QED BY <1>1, <2>1, <2>2, StillToCome
<1>9. CASE SetOther(t)
  <2>1. /\ UNCHANGED value /\ \E c, d : Iterated(t, c) /\ Grown(t, c, d)
        /\ Called(t) \in {FromSource, ToSource, ToPath, FromPath, Redirect}
    BY <1>9, SetOtherDoes
  <2>2. Waiting(Top(t)) \ {Called(t)} \subseteq ToCome(t)'
    BY <2>1, NewToCome DEF Iterated
  <2>3. Called(t) # PushListener
    BY <2>1, ListenersAre
  <2> QED BY <1>1, <2>1, <2>2, <2>3, StillToCome
<1>10. CASE UpdateMapped(t)
  <2>1. /\ Called(t) = ToTemplate /\ value' = [value EXCEPT !["template"] = Top(t).new]
        /\ \E c : Iterated(t, c) /\ (Replaced(t, c) \/ \E d : Grown(t, c, d))
    BY <1>10, UpdateMappedDoes
  <2>2. Waiting(Top(t)) \ {Called(t)} \subseteq ToCome(t)'
    BY <2>1, NewToCome DEF Iterated
  <2>3. Called(t) # PushListener /\ value'["urlSource"] = value["urlSource"]
    BY <2>1, ListenersAre DEF Typed, UrlKVars
  <2> QED BY <1>1, <2>2, <2>3, StillToCome
<1> QED BY <1>4, <1>5, <1>6, <1>7, <1>8, <1>9, <1>10, NeverDone DEF Proceed

\* The call of the application returns: all hold what the change was to.
LEMMA AtTheEnd ==
  ASSUME Typed, NEW t \in Threads, stack[t] # <<>>, Wave(t), Proceed(t), stack'[t] = <<>>,
         AllAgree'
  PROVE  /\ Depth(t) = 1 /\ UNCHANGED value
         /\ Base(t).new = value[Base(t).kvar] /\ value["url"] = Target(t)
         /\ Tells(Base(t)) =>
              /\ ToCome(t) = {None}
              /\ Base(t).kvar # "urlSource" => value["urlSource"] = Want(t, "urlSource")
<1>1. Goes(t) /\ ValueStep(t)
  BY ProceedGoes
<1>2. Depth(t) \in Nat \ {0} /\ Depth(t) = 1
  BY <1>1, TopTyped, BaseKept
<1>3. PICK f : f = Base(t)
  OBVIOUS
<1>4. /\ f = Top(t) /\ f = stack[t][1] /\ FrameOn(t, 1) /\ f.kvar \in UrlKVars
      /\ f.kvar # "template" /\ f.new = Want(t, f.kvar)
  BY <1>2, <1>3, WaveFacts DEF Base
<1>5. Shrunk(t)
  <2>1. \A c : ~Replaced(t, c) /\ \A d : ~Grown(t, c, d)
    <3>1. Len(stack'[t]) = 0
      OBVIOUS
    <3> QED BY <1>2, <3>1 DEF Replaced, Grown
  <2> QED BY <1>1, <2>1 DEF Goes
<1>6. \/ f.pc = "assign" /\ f.old = f.new /\ value' = [value EXCEPT ![f.kvar] = f.new]
      \/ f.pc = "iterate" /\ Waiting(f) = {None} /\ UNCHANGED value
  <2>1. \A c : ~Replaced(t, c) /\ \A d : ~Grown(t, c, d)
    <3>1. Len(stack'[t]) = 0
      OBVIOUS
    <3> QED BY <1>2, <3>1 DEF Replaced, Grown
  <2>2. Assign(t) \/ NoneLeft(t)
    BY <2>1, NeverDone, ReadDoes, NotifyDoes, TellDoes, SetOtherDoes, UpdateMappedDoes DEF Proceed
  <2>3. CASE Assign(t)
    BY <1>4, <2>1, <2>3, AssignDoes
  <2>4. CASE NoneLeft(t)
    BY <1>4, <2>4, NoneLeftDoes
  <2> QED BY <2>2, <2>3, <2>4
<1>7. value[f.kvar] = f.new
  BY <1>4, <1>6 DEF FrameOn, Fits, Tells
<1>8. UNCHANGED value
  <2>1. value \in [UrlKVars -> AnyValue] /\ f.new = value[f.kvar]
    BY <1>7 DEF Typed
  <2> QED BY <1>6, <2>1
<1>9. value["urlSource"].url = value["url"] /\ value["url"].path = value["path"]
  BY <1>8, TheyAgree, AllAgreeKept
<1>10. value["url"] = Target(t)
  <2>1. CASE f.kvar = "urlSource"
    <3>1. value["urlSource"] = UrlSource(Target(t), Author(t))
      BY <1>4, <1>7, <2>1, WantIs
    <3>2. UrlSource(Target(t), Author(t)).url = Target(t)
      BY UrlFacts
    <3>3. value["urlSource"].url = Target(t)
      BY <3>1, <3>2
    <3> QED BY <1>9, <3>3
  <2>2. CASE f.kvar = "url"
    BY <1>4, <1>7, <2>2, WantIs
  <2>3. CASE f.kvar = "path"
    <3>1. value["url"].path = Target(t).path
      BY <1>4, <1>7, <1>9, <2>3, WantIs
    <3>2. value["url"].query = Target(t).query
      BY <1>4, <2>3 DEF FrameOn, Fits
    <3>3. value["url"] \in Urls /\ Target(t) \in Urls
      BY ValuesAre, WaveFacts DEF Typed, UrlKVars
    <3> QED BY <3>1, <3>2, <3>3, UrlFacts
  <2> QED BY <1>4, <2>1, <2>2, <2>3 DEF UrlKVars
<1>11. ASSUME Tells(f)
       PROVE  /\ ToCome(t) = {None}
              /\ f.kvar # "urlSource" => value["urlSource"] = Want(t, "urlSource")
  <2>1. Waiting(f) = {None}
    BY <1>6, <1>11 DEF Tells
  <2>2. ToCome(t) = {None}
    <3>1. 1..Len(stack[t]) = {1} /\ Waiting(stack[t][1]) = {None}
      BY <1>2, <1>4, <2>1 DEF Depth
    <3> QED BY <3>1 DEF ToCome
  <2> QED BY <1>3, <1>9, <1>10, <1>11, <2>2 DEF Wave, Signed
<1> QED BY <1>2, <1>3, <1>7, <1>8, <1>10, <1>11

\* The setter that the application called has begun to tell its listeners: it does
\* until it returns.
LEMMA TellingGoesOn ==
  ASSUME Typed, NEW t \in Threads, stack[t] # <<>>, Wave(t), Proceed(t), stack'[t] # <<>>,
         Tells(Base(t))
  PROVE  Tells(Base(t)')
<1>1. Goes(t) /\ Depth(t) \in Nat \ {0}
  BY ProceedGoes, TopTyped
<1>2. CASE Depth(t) > 1
  BY <1>1, <1>2, BaseKept
<1>3. CASE Depth(t) = 1
  <2>1. Tells(Top(t)) /\ ~Read(t) /\ ~Assign(t)
    BY <1>3, WaveFacts, ReadDoes, AssignDoes DEF Tells
  <2>2. ~Shrunk(t)
    <3>1. ASSUME Shrunk(t) PROVE FALSE
      <4>1. stack'[t] \in Seq(Frames) /\ Len(stack'[t]) = 0
        BY <1>3, <3>1 DEF Shrunk, OthersStay
      <4> QED BY <4>1, EmptySeq
    <3> QED BY <3>1
  <2>3. \E c : c.pc = "iterate" /\ (Replaced(t, c) \/ \E d : Grown(t, c, d))
    <3>1. CASE Notify(t)
      BY <3>1, NotifyDoes
    <3>2. CASE Tell(t)
      BY <3>2, TellDoes DEF Iterated
    <3>3. CASE SetOther(t)
      BY <3>3, SetOtherDoes DEF Iterated
    <3>4. CASE UpdateMapped(t)
      BY <3>4, UpdateMappedDoes DEF Iterated
    <3>5. ~NoneLeft(t)
      BY <2>2, NoneLeftDoes
    <3> QED BY <2>1, <3>1, <3>2, <3>3, <3>4, <3>5, NeverDone DEF Proceed
  <2>4. Base(t)'.pc = "iterate"
    BY <1>3, <2>3 DEF Replaced, Grown, Base
  <2> QED BY <2>4 DEF Tells
<1> QED BY <1>1, <1>2, <1>3

-----------------------------------------------------------------------------
(***************************************************************************)
(* The history of the browser goes where the KVars do.                     *)
(***************************************************************************)
\* A thread that is busy is the one that takes the step.
LEMMA BusyIsOne ==
  ASSUME NEW t \in Threads, \A u \in Threads \ {t} : stack'[u] = <<>>
  PROVE  \A u \in Threads : stack'[u] # <<>> => u = t
OBVIOUS

LEMMA ProceedLeads ==
  ASSUME Typed, HistoryTyped, NEW t \in Threads, stack[t] # <<>>, Wave(t), InStep', Propagate(t),
         popstates = <<>>, InHistory
  PROVE  InHistory'
<1>1. /\ Proceed(t) /\ out' = out \o MessageOf(t) /\ UNCHANGED <<entries, index, popstates>>
  BY DEF Propagate, Enqueued, historyVars
<1>2. Goes(t) /\ ValueStep(t) /\ MessageOf(t) \in Seq(Messages)
  BY <1>1, ProceedGoes, Sends
<1>3. \A u \in Threads : stack'[u] # <<>> => u = t
  BY <1>2, GoesAlone, BusyIsOne
<1>4. Leads(t)
  BY DEF InHistory
<1>5. PICK target, author, base : target = Target(t) /\ author = Author(t) /\ base = Base(t)
  OBVIOUS
<1>6. target \in Urls /\ base.kvar # "template"
  BY <1>5, WaveFacts
<1>7. LeadsTo(target) => LeadsTo(target)'
  <2>1. CASE \A i \in 1..Len(MessageOf(t)) : MessageOf(t)[i].kind # "pushState"
    BY <1>1, <1>2, <2>1, DrawingsLead
  <2>2. CASE MessageOf(t) = <<[kind |-> "pushState", url |-> target]>>
    BY <1>1, <1>6, <2>2, PushLeads
  <2> QED BY <1>5, <2>1, <2>2, Sends
<1>8. ASSUME stack'[t] = <<>>, LeadsTo(target) PROVE InHistory'
  <2>1. AllAgree'
    BY <1>2, <1>3, <1>8 DEF InStep
  <2>2. value'["url"] = target
    BY <1>1, <1>5, <1>8, <2>1, AtTheEnd
  <2> QED BY <1>1, <1>3, <1>7, <1>8, <2>2 DEF InHistory
<1>9. ASSUME stack'[t] # <<>>
      PROVE  target = Target(t)' /\ author = Author(t)' /\ Base(t)'.kvar = base.kvar
             /\ Base(t)'.new = base.new
  BY <1>2, <1>5, <1>6, <1>9, TargetKept, BaseKept
<1>10. ASSUME stack'[t] # <<>>, Leads(t)' PROVE InHistory'
  BY <1>1, <1>3, <1>10 DEF InHistory
<1>11. CASE base.kvar = "urlSource"
  <2>1. LeadsTo(target)
    BY <1>4, <1>5, <1>11 DEF Leads
  <2>2. CASE stack'[t] # <<>>
    <3>1. LeadsTo(target)'
      BY <1>7, <2>1
    <3>2. Leads(t)'
      BY <1>9, <1>11, <2>2, <3>1 DEF Leads
    <3> QED BY <1>10, <2>2, <3>2
  <2> QED BY <1>8, <2>1, <2>2
<1>12. CASE base.kvar # "urlSource" /\ Tells(base)
  <2> DEFINE wanted == Wanted(target, author, "urlSource")
  <2>1. value["urlSource"] # wanted \/ PushListener \in ToCome(t) \/ LeadsTo(target)
    BY <1>4, <1>5, <1>12 DEF Leads, Want
  <2>2. CASE stack'[t] = <<>>
    <3>1. AllAgree'
      BY <1>2, <1>3, <2>2 DEF InStep
    <3>2. value["urlSource"] = wanted /\ ToCome(t) = {None}
      BY <1>1, <1>5, <1>12, <2>2, <3>1, AtTheEnd DEF Want
    <3>3. PushListener # None
      BY TheListeners, ByKind
    <3> QED BY <1>8, <2>1, <2>2, <3>2, <3>3
  <2>3. CASE stack'[t] # <<>>
    <3>1. value'["urlSource"] # wanted \/ PushListener \in ToCome(t)' \/ LeadsTo(target)'
      <4>1. CASE LeadsTo(target)
        BY <1>7, <4>1
      <4>2. CASE PushListener \in ToCome(t)
        <5>1. \/ PushListener \in ToCome(t)'
              \/ Calls(t, {"tell"}) /\ Called(t) = PushListener
          BY <1>1, <4>2, PushToCome
        <5>2. CASE Calls(t, {"tell"}) /\ Called(t) = PushListener
          <6>1. MessageOf(t) = <<[kind |-> "pushState", url |-> target]>>
            BY <1>5, <1>12, <5>2, Sends
          <6>2. LeadsTo(target)'
            BY <1>1, <1>6, <6>1, PushLeads
          <6> QED BY <6>2
        <5> QED BY <5>1, <5>2
      <4>3. CASE value["urlSource"] # wanted
        BY <1>1, <4>3, PushToCome
      <4> QED BY <2>1, <4>1, <4>2, <4>3
    <3>2. Tells(Base(t)')
      BY <1>1, <1>5, <1>12, <2>3, TellingGoesOn
    <3>3. Leads(t)'
      BY <1>9, <1>12, <2>3, <3>1, <3>2 DEF Leads, Want
    <3> QED BY <1>10, <2>3, <3>3
  <2> QED BY <2>2, <2>3
<1>13. CASE base.kvar # "urlSource" /\ ~Tells(base)
  <2>1. Depth(t) = 1 /\ Top(t) = base /\ base.new = Want(t, base.kvar)
    BY <1>5, <1>13, WaveFacts, TopTyped
  <2>2. Read(t) \/ Assign(t)
    BY <1>1, <1>13, <2>1, NeverDone, NotifyDoes, NoneLeftDoes, TellDoes, SetOtherDoes,
       UpdateMappedDoes DEF Proceed, Tells
  <2>3. MessageOf(t) = <<>>
    <3>1. ~Calls(t, {"tell"})
      BY <1>13, <2>1 DEF Calls, At, Tells
    <3> QED BY <3>1 DEF MessageOf
  <2>4. \A u : LeadsTo(u) => LeadsTo(u)'
    <3>1. PICK m : m = MessageOf(t)
      OBVIOUS
    <3>2. m \in Seq(Messages) /\ out' = out \o m /\ \A i \in 1..Len(m) : m[i].kind # "pushState"
      BY <1>1, <1>2, <2>3, <3>1
    <3> QED BY <1>1, <3>2, DrawingsLead
  <2>5. LeadsTo(value["url"]) \/ base.new # value[base.kvar]
    BY <1>4, <1>5, <1>13 DEF Leads
  <2>6. PICK url : url = value["url"]
    OBVIOUS
  <2>7. CASE Read(t)
    <3>1. PICK c : Onward(t, c) /\ Replaced(t, c) /\ c.pc = "assign" /\ UNCHANGED value
      BY <2>7, ReadDoes
    <3>2. Base(t)' = c /\ ~Tells(c) /\ stack'[t] # <<>>
      BY <2>1, <3>1, EmptySeq DEF Replaced, Base, Tells
    <3>3. LeadsTo(url)' \/ base.new # value'[base.kvar]
      BY <2>4, <2>5, <2>6, <3>1
    <3>4. Leads(t)'
      BY <1>9, <1>13, <2>6, <3>1, <3>2, <3>3 DEF Leads
    <3> QED BY <1>10, <3>2, <3>4
  <2>8. CASE Assign(t)
    <3>1. /\ base.pc = "assign" /\ value' = [value EXCEPT ![base.kvar] = base.new]
          /\ \/ base.old = base.new /\ Shrunk(t)
             \/ /\ base.old # base.new
                /\ \E c : Onward(t, c) /\ Replaced(t, c) /\ c.pc = "notify"
      BY <2>1, <2>8, AssignDoes
    <3>2. base.old = value[base.kvar]
      <4>1. FrameOn(t, 1) /\ base = stack[t][1]
        BY <1>5, <2>1, WaveFacts DEF Base
      <4> QED BY <3>1, <4>1 DEF FrameOn, Fits
    <3>3. CASE base.old = base.new
      <4>1. Shrunk(t) /\ stack'[t] \in Seq(Frames) /\ Len(stack'[t]) = 0
        BY <2>1, <3>1, <3>3 DEF Shrunk, OthersStay
      <4>2. stack'[t] = <<>>
        BY <4>1, EmptySeq
      <4>3. AllAgree'
        BY <1>2, <1>3, <4>2 DEF InStep
      <4>4. value["url"] = target /\ UNCHANGED value
        BY <1>1, <1>5, <4>2, <4>3, AtTheEnd
      <4>5. LeadsTo(url)
        BY <2>5, <2>6, <3>2, <3>3
      <4>6. LeadsTo(target)
        BY <2>6, <4>4, <4>5
      <4> QED BY <1>8, <4>2, <4>6
    <3>4. CASE base.old # base.new
      <4>1. PICK c : Onward(t, c) /\ Replaced(t, c) /\ c.pc = "notify"
        BY <3>1, <3>4
      <4>2. Base(t)' = c /\ Tells(c) /\ stack'[t] # <<>>
        BY <2>1, <4>1, EmptySeq DEF Replaced, Base, Tells
      <4>3. value["urlSource"].url # target
        BY <1>5, <1>13, <2>1, <3>1, <3>2, <3>4, NotThereYet
      <4>4. value'["urlSource"] = value["urlSource"]
        BY <1>13, <3>1 DEF Typed, UrlKVars
      <4>5. value'["urlSource"] # Wanted(target, author, "urlSource")
        <5>1. Wanted(target, author, "urlSource").url = target
          BY UrlFacts DEF Wanted
        <5> QED BY <4>3, <4>4, <5>1
      <4>6. Leads(t)'
        BY <1>9, <1>13, <4>2, <4>5 DEF Leads, Want
      <4> QED BY <1>10, <4>2, <4>6
    <3> QED BY <3>3, <3>4
  <2> QED BY <2>2, <2>7, <2>8
<1> QED BY <1>11, <1>12, <1>13

LEMMA PropagateInHistory ==
  ASSUME Typed, HistoryTyped, NEW t \in Threads, stack[t] # <<>>, Wave(t), InStep', Propagate(t),
         InHistory
  PROVE  InHistory'
<1>1. CASE popstates = <<>>
  BY <1>1, ProceedLeads
<1>2. CASE popstates # <<>>
  <2>1. /\ Proceed(t) /\ out' = out \o MessageOf(t) /\ UNCHANGED <<entries, index, popstates>>
    BY DEF Propagate, Enqueued, historyVars
  <2>2. Goes(t) /\ MessageOf(t) \in Seq(Messages)
    BY <2>1, ProceedGoes, Sends
  <2>3. NoPush /\ Last(popstates) = entries[index] /\ Base(t).kvar = "urlSource"
    BY <1>2 DEF InHistory
  <2>4. NoPush'
    <3>1. \A i \in 1..Len(MessageOf(t)) : MessageOf(t)[i].kind # "pushState"
      BY <2>3, Sends
    <3> QED BY <2>1, <2>2, <2>3, <3>1, DrawingsLead
  <2>5. \A u \in Threads : stack'[u] # <<>> => u = t
    BY <2>2, GoesAlone, BusyIsOne
  <2>6. stack'[t] # <<>> => Base(t)'.kvar = "urlSource"
    BY <2>2, <2>3, BaseKept
  <2> QED BY <1>2, <2>1, <2>3, <2>4, <2>5, <2>6 DEF InHistory
<1> QED BY <1>1, <1>2

LEMMA SetUrlInHistory ==
  ASSUME Undisturbed, Typed, InStep, ~crossed => InHistory, NEW t \in Threads,
         NEW k \in {"url", "path"}, NEW v \in UrlValues[k], SetUrl(t, k, v), ~crossed'
  PROVE  InHistory'
<1>1. /\ SetValue(t, k, v) /\ popstates = <<>> /\ (v = value[k] => ~crossed)
      /\ UNCHANGED <<entries, index, popstates, out>>
  BY DEF SetUrl, historyVars
<1>2. k \in UrlKVars \ {"template"} /\ k # "urlSource"
  BY DEF UrlKVars
<1>3. /\ UNCHANGED value /\ \A u \in Threads : stack[u] = <<>>
      /\ stack'[t] # <<>> /\ Base(t)'.kvar = k /\ Base(t)'.new = v /\ ~Tells(Base(t)')
      /\ \A u \in Threads \ {t} : stack'[u] = <<>>
  BY <1>1, <1>2, SetInStep
<1>4. PICK url : url = value["url"]
  OBVIOUS
<1>5. v = value[k] => LeadsTo(url)
  BY <1>1, <1>3, <1>4 DEF InHistory
<1>6. LeadsTo(url)' <=> LeadsTo(url)
  BY <1>1 DEF LeadsTo, NoPush
<1>7. Leads(t)'
  <2>1. LeadsTo(url)' \/ v # value'[k]
    BY <1>3, <1>5, <1>6
  <2> QED BY <1>2, <1>3, <1>4, <2>1 DEF Leads
<1>8. \A u \in Threads : stack'[u] # <<>> => u = t
  BY <1>3, BusyIsOne
<1> QED BY <1>1, <1>3, <1>7, <1>8 DEF InHistory

LEMMA LastOfTail ==
  ASSUME NEW S, NEW s \in Seq(S), s # <<>>
  PROVE  /\ Tail(s) # <<>> => Last(Tail(s)) = Last(s)
         /\ Tail(s) = <<>> => Head(s) = Last(s)
<1>1. Len(s) \in Nat \ {0} /\ Last(s) = s[Len(s)] /\ Head(s) = s[1]
  BY EmptySeq DEF Last
<1>2. /\ Tail(s) \in Seq(S) /\ Len(Tail(s)) = Len(s) - 1
      /\ \A i \in 1..(Len(s) - 1) : Tail(s)[i] = s[i + 1]
  BY <1>1
<1>3. ASSUME Tail(s) # <<>> PROVE Last(Tail(s)) = Last(s)
  <2>1. PICK r, n : r = Tail(s) /\ n = Len(s) - 1
    OBVIOUS
  <2>2. r \in Seq(S) /\ r # <<>> /\ Len(r) = n /\ n \in Nat /\ n + 1 = Len(s)
    BY <1>1, <1>2, <1>3, <2>1
  <2>3. n \in 1..n
    BY ONLY <2>2, EmptySeq
  <2>4. r[n] = s[n + 1]
    BY <1>2, <2>1, <2>3
  <2>5. Last(r) = r[n]
    BY ONLY <2>2 DEF Last
  <2> QED BY <1>1, <2>1, <2>2, <2>4, <2>5
<1>4. ASSUME Tail(s) = <<>> PROVE Head(s) = Last(s)
  <2>1. PICK r : r = Tail(s)
    OBVIOUS
  <2>2. r = <<>> /\ Len(r) = Len(s) - 1
    BY <1>2, <1>4, <2>1
  <2>3. Len(s) = 1
    BY ONLY <1>1, <2>2, EmptySeq
  <2> QED BY <1>1, <2>3
<1> QED BY <1>3, <1>4

LEMMA ReceivePopstateInHistory ==
  ASSUME Undisturbed, Typed, HistoryTyped, InStep, InHistory, NEW t \in Threads,
         ReceivePopstate(t)
  PROVE  InHistory'
<1> DEFINE v == UrlSource(Head(popstates), "Client")
<1>1. /\ popstates # <<>> /\ popstates' = Tail(popstates)
      /\ UNCHANGED <<entries, index, out>>
  BY DEF ReceivePopstate, historyVars
<1>2. SetValue(t, "urlSource", v)
  BY DEF ReceivePopstate
<1>3. v \in UrlValues["urlSource"] /\ v.source = "Client" /\ v.url = Head(popstates)
  BY ReceivePopstateTyped, UrlFacts
<1> HIDE DEF v
<1>4. "urlSource" \in UrlKVars \ {"template"}
  BY DEF UrlKVars
<1>5. /\ stack'[t] # <<>> /\ Base(t)'.kvar = "urlSource" /\ Base(t)'.new = v
      /\ \A u \in Threads \ {t} : stack'[u] = <<>>
  BY <1>2, <1>3, <1>4, SetInStep
<1>6. \A u \in Threads : stack'[u] # <<>> => u = t
  BY <1>5, BusyIsOne
<1>7. NoPush /\ Last(popstates) = entries[index] /\ NoPush'
  BY <1>1 DEF InHistory, NoPush
<1>8. CASE popstates' # <<>>
  <2>1. Last(popstates') = Last(popstates)
    BY <1>1, <1>8, LastOfTail DEF HistoryTyped
  <2> QED BY <1>1, <1>5, <1>6, <1>7, <1>8, <2>1 DEF InHistory
<1>9. CASE popstates' = <<>>
  <2>1. Head(popstates) = entries[index]
    <3>1. Head(popstates) = Last(popstates)
      BY <1>1, <1>9, LastOfTail DEF HistoryTyped
    <3> QED BY <1>7, <3>1
  <2>2. PICK u : u = Head(popstates)
    OBVIOUS
  <2>3. LeadsTo(u)' /\ Target(t)' = u
    BY <1>1, <1>3, <1>5, <1>7, <2>1, <2>2 DEF LeadsTo, Target
  <2>4. Leads(t)'
    BY <1>5, <2>3 DEF Leads
  <2> QED BY <1>5, <1>6, <1>9, <2>4 DEF InHistory
<1> QED BY <1>8, <1>9

LEMMA NavigateInHistory ==
  ASSUME Typed, HistoryTyped, NEW i \in DOMAIN entries, Navigate(i), ~crossed'
  PROVE  InHistory'
<1>1. /\ index' = i /\ popstates' = Append(popstates, entries[i]) /\ ~PushUnderWay
      /\ UNCHANGED <<value, stack, entries, out>>
  BY DEF Navigate, vars
<1>2. NoPush'
  <2>1. DOMAIN out = 1..Len(out)
    BY DEF HistoryTyped
  <2> QED BY <1>1, <2>1 DEF PushUnderWay, NoPush
<1>3. Last(popstates') = entries'[index'] /\ popstates' # <<>>
  <2>1. popstates \in Seq(Urls) /\ entries[i] \in Urls
    BY DEF HistoryTyped
  <2>2. Last(Append(popstates, entries[i])) = entries[i] /\ Append(popstates, entries[i]) # <<>>
    BY <2>1 DEF Last
  <2> QED BY <1>1, <2>2
<1>4. \A t \in Threads : stack'[t] # <<>> => Base(t)'.kvar = "urlSource"
  BY <1>1 DEF PushUnderWay, Idle, Base
<1> QED BY <1>2, <1>3, <1>4 DEF InHistory

LEMMA ReceiveMessageInHistory ==
  ASSUME Typed, HistoryTyped, InHistory, ReceiveMessage
  PROVE  InHistory'
<1>1. UNCHANGED <<value, stack, popstates>>
  BY ReceiveMessageTyped
<1>2. /\ NoPush => NoPush' /\ UNCHANGED <<entries, index>>
      /\ \A u : LeadsTo(u) => LeadsTo(u)'
  BY ReceivedLeads
<1>3. CASE popstates # <<>>
  BY <1>1, <1>2, <1>3 DEF InHistory, Base
<1>4. CASE popstates = <<>>
  <2>1. PICK url : url = value["url"]
    OBVIOUS
  <2>2. (\A t \in Threads : stack[t] = <<>>) => LeadsTo(url)'
    BY <1>2, <1>4, <2>1 DEF InHistory
  <2>3. ASSUME NEW t \in Threads, stack[t] # <<>> PROVE Leads(t)'
    <3>1. Leads(t)
      BY <1>4, <2>3 DEF InHistory
    <3>2. /\ Base(t)' = Base(t) /\ Target(t)' = Target(t) /\ Want(t, "urlSource")' = Want(t, "urlSource")
          /\ ToCome(t)' = ToCome(t)
      BY <1>1 DEF Base, Target, Want, Author, ToCome
    <3>3. PICK target : target = Target(t)
      OBVIOUS
    <3>4. LeadsTo(target) => LeadsTo(target)'
      BY <1>2
    <3>5. LeadsTo(url) => LeadsTo(url)'
      BY <1>2
    <3> QED BY <1>1, <2>1, <3>1, <3>2, <3>3, <3>4, <3>5 DEF Leads
  <2> QED BY <1>1, <1>4, <2>1, <2>2, <2>3 DEF InHistory
<1> QED BY <1>3, <1>4

LEMMA InHistoryKept ==
  ASSUME InHistory, UNCHANGED <<value, stack, entries, index, popstates, out>>
  PROVE  InHistory'
<1>1. PICK url : url = value["url"]
  OBVIOUS
<1>2. \A u : LeadsTo(u)' <=> LeadsTo(u)
  BY DEF LeadsTo, NoPush
<1>3. \A t : /\ Base(t)' = Base(t) /\ Target(t)' = Target(t)
             /\ Want(t, "urlSource")' = Want(t, "urlSource") /\ ToCome(t)' = ToCome(t)
  BY DEF Base, Target, Want, Author, ToCome
<1>4. ASSUME NEW t \in Threads, Leads(t) PROVE Leads(t)'
  <2>1. PICK target : target = Target(t)
    OBVIOUS
  <2> QED BY <1>1, <1>2, <1>3, <1>4, <2>1 DEF Leads
<1>5. NoPush' <=> NoPush
  BY DEF NoPush
<1> QED BY <1>1, <1>2, <1>3, <1>4, <1>5 DEF InHistory

-----------------------------------------------------------------------------
LEMMA NextInStep ==
  ASSUME Undisturbed, UrlInv, [UrlNext]_<<vars, urlVars>>
  PROVE  UrlInv'
<1>1. Typed /\ HistoryTyped /\ InStep /\ (~crossed => InHistory)
  BY DEF UrlInv
<1>2. Typed' /\ HistoryTyped'
  BY <1>1, NextTyped, StutterTyped
<1>3. ASSUME NEW t \in Threads, Propagate(t) PROVE InStep' /\ (~crossed' => InHistory')
  <2>1. Proceed(t) /\ UNCHANGED crossed
    BY <1>3 DEF Propagate
  <2>2. InStep' /\ stack[t] # <<>> /\ Wave(t)
    BY <1>1, <2>1, ProceedInStep
  <2> QED BY <1>1, <1>3, <2>1, <2>2, PropagateInHistory
<1>4. ASSUME NEW t \in Threads, ReceivePopstate(t) PROVE InStep' /\ (~crossed' => InHistory')
  <2>1. SetValue(t, "urlSource", UrlSource(Head(popstates), "Client")) /\ UNCHANGED crossed
    BY <1>4 DEF ReceivePopstate
  <2>2. /\ "urlSource" \in UrlKVars \ {"template"}
        /\ UrlSource(Head(popstates), "Client") \in UrlValues["urlSource"]
        /\ UrlSource(Head(popstates), "Client").source = "Client"
    BY <1>1, <1>4, ReceivePopstateTyped, UrlFacts DEF UrlKVars
  <2>3. InStep'
    BY <1>1, <2>1, <2>2, SetInStep
  <2> QED BY <1>1, <1>4, <2>1, <2>3, ReceivePopstateInHistory
<1>5. ASSUME NEW t \in Threads, NEW k \in {"url", "path"}, NEW v \in UrlValues[k], SetUrl(t, k, v)
      PROVE  InStep' /\ (~crossed' => InHistory')
  <2>1. SetValue(t, k, v) /\ k \in UrlKVars \ {"template"} /\ k # "urlSource"
    BY <1>5 DEF SetUrl, UrlKVars
  <2>2. InStep'
    BY <1>1, <2>1, SetInStep
  <2> QED BY <1>1, <1>5, <2>2, SetUrlInHistory
<1>6. ASSUME NEW i \in DOMAIN entries, Navigate(i) PROVE InStep' /\ (~crossed' => InHistory')
  <2>1. UNCHANGED <<value, stack>>
    BY <1>6 DEF Navigate, vars
  <2> QED BY <1>1, <1>6, <2>1, InStepKept, NavigateInHistory
<1>7. CASE ReceiveMessage
  <2>1. UNCHANGED <<value, stack, crossed>>
    BY <1>1, <1>7, ReceiveMessageTyped
  <2> QED BY <1>1, <1>2, <1>7, <2>1, InStepKept, ReceiveMessageInHistory DEF UrlInv
<1>8. CASE UNCHANGED <<vars, urlVars>>
  <2>1. UNCHANGED <<value, stack, entries, index, popstates, out, crossed>>
    BY <1>8 DEF vars, urlVars, historyVars
  <2> QED BY <1>1, <1>2, <2>1, InStepKept, InHistoryKept DEF UrlInv
<1> QED BY <1>1, <1>2, <1>3, <1>4, <1>5, <1>6, <1>7, <1>8, StepsAre DEF UrlInv

LEMMA InvHolds ==
  ASSUME Undisturbed
  PROVE  UrlSpec => []UrlInv
<1>1. UrlInit => UrlInv
  <2> SUFFICES ASSUME UrlInit PROVE UrlInv
    OBVIOUS
  <2>1. Typed /\ HistoryTyped /\ AllAgree /\ \A t \in Threads : stack[t] = <<>>
    BY InitTyped
  <2>2. InStep
    BY <2>1 DEF InStep
  <2>3. InHistory
    <3>1. entries = <<value["url"]>> /\ index = 1 /\ popstates = <<>> /\ out = <<>>
      BY DEF UrlInit
    <3>2. LeadsTo(value["url"])
      BY <3>1 DEF LeadsTo, NoPush
    <3> QED BY <2>1, <3>1, <3>2 DEF InHistory
  <2> QED BY <2>1, <2>2, <2>3 DEF UrlInv
<1>2. UrlInv /\ [UrlNext]_<<vars, urlVars>> => UrlInv'
  BY NextInStep
<1> QED BY <1>1, <1>2, PTL DEF UrlSpec

\* Once everything has arrived the address bar shows browser.url, unless a push and
\* a popstate have crossed: however often the server sets the URL and the user goes
\* back and forward, and whichever listener is called first.
THEOREM AddressAgrees ==
  ASSUME Undisturbed
  PROVE  UrlSpec => []UrlAgrees
<1>1. ASSUME UrlInv PROVE UrlAgrees
  <2> SUFFICES ASSUME UrlQuiet, ~crossed PROVE entries[index] = value["url"]
    BY DEF UrlAgrees
  <2>1. (\A t \in Threads : stack[t] = <<>>) /\ popstates = <<>> /\ out = <<>> /\ InHistory
    BY <1>1 DEF UrlQuiet, Quiet, Idle, UrlInv
  <2>2. LeadsTo(value["url"])
    BY <2>1 DEF InHistory
  <2>3. 1..Len(out) = {}
    BY <2>1
  <2> QED BY <2>2, <2>3 DEF LeadsTo
<1>2. UrlInv => UrlAgrees
  BY <1>1
<1> QED BY <1>2, InvHolds, PTL

\* A change that the browser reports is not pushed back to it.
THEOREM PopstatesStayInTheBrowser ==
  ASSUME Undisturbed
  PROVE  UrlSpec => PopstatesAreNotPushed
<1> DEFINE NotPushed ==
      \A t \in Threads : \A i \in Len(out) + 1..Len(out') :
        ~Idle(t) /\ stack[t][1].kvar = "urlSource" => out'[i].kind # "pushState"
<1>1. UrlInv /\ [UrlNext]_<<vars, urlVars>> => [NotPushed]_out
  <2> SUFFICES ASSUME UrlInv, UrlNext, NEW t \in Threads, NEW i \in Len(out) + 1..Len(out'),
                      stack[t] # <<>>, Base(t).kvar = "urlSource"
               PROVE  out'[i].kind # "pushState"
    BY DEF Idle, Base, vars, urlVars
  <2>1. Typed /\ HistoryTyped /\ InStep /\ Len(out) \in Nat
    BY DEF UrlInv, HistoryTyped
  <2>2. ASSUME NEW u \in Threads, Propagate(u) PROVE out'[i].kind # "pushState"
    <3>1. Proceed(u) /\ out' = out \o MessageOf(u)
      BY <2>2 DEF Propagate, Enqueued
    <3>2. stack[u] # <<>> /\ Wave(u)
      BY <2>1, <3>1, ProceedInStep
    <3>3. u = t
      BY <3>2 DEF Wave
    <3>4. \A j \in 1..Len(MessageOf(t)) : MessageOf(t)[j].kind # "pushState"
      BY <2>1, <3>2, <3>3, Sends
    <3>5. MessageOf(t) \in Seq(Messages) /\ out \in Seq(Messages)
      BY <2>1, MessageTyped DEF HistoryTyped
    <3>6. i - Len(out) \in 1..Len(MessageOf(t)) /\ out'[i] = MessageOf(t)[i - Len(out)]
      BY <2>1, <3>1, <3>3, <3>5
    <3> QED BY <3>4, <3>6
  <2>3. ReceiveMessage => FALSE
    <3> SUFFICES ASSUME ReceiveMessage PROVE FALSE
      OBVIOUS
    <3>1. out # <<>> /\ out' = Tail(out) /\ out \in Seq(Messages)
      BY <2>1, ReceiveMessageTyped DEF HistoryTyped
    <3>2. Len(out') = Len(out) - 1
      BY <3>1, EmptySeq
    <3> QED BY <2>1, <3>2
  <2>4. out' # out
    BY <2>1
  <2>5. \A u \in Threads : ~ReceivePopstate(u)
    BY <2>4 DEF ReceivePopstate
  <2>6. \A u \in Threads : \A k, v : ~SetUrl(u, k, v)
    BY <2>4 DEF SetUrl
  <2>7. \A j : ~Navigate(j)
    BY <2>4 DEF Navigate
  <2> QED BY <2>1, <2>2, <2>3, <2>5, <2>6, <2>7, StepsAre
<1> QED BY <1>1, InvHolds, PTL DEF UrlSpec, PopstatesAreNotPushed

\* The functions of the maps, by themselves.
LEMMA MapsAre ==
  /\ \A v \in SourceValues : Function(FromSource, v) = v.url
  /\ \A c \in SourceValues : \A v \in Urls : Backward(ToSource, c, v) = SourceOfChange(c, v)
  /\ \A v \in Urls : Function(ToPath, v) = v.path
  /\ \A c \in Urls : \A v \in Paths : Backward(FromPath, c, v) = Rebuilt(c, v)
<1>1. \A c, v : /\ Result(FromSource, c, v) = Function(FromSource, v)
               /\ Result(ToSource, c, v) = Backward(ToSource, c, v)
               /\ Result(ToPath, c, v) = Function(ToPath, v)
               /\ Result(FromPath, c, v) = Backward(FromPath, c, v)
  <2>1. FromSource.kind = "forward" /\ ToSource.kind = "reverse"
        /\ ToPath.kind = "forward" /\ FromPath.kind = "reverse"
    BY ListenersAre
  <2> QED BY <2>1 DEF Result
<1>2. ASSUME NEW v \in SourceValues PROVE Function(FromSource, v) = v.url
  <2>1. v.url \in Urls
    BY UrlFacts
  <2>2. Result(FromSource, v.url, v) = v.url
    BY <2>1, Results
  <2> QED BY <1>1, <2>2
<1>3. ASSUME NEW v \in Urls PROVE Function(ToPath, v) = v.path
  <2>1. v.path \in Paths
    BY UrlFacts
  <2>2. Result(ToPath, v.path, v) = v.path
    BY <2>1, Results
  <2> QED BY <1>1, <2>2
<1>4. ASSUME NEW c \in SourceValues, NEW v \in Urls PROVE Backward(ToSource, c, v) = SourceOfChange(c, v)
  <2>1. Result(ToSource, c, v) = SourceOfChange(c, v)
    BY Results
  <2> QED BY <1>1, <2>1
<1>5. ASSUME NEW c \in Urls, NEW v \in Paths PROVE Backward(FromPath, c, v) = Rebuilt(c, v)
  <2>1. Result(FromPath, c, v) = Rebuilt(c, v)
    BY Results
  <2> QED BY <1>1, <2>1
<1> QED BY <1>2, <1>3, <1>4, <1>5

\* The KVars of routing are one of the families that KVarGraph_proofs is about: its
\* theorems hold of them, whatever the application sets.
THEOREM RoutingIsAFamily ==
  ASSUME Undisturbed, "template" \notin Settable
  PROVE  ~Concurrent /\ Family /\ Lenses
<1>1. ASSUME NEW l \in Listeners
      PROVE  /\ l.kind \in {"tell", "forward", "reverse", "map"} /\ l.reads = l.to
             /\ l.kind = "forward" => l \in {FromSource, ToPath}
             /\ l.kind = "reverse" => l \in {ToSource, FromPath}
             /\ l.kind = "map" => l = ToTemplate
  BY ByKind DEF Undisturbed
<1>2. /\ {FromSource, ToSource, ToPath, FromPath, ToTemplate} \subseteq Listeners
      /\ KVars = UrlKVars /\ ValuesOf = UrlValues
  BY TheListeners, UrlGraphAssumption DEF Edges
<1>3. Down = {FromSource, ToPath, ToTemplate} /\ KVals = {"template"}
  <2>1. FromSource.kind = "forward" /\ ToPath.kind = "forward" /\ ToTemplate.kind = "map"
        /\ ToTemplate.to = "template"
    BY ListenersAre
  <2>2. Down = {FromSource, ToPath, ToTemplate}
    BY <1>1, <1>2, <2>1 DEF Down, Downward
  <2>3. {l \in Listeners : l.kind = "map"} = {ToTemplate}
    BY <1>1, <1>2, <2>1
  <2> QED BY <2>1, <2>2, <2>3 DEF KVals
<1>4. \E rank \in [KVars -> Nat] : Ranked(rank)
  <2> DEFINE rank == [k \in UrlKVars |->
               CASE k = "urlSource" -> 0 [] k = "url" -> 1 [] k = "path" -> 2 [] OTHER -> 3]
  <2>1. /\ rank["urlSource"] = 0 /\ rank["url"] = 1 /\ rank["path"] = 2 /\ rank["template"] = 3
        /\ rank \in [UrlKVars -> Nat]
    BY DEF UrlKVars
  <2> HIDE DEF rank
  <2>2. Ranked(rank)
    BY <1>3, <2>1, ListenersAre DEF Ranked
  <2> QED BY <1>2, <2>1, <2>2
<1>5. \A l, m \in Down : l.to = m.to => l = m
  BY <1>3, ListenersAre
<1>6. Back(FromSource) = ToSource /\ Back(ToPath) = FromPath
      /\ Forth(ToSource) = FromSource /\ Forth(FromPath) = ToPath
  BY ListenersAre DEF Back, Forth, Listener
<1>7. Family
  <2>1. \A l \in Listeners :
          /\ l.kind = "forward" => Back(l) \in Listeners /\ l.of \notin KVals
          /\ l.kind = "reverse" => Forth(l) \in Listeners
    BY <1>1, <1>2, <1>3, <1>6, ListenersAre
  <2> QED BY <1>1, <1>3, <1>4, <1>5, <2>1 DEF Family, Downward
<1>8. Lenses
  <2>1. \A l \in Listeners : \A v \in ValuesOf[l.of] : ~Throws(l, v)
    BY <1>2, Results
  <2>2. ASSUME NEW l \in Down, NEW v \in ValuesOf[l.of] PROVE Function(l, v) \in ValuesOf[l.to]
    <3>1. CASE l = FromSource
      BY <1>2, <2>2, <3>1, MapsAre, ListenersAre, ValuesAre, UrlFacts
    <3>2. CASE l = ToPath
      BY <1>2, <2>2, <3>2, MapsAre, ListenersAre, ValuesAre, UrlFacts
    <3>3. CASE l = ToTemplate
      BY <1>2, <2>2, <3>3, Results, ListenersAre, ValuesAre
    <3> QED BY <1>3, <3>1, <3>2, <3>3
  <2>3. ASSUME NEW r \in Listeners, r.kind = "reverse", NEW x \in ValuesOf[r.to]
        PROVE  /\ \A v \in ValuesOf[r.of] :
                    /\ Backward(r, x, v) \in ValuesOf[r.to]
                    /\ Function(Forth(r), Backward(r, x, v)) = v
               /\ Backward(r, x, Function(Forth(r), x)) = x
    <3>1. CASE r = ToSource
      <4>1. x \in SourceValues /\ ValuesOf[r.to] = SourceValues /\ ValuesOf[r.of] = Urls
            /\ Forth(r) = FromSource
        BY <1>2, <1>6, <2>3, <3>1, ListenersAre, ValuesAre
      <4>2. ASSUME NEW v \in Urls
            PROVE  /\ SourceOfChange(x, v) \in SourceValues
                   /\ SourceOfChange(x, v).url = v
        <5>1. x.source \in Sources3 /\ "Server" \in Sources3
          BY <4>1, UrlFacts DEF Sources3
        <5> QED BY <5>1, UrlFacts DEF SourceOfChange
      <4>3. SourceOfChange(x, x.url) = x /\ x.url \in Urls
        BY <4>1, UrlFacts DEF SourceOfChange
      <4>4. Function(FromSource, x) = x.url
        BY <4>1, MapsAre
      <4>5. ASSUME NEW v \in Urls
            PROVE  Backward(r, x, v) = SourceOfChange(x, v)
                   /\ Function(FromSource, SourceOfChange(x, v)) = v
        <5>1. Backward(r, x, v) = SourceOfChange(x, v)
          BY <3>1, <4>1, MapsAre
        <5>2. Function(FromSource, SourceOfChange(x, v)) = SourceOfChange(x, v).url
          BY <4>2, MapsAre
        <5> QED BY <4>2, <5>1, <5>2
      <4> QED BY <4>1, <4>2, <4>3, <4>4, <4>5
    <3>2. CASE r = FromPath
      <4>1. x \in Urls /\ ValuesOf[r.to] = Urls /\ ValuesOf[r.of] = Paths /\ Forth(r) = ToPath
        BY <1>2, <1>6, <2>3, <3>2, ListenersAre, ValuesAre
      <4>2. x.path \in Paths /\ x.query \in Queries /\ x.query # "empty"
            /\ x = [path |-> x.path, query |-> x.query]
        BY <4>1, UrlFacts DEF Undisturbed
      <4>3. \A v : Rebuilt(x, v) = [path |-> v, query |-> x.query]
        BY <4>2 DEF Rebuilt
      <4>4. ASSUME NEW v \in Paths
            PROVE  Rebuilt(x, v) \in Urls /\ Rebuilt(x, v).path = v
        BY <4>2, <4>3, UrlFacts
      <4>5. Rebuilt(x, x.path) = x
        BY <4>2, <4>3
      <4>6. Function(ToPath, x) = x.path
        BY <4>1, MapsAre
      <4>7. ASSUME NEW v \in Paths
            PROVE  Backward(r, x, v) = Rebuilt(x, v) /\ Function(ToPath, Rebuilt(x, v)) = v
        <5>1. Backward(r, x, v) = Rebuilt(x, v)
          BY <3>2, <4>1, MapsAre
        <5>2. Function(ToPath, Rebuilt(x, v)) = Rebuilt(x, v).path
          BY <4>4, MapsAre
        <5> QED BY <4>4, <5>1, <5>2
      <4> QED BY <4>1, <4>2, <4>4, <4>5, <4>6, <4>7
    <3> QED BY <1>1, <2>3, <3>1, <3>2
  <2> QED BY <2>1, <2>2, <2>3 DEF Lenses
<1> QED BY <1>7, <1>8 DEF Undisturbed
===============================================================================
