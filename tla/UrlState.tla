------------------------------- MODULE UrlState -------------------------------
(***************************************************************************)
(* The URL of a page: browser.url and what routing makes of it, on top of  *)
(* the KVars of KVarGraph, and the history of the browser.                 *)
(*                                                                         *)
(* The server changes the URL by setting a KVar, which pushes it to the    *)
(* browser.  The browser changes it by going back or forward, which it     *)
(* reports as a popstate event.  Both ways are first in, first out, and    *)
(* cross.  A URL is a path and what follows it; a path has one template.   *)
(***************************************************************************)
EXTENDS KVarGraph

CONSTANTS
  Paths,
  Queries,     \* "none", "empty" (a question mark only), or others
  Redirects    \* does the page of one path set the URL to another?

VARIABLES
  entries, index,  \* session history of the browser
  popstates,       \* events on their way to the server
  out,             \* pushState calls and drawings on their way to the browser
  page,            \* the template whose page is shown
  crossed          \* did a push and a popstate cross?  (seen by no code)

historyVars == <<entries, index>>
urlVars == <<historyVars, popstates, out, page, crossed>>

Urls == [path : Paths, query : Queries]

UrlSource(url, source) == [url |-> url, source |-> source]

-----------------------------------------------------------------------------
(***************************************************************************)
(* The KVars.                                                              *)
(***************************************************************************)
UrlKVars == {"urlSource", "url", "path", "template"}

UrlValues == [k \in UrlKVars |->
  CASE k = "urlSource" -> [url : Urls, source : {"Initial", "Client", "Server"}]
    [] k = "url" -> Urls
    [] OTHER -> Paths]

UrlInitially(u) == [k \in UrlKVars |->
  CASE k = "urlSource" -> UrlSource(u, "Initial")
    [] k = "url" -> u
    [] OTHER -> u.path]

UrlInitialValues == {UrlInitially(u) : u \in Urls}

PushListener == Listener("tell", "urlSource", "urlSource", "urlSource")
RenderListener == Listener("tell", "template", "template", "template")

UrlListeners ==
  {PushListener, RenderListener} \cup ReversiblyMapped("urlSource", "url")
    \cup ReversiblyMapped("url", "path") \cup Mapped("path", "template")
    \cup (IF Redirects THEN {Listener("set", "template", "url", "url")} ELSE {})

UrlFunction(l, v) ==
  CASE l.to = "url" -> v.url [] l.to = "path" -> v.path [] OTHER -> v

\* Seeded fault: it is the server's in any case.
SourceAlwaysServer(original, url) == UrlSource(url, "Server")
\* Seeded fault: it stays who it was.
SourceKept(original, url) == UrlSource(url, original.source)
SourceOfChange(original, url) ==
  UrlSource(url, IF url # original.url THEN "Server" ELSE original.source)

\* The path is replaced, and the query kept unless it is empty.
Rebuilt(original, path) ==
  [path |-> path, query |-> IF original.query = "empty" THEN "none" ELSE original.query]

Home == CHOOSE p \in Paths : TRUE
Elsewhere == CHOOSE u \in Urls : u.path # Home

UrlBackward(l, current, v) ==
  CASE l.to = "urlSource" -> SourceOfChange(current, v)
    [] l.kind = "reverse" /\ l.to = "url" -> Rebuilt(current, v)
    [] OTHER -> IF v = Home THEN Elsewhere ELSE current

UrlThrows(l, v) == FALSE

ASSUME UrlGraphAssumption ==
  /\ "empty" \in Queries => "none" \in Queries
  /\ Redirects \in BOOLEAN /\ (Redirects => \E p \in Paths : p # Home)
  /\ KVars = UrlKVars /\ ValuesOf = UrlValues /\ InitialValues = UrlInitialValues
  /\ Listeners = UrlListeners
  /\ \A l \in Listeners : \A v \in ValuesOf[l.of] :
       /\ Throws(l, v) = UrlThrows(l, v)
       /\ l.kind \in {"forward", "map"} => Function(l, v) = UrlFunction(l, v)
       /\ l.kind \in {"reverse", "set"} =>
            \A current \in ValuesOf[l.reads] :
              Backward(l, current, v) = UrlBackward(l, current, v)

-----------------------------------------------------------------------------
UrlTypeOK ==
  /\ TypeOK
  /\ entries \in Seq(Urls) /\ index \in DOMAIN entries
  /\ popstates \in Seq(Urls)
  /\ \A i \in DOMAIN out :
       \/ out[i].kind = "pushState" /\ out[i].url \in Urls
       \/ out[i].kind = "draw" /\ out[i].template \in Paths
  /\ page \in Paths /\ crossed \in BOOLEAN

UrlInit ==
  /\ Init
  /\ entries = <<value["url"]>> /\ index = 1
  /\ popstates = <<>> /\ out = <<>>
  /\ page = value["template"]
  /\ crossed = FALSE

\* Seeded fault: the source is pushed along with the URL.
PushedWhole(source) == source
Pushed(source) == source.url

\* What the listener that is called sends: only a change of the server's is pushed.
MessageOf(t) ==
  IF ~Calls(t, {"tell"}) THEN <<>>
  ELSE IF Called(t) = RenderListener THEN <<[kind |-> "draw", template |-> Top(t).new]>>
  ELSE IF Top(t).new.source = "Server"
       THEN <<[kind |-> "pushState", url |-> Pushed(Top(t).new)]>>
       ELSE <<>>

\* Seeded fault: a message overtakes those before it.
EnqueuedFirst(t) == MessageOf(t) \o out
Enqueued(t) == out \o MessageOf(t)

Propagate(t) ==
  /\ Proceed(t)
  /\ out' = Enqueued(t)
  /\ UNCHANGED <<historyVars, popstates, page, crossed>>

\* The application sets the URL, or the path (by a parameter of the route).
Bounded == sets + Len(popstates) < MaxSets

SetUrl(t, k, v) ==
  /\ Bounded /\ SetValue(t, k, v)
  /\ crossed' = IF popstates # <<>> THEN TRUE
                ELSE IF v = value[k] THEN crossed ELSE FALSE
  /\ UNCHANGED <<historyVars, popstates, out, page>>

ReceivePopstate(t) ==
  /\ popstates # <<>>
  /\ SetValue(t, "urlSource", UrlSource(Head(popstates), "Client"))
  /\ popstates' = Tail(popstates)
  /\ UNCHANGED <<historyVars, out, page, crossed>>

\* The user goes back or forward.
PushUnderWay ==
  \/ \E i \in DOMAIN out : out[i].kind = "pushState"
  \/ \E t \in Threads : ~Idle(t) /\ stack[t][1].kvar # "urlSource"
Navigate(i) ==
  /\ Bounded /\ i # index
  /\ index' = i
  /\ popstates' = Append(popstates, entries[i])
  /\ crossed' = (PushUnderWay \/ (popstates # <<>> /\ crossed))
  /\ UNCHANGED <<vars, entries, out, page>>

\* A push drops what is ahead of the page in the history.
ReceiveMessage ==
  /\ out # <<>>
  /\ out' = Tail(out)
  /\ IF Head(out).kind = "draw"
     THEN page' = Head(out).template /\ UNCHANGED historyVars
     ELSE /\ entries' = Append(SubSeq(entries, 1, index), Head(out).url)
          /\ index' = index + 1
          /\ UNCHANGED page
  /\ UNCHANGED <<vars, popstates, crossed>>

-----------------------------------------------------------------------------
UrlNext ==
  \/ \E t \in Threads :
       \/ Propagate(t) \/ ReceivePopstate(t)
       \/ \E u \in Urls : SetUrl(t, "url", u)
       \/ \E p \in Paths : SetUrl(t, "path", p)
  \/ \E i \in DOMAIN entries : Navigate(i)
  \/ ReceiveMessage

UrlSpec == UrlInit /\ [][UrlNext]_<<vars, urlVars>>

\* The server and the network go on; nothing makes the application set the URL,
\* or the user navigate.
UrlFairSpec ==
  /\ UrlSpec
  /\ WF_<<vars, urlVars>>(ReceiveMessage)
  /\ \A t \in Threads : WF_<<vars, urlVars>>(Propagate(t) \/ ReceivePopstate(t))

-----------------------------------------------------------------------------
UrlQuiet == Quiet /\ popstates = <<>> /\ out = <<>>

\* Once everything has arrived the address bar and browser.url agree, unless a
\* push and a popstate have crossed since the last change that did not.
UrlAgrees == UrlQuiet /\ ~crossed => entries[index] = value["url"]

\* NOT TRUE of this code, and checked by no run: they agree in any case.  When the
\* two cross each end takes the change of the other, and nothing tells them so.
UrlAlwaysAgrees == UrlQuiet => entries[index] = value["url"]

\* What the browser reports is not pushed back to it: going back and forward
\* leaves the history as it is.
PopstatesAreNotPushed ==
  [][\A t \in Threads : \A i \in Len(out) + 1..Len(out') :
       ~Idle(t) /\ stack[t][1].kvar = "urlSource" => out'[i].kind # "pushState"]_out

\* The page shown is that of browser.url, again and again, crossed or not.
PageFollows == []<>(page = value["url"].path)
=============================================================================
