--------------------------- MODULE JsFunctionCalls ---------------------------
(***************************************************************************)
(* How the server runs JavaScript in the browser: WebBrowser gives every   *)
(* body of JavaScript an id the first time it is called, sends the body    *)
(* with that call only, and the browser keeps the function under the id.   *)
(* On its way a call may be caught: batch collects the calls of a block    *)
(* into one message, onImmediate turns them into an event listener that    *)
(* the browser runs by itself.                                             *)
(*                                                                         *)
(* The connection is taken as a queue that loses nothing; KwebConnection   *)
(* is about that.  Ids are drawn at random by the code, here they are      *)
(* numbered; 0 stands for null.                                            *)
(***************************************************************************)
EXTENDS Naturals, Sequences, SequencesExt

CONSTANTS
  Bodies,        \* bodies of JavaScript the application calls
  Quotable,      \* those with neither a line break nor a double quote
  Threads,       \* threads of the server that use the WebBrowser
  PageThread,    \* the one that renders the page
  Concurrent,    \* may two threads use the WebBrowser at the same time?
  Throws,        \* may a block whose calls are caught throw an exception?
  LongTrip,      \* does an answer take longer than registering its handler?
  MaxRecorded,   \* bound: calls an onImmediate handler makes
  MaxCalls       \* bound: calls and blocks in all

ASSUME CallsAssumption ==
  /\ Quotable \subseteq Bodies
  /\ PageThread \in Threads
  /\ {Concurrent, Throws, LongTrip} \subseteq BOOLEAN
  /\ MaxRecorded \in Nat /\ MaxCalls \in Nat

VARIABLES
  cachedFunctions,         \* WebBrowser.cachedFunctions
  ids,                     \* ids generated so far
  calls,                   \* calls and blocks so far
  pc, calling,             \* of each thread, and the FunctionCall it makes
  block,                   \* the block each thread runs whose calls are caught
  catcher, functionList,   \* outboundMessageCatcher of each thread
  page,                    \* progress of respondKweb
  sent, inlined,           \* messages under way; the first are in the page
  eventHandlers, completed, \* callbacks of the session; those invoked
  browser,                 \* its script runs, or has died
  functions, listeners,    \* cachedFunctions and event listeners over there
  answers, failed,         \* results on their way to the server; calls that threw
  recorded, pitfalls       \* history: the CacheJs sent ahead of onImmediate handlers,
                           \* and what went wrong while the page was built

callVars == <<cachedFunctions, ids, calls, pc, calling>>
catchVars == <<block, catcher, functionList>>
pageVars == <<page, inlined>>
handlerVars == <<eventHandlers, completed>>
browserVars == <<browser, functions, listeners, answers, failed>>
historyVars == <<recorded, pitfalls>>
vars == <<callVars, catchVars, pageVars, sent, handlerVars, browserVars, historyVars>>

Ids == 1..MaxCalls

\* What a FunctionCall has as js: the body of a function, what puts a function
\* into the browser's cache, what adds an event listener, or null.
Body(b) == [kind |-> "body", body |-> b]
CacheJs(i, b) == [kind |-> "cache", jsId |-> i, body |-> b]
Listener(is) == [kind |-> "listener", jsIds |-> is]
NoJs == [kind |-> "null"]
Codes == [kind : {"body"}, body : Bodies]
           \cup [kind : {"cache"}, jsId : Ids, body : Bodies]
           \cup [kind : {"listener"}, jsIds : Seq(Ids)] \cup {NoJs}

FunctionCall(i, js, cb) == [jsId |-> i, js |-> js, callbackId |-> cb]
FunctionCalls == [jsId : Ids \cup {0}, js : Codes, callbackId : Ids \cup {0}]

TypeOK ==
  /\ cachedFunctions \in [Bodies -> 0..ids]
  /\ ids \in 0..MaxCalls /\ calls \in 0..MaxCalls
  /\ pc \in [Threads -> {"idle", "define", "send", "register"}]
  /\ calling \in [Threads -> FunctionCalls]
  /\ block \in [Threads -> {"none", "batch", "immediate"}]
  /\ catcher \in [Threads -> {"none", "EVENT", "IMMEDIATE_EVENT"}]
  /\ functionList \in [Threads -> Seq(FunctionCalls)]
  /\ page \in {"building", "served"}
  /\ sent \in Seq(Seq(FunctionCalls))
  /\ inlined \in 0..Len(sent)
  /\ eventHandlers \subseteq Ids /\ completed \subseteq eventHandlers
  /\ browser \in {"loading", "running", "dead"}
  /\ functions \in [Ids -> {"undefined", "empty", "defined"}]
  /\ listeners \subseteq Seq(Ids)
  /\ answers \subseteq Ids /\ failed \subseteq Ids
  /\ recorded \subseteq {js \in Codes : js.kind = "cache"}
  /\ pitfalls \subseteq {"called", "joined"}

Init ==
  /\ cachedFunctions = [b \in Bodies |-> 0]
  /\ ids = 0 /\ calls = 0
  /\ pc = [t \in Threads |-> "idle"]
  /\ calling = [t \in Threads |-> FunctionCall(0, NoJs, 0)]
  /\ block = [t \in Threads |-> "none"]
  /\ catcher = [t \in Threads |-> "none"]
  /\ functionList = [t \in Threads |-> <<>>]
  /\ page = "building" /\ sent = <<>> /\ inlined = 0
  /\ eventHandlers = {} /\ completed = {}
  /\ browser = "loading"
  /\ functions = [i \in Ids |-> "undefined"]
  /\ listeners = {} /\ answers = {} /\ failed = {}
  /\ recorded = {} /\ pitfalls = {}

(***************************************************************************)
(* callJsFunction and callJsFunctionWithCallback.                          *)
(***************************************************************************)
\* The application may have its threads take turns.
MayUse(t) ==
  /\ pc[t] = "idle" /\ calls < MaxCalls
  /\ Concurrent \/ \A u \in Threads \ {t} : pc[u] = "idle" /\ block[u] = "none"

\* While the page is built, a function is called directly whose text was sent ahead
\* of a handler: the page will not find the text with the call.
CalledTooEarly(t, b) ==
  /\ page = "building" /\ catcher[t] # "IMMEDIATE_EVENT"
  /\ \E js \in recorded : js.jsId = cachedFunctions[b]

\* The callback of a call is known by the number of the call.
\* A handler for onImmediate makes MaxRecorded calls at most, without callbacks:
\* nobody could answer them.
CallJsFunction(t, b, withCallback) ==
  LET cb == IF withCallback THEN calls + 1 ELSE 0 IN
  /\ MayUse(t)
  /\ block[t] = "immediate" => ~withCallback /\ Len(functionList[t]) < MaxRecorded
  /\ calls' = calls + 1
  /\ IF cachedFunctions[b] # 0
     THEN /\ calling' = [calling EXCEPT ![t] = FunctionCall(cachedFunctions[b], NoJs, cb)]
          /\ pc' = [pc EXCEPT ![t] = "send"]
     ELSE /\ calling' = [calling EXCEPT ![t] = FunctionCall(0, Body(b), cb)]
          /\ pc' = [pc EXCEPT ![t] = "define"]
  /\ pitfalls' = IF CalledTooEarly(t, b) THEN pitfalls \cup {"called"} ELSE pitfalls
  /\ UNCHANGED <<cachedFunctions, ids, catchVars, pageVars, sent, handlerVars,
                 browserVars, recorded>>

\* From here on other threads send the id without the body.
Define(t) ==
  /\ pc[t] = "define"
  /\ ids' = ids + 1
  /\ cachedFunctions' = [cachedFunctions EXCEPT ![calling[t].js.body] = ids']
  /\ calling' = [calling EXCEPT ![t].jsId = ids']
  /\ pc' = [pc EXCEPT ![t] = "send"]
  /\ UNCHANGED <<calls, catchVars, pageVars, sent, handlerVars, browserVars,
                 historyVars>>

\* What a caught call sends nevertheless: for an immediate event the browser
\* gets the function ahead of the listener.
\* Seeded fault: it does not.
SentAheadNever(t) == <<>>
RecordsFirst(t) == catcher[t] = "IMMEDIATE_EVENT" /\ calling[t].js # NoJs
Ahead(t) == CacheJs(calling[t].jsId, calling[t].js.body)
SentAhead(t) == IF RecordsFirst(t) THEN <<<<FunctionCall(0, Ahead(t), 0)>>>> ELSE <<>>

\* A call with a callback goes on to register it.
AfterSend(t) == IF calling[t].callbackId = 0 THEN "idle" ELSE "register"

Send(t) ==
  /\ pc[t] = "send"
  /\ IF catcher[t] = "none"
     THEN /\ sent' = Append(sent, <<calling[t]>>)
          /\ UNCHANGED functionList
     ELSE /\ functionList' = [functionList EXCEPT ![t] = Append(@, calling[t])]
          /\ sent' = sent \o SentAhead(t)
  /\ recorded' = IF RecordsFirst(t) THEN recorded \cup {Ahead(t)} ELSE recorded
  /\ pc' = [pc EXCEPT ![t] = AfterSend(t)]
  /\ UNCHANGED <<cachedFunctions, ids, calls, calling, block, catcher, pageVars,
                 handlerVars, browserVars, pitfalls>>

\* eventHandlers is a HashMap without a lock: of two threads that add to it at
\* the same time one may lose its entry.
\* Seeded fault: an entry replaces those before it.
HandlersAfterLast(t) == {{calling[t].callbackId}}
HandlersAfter(t) ==
  {eventHandlers \cup {calling[t].callbackId}}
    \cup (IF \E u \in Threads \ {t} : pc[u] = "register" THEN {eventHandlers} ELSE {})

AddCallback(t) ==
  /\ pc[t] = "register"
  /\ eventHandlers' \in HandlersAfter(t)
  /\ pc' = [pc EXCEPT ![t] = "idle"]
  /\ UNCHANGED <<cachedFunctions, ids, calls, calling, catchVars, pageVars, sent,
                 completed, browserVars, historyVars>>

(***************************************************************************)
(* catchOutbound, for a batch (of an event handler or of a render) and for *)
(* onImmediate.  It refuses to be nested.                                  *)
(***************************************************************************)
CatchOutbound(t, what, type) ==
  /\ MayUse(t) /\ catcher[t] = "none"
  /\ calls' = calls + 1
  /\ block' = [block EXCEPT ![t] = what]
  /\ catcher' = [catcher EXCEPT ![t] = type]
  /\ functionList' = [functionList EXCEPT ![t] = <<>>]
  /\ UNCHANGED <<cachedFunctions, ids, pc, calling, pageVars, sent, handlerVars,
                 browserVars, historyVars>>

EndOfBlock(t, what) ==
  /\ pc[t] = "idle" /\ block[t] = what
  /\ block' = [block EXCEPT ![t] = "none"]
  /\ catcher' = [catcher EXCEPT ![t] = "none"]
  /\ functionList' = [functionList EXCEPT ![t] = <<>>]

EndBatch(t) ==
  /\ EndOfBlock(t, "batch")
  /\ sent' = Append(sent, functionList[t])
  /\ UNCHANGED <<callVars, pageVars, handlerVars, browserVars, historyVars>>

\* The listener is a call like any other.  Its text is taken to be new each time;
\* two handlers that record the same calls and arguments would share a function.
EndImmediate(t) ==
  /\ EndOfBlock(t, "immediate")
  /\ ids' = ids + 1
  /\ calling' = [calling EXCEPT ![t] =
       FunctionCall(ids', Listener([i \in DOMAIN functionList[t] |->
                                      functionList[t][i].jsId]), 0)]
  /\ pc' = [pc EXCEPT ![t] = "send"]
  /\ pitfalls' = IF page = "building" /\ Len(functionList[t]) > 1
                 THEN pitfalls \cup {"joined"} ELSE pitfalls
  /\ UNCHANGED <<cachedFunctions, calls, pageVars, sent, handlerVars, browserVars,
                 recorded>>

\* An exception in the block (onImmediate in a batch is one) leaves the catcher.
BlockThrows(t) ==
  /\ Throws /\ pc[t] = "idle" /\ block[t] # "none"
  /\ block' = [block EXCEPT ![t] = "none"]
  /\ UNCHANGED <<callVars, catcher, functionList, pageVars, sent, handlerVars,
                 browserVars, historyVars>>

(***************************************************************************)
(* The browser.                                                            *)
(***************************************************************************)
\* new Function(parameters, js) is not a syntax error: the body quoted in CacheJs
\* breaks at a line break or a double quote, and a listener has nothing between
\* one recorded call and the next.
Parses(js) ==
  /\ js.kind = "cache" => js.body \in Quotable
  /\ js.kind = "listener" => Len(js.jsIds) <= 1

\* respondKweb writes the functions of the messages it inlines into the script:
\* function(null) { null } if the first call with an id has no js.
\* Seeded fault: it writes one for every call.
InPageRepeated(msgs) == {fc \in ToSet(FlattenSeq(msgs)) : fc.jsId # 0}
InPage(msgs) ==
  LET all == FlattenSeq(msgs)
  IN  {all[i] : i \in {j \in DOMAIN all : /\ all[j].jsId # 0
                                          /\ \A k \in 1..(j - 1) : all[k].jsId # all[j].jsId}}

ServePage ==
  /\ page = "building" /\ pc[PageThread] = "idle" /\ block[PageThread] = "none"
  /\ page' = "served" /\ inlined' = Len(sent)
  /\ IF \A fc \in InPage(sent) : Parses(fc.js) /\ fc.js # NoJs
     THEN /\ browser' = "running"
          /\ functions' = [i \in Ids |-> IF \E fc \in InPage(sent) : fc.jsId = i
                                         THEN "defined" ELSE "undefined"]
     ELSE browser' = "dead" /\ UNCHANGED functions
  /\ UNCHANGED <<callVars, catchVars, sent, handlerVars, listeners, answers, failed,
                 historyVars>>

\* One functionCall in handleInboundMessage.
Kept(fs, fc) ==
  IF fc.jsId = 0 \/ fs[fc.jsId] # "undefined" THEN fs
  ELSE [fs EXCEPT ![fc.jsId] = IF fc.js = NoJs THEN "empty" ELSE "defined"]

\* A call with a callback answers it, unless the function throws.
\* Seeded fault: not if the function was in the cache already.
AnswersIfNew(fc) == IF fc.js = NoJs THEN {} ELSE {fc.callbackId} \ {0}
Answers(fc) == {fc.callbackId} \ {0}

\* The function is compiled and cached in any case; that of a call in st.throwing
\* throws when it runs, which is logged.
Execute(st, fc) ==
  LET known == fc.jsId # 0 /\ st.functions[fc.jsId] # "undefined"
      kept == Kept(st.functions, fc)
  IN  IF ~st.ok \/ ~(known \/ Parses(fc.js)) THEN [st EXCEPT !.ok = FALSE]
      ELSE IF fc \in st.throwing
      THEN [st EXCEPT !.functions = kept, !.failed = @ \cup ({fc.callbackId} \ {0})]
      ELSE [st EXCEPT
              !.functions = IF fc.js.kind = "cache"
                            THEN [kept EXCEPT ![fc.js.jsId] = "defined"] ELSE kept,
              !.listeners = IF fc.js.kind = "listener" THEN @ \cup {fc.js.jsIds} ELSE @,
              !.answers = @ \cup Answers(fc)]

Before(throwing) ==
  [ok |-> TRUE, functions |-> functions, listeners |-> listeners, answers |-> answers,
   failed |-> failed, throwing |-> throwing]

\* The calls of a message whose function may throw: an assignment to the cache does not.
MayThrow(msg) == {fc \in ToSet(msg) : fc.js.kind # "cache"}

\* A syntax error drops the rest of the message, and in the page the rest of the
\* script: it never gets to connectWs.
HandleInboundMessage ==
  /\ browser = "running" /\ sent # <<>>
  /\ LongTrip => \A t \in Threads : pc[t] # "register"
  /\ \E throwing \in SUBSET MayThrow(Head(sent)) :
       LET after == FoldLeft(Execute, Before(throwing), Head(sent)) IN
       /\ functions' = after.functions /\ listeners' = after.listeners
       /\ answers' = after.answers /\ failed' = after.failed
       /\ browser' = IF after.ok \/ inlined = 0 THEN "running" ELSE "dead"
  /\ sent' = Tail(sent)
  /\ inlined' = IF inlined = 0 THEN 0 ELSE inlined - 1
  /\ UNCHANGED <<callVars, catchVars, page, handlerVars, historyVars>>

\* The server gets a result: without a handler it is an error, and dropped.
HandleCallback(cb) ==
  /\ cb \in answers /\ browser = "running" /\ inlined = 0
  /\ answers' = answers \ {cb}
  /\ completed' = completed \cup ({cb} \cap eventHandlers)
  /\ UNCHANGED <<callVars, catchVars, pageVars, sent, eventHandlers, browser,
                 functions, listeners, failed, historyVars>>

-----------------------------------------------------------------------------
Proceed(t) == Define(t) \/ Send(t) \/ AddCallback(t) \/ EndBatch(t) \/ EndImmediate(t)

Next ==
  \/ \E t \in Threads :
       \/ Proceed(t)
       \/ \E b \in Bodies, cb \in BOOLEAN : CallJsFunction(t, b, cb)
       \/ CatchOutbound(t, "batch", "EVENT")
       \/ CatchOutbound(t, "immediate", "IMMEDIATE_EVENT")
       \/ BlockThrows(t)
  \/ ServePage \/ HandleInboundMessage
  \/ \E cb \in Ids : HandleCallback(cb)

Spec == Init /\ [][Next]_vars

\* A call goes on, a block ends, the page is served, and the browser and the
\* server handle what they are sent.  Nothing makes the application call.
FairSpec ==
  /\ Spec
  /\ \A t \in Threads : WF_vars(Proceed(t))
  /\ WF_vars(ServePage) /\ WF_vars(HandleInboundMessage)
  /\ \A cb \in Ids : WF_vars(HandleCallback(cb))

-----------------------------------------------------------------------------
\* The text of function i is lost: it is in a batch that threw, whose catcher stays and
\* hides it and all the thread calls from then on, or it was sent ahead and has a line
\* break or a double quote.
Stranded(t, i) ==
  /\ catcher[t] = "EVENT" /\ block[t] = "none"
  /\ \E k \in DOMAIN functionList[t] :
       functionList[t][k].js.kind = "body" /\ functionList[t][k].jsId = i
Lost(i) ==
  \/ \E t \in Threads : Stranded(t, i)
  \/ \E js \in recorded : js.jsId = i /\ ~Parses(js)

\* A call finds its function, unless the text is lost.  A call without js never puts an
\* empty function into the browser, which would stand in for the real one from then
\* on, and when an immediate event fires, the functions its listener calls are there.
FunctionsAreThere ==
  \A i \in Ids :
    Lost(i) \/ (/\ functions[i] # "empty"
                /\ \A is \in listeners : i \in ToSet(is) => functions[i] = "defined")

\* The script of the page runs to its end, and connects, unless a text is lost, an
\* onImmediate handler of the page makes two calls, or the page calls a function
\* directly that such a handler was the first to call.
PageComesAlive == browser = "dead" => pitfalls # {} \/ \E i \in Ids : Lost(i)

\* A call that is under way and has a callback gets its result to it, unless the
\* function throws or the script of the page has died: the handler is there before
\* the answer.
UnderWay(cb) ==
  \E i \in DOMAIN sent : \E j \in DOMAIN sent[i] : sent[i][j].callbackId = cb
ResultArrives ==
  \A cb \in Ids : UnderWay(cb) ~> cb \in completed \cup failed \/ browser = "dead"
=============================================================================
