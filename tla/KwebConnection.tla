--------------------------- MODULE KwebConnection ---------------------------
(***************************************************************************)
(* One browser session of Kweb: the RemoteClientState of the session, the  *)
(* ClientConnection objects it refers to one after the other (Caching      *)
(* while there is no websocket, WebSocket while there is one), the         *)
(* respondKweb coroutine that renders the page, one                        *)
(* listenForWebsocketConnection coroutine per websocket, the coroutine     *)
(* that pumps the send buffer of each websocket, the expiry of the session *)
(* from the clientState cache, the server threads that send to the         *)
(* browser, and kweb_bootstrap.js at the other end of the network.         *)
(*                                                                         *)
(* Websockets are numbered in the order the browser opens them.  The       *)
(* messages inlined in the page travel on "channel" PageChannel.           *)
(***************************************************************************)
EXTENDS Integers, Sequences, SequencesExt

CONSTANTS
  Threads,        \* server threads that send to this browser
  MaxSends,       \* bound: messages one thread sends
  NSockets,       \* bound: websockets the browser opens in all
  Capacity,       \* capacity of WebSocket.sendBuffer (1000 in the code)
  MaxEvents,      \* bound: events the user causes in the browser
  MaxKeepalives,  \* bound: keepalives the browser has sent that are not handled
  MaxExpiries,    \* bound: times the session leaves the clientState cache
  HalfOpen        \* may the browser open a new websocket before the server
                  \* has finished with the websocket it lost?

ASSUME ConnectionAssumption ==
  /\ NSockets \in Nat \ {0}
  /\ Capacity \in Nat \ {0}
  /\ MaxSends \in Nat /\ MaxEvents \in Nat
  /\ MaxKeepalives \in Nat /\ MaxExpiries \in Nat
  /\ HalfOpen \in BOOLEAN

Sockets == 1..NSockets
PageChannel == 0

\* A Caching object is named by what creates it: respondKweb creates two, and
\* the finally block of the handler of websocket s creates number s.
PageCache == -1
ServedCache == 0
Caches == {PageCache, ServedCache} \cup Sockets

Caching(c) == [kind |-> "Caching", id |-> c]
WebSocket(s) == [kind |-> "WebSocket", id |-> s]
Connections == [kind : {"Caching"}, id : Caches]
                 \cup [kind : {"WebSocket"}, id : Sockets]

\* The k-th message of thread t; frames of the browser: hello, keepalive, or
\* what reports an event of the user (a callback or a custom message).
Messages == [from : Threads, n : Nat]
Msg(t, k) == [from |-> t, n |-> k]
Hello == -1
Keepalive == 0
Events == 1..MaxEvents
Frames == {Hello, Keepalive} \cup Events

VARIABLES
  clientConnection,  \* RemoteClientState.clientConnection
  present,           \* the session is in the clientState cache
  evicted,           \* evicted, and the removal listener has yet to run
  onCloseHandlers,   \* websockets whose close handler is registered
  expiries,          \* times the session has expired
  queue, isRead,     \* of each Caching object
  sendBuffer, bufferClosed, pump,  \* of each WebSocket object
  link, down, up,    \* each websocket: its state and what is in flight
  hpc, currentCC, unsent,          \* each listenForWebsocketConnection
  page,              \* progress of respondKweb
  browser, socket, preWSMsgQueue, events, received,   \* kweb_bootstrap.js
  handled,           \* events the server has processed, in order
  tpc, count, ref,   \* each sending thread
  accepted           \* accepted[t]: messages of t whose send returned

cacheVars == <<queue, isRead>>
bufferVars == <<sendBuffer, bufferClosed, pump>>
netVars == <<link, down, up>>
handlerVars == <<hpc, currentCC, unsent, handled>>
sessionVars == <<present, evicted, onCloseHandlers, expiries>>
browserVars == <<browser, socket, preWSMsgQueue, events, received>>
threadVars == <<tpc, count, ref, accepted>>
vars == <<clientConnection, page, cacheVars, bufferVars, netVars, handlerVars,
          sessionVars, browserVars, threadVars>>

TypeOK ==
  /\ clientConnection \in Connections
  /\ present \in BOOLEAN /\ evicted \in BOOLEAN
  /\ onCloseHandlers \subseteq Sockets
  /\ expiries \in 0..MaxExpiries
  /\ queue \in [Caches -> Seq(Messages)]
  /\ isRead \in [Caches -> BOOLEAN]
  /\ sendBuffer \in [Sockets -> Seq(Messages)]
  /\ bufferClosed \in [Sockets -> BOOLEAN]
  /\ pump \in [Sockets -> {"none", "running", "dead"}]
  /\ link \in [Sockets -> {"unused", "up", "down", "rejected"}]
  /\ down \in [{PageChannel} \cup Sockets -> Seq(Messages)]
  /\ up \in [Sockets -> Seq(Frames)]
  /\ hpc \in [Sockets -> {"none", "found", "drain", "replace", "forward",
                          "install", "loop", "done"}]
  /\ currentCC \in [Sockets -> Connections]
  /\ \A s \in Sockets : hpc[s] = "replace" => currentCC[s].kind = "WebSocket"
  /\ unsent \in [Sockets -> Seq(Messages)]
  /\ handled \in Seq(Events)
  /\ page \in {"building", "swapped", "served"}
  /\ browser \in {"loading", "open", "waiting", "reloaded"}
  /\ socket \in 0..NSockets
  /\ preWSMsgQueue \in Seq(Frames \ {Hello})
  /\ events \in 0..MaxEvents
  /\ received \in Seq(Messages)
  /\ tpc \in [Threads -> {"idle", "found", "send"}]
  /\ count \in [Threads -> 0..MaxSends]
  /\ ref \in [Threads -> Connections]
  /\ accepted \in [Threads -> SUBSET Nat]

Init ==
  /\ clientConnection = Caching(PageCache)
  /\ present = TRUE /\ evicted = FALSE
  /\ onCloseHandlers = {}
  /\ expiries = 0
  /\ queue = [c \in Caches |-> <<>>]
  /\ isRead = [c \in Caches |-> FALSE]
  /\ sendBuffer = [s \in Sockets |-> <<>>]
  /\ bufferClosed = [s \in Sockets |-> FALSE]
  /\ pump = [s \in Sockets |-> "none"]
  /\ link = [s \in Sockets |-> "unused"]
  /\ down = [s \in {PageChannel} \cup Sockets |-> <<>>]
  /\ up = [s \in Sockets |-> <<>>]
  /\ hpc = [s \in Sockets |-> "none"]
  /\ currentCC = [s \in Sockets |-> Caching(PageCache)]
  /\ unsent = [s \in Sockets |-> <<>>]
  /\ handled = <<>>
  /\ page = "building"
  /\ browser = "loading" /\ socket = 0
  /\ preWSMsgQueue = <<>> /\ events = 0 /\ received = <<>>
  /\ tpc = [t \in Threads |-> "idle"]
  /\ count = [t \in Threads |-> 0]
  /\ ref = [t \in Threads |-> Caching(PageCache)]
  /\ accepted = [t \in Threads |-> {}]

(***************************************************************************)
(* respondKweb, once buildPage has returned: a fresh Caching replaces the  *)
(* one the page was built against, then that one is read into the page.    *)
(***************************************************************************)
\* Seeded fault: the Caching the page was built against stays in place.
ServedConnectionOld == clientConnection
ServedConnection == Caching(ServedCache)

SwapPageCache ==
  /\ page = "building"
  /\ clientConnection' = ServedConnection
  /\ page' = "swapped"
  /\ UNCHANGED <<cacheVars, bufferVars, netVars, handlerVars, sessionVars,
                 browserVars, threadVars>>

\* Seeded fault: read leaves the queue as it was.
ReadCachingAgain(c) == UNCHANGED <<queue, isRead>>
ReadCaching(c) ==
  /\ isRead' = [isRead EXCEPT ![c] = TRUE]
  /\ queue' = [queue EXCEPT ![c] = <<>>]

ServePage ==
  /\ page = "swapped"
  /\ ReadCaching(PageCache)
  /\ down' = [down EXCEPT ![PageChannel] = queue[PageCache]]
  /\ page' = "served"
  /\ UNCHANGED <<clientConnection, bufferVars, link, up, handlerVars,
                 sessionVars, browserVars, threadVars>>

(***************************************************************************)
(* A thread that sends: it looks the session up, reads the volatile field  *)
(* clientConnection, and calls send on the object it read.                 *)
(***************************************************************************)
CallJs(t) ==
  /\ tpc[t] = "idle" /\ count[t] < MaxSends
  /\ count' = [count EXCEPT ![t] = @ + 1]
  /\ tpc' = [tpc EXCEPT ![t] = IF present THEN "found" ELSE "idle"]
  /\ UNCHANGED <<clientConnection, page, cacheVars, bufferVars, netVars,
                 handlerVars, sessionVars, browserVars, ref, accepted>>

ReadConnection(t) ==
  /\ tpc[t] = "found"
  /\ ref' = [ref EXCEPT ![t] = clientConnection]
  /\ tpc' = [tpc EXCEPT ![t] = "send"]
  /\ UNCHANGED <<clientConnection, page, cacheVars, bufferVars, netVars,
                 handlerVars, sessionVars, browserVars, count, accepted>>

\* Seeded fault: send does not look at isRead.
RefusesNever(c) == FALSE
Refuses(c) == isRead[c]

\* Caching.send: queued, unless the queue was read in the meantime (error).
CachingSend(t) ==
  LET c == ref[t].id IN
  /\ tpc[t] = "send" /\ ref[t].kind = "Caching"
  /\ IF Refuses(c)
     THEN UNCHANGED <<queue, accepted>>
     ELSE /\ queue' = [queue EXCEPT ![c] = Append(@, Msg(t, count[t]))]
          /\ accepted' = [accepted EXCEPT ![t] = @ \cup {count[t]}]
  /\ tpc' = [tpc EXCEPT ![t] = "idle"]
  /\ UNCHANGED <<clientConnection, page, isRead, bufferVars, netVars,
                 handlerVars, sessionVars, browserVars, count, ref>>

\* WebSocket.send: blocks while the buffer is full, fails once it is closed.
WebSocketSend(t) ==
  LET s == ref[t].id IN
  /\ tpc[t] = "send" /\ ref[t].kind = "WebSocket"
  /\ \/ /\ bufferClosed[s]
        /\ UNCHANGED <<sendBuffer, accepted>>
     \/ /\ ~bufferClosed[s] /\ Len(sendBuffer[s]) < Capacity
        /\ sendBuffer' = [sendBuffer EXCEPT ![s] = Append(@, Msg(t, count[t]))]
        /\ accepted' = [accepted EXCEPT ![t] = @ \cup {count[t]}]
  /\ tpc' = [tpc EXCEPT ![t] = "idle"]
  /\ UNCHANGED <<clientConnection, page, cacheVars, bufferClosed, pump, netVars,
                 handlerVars, sessionVars, browserVars, count, ref>>

(***************************************************************************)
(* The network and the pump coroutine of a WebSocket.                      *)
(***************************************************************************)
\* The close frame of websocket s leaves the server (or ktor closes the
\* session): what was in flight either way may or may not still arrive.
Sever(s, how) ==
  IF link[s] = "up"
  THEN /\ link' = [link EXCEPT ![s] = how]
       /\ \E i \in 0..Len(down[s]), j \in 0..Len(up[s]) :
            /\ down' = [down EXCEPT ![s] = SubSeq(@, 1, i)]
            /\ up' = [up EXCEPT ![s] = SubSeq(@, 1, j)]
  ELSE UNCHANGED netVars

\* The network drops websocket s.  Bound: the last websocket is not dropped.
Disconnect(s) ==
  /\ link[s] = "up" /\ s < NSockets
  /\ Sever(s, "down")
  /\ UNCHANGED <<clientConnection, page, cacheVars, bufferVars, handlerVars,
                 sessionVars, browserVars, threadVars>>

\* for(frame in sendBuffer) channel.send(frame): while the server has not
\* noticed that the link is down, the frame goes nowhere.
Pump(s) ==
  /\ pump[s] = "running" /\ sendBuffer[s] # <<>>
  /\ sendBuffer' = [sendBuffer EXCEPT ![s] = Tail(@)]
  /\ down' = IF link[s] = "up"
             THEN [down EXCEPT ![s] = Append(@, Head(sendBuffer[s]))]
             ELSE down
  /\ UNCHANGED <<clientConnection, page, cacheVars, bufferClosed, pump, link, up,
                 handlerVars, sessionVars, browserVars, threadVars>>

\* channel.send throws on a dead session, which ends the pump for good.
PumpFails(s) ==
  /\ pump[s] = "running" /\ link[s] # "up"
  /\ pump' = [pump EXCEPT ![s] = "dead"]
  /\ UNCHANGED <<clientConnection, page, cacheVars, sendBuffer, bufferClosed,
                 netVars, handlerVars, sessionVars, browserVars, threadVars>>

(***************************************************************************)
(* listenForWebsocketConnection, on websocket s.                           *)
(***************************************************************************)
\* Seeded fault: the websocket of an unknown session is left open.
RejectSilently(s) == UNCHANGED netVars
Reject(s) == Sever(s, "rejected")

\* The hello: without a session the websocket is closed with NOT_CONSISTENT.
ReceiveHello(s) ==
  /\ hpc[s] = "none" /\ up[s] # <<>>
  /\ IF present
     THEN /\ hpc' = [hpc EXCEPT ![s] = "found"]
          /\ up' = [up EXCEPT ![s] = Tail(@)]
          /\ UNCHANGED <<link, down>>
     ELSE /\ hpc' = [hpc EXCEPT ![s] = "done"]
          /\ Reject(s)
  /\ UNCHANGED <<clientConnection, page, cacheVars, bufferVars, currentCC, unsent,
                 handled, sessionVars, browserVars, threadVars>>

ReadCurrentCC(s) ==
  /\ hpc[s] = "found"
  /\ currentCC' = [currentCC EXCEPT ![s] = clientConnection]
  /\ hpc' = [hpc EXCEPT ![s] = IF clientConnection.kind = "Caching"
                               THEN "drain" ELSE "replace"]
  /\ UNCHANGED <<clientConnection, page, cacheVars, bufferVars, netVars, unsent,
                 handled, sessionVars, browserVars, threadVars>>

\* The init block of WebSocket launches the pump.
\* Seeded fault: it does not.
StartNoPump(s) == UNCHANGED pump
StartPump(s) == pump' = [pump EXCEPT ![s] = "running"]

\* currentCC.read(): all that was cached, once; a second read is an error that
\* leaves the handler before its try block, and ktor closes the websocket.
DrainCaching(s) ==
  LET c == currentCC[s].id IN
  /\ hpc[s] = "drain"
  /\ StartPump(s)
  /\ IF isRead[c]
     THEN /\ hpc' = [hpc EXCEPT ![s] = "done"]
          /\ Sever(s, "down")
          /\ UNCHANGED <<cacheVars, unsent>>
     ELSE /\ hpc' = [hpc EXCEPT ![s] = "forward"]
          /\ unsent' = [unsent EXCEPT ![s] = queue[c]]
          /\ ReadCaching(c)
          /\ UNCHANGED netVars
  /\ UNCHANGED <<clientConnection, page, sendBuffer, bufferClosed, currentCC,
                 handled, sessionVars, browserVars, threadVars>>

\* forEach { webSocketClientConnection.send(it) }
Forward(s) ==
  /\ hpc[s] = "forward" /\ unsent[s] # <<>>
  /\ Len(sendBuffer[s]) < Capacity
  /\ sendBuffer' = [sendBuffer EXCEPT ![s] = Append(@, Head(unsent[s]))]
  /\ unsent' = [unsent EXCEPT ![s] = Tail(@)]
  /\ UNCHANGED <<clientConnection, page, cacheVars, bufferClosed, pump, netVars,
                 hpc, currentCC, handled, sessionVars, browserVars, threadVars>>

\* currentCC is a WebSocket: it is closed with 4001 and a new one is made.
ReplaceWebSocket(s) ==
  LET old == currentCC[s].id IN
  /\ hpc[s] = "replace"
  /\ Sever(old, "down")
  /\ bufferClosed' = [bufferClosed EXCEPT ![old] = TRUE]
  /\ StartPump(s)
  /\ hpc' = [hpc EXCEPT ![s] = "forward"]
  /\ UNCHANGED <<clientConnection, page, cacheVars, sendBuffer, currentCC, unsent,
                 handled, sessionVars, browserVars, threadVars>>

\* Seeded fault: no close handler is registered.
RegisteredNever(s) == onCloseHandlers
Registered(s) == onCloseHandlers \cup {s}

AddCloseHandler(s) ==
  /\ hpc[s] = "forward" /\ unsent[s] = <<>>
  /\ onCloseHandlers' = Registered(s)
  /\ hpc' = [hpc EXCEPT ![s] = "install"]
  /\ UNCHANGED <<clientConnection, page, cacheVars, bufferVars, netVars, currentCC,
                 unsent, handled, present, evicted, expiries, browserVars,
                 threadVars>>

\* Seeded fault: the connection read at the start is assigned back.
InstalledOld(s) == currentCC[s]
Installed(s) == WebSocket(s)

InstallWebSocket(s) ==
  /\ hpc[s] = "install"
  /\ clientConnection' = Installed(s)
  /\ hpc' = [hpc EXCEPT ![s] = "loop"]
  /\ UNCHANGED <<page, cacheVars, bufferVars, netVars, currentCC, unsent, handled,
                 sessionVars, browserVars, threadVars>>

\* One frame: clientState.get(hello.id) { remoteClientState } keeps the session
\* in the cache, and puts it back if it has expired; then the frame is handled.
HandleFrame(s) ==
  /\ hpc[s] = "loop" /\ up[s] # <<>>
  /\ present' = TRUE
  /\ handled' = IF Head(up[s]) \in Events THEN Append(handled, Head(up[s]))
                ELSE handled
  /\ up' = [up EXCEPT ![s] = Tail(@)]
  /\ UNCHANGED <<clientConnection, page, cacheVars, bufferVars, link, down, hpc,
                 currentCC, unsent, evicted, onCloseHandlers, expiries,
                 browserVars, threadVars>>

\* Seeded faults: the finally block brings back the connection the handler
\* found, or the websocket before its own.
LeftBehindFound(s) == currentCC[s]
LeftBehindPrevious(s) == WebSocket(s - 1)

\* The connection a handler leaves behind when its websocket is gone.
LeftBehind(s) == Caching(s)

\* incoming is exhausted: the finally block.
EndOfFrames(s) ==
  /\ hpc[s] = "loop" /\ up[s] = <<>> /\ link[s] # "up"
  /\ clientConnection' = LeftBehind(s)
  /\ hpc' = [hpc EXCEPT ![s] = "done"]
  /\ UNCHANGED <<page, cacheVars, bufferVars, netVars, currentCC, unsent, handled,
                 sessionVars, browserVars, threadVars>>

(***************************************************************************)
(* The session expires from the cache, and then the removal listener runs  *)
(* the close handlers: each closes its websocket with 4002.                *)
(***************************************************************************)
Expire ==
  /\ present /\ expiries < MaxExpiries
  /\ present' = FALSE /\ evicted' = TRUE
  /\ expiries' = expiries + 1
  /\ UNCHANGED <<clientConnection, page, cacheVars, bufferVars, netVars,
                 handlerVars, onCloseHandlers, browserVars, threadVars>>

TriggerCloseListeners ==
  /\ evicted
  /\ evicted' = FALSE
  /\ onCloseHandlers' = {}
  /\ bufferClosed' = [s \in Sockets |-> bufferClosed[s] \/ s \in onCloseHandlers]
  /\ link' = [s \in Sockets |-> IF s \in onCloseHandlers /\ link[s] = "up"
                                THEN "down" ELSE link[s]]
  /\ UNCHANGED <<clientConnection, page, cacheVars, sendBuffer, pump, down, up,
                 handlerVars, present, expiries, browserVars, threadVars>>

(***************************************************************************)
(* kweb_bootstrap.js.  A step of the browser is one run of its event loop. *)
(***************************************************************************)
\* handleInboundMessage, for a message inlined in the page or from the socket
Receive ==
  LET ch == IF browser = "loading" THEN PageChannel ELSE socket IN
  /\ browser \in {"loading", "open"} /\ down[ch] # <<>>
  /\ received' = Append(received, Head(down[ch]))
  /\ down' = [down EXCEPT ![ch] = Tail(@)]
  /\ UNCHANGED <<clientConnection, page, cacheVars, bufferVars, link, up,
                 handlerVars, sessionVars, browser, socket, preWSMsgQueue, events,
                 threadVars>>

\* The server is through with websocket s.
Finished(s) ==
  \/ hpc[s] = "done"
  \/ hpc[s] = "none" /\ up[s] = <<>>

\* What onopen sends: the hello, then what was queued, which it takes away.
\* Seeded fault: the queue stays.
FirstFrames == <<Hello>> \o preWSMsgQueue

FlushedQueueKept == preWSMsgQueue
FlushedQueue == <<>>

\* connectWs, as far as onopen: hello, then what was queued meanwhile.
ConnectWs ==
  LET s == socket + 1 IN
  /\ \/ browser = "loading" /\ page = "served" /\ down[PageChannel] = <<>>
     \/ browser = "waiting"
  /\ socket < NSockets
  /\ HalfOpen \/ \A r \in 1..socket : Finished(r)
  /\ browser' = "open" /\ socket' = s
  /\ link' = [link EXCEPT ![s] = "up"]
  /\ up' = [up EXCEPT ![s] = FirstFrames]
  /\ preWSMsgQueue' = FlushedQueue
  /\ UNCHANGED <<clientConnection, page, cacheVars, bufferVars, down, handlerVars,
                 sessionVars, events, received, threadVars>>

\* socket.onclose, once what the socket still delivers has been handled:
\* reload the page if the server no longer knows it, else reconnect later.
OnClose ==
  /\ browser = "open" /\ link[socket] # "up" /\ down[socket] = <<>>
  /\ browser' = IF link[socket] = "rejected" THEN "reloaded" ELSE "waiting"
  /\ UNCHANGED <<clientConnection, page, cacheVars, bufferVars, netVars,
                 handlerVars, sessionVars, socket, preWSMsgQueue, events, received,
                 threadVars>>

\* reconnectLoopWs has doubled its timeout past ten minutes: reload the page.
GiveUp ==
  /\ browser = "waiting"
  /\ browser' = "reloaded"
  /\ UNCHANGED <<clientConnection, page, cacheVars, bufferVars, netVars,
                 handlerVars, sessionVars, socket, preWSMsgQueue, events, received,
                 threadVars>>

\* sendClientMessage: a socket that is closing discards what it is given.
SendClientMessage(msg) ==
  IF browser = "open"
  THEN /\ up' = IF link[socket] = "up"
                THEN [up EXCEPT ![socket] = Append(@, msg)] ELSE up
       /\ UNCHANGED preWSMsgQueue
  ELSE /\ preWSMsgQueue' = Append(preWSMsgQueue, msg)
       /\ UNCHANGED up

BrowserEvent ==
  /\ browser \in {"open", "waiting"} /\ events < MaxEvents
  /\ events' = events + 1
  /\ SendClientMessage(events + 1)
  /\ UNCHANGED <<clientConnection, page, cacheVars, bufferVars, link, down,
                 handlerVars, sessionVars, browser, socket, received, threadVars>>

\* setInterval(sendKeepalive, 60*1000)
SendKeepalive ==
  /\ browser \in {"open", "waiting"}
  /\ Len(SelectSeq(up[socket] \o preWSMsgQueue, LAMBDA f : f = Keepalive))
       < MaxKeepalives
  /\ SendClientMessage(Keepalive)
  /\ UNCHANGED <<clientConnection, page, cacheVars, bufferVars, link, down,
                 handlerVars, sessionVars, browser, socket, events, received,
                 threadVars>>

-----------------------------------------------------------------------------
Sender(t) == ReadConnection(t) \/ CachingSend(t) \/ WebSocketSend(t)

Handler(s) ==
  \/ ReceiveHello(s) \/ ReadCurrentCC(s) \/ DrainCaching(s) \/ Forward(s)
  \/ ReplaceWebSocket(s) \/ AddCloseHandler(s) \/ InstallWebSocket(s)
  \/ HandleFrame(s) \/ EndOfFrames(s)

Next ==
  \/ SwapPageCache \/ ServePage
  \/ \E t \in Threads : CallJs(t) \/ Sender(t)
  \/ \E s \in Sockets : Disconnect(s) \/ Pump(s) \/ PumpFails(s) \/ Handler(s)
  \/ Expire \/ TriggerCloseListeners
  \/ Receive \/ ConnectWs \/ OnClose \/ GiveUp
  \/ BrowserEvent \/ SendKeepalive

Spec == Init /\ [][Next]_vars

\* The coroutines, threads and timers that run keep running.  Nothing forces a
\* thread to send, a user to act, the network to fail or the session to expire.
Fairness ==
  /\ WF_vars(SwapPageCache) /\ WF_vars(ServePage) /\ WF_vars(TriggerCloseListeners)
  /\ \A t \in Threads : WF_vars(Sender(t))
  /\ \A s \in Sockets : WF_vars(Handler(s)) /\ WF_vars(Pump(s))
  /\ WF_vars(Receive) /\ WF_vars(OnClose) /\ WF_vars(ConnectWs \/ GiveUp)
  /\ WF_vars(SendKeepalive)

FairSpec == Spec /\ Fairness

-----------------------------------------------------------------------------
(***************************************************************************)
(* Properties.                                                             *)
(***************************************************************************)
\* A handler serves websocket s, and the browser uses it.
Connected(s) == hpc[s] = "loop" /\ link[s] = "up" /\ socket = s

\* While the browser is connected, what the server sends goes to its websocket
\* and not into a Caching, which nothing would read before the next reconnect.
ConnectedIsInstalled ==
  \A s \in Sockets : Connected(s) => clientConnection = WebSocket(s)

\* The error in Caching.read is never reached: no handler is about to read a
\* Caching whose contents were already taken.
ReadOnlyOnce ==
  \A s \in Sockets : hpc[s] = "drain" => ~isRead[currentCC[s].id]

\* The session refers to a Caching that refuses writes only while a handler is
\* between reading that Caching and installing its websocket.
ReadCachingIsInHandOff ==
  (clientConnection.kind = "Caching" /\ isRead[clientConnection.id]) =>
     \E s \in Sockets : /\ hpc[s] \in {"forward", "install"}
                        /\ currentCC[s] = clientConnection

\* A websocket in service is closed when the session is closed: it never
\* outlives the close handlers of the session unclosed.
OpenSocketIsClosable ==
  \A s \in Sockets : hpc[s] = "loop" => bufferClosed[s] \/ s \in onCloseHandlers

\* The server handles the events of the user in the order they happened, none
\* of them twice (some may be lost with a websocket).
EventsInOrder ==
  \A i, j \in DOMAIN handled : i < j => handled[i] < handled[j]

\* NOT TRUE of this code, and checked by no run: the error in Caching.send is
\* never reached.  A thread may read clientConnection just before a handler
\* drains the Caching it found there, and send after.
NeverWriteAfterRead ==
  \A t \in Threads : (tpc[t] = "send" /\ ref[t].kind = "Caching") =>
                        ~isRead[ref[t].id]

\* Messages on their way to the browser.
InFlight ==
  (UNION {ToSet(queue[c]) : c \in {d \in Caches : ~isRead[d]}})
    \cup (UNION {ToSet(unsent[s]) : s \in Sockets})
    \cup (UNION {ToSet(sendBuffer[s]) : s \in Sockets})
    \cup (UNION {ToSet(down[ch]) : ch \in {PageChannel} \cup Sockets})

\* A message is lost only with a websocket: as long as none has gone down,
\* whatever a send has accepted is on its way or has arrived.
NothingLostWhileUp ==
  (\A s \in Sockets : link[s] \in {"unused", "up"}) =>
     \A t \in Threads : \A k \in accepted[t] :
        Msg(t, k) \in InFlight \cup ToSet(received)

\* Message m waits for the browser, and not in a websocket that is gone.
Waits(m) ==
  \/ \E c \in Caches : m \in ToSet(queue[c])
  \/ \E s \in Sockets : /\ link[s] = "up"
                        /\ \/ m \in ToSet(unsent[s])
                           \/ m \in ToSet(sendBuffer[s])
                           \/ m \in ToSet(down[s])
  \/ m \in ToSet(down[PageChannel])

\* No message waits for ever: it reaches the browser, is lost with a websocket,
\* or the browser reloads the page.
NothingWaitsForever ==
  \A t \in Threads : \A k \in 1..MaxSends :
     Waits(Msg(t, k)) ~> (~Waits(Msg(t, k)) \/ browser = "reloaded")


\* A browser whose session has expired gets a fresh page, unless a frame it
\* sent before has put the session back.
ExpiredClientReloads == ~present ~> (present \/ browser = "reloaded")

\* Delivery is that of ProducerFeed: in order and without duplicates for every
\* sending thread, through every hand-over from one connection to the next.
LastReceived(t) ==
  LET mine == {i \in DOMAIN received : received[i].from = t}
  IN  IF mine = {} THEN 0 ELSE received[Max(mine)].n

Feed == INSTANCE ProducerFeed WITH
  Producers <- Threads,
  accepted <- accepted,
  last <- [t \in Threads |-> LastReceived(t)]

FeedSpec == Feed!Spec

(***************************************************************************)
(* Why the hand-over is right when the browser opens a new websocket only  *)
(* after the server has finished with the last one: only the latest        *)
(* handler runs, the session refers to an unread Caching until it reads    *)
(* it, to that Caching until it installs its websocket, and to the         *)
(* websocket until it ends.                                                *)
(***************************************************************************)
OneHandlerAtATime ==
  /\ \A s \in Sockets : s > socket => hpc[s] = "none" /\ up[s] = <<>>
  /\ \A s \in Sockets : s < socket => Finished(s)

PageFirst ==
  /\ page # "served" => /\ socket = 0 /\ browser = "loading"
                        /\ ~isRead[PageCache] /\ ~isRead[ServedCache]
  /\ page = "building" <=> clientConnection = Caching(PageCache)

LeftBehindByTheDone ==
  /\ \A s \in Sockets : hpc[s] # "done" => ~isRead[s]
  /\ \A s \in Sockets : clientConnection = Caching(s) => hpc[s] = "done"

HandOver ==
  /\ (\A s \in Sockets : hpc[s] \in {"none", "found", "done"}) =>
        clientConnection.kind = "Caching" /\ ~isRead[clientConnection.id]
  /\ \A s \in Sockets :
       /\ hpc[s] # "replace"
       /\ hpc[s] \in {"drain", "forward", "install"} =>
            clientConnection = currentCC[s] /\ clientConnection.kind = "Caching"
       /\ hpc[s] = "drain" => ~isRead[clientConnection.id]
       /\ hpc[s] = "loop" => clientConnection = WebSocket(s)

OrderlyInv == OneHandlerAtATime /\ PageFirst /\ LeftBehindByTheDone /\ HandOver

=============================================================================
