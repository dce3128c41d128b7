------------------------ MODULE KwebConnection_proofs ------------------------
(***************************************************************************)
(* Theorems about KwebConnection, for every number of threads, websockets, *)
(* messages, events, keepalives and expiries.  The first part is about the *)
(* objects a session sends to, the second about what it delivers.          *)
(***************************************************************************)
EXTENDS KwebConnection, WellFoundedInduction, TLAPS

(***************************************************************************)
(* Type correctness.                                                       *)
(***************************************************************************)
LEMMA ConnectionTypes ==
  /\ PageCache \in Caches /\ ServedCache \in Caches
  /\ \A c \in Caches : Caching(c) \in Connections
  /\ \A s \in Sockets : s \in Caches /\ WebSocket(s) \in Connections
  /\ \A r \in Connections : r.id \in Caches
  /\ \A r \in Connections : r.kind # "Caching" => r.kind = "WebSocket" /\ r.id \in Sockets
BY DEF Caches, Connections, Caching, WebSocket, PageCache, ServedCache

LEMMA HeadTailTypes ==
  ASSUME NEW S, NEW q \in Seq(S), q # <<>>
  PROVE  Head(q) \in S /\ Tail(q) \in Seq(S)
OBVIOUS

LEMMA SeverTypes ==
  ASSUME TypeOK, NEW s \in Sockets, NEW how \in {"down", "rejected"}, Sever(s, how)
  PROVE  /\ link' \in [Sockets -> {"unused", "up", "down", "rejected"}]
         /\ down' \in [{PageChannel} \cup Sockets -> Seq(Messages)]
         /\ up' \in [Sockets -> Seq(Frames)]
<1>1. CASE link[s] # "up"
  BY <1>1 DEF Sever, TypeOK, netVars
<1>2. CASE link[s] = "up"
  <2>1. PICK i \in 0..Len(down[s]), j \in 0..Len(up[s]) :
           /\ down' = [down EXCEPT ![s] = SubSeq(@, 1, i)]
           /\ up' = [up EXCEPT ![s] = SubSeq(@, 1, j)]
    BY <1>2 DEF Sever
  <2>2. down[s] \in Seq(Messages) /\ up[s] \in Seq(Frames)
    BY DEF TypeOK
  <2>3. SubSeq(down[s], 1, i) \in Seq(Messages) /\ SubSeq(up[s], 1, j) \in Seq(Frames)
    BY <2>2
  <2>4. down' \in [{PageChannel} \cup Sockets -> Seq(Messages)]
    BY <2>1, <2>3 DEF TypeOK
  <2>5. up' \in [Sockets -> Seq(Frames)]
    BY <2>1, <2>3 DEF TypeOK
  <2>6. link' = [link EXCEPT ![s] = how]
    BY <1>2 DEF Sever
  <2>7. QED
    BY <2>4, <2>5, <2>6 DEF TypeOK
<1>3. QED
  BY <1>1, <1>2

LEMMA SendClientMessageTypes ==
  ASSUME TypeOK, NEW msg \in Frames \ {Hello}, SendClientMessage(msg)
  PROVE  /\ up' \in [Sockets -> Seq(Frames)]
         /\ preWSMsgQueue' \in Seq(Frames \ {Hello})
<1>1. msg \in Frames /\ up \in [Sockets -> Seq(Frames)]
      /\ preWSMsgQueue \in Seq(Frames \ {Hello})
  BY DEF TypeOK
<1>2. ASSUME NEW q \in Seq(Frames) PROVE Append(q, msg) \in Seq(Frames)
  BY <1>1
<1>3. Append(preWSMsgQueue, msg) \in Seq(Frames \ {Hello})
  BY <1>1
<1>4. [up EXCEPT ![socket] = Append(@, msg)] \in [Sockets -> Seq(Frames)]
  BY <1>1, <1>2
<1>5. QED
  BY <1>1, <1>3, <1>4 DEF SendClientMessage

LEMMA InitTypes == Init => TypeOK
<1> SUFFICES ASSUME Init PROVE TypeOK
  OBVIOUS
<1> USE ConnectionAssumption, ConnectionTypes DEF Init
<1>1. clientConnection \in Connections /\ onCloseHandlers \subseteq Sockets
  OBVIOUS
<1>2. expiries \in 0..MaxExpiries /\ events \in 0..MaxEvents /\ socket \in 0..NSockets
  OBVIOUS
<1>3. queue \in [Caches -> Seq(Messages)] /\ isRead \in [Caches -> BOOLEAN]
  OBVIOUS
<1>4. /\ sendBuffer \in [Sockets -> Seq(Messages)]
      /\ bufferClosed \in [Sockets -> BOOLEAN]
      /\ pump \in [Sockets -> {"none", "running", "dead"}]
      /\ link \in [Sockets -> {"unused", "up", "down", "rejected"}]
  OBVIOUS
<1>5. /\ down \in [{PageChannel} \cup Sockets -> Seq(Messages)]
      /\ up \in [Sockets -> Seq(Frames)]
  OBVIOUS
<1>6. handled \in Seq(Events) /\ preWSMsgQueue \in Seq(Frames \ {Hello})
  OBVIOUS
<1>7. /\ hpc \in [Sockets -> {"none", "found", "drain", "replace", "forward",
                             "install", "loop", "done"}]
      /\ currentCC \in [Sockets -> Connections]
      /\ unsent \in [Sockets -> Seq(Messages)]
      /\ \A s \in Sockets : hpc[s] # "replace"
  OBVIOUS
<1>8. /\ tpc \in [Threads -> {"idle", "found", "send"}]
      /\ count \in [Threads -> 0..MaxSends]
      /\ ref \in [Threads -> Connections]
      /\ accepted \in [Threads -> SUBSET Nat]
  OBVIOUS
<1>9. QED
  BY <1>1, <1>2, <1>3, <1>4, <1>5, <1>6, <1>7, <1>8 DEF TypeOK

\* A handler that moves on, but not to "replace".
LEMMA HandlerTypes ==
  ASSUME TypeOK, NEW s \in Sockets,
         NEW x \in {"none", "found", "drain", "forward", "install", "loop", "done"},
         hpc' = [hpc EXCEPT ![s] = x]
  PROVE  /\ hpc' \in [Sockets -> {"none", "found", "drain", "replace", "forward",
                                 "install", "loop", "done"}]
         /\ \A r \in Sockets : hpc'[r] = "replace" => currentCC[r].kind = "WebSocket"
<1>1. /\ hpc \in [Sockets -> {"none", "found", "drain", "replace", "forward",
                              "install", "loop", "done"}]
      /\ \A r \in Sockets : hpc[r] = "replace" => currentCC[r].kind = "WebSocket"
  BY SMTT(30) DEF TypeOK
<1>2. x # "replace"
  OBVIOUS
<1>3. hpc' \in [Sockets -> {"none", "found", "drain", "replace", "forward",
                           "install", "loop", "done"}]
  BY <1>1
<1>4. ASSUME NEW r \in Sockets, hpc'[r] = "replace"
      PROVE  currentCC[r].kind = "WebSocket"
  <2>1. hpc[r] = "replace"
    BY <1>1, <1>2, <1>4
  <2>2. QED
    BY ONLY <1>1, <2>1, r \in Sockets
<1>5. QED
  BY <1>3, <1>4

LEMMA StepTypes == TypeOK /\ [Next]_vars => TypeOK'
<1> SUFFICES ASSUME TypeOK, [Next]_vars PROVE TypeOK'
  OBVIOUS
<1> USE ConnectionAssumption, ConnectionTypes
    DEF TypeOK, cacheVars, bufferVars, netVars, handlerVars, sessionVars,
        browserVars, threadVars
<1>1. CASE SwapPageCache
  BY <1>1 DEF SwapPageCache, ServedConnection
<1>2. CASE ServePage
  BY <1>2 DEF ServePage, ReadCaching
<1>3. CASE Expire
  <2>1. expiries' \in 0..MaxExpiries
    BY <1>3 DEF Expire
  <2>2. QED
    BY <1>3, <2>1 DEF Expire
<1>4. CASE TriggerCloseListeners
  BY <1>4 DEF TriggerCloseListeners
<1>5. CASE Receive
  <2> DEFINE ch == IF browser = "loading" THEN PageChannel ELSE socket
  <2>1. browser \in {"loading", "open"} /\ down[ch] # <<>>
    BY <1>5 DEF Receive
  <2>2. /\ received' = Append(received, Head(down[ch]))
        /\ down' = [down EXCEPT ![ch] = Tail(@)]
    BY <1>5 DEF Receive
  <2>3. ch \in {PageChannel} \cup Sockets
    BY DEF PageChannel, Sockets
  <2>4. Head(down[ch]) \in Messages /\ Tail(down[ch]) \in Seq(Messages)
    BY <2>1, <2>3, HeadTailTypes
  <2>5. received' \in Seq(Messages)
    BY <2>2, <2>4
  <2>6. down' \in [{PageChannel} \cup Sockets -> Seq(Messages)]
    BY <2>2, <2>4
  <2>7. QED
    BY <1>5, <2>5, <2>6 DEF Receive
<1>6. CASE ConnectWs
  <2>1. socket + 1 \in Sockets /\ socket' \in 0..NSockets
    BY <1>6 DEF ConnectWs, Sockets
  <2>2. FirstFrames \in Seq(Frames) /\ FlushedQueue \in Seq(Frames \ {Hello})
    BY DEF FirstFrames, FlushedQueue, Frames
  <2>3. QED
    BY <1>6, <2>1, <2>2 DEF ConnectWs
<1>7. CASE OnClose
  BY <1>7 DEF OnClose
<1>8. CASE GiveUp
  BY <1>8 DEF GiveUp
<1>9. CASE BrowserEvent
  <2>1. events + 1 \in Frames \ {Hello}
    BY <1>9 DEF BrowserEvent, Frames, Events, Hello, Keepalive
  <2>2. /\ up' \in [Sockets -> Seq(Frames)]
        /\ preWSMsgQueue' \in Seq(Frames \ {Hello})
    BY <1>9, <2>1, SendClientMessageTypes DEF BrowserEvent
  <2>3. events' \in 0..MaxEvents
    BY <1>9 DEF BrowserEvent
  <2>4. QED
    BY <1>9, <2>2, <2>3 DEF BrowserEvent
<1>10. CASE SendKeepalive
  <2>1. Keepalive \in Frames \ {Hello}
    BY <1>10 DEF SendKeepalive, Frames, Events, Hello, Keepalive
  <2>2. /\ up' \in [Sockets -> Seq(Frames)]
        /\ preWSMsgQueue' \in Seq(Frames \ {Hello})
    BY <1>10, <2>1, SendClientMessageTypes DEF SendKeepalive
  <2>3. events' \in 0..MaxEvents
    BY <1>10 DEF SendKeepalive
  <2>4. QED
    BY <1>10, <2>2, <2>3 DEF SendKeepalive
<1>11. ASSUME NEW t \in Threads, CallJs(t) PROVE TypeOK'
  BY <1>11 DEF CallJs
<1>12. ASSUME NEW t \in Threads, ReadConnection(t) PROVE TypeOK'
  BY <1>12 DEF ReadConnection
<1>13. ASSUME NEW t \in Threads, CachingSend(t) PROVE TypeOK'
  <2> DEFINE c == ref[t].id
  <2>1. c \in Caches /\ tpc' = [tpc EXCEPT ![t] = "idle"]
    BY <1>13 DEF CachingSend
  <2>2. Msg(t, count[t]) \in Messages /\ count[t] \in Nat
    BY DEF Messages, Msg
  <2>3. CASE Refuses(c)
    BY <1>13, <2>1, <2>3 DEF CachingSend
  <2>4. CASE ~Refuses(c)
    <3>1. /\ queue' = [queue EXCEPT ![c] = Append(@, Msg(t, count[t]))]
          /\ accepted' = [accepted EXCEPT ![t] = @ \cup {count[t]}]
      BY <1>13, <2>4 DEF CachingSend
    <3>2. queue' \in [Caches -> Seq(Messages)]
      BY <2>1, <2>2, <3>1
    <3>3. accepted' \in [Threads -> SUBSET Nat]
      BY <2>2, <3>1
    <3>4. QED
      BY <1>13, <2>1, <3>2, <3>3 DEF CachingSend
  <2>5. QED
    BY <2>3, <2>4
<1>14. ASSUME NEW t \in Threads, WebSocketSend(t) PROVE TypeOK'
  <2> DEFINE s == ref[t].id
  <2>1. s \in Sockets /\ tpc' = [tpc EXCEPT ![t] = "idle"]
    BY <1>14 DEF WebSocketSend
  <2>2. Msg(t, count[t]) \in Messages /\ count[t] \in Nat
    BY DEF Messages, Msg
  <2>3. CASE bufferClosed[s]
    BY <1>14, <2>1, <2>3 DEF WebSocketSend
  <2>4. CASE ~bufferClosed[s]
    <3>1. /\ sendBuffer' = [sendBuffer EXCEPT ![s] = Append(@, Msg(t, count[t]))]
          /\ accepted' = [accepted EXCEPT ![t] = @ \cup {count[t]}]
      BY <1>14, <2>4 DEF WebSocketSend
    <3>2. sendBuffer' \in [Sockets -> Seq(Messages)]
      BY <2>1, <2>2, <3>1
    <3>3. accepted' \in [Threads -> SUBSET Nat]
      BY <2>2, <3>1
    <3>4. QED
      BY <1>14, <2>1, <3>2, <3>3, ZenonT(40) DEF WebSocketSend
  <2>5. QED
    BY <2>3, <2>4
<1>15. ASSUME NEW s \in Sockets, Disconnect(s) PROVE TypeOK'
  BY <1>15, SeverTypes DEF Disconnect
<1>16. ASSUME NEW s \in Sockets, Pump(s) PROVE TypeOK'
  <2>1. sendBuffer[s] \in Seq(Messages) /\ sendBuffer[s] # <<>>
    BY <1>16 DEF Pump
  <2>2. Head(sendBuffer[s]) \in Messages /\ Tail(sendBuffer[s]) \in Seq(Messages)
    BY <2>1, HeadTailTypes
  <2>3. sendBuffer' \in [Sockets -> Seq(Messages)]
    BY <1>16, <2>2 DEF Pump
  <2>4. down' \in [{PageChannel} \cup Sockets -> Seq(Messages)]
    BY <1>16, <2>2 DEF Pump
  <2>5. QED
    BY <1>16, <2>3, <2>4 DEF Pump
<1>17. ASSUME NEW s \in Sockets, PumpFails(s) PROVE TypeOK'
  BY <1>17 DEF PumpFails
<1>18. ASSUME NEW s \in Sockets, ReceiveHello(s) PROVE TypeOK'
  <2>1. up[s] \in Seq(Frames) /\ up[s] # <<>>
    BY <1>18 DEF ReceiveHello
  <2>2. Tail(up[s]) \in Seq(Frames)
    BY <2>1, HeadTailTypes
  <2>6. \/ hpc' = [hpc EXCEPT ![s] = "found"]
        \/ hpc' = [hpc EXCEPT ![s] = "done"]
    BY <1>18 DEF ReceiveHello
  <2>7. /\ hpc' \in [Sockets -> {"none", "found", "drain", "replace", "forward",
                               "install", "loop", "done"}]
        /\ \A r \in Sockets : hpc'[r] = "replace" => currentCC[r].kind = "WebSocket"
    BY <2>6, HandlerTypes
  <2>3. CASE present
    <3>1. up' \in [Sockets -> Seq(Frames)]
      BY <1>18, <2>2, <2>3, ZenonT(40) DEF ReceiveHello
    <3>2. QED
      BY <1>18, <2>3, <2>7, <3>1 DEF ReceiveHello
  <2>4. CASE ~present
    <3>1. Sever(s, "rejected")
      BY <1>18, <2>4 DEF ReceiveHello, Reject
    <3>2. /\ link' \in [Sockets -> {"unused", "up", "down", "rejected"}]
          /\ down' \in [{PageChannel} \cup Sockets -> Seq(Messages)]
          /\ up' \in [Sockets -> Seq(Frames)]
      BY <3>1, SeverTypes
    <3>3. QED
      BY <1>18, <2>4, <2>7, <3>2 DEF ReceiveHello
  <2>5. QED
    BY <2>3, <2>4
<1>19. ASSUME NEW s \in Sockets, ReadCurrentCC(s) PROVE TypeOK'
  BY <1>19 DEF ReadCurrentCC
<1>20. ASSUME NEW s \in Sockets, DrainCaching(s) PROVE TypeOK'
  <2> DEFINE c == currentCC[s].id
  <2>1. pump' \in [Sockets -> {"none", "running", "dead"}]
    BY <1>20 DEF DrainCaching, StartPump
  <2>2. CASE isRead[c]
    <3>1. Sever(s, "down")
      BY <1>20, <2>2 DEF DrainCaching
    <3>2. /\ link' \in [Sockets -> {"unused", "up", "down", "rejected"}]
          /\ down' \in [{PageChannel} \cup Sockets -> Seq(Messages)]
          /\ up' \in [Sockets -> Seq(Frames)]
      BY <3>1, SeverTypes
    <3>3. hpc' = [hpc EXCEPT ![s] = "done"] /\ UNCHANGED <<queue, isRead, unsent>>
      BY <1>20, <2>2 DEF DrainCaching
    <3>4. QED
      BY <1>20, <2>1, <3>2, <3>3, ZenonT(40) DEF DrainCaching
  <2>3. CASE ~isRead[c]
    <3>1. /\ hpc' = [hpc EXCEPT ![s] = "forward"]
          /\ unsent' = [unsent EXCEPT ![s] = queue[c]]
          /\ ReadCaching(c) /\ UNCHANGED netVars
      BY <1>20, <2>3 DEF DrainCaching
    <3>2. c \in Caches => unsent' \in [Sockets -> Seq(Messages)]
      BY <3>1
    <3>3. isRead' \in [Caches -> BOOLEAN] /\ queue' \in [Caches -> Seq(Messages)]
      BY <3>1 DEF ReadCaching
    <3>4. c \in Caches
      OBVIOUS
    <3>5. QED
      BY <1>20, <2>1, <3>1, <3>2, <3>3, <3>4, ZenonT(40) DEF DrainCaching
  <2>4. QED
    BY <2>2, <2>3
<1>21. ASSUME NEW s \in Sockets, Forward(s) PROVE TypeOK'
  <2>1. unsent[s] \in Seq(Messages) /\ unsent[s] # <<>>
    BY <1>21 DEF Forward
  <2>2. Head(unsent[s]) \in Messages /\ Tail(unsent[s]) \in Seq(Messages)
    BY <2>1, HeadTailTypes
  <2>3. /\ sendBuffer' \in [Sockets -> Seq(Messages)]
        /\ unsent' \in [Sockets -> Seq(Messages)]
    BY <1>21, <2>2 DEF Forward
  <2>4. QED
    BY <1>21, <2>3 DEF Forward
<1>22. ASSUME NEW s \in Sockets, ReplaceWebSocket(s) PROVE TypeOK'
  <2> DEFINE old == currentCC[s].id
  <2>1. Sever(old, "down")
    BY <1>22 DEF ReplaceWebSocket
  <2>2. old \in Sockets
    BY <1>22 DEF ReplaceWebSocket
  <2>3. /\ link' \in [Sockets -> {"unused", "up", "down", "rejected"}]
        /\ down' \in [{PageChannel} \cup Sockets -> Seq(Messages)]
        /\ up' \in [Sockets -> Seq(Frames)]
    BY <2>1, <2>2, SeverTypes
  <2>4. /\ bufferClosed' \in [Sockets -> BOOLEAN]
        /\ pump' \in [Sockets -> {"none", "running", "dead"}]
    BY <1>22 DEF ReplaceWebSocket, StartPump
  <2>5. QED
    BY <1>22, <2>3, <2>4, ZenonT(40) DEF ReplaceWebSocket
<1>23. ASSUME NEW s \in Sockets, AddCloseHandler(s) PROVE TypeOK'
  BY <1>23 DEF AddCloseHandler, Registered
<1>24. ASSUME NEW s \in Sockets, InstallWebSocket(s) PROVE TypeOK'
  BY <1>24 DEF InstallWebSocket, Installed
<1>25. ASSUME NEW s \in Sockets, HandleFrame(s) PROVE TypeOK'
  <2>1. up[s] \in Seq(Frames) /\ up[s] # <<>>
    BY <1>25 DEF HandleFrame
  <2>2. Tail(up[s]) \in Seq(Frames)
    BY <2>1, HeadTailTypes
  <2>3. up' \in [Sockets -> Seq(Frames)]
    BY <1>25, <2>2 DEF HandleFrame
  <2>4. handled' \in Seq(Events)
    BY <1>25 DEF HandleFrame
  <2>5. QED
    BY <1>25, <2>3, <2>4 DEF HandleFrame
<1>26. ASSUME NEW s \in Sockets, EndOfFrames(s) PROVE TypeOK'
  BY <1>26 DEF EndOfFrames, LeftBehind
<1>27. CASE UNCHANGED vars
  BY <1>27 DEF vars
<1>28. QED
  BY <1>1, <1>2, <1>3, <1>4, <1>5, <1>6, <1>7, <1>8, <1>9, <1>10, <1>11, <1>12, <1>13, <1>14, <1>15, <1>16, <1>17, <1>18, <1>19, <1>20, <1>21, <1>22, <1>23, <1>24, <1>25, <1>26, <1>27 DEF Next, Sender, Handler

(***************************************************************************)
(* The model is well typed: in particular the send buffers, queues and     *)
(* frames on the wire only ever hold messages and frames, and a handler    *)
(* that replaces a connection replaces a WebSocket.                        *)
(***************************************************************************)
THEOREM TypeCorrect == Spec => []TypeOK
<1>1. QED
  BY InitTypes, StepTypes, PTL DEF Spec

(***************************************************************************)
(* Every websocket in service can be closed with its session, whatever the *)
(* network, the browser and the cache do.  The invariant is inductive once *)
(* it also speaks of a handler between addCloseHandler and the assignment. *)
(***************************************************************************)
ClosableInv ==
  \A s \in Sockets : hpc[s] \in {"install", "loop"} =>
                        bufferClosed[s] \/ s \in onCloseHandlers

LEMMA ClosableStep == TypeOK /\ ClosableInv /\ [Next]_vars => ClosableInv'
<1> SUFFICES ASSUME TypeOK, ClosableInv, [Next]_vars,
                    NEW r \in Sockets, hpc'[r] \in {"install", "loop"}
             PROVE  bufferClosed'[r] \/ r \in onCloseHandlers'
  BY DEF ClosableInv
<1> USE DEF TypeOK, ClosableInv, cacheVars, bufferVars, netVars, handlerVars,
            sessionVars, browserVars, threadVars
<1>1. CASE SwapPageCache
  BY <1>1 DEF SwapPageCache
<1>2. CASE ServePage
  BY <1>2 DEF ServePage
<1>3. CASE Expire
  BY <1>3 DEF Expire
<1>4. CASE TriggerCloseListeners
  BY <1>4 DEF TriggerCloseListeners
<1>5. CASE Receive
  BY <1>5 DEF Receive
<1>6. CASE ConnectWs
  BY <1>6 DEF ConnectWs
<1>7. CASE OnClose
  BY <1>7 DEF OnClose
<1>8. CASE GiveUp
  BY <1>8 DEF GiveUp
<1>9. CASE BrowserEvent
  BY <1>9 DEF BrowserEvent
<1>10. CASE SendKeepalive
  BY <1>10 DEF SendKeepalive
<1>11. ASSUME NEW t \in Threads, CallJs(t) PROVE bufferClosed'[r] \/ r \in onCloseHandlers'
  BY <1>11 DEF CallJs
<1>12. ASSUME NEW t \in Threads, ReadConnection(t) PROVE bufferClosed'[r] \/ r \in onCloseHandlers'
  BY <1>12 DEF ReadConnection
<1>13. ASSUME NEW t \in Threads, CachingSend(t) PROVE bufferClosed'[r] \/ r \in onCloseHandlers'
  BY <1>13 DEF CachingSend
<1>14. ASSUME NEW t \in Threads, WebSocketSend(t) PROVE bufferClosed'[r] \/ r \in onCloseHandlers'
  BY <1>14 DEF WebSocketSend
<1>15. ASSUME NEW s \in Sockets, Disconnect(s) PROVE bufferClosed'[r] \/ r \in onCloseHandlers'
  BY <1>15 DEF Disconnect
<1>16. ASSUME NEW s \in Sockets, Pump(s) PROVE bufferClosed'[r] \/ r \in onCloseHandlers'
  BY <1>16 DEF Pump
<1>17. ASSUME NEW s \in Sockets, PumpFails(s) PROVE bufferClosed'[r] \/ r \in onCloseHandlers'
  BY <1>17 DEF PumpFails
<1>18. ASSUME NEW s \in Sockets, ReceiveHello(s) PROVE bufferClosed'[r] \/ r \in onCloseHandlers'
  BY <1>18 DEF ReceiveHello
<1>19. ASSUME NEW s \in Sockets, ReadCurrentCC(s) PROVE bufferClosed'[r] \/ r \in onCloseHandlers'
  BY <1>19 DEF ReadCurrentCC
<1>20. ASSUME NEW s \in Sockets, DrainCaching(s) PROVE bufferClosed'[r] \/ r \in onCloseHandlers'
  BY <1>20 DEF DrainCaching
<1>21. ASSUME NEW s \in Sockets, Forward(s) PROVE bufferClosed'[r] \/ r \in onCloseHandlers'
  BY <1>21 DEF Forward
<1>22. ASSUME NEW s \in Sockets, ReplaceWebSocket(s) PROVE bufferClosed'[r] \/ r \in onCloseHandlers'
  BY <1>22 DEF ReplaceWebSocket
<1>23. ASSUME NEW s \in Sockets, AddCloseHandler(s) PROVE bufferClosed'[r] \/ r \in onCloseHandlers'
  BY <1>23 DEF AddCloseHandler, Registered
<1>24. ASSUME NEW s \in Sockets, InstallWebSocket(s) PROVE bufferClosed'[r] \/ r \in onCloseHandlers'
  BY <1>24 DEF InstallWebSocket
<1>25. ASSUME NEW s \in Sockets, HandleFrame(s) PROVE bufferClosed'[r] \/ r \in onCloseHandlers'
  BY <1>25 DEF HandleFrame
<1>26. ASSUME NEW s \in Sockets, EndOfFrames(s) PROVE bufferClosed'[r] \/ r \in onCloseHandlers'
  BY <1>26 DEF EndOfFrames
<1>27. CASE UNCHANGED vars
  BY <1>27 DEF vars
<1>28. QED
  BY <1>1, <1>2, <1>3, <1>4, <1>5, <1>6, <1>7, <1>8, <1>9, <1>10, <1>11, <1>12, <1>13, <1>14, <1>15, <1>16, <1>17, <1>18, <1>19, <1>20, <1>21, <1>22, <1>23, <1>24, <1>25, <1>26, <1>27 DEF Next, Sender, Handler

\* No websocket in service outlives the close handlers of its session unclosed
\* (OpenSocketIsClosable): addCloseHandler comes before the assignment, and the
\* handlers are forgotten only when they run.
THEOREM SocketsAreClosable == Spec => []OpenSocketIsClosable
<1>1. Init => ClosableInv
  BY DEF Init, ClosableInv
<1>2. ClosableInv => OpenSocketIsClosable
  BY DEF ClosableInv, OpenSocketIsClosable
<1>3. QED
  BY <1>1, <1>2, ClosableStep, TypeCorrect, PTL DEF Spec

(***************************************************************************)
(* The hand-over between connections, when the browser opens a websocket   *)
(* only after the server has finished with the one before (~HalfOpen).     *)
(***************************************************************************)
LEMMA SeverKeepsEmpty ==
  ASSUME TypeOK, NEW s \in Sockets, NEW how, Sever(s, how)
  PROVE  /\ \A r \in Sockets : up[r] = <<>> => up'[r] = <<>>
         /\ \A r \in Sockets : r # s => up'[r] = up[r]
<1>1. CASE link[s] # "up"
  BY <1>1 DEF Sever, netVars
<1>2. CASE link[s] = "up"
  <2>1. PICK j \in 0..Len(up[s]) : up' = [up EXCEPT ![s] = SubSeq(@, 1, j)]
    BY <1>2 DEF Sever
  <2>2. up[s] = <<>> => SubSeq(up[s], 1, j) = <<>>
    BY DEF TypeOK
  <2>3. QED
    BY <2>1, <2>2 DEF TypeOK
<1>3. QED
  BY <1>1, <1>2

LEMMA ConnectionsDiffer ==
  /\ \A c, d \in Caches : Caching(c) = Caching(d) => c = d
  /\ \A s, r \in Sockets : WebSocket(s) = WebSocket(r) => s = r
  /\ \A c \in Caches, s \in Sockets : Caching(c) # WebSocket(s)
  /\ \A c \in Caches : Caching(c).kind = "Caching" /\ Caching(c).id = c
  /\ \A s \in Sockets : WebSocket(s).kind = "WebSocket" /\ WebSocket(s).id = s
  /\ \A k \in Connections : k.kind = "Caching" => k = Caching(k.id)
  /\ PageCache \in Caches /\ ServedCache \in Caches /\ PageCache # ServedCache
  /\ PageCache \notin Sockets /\ ServedCache \notin Sockets
  /\ Sockets \subseteq Caches
BY DEF Caching, WebSocket, Connections, Caches, Sockets, PageCache, ServedCache

LEMMA OrderlyInit == Init => OrderlyInv
BY ConnectionAssumption, ConnectionsDiffer
DEF Init, OrderlyInv, OneHandlerAtATime, PageFirst, LeftBehindByTheDone, HandOver,
    Finished, Sockets

LEMMA OnlyTheLatest ==
  ASSUME TypeOK, OneHandlerAtATime, NEW s \in Sockets,
         hpc[s] \notin {"none", "done"} \/ (hpc[s] = "none" /\ up[s] # <<>>)
  PROVE  s = socket
BY ConnectionAssumption DEF TypeOK, OneHandlerAtATime, Finished, Sockets

\* What an action that leaves the other handlers alone has to show.
LEMMA OneHandlerFrame ==
  ASSUME OneHandlerAtATime, socket' = socket,
         \A r \in Sockets : r # socket =>
            hpc'[r] = hpc[r] /\ (up[r] = <<>> => up'[r] = <<>>)
  PROVE  OneHandlerAtATime'
BY DEF OneHandlerAtATime, Finished, Sockets

LEMMA HandOverFrame ==
  ASSUME TypeOK, OneHandlerAtATime, socket \in Sockets,
         \A r \in Sockets : r # socket => hpc'[r] = hpc[r],
         hpc'[socket] # "replace",
         hpc'[socket] \in {"none", "found", "done"} =>
            clientConnection'.kind = "Caching" /\ ~isRead'[clientConnection'.id],
         hpc'[socket] \in {"drain", "forward", "install"} =>
            clientConnection' = currentCC'[socket] /\ clientConnection'.kind = "Caching",
         hpc'[socket] = "drain" => ~isRead'[clientConnection'.id],
         hpc'[socket] = "loop" => clientConnection' = WebSocket(socket)
  PROVE  HandOver'
<1>1. \A r \in Sockets : r # socket => r < socket \/ r > socket
  BY DEF Sockets
<1>2. \A r \in Sockets : r # socket => hpc'[r] \in {"none", "done"}
  BY <1>1 DEF OneHandlerAtATime, Finished
<1>3. QED
  BY <1>2 DEF HandOver

LEMMA OrderlyStep ==
  ASSUME HalfOpen = FALSE, TypeOK, TypeOK', OrderlyInv, [Next]_vars
  PROVE  OrderlyInv'
<1> USE ConnectionAssumption, ConnectionsDiffer DEF OrderlyInv, vars,
        cacheVars, bufferVars, netVars, handlerVars, sessionVars, browserVars,
        threadVars
<1>1. CASE SwapPageCache
  <2>1. OneHandlerAtATime'
    BY <1>1, OneHandlerFrame DEF SwapPageCache
  <2>2. clientConnection' = Caching(ServedCache) /\ page' = "swapped"
    BY <1>1 DEF SwapPageCache, ServedConnection
  <2>3. PageFirst'
    BY <1>1, <2>2 DEF SwapPageCache, PageFirst
  <2>4. LeftBehindByTheDone'
    BY <1>1, <2>2 DEF SwapPageCache, LeftBehindByTheDone
  <2>5. \A s \in Sockets : hpc[s] = "none"
    BY <1>1 DEF SwapPageCache, PageFirst, OneHandlerAtATime, Sockets
  <2>6. ~isRead'[ServedCache]
    BY <1>1 DEF SwapPageCache, PageFirst
  <2>7. HandOver'
    BY <1>1, <2>2, <2>5, <2>6 DEF SwapPageCache, HandOver
  <2>8. QED
    BY <2>1, <2>3, <2>4, <2>7
<1>2. CASE ServePage
  <2>0. isRead \in [Caches -> BOOLEAN] /\ clientConnection \in Connections
    BY DEF TypeOK
  <2>6. clientConnection # Caching(PageCache)
    BY <1>2 DEF ServePage, PageFirst
  <2>1. OneHandlerAtATime'
    BY <1>2, OneHandlerFrame DEF ServePage, ReadCaching
  <2>2. PageFirst'
    BY <1>2 DEF ServePage, ReadCaching, PageFirst
  <2>3. LeftBehindByTheDone'
    BY <1>2, <2>0 DEF ServePage, ReadCaching, LeftBehindByTheDone
  <2>4. HandOver'
    BY <1>2, <2>0, <2>6 DEF ServePage, ReadCaching, HandOver
  <2>5. QED
    BY <2>1, <2>2, <2>3, <2>4
<1>3. CASE Expire
  <2>1. OneHandlerAtATime'
    BY <1>3, OneHandlerFrame DEF Expire
  <2>2. PageFirst'
    BY <1>3 DEF Expire, PageFirst
  <2>3. LeftBehindByTheDone'
    BY <1>3 DEF Expire, LeftBehindByTheDone
  <2>4. HandOver'
    BY <1>3 DEF Expire, HandOver
  <2>5. QED
    BY <2>1, <2>2, <2>3, <2>4
<1>4. CASE TriggerCloseListeners
  <2>1. OneHandlerAtATime'
    BY <1>4, OneHandlerFrame DEF TriggerCloseListeners
  <2>2. PageFirst'
    BY <1>4 DEF TriggerCloseListeners, PageFirst
  <2>3. LeftBehindByTheDone'
    BY <1>4 DEF TriggerCloseListeners, LeftBehindByTheDone
  <2>4. HandOver'
    BY <1>4 DEF TriggerCloseListeners, HandOver
  <2>5. QED
    BY <2>1, <2>2, <2>3, <2>4
<1>5. CASE Receive
  <2>1. OneHandlerAtATime'
    BY <1>5, OneHandlerFrame DEF Receive
  <2>2. PageFirst'
    BY <1>5 DEF Receive, PageFirst
  <2>3. LeftBehindByTheDone'
    BY <1>5 DEF Receive, LeftBehindByTheDone
  <2>4. HandOver'
    BY <1>5 DEF Receive, HandOver
  <2>5. QED
    BY <2>1, <2>2, <2>3, <2>4
<1>6. CASE ConnectWs
  <2>1. page = "served" /\ socket' = socket + 1 /\ socket + 1 \in Sockets
    BY <1>6 DEF ConnectWs, PageFirst, TypeOK, Sockets
  <2>2. \A r \in 1..socket : Finished(r)
    BY <1>6 DEF ConnectWs
  <2>3. up' = [up EXCEPT ![socket + 1] = FirstFrames] /\ hpc' = hpc
    BY <1>6 DEF ConnectWs
  <2>4. OneHandlerAtATime'
    <3>0. up \in [Sockets -> Seq(Frames)] /\ socket \in Nat
      BY DEF TypeOK
    <3>1. ASSUME NEW s \in Sockets, s > socket' PROVE hpc'[s] = "none" /\ up'[s] = <<>>
      <4>1. s > socket /\ s # socket + 1
        BY <2>1, <3>0, <3>1 DEF Sockets
      <4>2. QED
        BY <2>3, <3>0, <4>1 DEF OneHandlerAtATime
    <3>2. ASSUME NEW s \in Sockets, s < socket' PROVE Finished(s)'
      BY <2>1, <2>2, <2>3, <3>2 DEF Finished, TypeOK, Sockets
    <3>3. QED
      BY <3>1, <3>2 DEF OneHandlerAtATime
  <2>5. PageFirst'
    BY <1>6, <2>1 DEF ConnectWs, PageFirst
  <2>6. LeftBehindByTheDone'
    BY <1>6 DEF ConnectWs, LeftBehindByTheDone
  <2>7. HandOver'
    BY <1>6 DEF ConnectWs, HandOver
  <2>8. QED
    BY <2>4, <2>5, <2>6, <2>7
<1>7. CASE OnClose
  <2>1. OneHandlerAtATime'
    BY <1>7, OneHandlerFrame DEF OnClose
  <2>2. PageFirst'
    BY <1>7 DEF OnClose, PageFirst
  <2>3. LeftBehindByTheDone'
    BY <1>7 DEF OnClose, LeftBehindByTheDone
  <2>4. HandOver'
    BY <1>7 DEF OnClose, HandOver
  <2>5. QED
    BY <2>1, <2>2, <2>3, <2>4
<1>8. CASE GiveUp
  <2>1. OneHandlerAtATime'
    BY <1>8, OneHandlerFrame DEF GiveUp
  <2>2. PageFirst'
    BY <1>8 DEF GiveUp, PageFirst
  <2>3. LeftBehindByTheDone'
    BY <1>8 DEF GiveUp, LeftBehindByTheDone
  <2>4. HandOver'
    BY <1>8 DEF GiveUp, HandOver
  <2>5. QED
    BY <2>1, <2>2, <2>3, <2>4
<1>9. CASE BrowserEvent
  <2>0. \A r \in Sockets : r # socket => up'[r] = up[r]
    BY <1>9 DEF BrowserEvent, SendClientMessage, TypeOK
  <2>1. OneHandlerAtATime'
    BY <1>9, OneHandlerFrame, <2>0 DEF BrowserEvent
  <2>2. PageFirst'
    BY <1>9 DEF BrowserEvent, PageFirst
  <2>3. LeftBehindByTheDone'
    BY <1>9 DEF BrowserEvent, LeftBehindByTheDone
  <2>4. HandOver'
    BY <1>9 DEF BrowserEvent, HandOver
  <2>5. QED
    BY <2>1, <2>2, <2>3, <2>4
<1>10. CASE SendKeepalive
  <2>0. \A r \in Sockets : r # socket => up'[r] = up[r]
    BY <1>10 DEF SendKeepalive, SendClientMessage, TypeOK
  <2>1. OneHandlerAtATime'
    BY <1>10, OneHandlerFrame, <2>0 DEF SendKeepalive
  <2>2. PageFirst'
    BY <1>10 DEF SendKeepalive, PageFirst
  <2>3. LeftBehindByTheDone'
    BY <1>10 DEF SendKeepalive, LeftBehindByTheDone
  <2>4. HandOver'
    BY <1>10 DEF SendKeepalive, HandOver
  <2>5. QED
    BY <2>1, <2>2, <2>3, <2>4
<1>11. ASSUME NEW t \in Threads, CallJs(t) PROVE OrderlyInv'
  <2>1. OneHandlerAtATime'
    BY <1>11, OneHandlerFrame DEF CallJs
  <2>2. PageFirst'
    BY <1>11 DEF CallJs, PageFirst
  <2>3. LeftBehindByTheDone'
    BY <1>11 DEF CallJs, LeftBehindByTheDone
  <2>4. HandOver'
    BY <1>11 DEF CallJs, HandOver
  <2>5. QED
    BY <2>1, <2>2, <2>3, <2>4
<1>12. ASSUME NEW t \in Threads, ReadConnection(t) PROVE OrderlyInv'
  <2>1. OneHandlerAtATime'
    BY <1>12, OneHandlerFrame DEF ReadConnection
  <2>2. PageFirst'
    BY <1>12 DEF ReadConnection, PageFirst
  <2>3. LeftBehindByTheDone'
    BY <1>12 DEF ReadConnection, LeftBehindByTheDone
  <2>4. HandOver'
    BY <1>12 DEF ReadConnection, HandOver
  <2>5. QED
    BY <2>1, <2>2, <2>3, <2>4
<1>13. ASSUME NEW t \in Threads, CachingSend(t) PROVE OrderlyInv'
  <2>1. OneHandlerAtATime'
    BY <1>13, OneHandlerFrame DEF CachingSend
  <2>2. PageFirst'
    BY <1>13 DEF CachingSend, PageFirst
  <2>3. LeftBehindByTheDone'
    BY <1>13 DEF CachingSend, LeftBehindByTheDone
  <2>4. HandOver'
    BY <1>13 DEF CachingSend, HandOver
  <2>5. QED
    BY <2>1, <2>2, <2>3, <2>4
<1>14. ASSUME NEW t \in Threads, WebSocketSend(t) PROVE OrderlyInv'
  <2>1. OneHandlerAtATime'
    BY <1>14, OneHandlerFrame DEF WebSocketSend
  <2>2. PageFirst'
    BY <1>14 DEF WebSocketSend, PageFirst
  <2>3. LeftBehindByTheDone'
    BY <1>14 DEF WebSocketSend, LeftBehindByTheDone
  <2>4. HandOver'
    BY <1>14 DEF WebSocketSend, HandOver
  <2>5. QED
    BY <2>1, <2>2, <2>3, <2>4
<1>15. ASSUME NEW s \in Sockets, Disconnect(s) PROVE OrderlyInv'
  <2>1. OneHandlerAtATime'
    BY <1>15, OneHandlerFrame, SeverKeepsEmpty DEF Disconnect
  <2>2. PageFirst'
    BY <1>15 DEF Disconnect, PageFirst
  <2>3. LeftBehindByTheDone'
    BY <1>15 DEF Disconnect, LeftBehindByTheDone
  <2>4. HandOver'
    BY <1>15 DEF Disconnect, HandOver
  <2>5. QED
    BY <2>1, <2>2, <2>3, <2>4
<1>16. ASSUME NEW s \in Sockets, Pump(s) PROVE OrderlyInv'
  <2>1. OneHandlerAtATime'
    BY <1>16, OneHandlerFrame DEF Pump
  <2>2. PageFirst'
    BY <1>16 DEF Pump, PageFirst
  <2>3. LeftBehindByTheDone'
    BY <1>16 DEF Pump, LeftBehindByTheDone
  <2>4. HandOver'
    BY <1>16 DEF Pump, HandOver
  <2>5. QED
    BY <2>1, <2>2, <2>3, <2>4
<1>17. ASSUME NEW s \in Sockets, PumpFails(s) PROVE OrderlyInv'
  <2>1. OneHandlerAtATime'
    BY <1>17, OneHandlerFrame DEF PumpFails
  <2>2. PageFirst'
    BY <1>17 DEF PumpFails, PageFirst
  <2>3. LeftBehindByTheDone'
    BY <1>17 DEF PumpFails, LeftBehindByTheDone
  <2>4. HandOver'
    BY <1>17 DEF PumpFails, HandOver
  <2>5. QED
    BY <2>1, <2>2, <2>3, <2>4
<1>18. ASSUME NEW s \in Sockets, ReceiveHello(s) PROVE OrderlyInv'
  <2>0. s = socket
    BY <1>18, OnlyTheLatest DEF ReceiveHello
  <2>7. /\ hpc \in [Sockets -> {"none", "found", "drain", "replace", "forward",
                              "install", "loop", "done"}]
        /\ isRead \in [Caches -> BOOLEAN] /\ up \in [Sockets -> Seq(Frames)]
        /\ currentCC \in [Sockets -> Connections] /\ clientConnection \in Connections
    BY DEF TypeOK
  <2>6. hpc' = [hpc EXCEPT ![s] = IF present THEN "found" ELSE "done"]
    BY <1>18 DEF ReceiveHello, Reject
  <2>8. clientConnection.kind = "Caching" /\ ~isRead[clientConnection.id]
    BY <1>18, <2>0 DEF ReceiveHello, HandOver, OneHandlerAtATime, Finished, Sockets, TypeOK
  <2>1. OneHandlerAtATime'
    BY <1>18, OneHandlerFrame, <2>0, <2>6, <2>7, SeverKeepsEmpty DEF ReceiveHello, Reject
  <2>2. PageFirst'
    BY <1>18, <2>0, <2>7 DEF ReceiveHello, Reject, PageFirst
  <2>3. LeftBehindByTheDone'
    BY <1>18, <2>6, <2>7 DEF ReceiveHello, Reject, LeftBehindByTheDone
  <2>4. HandOver'
    BY <1>18, HandOverFrame, <2>0, <2>6, <2>7, <2>8 DEF ReceiveHello, Reject
  <2>5. QED
    BY <2>1, <2>2, <2>3, <2>4
<1>19. ASSUME NEW s \in Sockets, ReadCurrentCC(s) PROVE OrderlyInv'
  <2>0. s = socket
    BY <1>19, OnlyTheLatest DEF ReadCurrentCC
  <2>8. clientConnection.kind = "Caching" /\ ~isRead[clientConnection.id]
    BY <1>19, <2>0 DEF ReadCurrentCC, HandOver, OneHandlerAtATime, Finished, Sockets, TypeOK
  <2>7. /\ hpc \in [Sockets -> {"none", "found", "drain", "replace", "forward",
                              "install", "loop", "done"}]
        /\ isRead \in [Caches -> BOOLEAN] /\ up \in [Sockets -> Seq(Frames)]
        /\ currentCC \in [Sockets -> Connections] /\ clientConnection \in Connections
    BY DEF TypeOK
  <2>6. hpc' = [hpc EXCEPT ![s] = "drain"]
    BY <1>19, <2>8 DEF ReadCurrentCC
  <2>1. OneHandlerAtATime'
    BY <1>19, OneHandlerFrame, <2>0, <2>6, <2>7 DEF ReadCurrentCC
  <2>2. PageFirst'
    BY <1>19, <2>0, <2>7 DEF ReadCurrentCC, PageFirst
  <2>3. LeftBehindByTheDone'
    BY <1>19, <2>6, <2>7 DEF ReadCurrentCC, LeftBehindByTheDone
  <2>4. HandOver'
    BY <1>19, HandOverFrame, <2>0, <2>6, <2>7, <2>8 DEF ReadCurrentCC
  <2>5. QED
    BY <2>1, <2>2, <2>3, <2>4
<1>20. ASSUME NEW s \in Sockets, DrainCaching(s) PROVE OrderlyInv'
  <2>0. s = socket
    BY <1>20, OnlyTheLatest DEF DrainCaching
  <2>8. /\ clientConnection = currentCC[s] /\ clientConnection.kind = "Caching"
        /\ ~isRead[clientConnection.id]
    BY <1>20 DEF DrainCaching, HandOver
  <2>9. clientConnection \in Connections => clientConnection = Caching(clientConnection.id)
    BY <2>8
  <2>7. /\ hpc \in [Sockets -> {"none", "found", "drain", "replace", "forward",
                              "install", "loop", "done"}]
        /\ isRead \in [Caches -> BOOLEAN] /\ up \in [Sockets -> Seq(Frames)]
        /\ currentCC \in [Sockets -> Connections] /\ clientConnection \in Connections
    BY DEF TypeOK
  <2>6. hpc' = [hpc EXCEPT ![s] = "forward"]
    BY <1>20, <2>8 DEF DrainCaching, ReadCaching
  <2>1. OneHandlerAtATime'
    BY <1>20, OneHandlerFrame, <2>0, <2>6, <2>7 DEF DrainCaching, ReadCaching
  <2>2. PageFirst'
    BY <1>20, <2>0, <2>7, <2>8 DEF DrainCaching, ReadCaching, PageFirst, Sockets
  <2>3. LeftBehindByTheDone'
    BY <1>20, <2>6, <2>7, <2>8, <2>9, SMTT(30) DEF DrainCaching, ReadCaching, LeftBehindByTheDone
  <2>4. HandOver'
    BY <1>20, HandOverFrame, <2>0, <2>6, <2>7, <2>8, <2>9 DEF DrainCaching, ReadCaching
  <2>5. QED
    BY <2>1, <2>2, <2>3, <2>4
<1>21. ASSUME NEW s \in Sockets, Forward(s) PROVE OrderlyInv'
  <2>0. s = socket
    BY <1>21, OnlyTheLatest DEF Forward
  <2>7. /\ hpc \in [Sockets -> {"none", "found", "drain", "replace", "forward",
                              "install", "loop", "done"}]
        /\ isRead \in [Caches -> BOOLEAN] /\ up \in [Sockets -> Seq(Frames)]
        /\ currentCC \in [Sockets -> Connections] /\ clientConnection \in Connections
    BY DEF TypeOK
  <2>6. hpc' = [hpc EXCEPT ![s] = "forward"]
    BY <1>21, <2>7 DEF Forward
  <2>8. clientConnection = currentCC[s] /\ clientConnection.kind = "Caching"
    BY <1>21 DEF Forward, HandOver
  <2>1. OneHandlerAtATime'
    BY <1>21, OneHandlerFrame, <2>0, <2>6, <2>7 DEF Forward
  <2>2. PageFirst'
    BY <1>21, <2>0, <2>7 DEF Forward, PageFirst
  <2>3. LeftBehindByTheDone'
    BY <1>21, <2>6, <2>7 DEF Forward, LeftBehindByTheDone
  <2>4. HandOver'
    BY <1>21, HandOverFrame, <2>0, <2>6, <2>7, <2>8 DEF Forward
  <2>5. QED
    BY <2>1, <2>2, <2>3, <2>4
<1>22. ASSUME NEW s \in Sockets, ReplaceWebSocket(s) PROVE OrderlyInv'
  <2>1. QED
    BY <1>22 DEF ReplaceWebSocket, HandOver
<1>23. ASSUME NEW s \in Sockets, AddCloseHandler(s) PROVE OrderlyInv'
  <2>0. s = socket
    BY <1>23, OnlyTheLatest DEF AddCloseHandler
  <2>7. /\ hpc \in [Sockets -> {"none", "found", "drain", "replace", "forward",
                              "install", "loop", "done"}]
        /\ isRead \in [Caches -> BOOLEAN] /\ up \in [Sockets -> Seq(Frames)]
        /\ currentCC \in [Sockets -> Connections] /\ clientConnection \in Connections
    BY DEF TypeOK
  <2>6. hpc' = [hpc EXCEPT ![s] = "install"]
    BY <1>23 DEF AddCloseHandler
  <2>8. clientConnection = currentCC[s] /\ clientConnection.kind = "Caching"
    BY <1>23 DEF AddCloseHandler, HandOver
  <2>1. OneHandlerAtATime'
    BY <1>23, OneHandlerFrame, <2>0, <2>6, <2>7 DEF AddCloseHandler
  <2>2. PageFirst'
    BY <1>23, <2>0, <2>7 DEF AddCloseHandler, PageFirst
  <2>3. LeftBehindByTheDone'
    BY <1>23, <2>6, <2>7 DEF AddCloseHandler, LeftBehindByTheDone
  <2>4. HandOver'
    BY <1>23, HandOverFrame, <2>0, <2>6, <2>7, <2>8 DEF AddCloseHandler
  <2>5. QED
    BY <2>1, <2>2, <2>3, <2>4
<1>24. ASSUME NEW s \in Sockets, InstallWebSocket(s) PROVE OrderlyInv'
  <2>0. s = socket
    BY <1>24, OnlyTheLatest DEF InstallWebSocket
  <2>7. /\ hpc \in [Sockets -> {"none", "found", "drain", "replace", "forward",
                              "install", "loop", "done"}]
        /\ isRead \in [Caches -> BOOLEAN] /\ up \in [Sockets -> Seq(Frames)]
        /\ currentCC \in [Sockets -> Connections] /\ clientConnection \in Connections
    BY DEF TypeOK
  <2>6. hpc' = [hpc EXCEPT ![s] = "loop"]
    BY <1>24 DEF InstallWebSocket, Installed
  <2>1. OneHandlerAtATime'
    BY <1>24, OneHandlerFrame, <2>0, <2>6, <2>7 DEF InstallWebSocket, Installed
  <2>2. PageFirst'
    BY <1>24, <2>0, <2>7 DEF InstallWebSocket, Installed, PageFirst, Sockets
  <2>3. LeftBehindByTheDone'
    BY <1>24, <2>6, <2>7 DEF InstallWebSocket, Installed, LeftBehindByTheDone
  <2>4. HandOver'
    BY <1>24, HandOverFrame, <2>0, <2>6, <2>7 DEF InstallWebSocket, Installed
  <2>5. QED
    BY <2>1, <2>2, <2>3, <2>4
<1>25. ASSUME NEW s \in Sockets, HandleFrame(s) PROVE OrderlyInv'
  <2>0. s = socket
    BY <1>25, OnlyTheLatest DEF HandleFrame
  <2>7. /\ hpc \in [Sockets -> {"none", "found", "drain", "replace", "forward",
                              "install", "loop", "done"}]
        /\ isRead \in [Caches -> BOOLEAN] /\ up \in [Sockets -> Seq(Frames)]
        /\ currentCC \in [Sockets -> Connections] /\ clientConnection \in Connections
    BY DEF TypeOK
  <2>6. hpc' = [hpc EXCEPT ![s] = "loop"]
    BY <1>25, <2>7 DEF HandleFrame
  <2>8. clientConnection = WebSocket(s)
    BY <1>25 DEF HandleFrame, HandOver
  <2>1. OneHandlerAtATime'
    BY <1>25, OneHandlerFrame, <2>0, <2>6, <2>7 DEF HandleFrame
  <2>2. PageFirst'
    BY <1>25, <2>0, <2>7 DEF HandleFrame, PageFirst
  <2>3. LeftBehindByTheDone'
    BY <1>25, <2>6, <2>7 DEF HandleFrame, LeftBehindByTheDone
  <2>4. HandOver'
    BY <1>25, HandOverFrame, <2>0, <2>6, <2>7, <2>8 DEF HandleFrame
  <2>5. QED
    BY <2>1, <2>2, <2>3, <2>4
<1>26. ASSUME NEW s \in Sockets, EndOfFrames(s) PROVE OrderlyInv'
  <2>0. s = socket
    BY <1>26, OnlyTheLatest DEF EndOfFrames
  <2>7. /\ hpc \in [Sockets -> {"none", "found", "drain", "replace", "forward",
                              "install", "loop", "done"}]
        /\ isRead \in [Caches -> BOOLEAN] /\ up \in [Sockets -> Seq(Frames)]
        /\ currentCC \in [Sockets -> Connections] /\ clientConnection \in Connections
    BY DEF TypeOK
  <2>6. hpc' = [hpc EXCEPT ![s] = "done"]
    BY <1>26 DEF EndOfFrames, LeftBehind
  <2>8. ~isRead[s]
    BY <1>26 DEF EndOfFrames, LeftBehindByTheDone
  <2>1. OneHandlerAtATime'
    BY <1>26, OneHandlerFrame, <2>0, <2>6, <2>7 DEF EndOfFrames, LeftBehind
  <2>2. PageFirst'
    BY <1>26, <2>0, <2>7 DEF EndOfFrames, LeftBehind, PageFirst, Sockets
  <2>3. LeftBehindByTheDone'
    BY <1>26, <2>6, <2>7, <2>0, <2>8 DEF EndOfFrames, LeftBehind, LeftBehindByTheDone
  <2>4. HandOver'
    BY <1>26, HandOverFrame, <2>0, <2>6, <2>7, <2>8 DEF EndOfFrames, LeftBehind
  <2>5. QED
    BY <2>1, <2>2, <2>3, <2>4
<1>27. CASE UNCHANGED vars
  BY <1>27 DEF OneHandlerAtATime, PageFirst, LeftBehindByTheDone, HandOver, Finished
<1>28. QED
  BY <1>1, <1>2, <1>3, <1>4, <1>5, <1>6, <1>7, <1>8, <1>9, <1>10, <1>11, <1>12, <1>13, <1>14, <1>15, <1>16, <1>17, <1>18, <1>19, <1>20, <1>21, <1>22, <1>23, <1>24, <1>25, <1>26, <1>27 DEF Next, Sender, Handler

LEMMA OrderlyInvariant ==
  ASSUME HalfOpen = FALSE
  PROVE  Spec => []OrderlyInv
<1>1. TypeOK /\ TypeOK' /\ OrderlyInv /\ [Next]_vars => OrderlyInv'
  BY OrderlyStep
<1>2. QED
  BY <1>1, OrderlyInit, TypeCorrect, PTL DEF Spec

LEMMA OrderlyImplies ==
  ASSUME TypeOK, OrderlyInv
  PROVE  ConnectedIsInstalled /\ ReadOnlyOnce /\ ReadCachingIsInHandOff
<1> USE DEF OrderlyInv, HandOver
<1>1. ConnectedIsInstalled
  BY DEF ConnectedIsInstalled, Connected
<1>2. ReadOnlyOnce
  BY DEF ReadOnlyOnce
<1>3. ReadCachingIsInHandOff
  <2> SUFFICES ASSUME clientConnection.kind = "Caching", isRead[clientConnection.id]
               PROVE  \E s \in Sockets : hpc[s] \in {"forward", "install"}
                                         /\ currentCC[s] = clientConnection
    BY DEF ReadCachingIsInHandOff
  <2>1. PICK s \in Sockets : hpc[s] \notin {"none", "found", "done"}
    OBVIOUS
  <2>2. hpc[s] \in {"drain", "replace", "forward", "install", "loop"}
    BY <2>1 DEF TypeOK
  <2>3. hpc[s] # "loop"
    BY DEF WebSocket
  <2>4. QED
    BY <2>2, <2>3
<1>4. QED
  BY <1>1, <1>2, <1>3

\* While the browser is connected nothing the server sends is cached, provided
\* the finally block of the previous handler ran before the browser came back.
THEOREM InstalledWhileConnected ==
  ASSUME HalfOpen = FALSE
  PROVE  Spec => []ConnectedIsInstalled
<1>1. TypeOK /\ OrderlyInv => ConnectedIsInstalled
  BY OrderlyImplies
<1>2. QED
  BY <1>1, OrderlyInvariant, TypeCorrect, PTL

\* Under the same proviso no handler meets the error in Caching.read.
THEOREM CachingIsReadOnce ==
  ASSUME HalfOpen = FALSE
  PROVE  Spec => []ReadOnlyOnce
<1>1. TypeOK /\ OrderlyInv => ReadOnlyOnce
  BY OrderlyImplies
<1>2. QED
  BY <1>1, OrderlyInvariant, TypeCorrect, PTL

\* And the window in which a send can meet the error in Caching.send is exactly
\* a hand-over: the session never stays with a Caching that refuses writes.
THEOREM RefusalsEndWithHandOver ==
  ASSUME HalfOpen = FALSE
  PROVE  Spec => []ReadCachingIsInHandOff
<1>1. TypeOK /\ OrderlyInv => ReadCachingIsInHandOff
  BY OrderlyImplies
<1>2. QED
  BY <1>1, OrderlyInvariant, TypeCorrect, PTL

-----------------------------------------------------------------------------
(***************************************************************************)
(* What is delivered, whether or not the browser opens a new websocket     *)
(* before the server has finished with the lost one: nothing is lost while *)
(* no websocket goes down, and what arrives from a thread arrives in the   *)
(* order it was sent and once (ProducerFeed).                              *)
(***************************************************************************)
(***************************************************************************)
(* How the connections of a session are wired, whether or not the browser   *)
(* may open a websocket before the server has finished with the last one.  *)
(***************************************************************************)
\* The page comes before the websockets, and its second Caching is empty until then.
PageWiring ==
  /\ socket = 0 <=> browser = "loading"
  /\ page # "served" => socket = 0 /\ down[PageChannel] = <<>>
  /\ page = "building" <=> clientConnection = Caching(PageCache)
  /\ page = "swapped" => clientConnection = Caching(ServedCache)
  /\ page = "building" => /\ queue[ServedCache] = <<>>
                          /\ \A t \in Threads : ref[t] = Caching(PageCache)

\* Nothing is in a websocket the browser has not opened ...
Opened(s) ==
  /\ s > socket => /\ hpc[s] = "none" /\ up[s] = <<>>
                   /\ pump[s] = "none" /\ link[s] = "unused"
  /\ s <= socket => link[s] # "unused"

\* ... or in one whose handler has not made its WebSocket, and a handler that has sent
\* on what was cached has nothing left to send.
Emptied(s) ==
  /\ hpc[s] \in {"none", "found", "drain", "replace"} =>
       sendBuffer[s] = <<>> /\ unsent[s] = <<>> /\ down[s] = <<>>
  /\ hpc[s] \in {"install", "loop", "done"} => unsent[s] = <<>>
  /\ hpc[s] = "drain" => currentCC[s].kind = "Caching"

\* A WebSocket is referred to once its handler installs it, and the Caching a handler
\* leaves behind once the handler is done.
Unreferred(k) == clientConnection # k /\ \A t \in Threads : ref[t] # k
Referred(s) ==
  /\ hpc[s] \notin {"loop", "done"} => Unreferred(WebSocket(s))
  /\ hpc[s] # "done" => queue[s] = <<>> /\ Unreferred(Caching(s))

SocketWiring == \A s \in Sockets : Opened(s) /\ Emptied(s) /\ Referred(s)
Wiring == PageWiring /\ SocketWiring

LEMMA WiringInit == Init => Wiring
<1> SUFFICES ASSUME Init PROVE Wiring
  OBVIOUS
<1> USE ConnectionAssumption, ConnectionsDiffer DEF Init
<1>1. PageWiring
  BY DEF PageWiring
<1>2. ASSUME NEW s \in Sockets PROVE Opened(s) /\ Emptied(s) /\ Referred(s)
  <2>1. Opened(s) /\ Emptied(s)
    BY DEF Opened, Emptied, Sockets
  <2>2. Caching(PageCache) # Caching(s) /\ Caching(PageCache) # WebSocket(s) /\ s \in Caches
    OBVIOUS
  <2>3. Referred(s)
    BY <2>2 DEF Referred, Unreferred
  <2>4. QED
    BY <2>1, <2>3
<1>3. QED
  BY <1>1, <1>2 DEF Wiring, SocketWiring

\* r is the beginning of q.
Cut(r, q) == \E i \in 0..Len(q) : r = SubSeq(q, 1, i)

LEMMA CutEmpty ==
  ASSUME NEW S, NEW q \in Seq(S), NEW r, Cut(r, q)
  PROVE  r \in Seq(S) /\ (q = <<>> => r = <<>>)
<1>1. PICK i \in 0..Len(q) : r = SubSeq(q, 1, i)
  BY DEF Cut
<1>2. Len(q) \in Nat
  OBVIOUS
<1>3. SubSeq(q, 1, i) \in Seq(S)
  <2>1. i \in Nat /\ i <= Len(q)
    BY <1>1, <1>2
  <2>2. QED
    BY ONLY <1>2, <2>1, q \in Seq(S)
<1>4. ASSUME q = <<>> PROVE r = <<>>
  <2>1. i = 0
    BY <1>1, <1>4
  <2>2. Len(SubSeq(q, 1, i)) = 0
    BY <2>1
  <2>3. QED
    BY <1>1, <1>3, <2>2
<1>5. QED
  BY <1>1, <1>3, <1>4

LEMMA CutSelf ==
  ASSUME NEW S, NEW q \in Seq(S)
  PROVE  Cut(q, q)
<1>1. q = SubSeq(q, 1, Len(q)) /\ Len(q) \in 0..Len(q)
  OBVIOUS
<1>2. QED
  BY <1>1 DEF Cut

\* A websocket that goes down loses the end of what was on the way to the browser.
LEMMA SeverCuts ==
  ASSUME TypeOK, NEW s \in Sockets, NEW how \in {"down", "rejected"}, Sever(s, how)
  PROVE  /\ link' \in [Sockets -> {"unused", "up", "down", "rejected"}]
         /\ \A r \in Sockets : link'[r] = "unused" <=> link[r] = "unused"
         /\ \A ch \in {PageChannel} \cup Sockets : Cut(down'[ch], down[ch])
         /\ \A ch \in {PageChannel} \cup Sockets : down[ch] = <<>> => down'[ch] = <<>>
         /\ \A r \in Sockets : up[r] = <<>> => up'[r] = <<>>
<1>0. /\ down \in [{PageChannel} \cup Sockets -> Seq(Messages)]
      /\ link \in [Sockets -> {"unused", "up", "down", "rejected"}]
      /\ \A r \in Sockets : up[r] = <<>> => up'[r] = <<>>
      /\ link' \in [Sockets -> {"unused", "up", "down", "rejected"}]
  BY SeverKeepsEmpty, SeverTypes DEF TypeOK
<1>1. \A ch \in {PageChannel} \cup Sockets : Cut(down[ch], down[ch])
  BY <1>0, CutSelf
<1>2. CASE link[s] # "up"
  BY <1>0, <1>1, <1>2 DEF Sever, netVars
<1>3. CASE link[s] = "up"
  <2>1. PICK i \in 0..Len(down[s]) : down' = [down EXCEPT ![s] = SubSeq(@, 1, i)]
    BY <1>3 DEF Sever
  <2>2. link' = [link EXCEPT ![s] = how]
    BY <1>3 DEF Sever
  <2>3. Cut(SubSeq(down[s], 1, i), down[s])
    BY <2>1 DEF Cut
  <2>4. \A ch \in {PageChannel} \cup Sockets : Cut(down'[ch], down[ch])
    BY <1>0, <1>1, <2>1, <2>3
  <2>5. \A ch \in {PageChannel} \cup Sockets : down[ch] = <<>> => down'[ch] = <<>>
    BY <1>0, <2>4, CutEmpty
  <2>6. QED
    BY <1>0, <1>3, <2>2, <2>4, <2>5
<1>4. QED
  BY <1>2, <1>3

\* What an action has to show that leaves the browser's websocket and what refers to a
\* connection alone.
LEMMA OpenedFrame ==
  ASSUME NEW r \in Sockets, Opened(r), socket' = socket,
         r > socket => hpc'[r] = hpc[r] /\ pump'[r] = pump[r],
         up[r] = <<>> => up'[r] = <<>>,
         link'[r] = "unused" <=> link[r] = "unused"
  PROVE  Opened(r)'
BY DEF Opened

LEMMA EmptiedFrame ==
  ASSUME NEW r \in Sockets, Emptied(r),
         hpc'[r] = hpc[r], currentCC'[r] = currentCC[r],
         sendBuffer[r] = <<>> => sendBuffer'[r] = <<>>,
         unsent[r] = <<>> => unsent'[r] = <<>>,
         down[r] = <<>> => down'[r] = <<>>
  PROVE  Emptied(r)'
BY DEF Emptied

LEMMA ReferredFrame ==
  ASSUME NEW r \in Sockets, Referred(r),
         clientConnection' = clientConnection, ref' = ref,
         hpc[r] \in {"loop", "done"} => hpc'[r] \in {"loop", "done"},
         hpc[r] = "done" => hpc'[r] = "done",
         queue[r] = <<>> => queue'[r] = <<>>
  PROVE  Referred(r)'
BY DEF Referred, Unreferred

LEMMA WiringStep ==
  ASSUME TypeOK, Wiring, [Next]_vars
  PROVE  Wiring'
<1> USE DEF vars, cacheVars, bufferVars, netVars, handlerVars, sessionVars,
            browserVars, threadVars
<1>a. PageWiring /\ \A r \in Sockets : Opened(r) /\ Emptied(r) /\ Referred(r)
  BY DEF Wiring, SocketWiring
<1>b. SUFFICES ASSUME NEW r \in Sockets
               PROVE  PageWiring' /\ Opened(r)' /\ Emptied(r)' /\ Referred(r)'
  BY ConnectionAssumption DEF Wiring, SocketWiring, Sockets
<1>c. /\ socket \in Nat /\ Sockets = 1..NSockets /\ NSockets \in Nat
      /\ queue \in [Caches -> Seq(Messages)]
      /\ sendBuffer \in [Sockets -> Seq(Messages)]
      /\ pump \in [Sockets -> {"none", "running", "dead"}]
      /\ link \in [Sockets -> {"unused", "up", "down", "rejected"}]
      /\ down \in [{PageChannel} \cup Sockets -> Seq(Messages)]
      /\ up \in [Sockets -> Seq(Frames)]
      /\ hpc \in [Sockets -> {"none", "found", "drain", "replace", "forward",
                              "install", "loop", "done"}]
      /\ currentCC \in [Sockets -> Connections] /\ clientConnection \in Connections
      /\ unsent \in [Sockets -> Seq(Messages)]
      /\ tpc \in [Threads -> {"idle", "found", "send"}]
      /\ ref \in [Threads -> Connections]
  BY ConnectionAssumption DEF TypeOK, Sockets
<1>d. /\ r \in Caches /\ r \notin {PageCache, ServedCache}
      /\ Caching(PageCache) # WebSocket(r) /\ Caching(ServedCache) # WebSocket(r)
      /\ Caching(PageCache) # Caching(r) /\ Caching(ServedCache) # Caching(r)
      /\ \A s \in Sockets : /\ Caching(s) # WebSocket(r) /\ WebSocket(s) # Caching(r)
                            /\ s # r => /\ WebSocket(s) # WebSocket(r)
                                        /\ Caching(s) # Caching(r)
  BY ConnectionsDiffer
<1>e. /\ PageCache \in Caches /\ ServedCache \in Caches /\ PageCache # ServedCache
      /\ Caching(PageCache) # Caching(ServedCache)
      /\ Caching(PageCache).id = PageCache
      /\ \A s \in Sockets : /\ Caching(s) # Caching(PageCache)
                            /\ WebSocket(s) # Caching(PageCache)
      /\ \A c \in Connections : c.id \in Caches
  BY ConnectionsDiffer, ConnectionTypes
<1>h. hpc \in [Sockets -> {"none", "found", "drain", "replace", "forward",
                           "install", "loop", "done"}]
  BY <1>c
<1>f. \A s \in Sockets : hpc[s] # "none" => page = "served" /\ s <= socket /\ socket # 0
  BY <1>a, <1>c DEF Opened, PageWiring
<1>1. CASE SwapPageCache
  <2>1. PageWiring'
    BY <1>a, <1>c, <1>1, <1>e, <1>f DEF SwapPageCache, ServedConnection, PageWiring
  <2>2. Opened(r)'
    BY <1>a, <1>1 DEF SwapPageCache, Opened
  <2>3. Emptied(r)'
    BY <1>a, <1>1 DEF SwapPageCache, Emptied
  <2>4. Referred(r)'
    <3>1. clientConnection' = Caching(ServedCache) /\ UNCHANGED <<ref, hpc, queue>>
      BY <1>1 DEF SwapPageCache, ServedConnection
    <3>2. QED
      BY <1>a, <1>d, <3>1 DEF Referred, Unreferred
  <2>5. QED
    BY <2>1, <2>2, <2>3, <2>4
<1>2. CASE ServePage
  <2>1. PageWiring'
    BY <1>a, <1>c, <1>2, <1>e, <1>f DEF ServePage, ReadCaching, PageWiring
  <2>2. Opened(r)'
    BY <1>a, <1>2 DEF ServePage, Opened
  <2>3. Emptied(r)'
    <3>1. down' = [down EXCEPT ![PageChannel] = queue[PageCache]] /\ PageChannel # r
      BY <1>c, <1>2 DEF ServePage, PageChannel
    <3>2. down'[r] = down[r]
      BY <1>c, <3>1
    <3>3. QED
      BY <1>a, <1>2, <3>2, EmptiedFrame DEF ServePage
  <2>4. Referred(r)'
    <3>1. queue'[r] = queue[r]
      BY <1>c, <1>d, <1>2 DEF ServePage, ReadCaching
    <3>2. QED
      BY <1>a, <1>2, <3>1, ReferredFrame DEF ServePage
  <2>5. QED
    BY <2>1, <2>2, <2>3, <2>4
<1>3. CASE Expire
  <2>1. PageWiring'
    BY <1>a, <1>3 DEF Expire, PageWiring
  <2>2. Opened(r)'
    BY <1>a, <1>3 DEF Expire, Opened
  <2>3. Emptied(r)'
    BY <1>a, <1>3 DEF Expire, Emptied
  <2>4. Referred(r)'
    BY <1>a, <1>3, ReferredFrame DEF Expire
  <2>5. QED
    BY <2>1, <2>2, <2>3, <2>4
<1>4. CASE TriggerCloseListeners
  <2>1. PageWiring'
    BY <1>a, <1>4 DEF TriggerCloseListeners, PageWiring
  <2>2. Opened(r)'
    BY <1>a, <1>c, <1>4 DEF TriggerCloseListeners, Opened
  <2>3. Emptied(r)'
    BY <1>a, <1>4 DEF TriggerCloseListeners, Emptied
  <2>4. Referred(r)'
    BY <1>a, <1>4, ReferredFrame DEF TriggerCloseListeners
  <2>5. QED
    BY <2>1, <2>2, <2>3, <2>4
<1>5. CASE Receive
  <2>1. PageWiring'
    BY <1>a, <1>c, <1>5, <1>e, <1>f DEF Receive, PageWiring
  <2>2. Opened(r)'
    BY <1>a, <1>5 DEF Receive, Opened
  <2>3. Emptied(r)'
    BY <1>a, <1>c, <1>5 DEF Receive, Emptied
  <2>4. Referred(r)'
    BY <1>a, <1>5, ReferredFrame DEF Receive
  <2>5. QED
    BY <2>1, <2>2, <2>3, <2>4
<1>6. CASE ConnectWs
  <2>1. PageWiring'
    <3>1. /\ browser' = "open" /\ socket' = socket + 1
          /\ browser = "loading" => page = "served"
          /\ browser = "loading" \/ browser = "waiting"
          /\ UNCHANGED <<clientConnection, page, queue, down, ref>>
      BY <1>a, <1>6 DEF ConnectWs
    <3>2. PageWiring
      BY <1>a
    <3>3. page = "served"
      BY ONLY <3>1, <3>2 DEF PageWiring
    <3>4. page' = "served" /\ clientConnection # Caching(PageCache)
      BY ONLY <3>1, <3>2, <3>3 DEF PageWiring
    <3>5. socket \in Nat
      BY DEF TypeOK
    <3>6. socket' # 0 /\ browser' # "loading" /\ clientConnection' # Caching(PageCache)
      BY ONLY <3>1, <3>4, <3>5
    <3>7. QED
      BY ONLY <3>4, <3>6 DEF PageWiring
  <2>2. Opened(r)'
    <3>1. /\ socket' = socket + 1 /\ link' = [link EXCEPT ![socket + 1] = "up"]
          /\ up' = [up EXCEPT ![socket + 1] = FirstFrames]
          /\ UNCHANGED <<hpc, pump>>
      BY <1>6 DEF ConnectWs
    <3>2. CASE r = socket + 1
      BY <1>c, <3>1, <3>2 DEF Opened
    <3>3. CASE r # socket + 1
      <4>1. link'[r] = link[r] /\ up'[r] = up[r]
        BY <1>c, <3>1, <3>3
      <4>2. /\ r > socket' => r > socket
            /\ r <= socket' => r <= socket
        BY <1>c, <3>1, <3>3
      <4>3. QED
        BY <1>a, <3>1, <4>1, <4>2 DEF Opened
    <3>4. QED
      BY <3>2, <3>3
  <2>3. Emptied(r)'
    BY <1>a, <1>6 DEF ConnectWs, Emptied
  <2>4. Referred(r)'
    BY <1>a, <1>6, ReferredFrame DEF ConnectWs
  <2>5. QED
    BY <2>1, <2>2, <2>3, <2>4
<1>7. CASE OnClose
  <2>1. PageWiring'
    BY <1>a, <1>c, <1>7, <1>e, <1>f DEF OnClose, PageWiring
  <2>2. Opened(r)'
    BY <1>a, <1>7 DEF OnClose, Opened
  <2>3. Emptied(r)'
    BY <1>a, <1>7 DEF OnClose, Emptied
  <2>4. Referred(r)'
    BY <1>a, <1>7, ReferredFrame DEF OnClose
  <2>5. QED
    BY <2>1, <2>2, <2>3, <2>4
<1>8. CASE GiveUp
  <2>1. PageWiring'
    BY <1>a, <1>c, <1>8, <1>e, <1>f DEF GiveUp, PageWiring
  <2>2. Opened(r)'
    BY <1>a, <1>8 DEF GiveUp, Opened
  <2>3. Emptied(r)'
    BY <1>a, <1>8 DEF GiveUp, Emptied
  <2>4. Referred(r)'
    BY <1>a, <1>8, ReferredFrame DEF GiveUp
  <2>5. QED
    BY <2>1, <2>2, <2>3, <2>4
<1>9. CASE BrowserEvent
  <2>1. PageWiring'
    BY <1>a, <1>9 DEF BrowserEvent, PageWiring
  <2>2. Opened(r)'
    BY <1>a, <1>c, <1>9 DEF BrowserEvent, SendClientMessage, Opened
  <2>3. Emptied(r)'
    BY <1>a, <1>9 DEF BrowserEvent, Emptied
  <2>4. Referred(r)'
    BY <1>a, <1>9, ReferredFrame DEF BrowserEvent
  <2>5. QED
    BY <2>1, <2>2, <2>3, <2>4
<1>10. CASE SendKeepalive
  <2>1. PageWiring'
    BY <1>a, <1>10 DEF SendKeepalive, PageWiring
  <2>2. Opened(r)'
    BY <1>a, <1>c, <1>10 DEF SendKeepalive, SendClientMessage, Opened
  <2>3. Emptied(r)'
    BY <1>a, <1>10 DEF SendKeepalive, Emptied
  <2>4. Referred(r)'
    BY <1>a, <1>10, ReferredFrame DEF SendKeepalive
  <2>5. QED
    BY <2>1, <2>2, <2>3, <2>4
<1>11. ASSUME NEW t \in Threads, CallJs(t)
      PROVE  PageWiring' /\ Opened(r)' /\ Emptied(r)' /\ Referred(r)'
  <2>1. PageWiring'
    BY <1>a, <1>11 DEF CallJs, PageWiring
  <2>2. Opened(r)'
    BY <1>a, <1>11 DEF CallJs, Opened
  <2>3. Emptied(r)'
    BY <1>a, <1>11 DEF CallJs, Emptied
  <2>4. Referred(r)'
    BY <1>a, <1>11, ReferredFrame DEF CallJs
  <2>5. QED
    BY <2>1, <2>2, <2>3, <2>4
<1>12. ASSUME NEW t \in Threads, ReadConnection(t)
      PROVE  PageWiring' /\ Opened(r)' /\ Emptied(r)' /\ Referred(r)'
  <2>1. PageWiring'
    BY <1>a, <1>c, <1>12, <1>e, <1>f DEF ReadConnection, PageWiring
  <2>2. Opened(r)'
    BY <1>a, <1>12 DEF ReadConnection, Opened
  <2>3. Emptied(r)'
    BY <1>a, <1>12 DEF ReadConnection, Emptied
  <2>4. Referred(r)'
    <3>1. ref' = [ref EXCEPT ![t] = clientConnection]
      BY <1>12 DEF ReadConnection
    <3>2. ASSUME NEW k, Unreferred(k) PROVE Unreferred(k)'
      <4>1. clientConnection' = clientConnection
        BY <1>12 DEF ReadConnection
      <4>2. \A u \in Threads : ref'[u] # k
        BY <1>c, <3>1, <3>2 DEF Unreferred
      <4>3. QED
        BY <3>2, <4>1, <4>2 DEF Unreferred
    <3>3. UNCHANGED <<hpc, queue>>
      BY <1>12 DEF ReadConnection
    <3>4. /\ WebSocket(r)' = WebSocket(r) /\ Caching(r)' = Caching(r)
      BY DEF WebSocket, Caching
    <3>5. /\ Unreferred(WebSocket(r)) => Unreferred(WebSocket(r))'
          /\ Unreferred(Caching(r)) => Unreferred(Caching(r))'
      BY <3>2
    <3>6. QED
      BY <1>a, <3>3, <3>5 DEF Referred
  <2>5. QED
    BY <2>1, <2>2, <2>3, <2>4
<1>13. ASSUME NEW t \in Threads, CachingSend(t)
      PROVE  PageWiring' /\ Opened(r)' /\ Emptied(r)' /\ Referred(r)'
  <2>1. PageWiring'
    <3>1. UNCHANGED <<socket, browser, page, down, clientConnection, ref>>
      BY <1>13 DEF CachingSend
    <3>2. page = "building" => queue'[ServedCache] = queue[ServedCache]
      <4>1. \/ queue' = queue
            \/ queue' = [queue EXCEPT ![ref[t].id] = Append(@, Msg(t, count[t]))]
        BY <1>13 DEF CachingSend
      <4>2. page = "building" => ref[t].id = PageCache
        BY <1>a, <1>e DEF PageWiring
      <4>3. QED
        BY <1>c, <1>e, <4>1, <4>2
    <3>3. QED
      BY <1>a, <3>1, <3>2 DEF PageWiring
  <2>2. Opened(r)'
    BY <1>a, <1>13 DEF CachingSend, Opened
  <2>3. Emptied(r)'
    BY <1>a, <1>13 DEF CachingSend, Emptied
  <2>4. Referred(r)'
    <3>1. \/ queue' = queue
          \/ queue' = [queue EXCEPT ![ref[t].id] = Append(@, Msg(t, count[t]))]
      BY <1>13 DEF CachingSend
    <3>2. ref[t] = Caching(ref[t].id)
      BY <1>c, <1>13, ConnectionsDiffer DEF CachingSend
    <3>3. CASE hpc[r] = "done"
      BY <1>a, <1>13, <3>3, ReferredFrame DEF CachingSend, Referred
    <3>4. CASE hpc[r] # "done"
      <4>1. ref[t].id # r
        BY <1>a, <3>2, <3>4 DEF Referred, Unreferred
      <4>2. queue'[r] = queue[r]
        BY <1>c, <1>d, <3>1, <4>1
      <4>3. QED
        BY <1>a, <1>13, <4>2, ReferredFrame DEF CachingSend
    <3>5. QED
      BY <3>3, <3>4
  <2>5. QED
    BY <2>1, <2>2, <2>3, <2>4
<1>14. ASSUME NEW t \in Threads, WebSocketSend(t)
      PROVE  PageWiring' /\ Opened(r)' /\ Emptied(r)' /\ Referred(r)'
  <2>1. PageWiring'
    BY <1>a, <1>14 DEF WebSocketSend, PageWiring
  <2>2. Opened(r)'
    BY <1>a, <1>14 DEF WebSocketSend, Opened
  <2>3. Emptied(r)'
    <3>1. \/ sendBuffer' = sendBuffer
          \/ sendBuffer' = [sendBuffer EXCEPT ![ref[t].id] = Append(@, Msg(t, count[t]))]
      BY <1>14 DEF WebSocketSend
    <3>2. ref[t].id \in Sockets /\ ref[t] = WebSocket(ref[t].id)
      BY <1>c, <1>14 DEF WebSocketSend, Connections, WebSocket
    <3>3. CASE ref[t].id # r
      <4>1. sendBuffer'[r] = sendBuffer[r]
        BY <1>c, <3>1, <3>3
      <4>2. QED
        BY <1>a, <1>14, <4>1, EmptiedFrame DEF WebSocketSend
    <3>4. CASE ref[t].id = r
      <4>1. hpc[r] \in {"loop", "done"}
        BY <1>a, <3>2, <3>4 DEF Referred, Unreferred
      <4>2. UNCHANGED <<hpc, unsent, down, currentCC>>
        BY <1>14 DEF WebSocketSend
      <4>3. QED
        BY <1>a, <4>1, <4>2 DEF Emptied
    <3>5. QED
      BY <3>3, <3>4
  <2>4. Referred(r)'
    BY <1>a, <1>14, ReferredFrame DEF WebSocketSend
  <2>5. QED
    BY <2>1, <2>2, <2>3, <2>4
<1>15. ASSUME NEW s \in Sockets, Disconnect(s)
      PROVE  PageWiring' /\ Opened(r)' /\ Emptied(r)' /\ Referred(r)'
  <2>1. PageWiring'
    BY <1>a, <1>c, <1>15, SeverCuts, <1>e, <1>f DEF Disconnect, PageWiring
  <2>2. Opened(r)'
    BY <1>a, <1>c, <1>15, SeverCuts DEF Disconnect, Opened
  <2>3. Emptied(r)'
    BY <1>a, <1>c, <1>15, SeverCuts DEF Disconnect, Emptied
  <2>4. Referred(r)'
    BY <1>a, <1>15, ReferredFrame DEF Disconnect
  <2>5. QED
    BY <2>1, <2>2, <2>3, <2>4
<1>16. ASSUME NEW s \in Sockets, Pump(s)
      PROVE  PageWiring' /\ Opened(r)' /\ Emptied(r)' /\ Referred(r)'
  <2>1. PageWiring'
    <3>1. down'[PageChannel] = down[PageChannel]
      BY <1>c, <1>16 DEF Pump, PageChannel
    <3>2. QED
      BY <1>a, <1>16, <3>1 DEF Pump, PageWiring
  <2>2. Opened(r)'
    BY <1>a, <1>16 DEF Pump, Opened
  <2>3. Emptied(r)'
    BY <1>a, <1>c, <1>16 DEF Pump, Emptied
  <2>4. Referred(r)'
    BY <1>a, <1>16, ReferredFrame DEF Pump
  <2>5. QED
    BY <2>1, <2>2, <2>3, <2>4
<1>17. ASSUME NEW s \in Sockets, PumpFails(s)
      PROVE  PageWiring' /\ Opened(r)' /\ Emptied(r)' /\ Referred(r)'
  <2>1. PageWiring'
    BY <1>a, <1>17 DEF PumpFails, PageWiring
  <2>2. Opened(r)'
    BY <1>a, <1>c, <1>17 DEF PumpFails, Opened
  <2>3. Emptied(r)'
    BY <1>a, <1>17 DEF PumpFails, Emptied
  <2>4. Referred(r)'
    BY <1>a, <1>17, ReferredFrame DEF PumpFails
  <2>5. QED
    BY <2>1, <2>2, <2>3, <2>4
<1>18. ASSUME NEW s \in Sockets, ReceiveHello(s)
      PROVE  PageWiring' /\ Opened(r)' /\ Emptied(r)' /\ Referred(r)'
  <2>1. PageWiring'
    BY <1>a, <1>c, <1>18, SeverCuts, <1>e, <1>f DEF ReceiveHello, Reject, PageWiring
  <2>2. Opened(r)'
    <3>1. /\ UNCHANGED <<socket, pump>>
          /\ up[r] = <<>> => up'[r] = <<>>
          /\ link'[r] = "unused" <=> link[r] = "unused"
      <4>1. CASE present
        BY <1>c, <1>18, <4>1 DEF ReceiveHello
      <4>2. CASE ~present
        BY <1>18, <4>2, SeverCuts DEF ReceiveHello, Reject
      <4>3. QED
        BY <4>1, <4>2
    <3>2. r > socket => hpc'[r] = hpc[r]
      BY <1>a, <1>c, <1>18 DEF ReceiveHello, Opened
    <3>3. QED
      BY <1>a, <3>1, <3>2, OpenedFrame
  <2>3. Emptied(r)'
    <3>1. UNCHANGED <<sendBuffer, unsent, currentCC>> /\ (down[r] = <<>> => down'[r] = <<>>)
      <4>1. CASE present
        BY ONLY <1>18, <4>1 DEF ReceiveHello, bufferVars, netVars
      <4>2. CASE ~present
        BY <1>18, <4>2, SeverCuts DEF ReceiveHello, Reject
      <4>3. QED
        BY ONLY <4>1, <4>2
    <3>2. hpc'[r] = hpc[r] \/ (hpc[r] = "none" /\ hpc'[r] \in {"found", "done"})
      BY ONLY <1>h, <1>18, r \in Sockets DEF ReceiveHello
    <3>3. QED
      BY <1>a, <3>1, <3>2 DEF Emptied
  <2>4. Referred(r)'
    <3>1. hpc'[r] = hpc[r] \/ (hpc[r] = "none" /\ hpc'[r] \in {"found", "done"})
      BY ONLY <1>h, <1>18, r \in Sockets DEF ReceiveHello
    <3>2. QED
      BY <1>a, <1>18, <3>1, ReferredFrame DEF ReceiveHello
  <2>5. QED
    BY <2>1, <2>2, <2>3, <2>4
<1>19. ASSUME NEW s \in Sockets, ReadCurrentCC(s)
      PROVE  PageWiring' /\ Opened(r)' /\ Emptied(r)' /\ Referred(r)'
  <2>1. PageWiring'
    BY <1>a, <1>19 DEF ReadCurrentCC, PageWiring
  <2>2. Opened(r)'
    BY <1>a, <1>c, <1>19 DEF ReadCurrentCC, Opened
  <2>3. Emptied(r)'
    BY <1>a, <1>c, <1>19 DEF ReadCurrentCC, Emptied
  <2>4. Referred(r)'
    <3>1. hpc'[r] = hpc[r] \/ hpc[r] = "found"
      BY <1>c, <1>19 DEF ReadCurrentCC
    <3>2. QED
      BY <1>a, <1>19, <3>1, ReferredFrame DEF ReadCurrentCC
  <2>5. QED
    BY <2>1, <2>2, <2>3, <2>4
<1>20. ASSUME NEW s \in Sockets, DrainCaching(s)
      PROVE  PageWiring' /\ Opened(r)' /\ Emptied(r)' /\ Referred(r)'
  <2>1. PageWiring'
    BY <1>a, <1>c, <1>20, SeverCuts, <1>e, <1>f DEF DrainCaching, StartPump, ReadCaching, PageWiring
  <2>2. Opened(r)'
    <3>1. /\ up[r] = <<>> => up'[r] = <<>>
          /\ link'[r] = "unused" <=> link[r] = "unused"
      <4>1. CASE isRead[currentCC[s].id]
        BY <1>20, <4>1, SeverCuts DEF DrainCaching
      <4>2. CASE ~isRead[currentCC[s].id]
        BY <1>20, <4>2 DEF DrainCaching
      <4>3. QED
        BY <4>1, <4>2
    <3>2. r > socket => hpc'[r] = hpc[r] /\ pump'[r] = pump[r]
      <4>1. r > socket => hpc[r] = "none"
        BY <1>a DEF Opened
      <4>2. r # s => hpc'[r] = hpc[r] /\ pump'[r] = pump[r]
        BY <1>c, <1>20 DEF DrainCaching, StartPump
      <4>3. hpc[s] = "drain"
        BY <1>20 DEF DrainCaching
      <4>4. QED
        BY ONLY <4>1, <4>2, <4>3
    <3>3. QED
      BY <1>a, <1>20, <3>1, <3>2, OpenedFrame DEF DrainCaching
  <2>3. Emptied(r)'
    <3>1. down[r] = <<>> => down'[r] = <<>>
      <4>1. CASE isRead[currentCC[s].id]
        BY <1>20, <4>1, SeverCuts DEF DrainCaching
      <4>2. CASE ~isRead[currentCC[s].id]
        BY <1>20, <4>2 DEF DrainCaching
      <4>3. QED
        BY <4>1, <4>2
    <3>2. \/ hpc'[r] = hpc[r] /\ unsent'[r] = unsent[r]
          \/ hpc[r] = "drain" /\ hpc'[r] = "forward"
          \/ hpc[r] = "drain" /\ hpc'[r] = "done" /\ unsent'[r] = unsent[r]
      <4>1. unsent \in [Sockets -> Seq(Messages)]
        BY <1>c
      <4>2. QED
        BY ONLY <1>h, <1>20, <4>1, r \in Sockets DEF DrainCaching
    <3>3. UNCHANGED <<sendBuffer, currentCC>>
      BY <1>20 DEF DrainCaching
    <3>4. QED
      BY <1>a, <3>1, <3>2, <3>3 DEF Emptied
  <2>4. Referred(r)'
    <3>1. hpc'[r] = hpc[r] \/ hpc[r] = "drain"
      BY <1>c, <1>20 DEF DrainCaching
    <3>2. queue[r] = <<>> => queue'[r] = <<>>
      BY <1>c, <1>d, <1>20 DEF DrainCaching, ReadCaching
    <3>3. QED
      BY <1>a, <1>20, <3>1, <3>2, ReferredFrame DEF DrainCaching
  <2>5. QED
    BY <2>1, <2>2, <2>3, <2>4
<1>21. ASSUME NEW s \in Sockets, Forward(s)
      PROVE  PageWiring' /\ Opened(r)' /\ Emptied(r)' /\ Referred(r)'
  <2>1. PageWiring'
    BY <1>a, <1>21 DEF Forward, PageWiring
  <2>2. Opened(r)'
    BY <1>a, <1>21 DEF Forward, Opened
  <2>3. Emptied(r)'
    BY <1>a, <1>c, <1>21 DEF Forward, Emptied
  <2>4. Referred(r)'
    BY <1>a, <1>21, ReferredFrame DEF Forward
  <2>5. QED
    BY <2>1, <2>2, <2>3, <2>4
<1>22. ASSUME NEW s \in Sockets, ReplaceWebSocket(s)
      PROVE  PageWiring' /\ Opened(r)' /\ Emptied(r)' /\ Referred(r)'
  <2>1. PageWiring'
    BY <1>a, <1>c, <1>22, SeverCuts, <1>e, <1>f DEF ReplaceWebSocket, StartPump, PageWiring
  <2>2. Opened(r)'
    <3>1. /\ up[r] = <<>> => up'[r] = <<>>
          /\ link'[r] = "unused" <=> link[r] = "unused"
      <4>1. currentCC[s].id \in Sockets
        BY <1>22, ConnectionTypes, <1>c DEF ReplaceWebSocket, TypeOK
      <4>2. QED
        BY <1>22, <4>1, SeverCuts DEF ReplaceWebSocket
    <3>2. r > socket => hpc'[r] = hpc[r] /\ pump'[r] = pump[r]
      BY <1>a, <1>c, <1>22 DEF ReplaceWebSocket, StartPump, Opened
    <3>3. QED
      BY <1>a, <1>22, <3>1, <3>2, OpenedFrame DEF ReplaceWebSocket
  <2>3. Emptied(r)'
    <3>1. down[r] = <<>> => down'[r] = <<>>
      <4>1. currentCC[s].id \in Sockets
        BY <1>22, ConnectionTypes, <1>c DEF ReplaceWebSocket, TypeOK
      <4>2. QED
        BY <1>22, <4>1, SeverCuts DEF ReplaceWebSocket
    <3>2. /\ unsent' = unsent
          /\ hpc'[r] = hpc[r] \/ hpc'[r] = "forward"
      BY <1>c, <1>22 DEF ReplaceWebSocket
    <3>3. UNCHANGED <<sendBuffer, currentCC>>
      BY <1>22 DEF ReplaceWebSocket
    <3>4. QED
      BY <1>a, <3>1, <3>2, <3>3 DEF Emptied
  <2>4. Referred(r)'
    <3>1. hpc'[r] = hpc[r] \/ hpc[r] = "replace"
      BY <1>c, <1>22 DEF ReplaceWebSocket
    <3>2. queue[r] = <<>> => queue'[r] = <<>>
      BY <1>c, <1>d, <1>22 DEF ReplaceWebSocket, ReadCaching
    <3>3. QED
      BY <1>a, <1>22, <3>1, <3>2, ReferredFrame DEF ReplaceWebSocket
  <2>5. QED
    BY <2>1, <2>2, <2>3, <2>4
<1>23. ASSUME NEW s \in Sockets, AddCloseHandler(s)
      PROVE  PageWiring' /\ Opened(r)' /\ Emptied(r)' /\ Referred(r)'
  <2>1. PageWiring'
    BY <1>a, <1>23 DEF AddCloseHandler, PageWiring
  <2>2. Opened(r)'
    BY <1>a, <1>c, <1>23 DEF AddCloseHandler, Registered, Opened
  <2>3. Emptied(r)'
    BY <1>a, <1>c, <1>23 DEF AddCloseHandler, Registered, Emptied
  <2>4. Referred(r)'
    <3>1. hpc'[r] = hpc[r] \/ hpc[r] = "forward"
      BY <1>c, <1>23 DEF AddCloseHandler
    <3>2. QED
      BY <1>a, <1>23, <3>1, ReferredFrame DEF AddCloseHandler
  <2>5. QED
    BY <2>1, <2>2, <2>3, <2>4
<1>24. ASSUME NEW s \in Sockets, InstallWebSocket(s)
      PROVE  PageWiring' /\ Opened(r)' /\ Emptied(r)' /\ Referred(r)'
  <2>1. PageWiring'
    BY <1>a, <1>c, <1>24, <1>e, <1>f DEF InstallWebSocket, Installed, PageWiring
  <2>2. Opened(r)'
    BY <1>a, <1>c, <1>24 DEF InstallWebSocket, Installed, Opened
  <2>3. Emptied(r)'
    BY <1>a, <1>c, <1>24 DEF InstallWebSocket, Installed, Emptied
  <2>4. Referred(r)'
    <3>1. clientConnection' = WebSocket(s) /\ UNCHANGED <<ref, queue>>
      BY <1>24 DEF InstallWebSocket, Installed
    <3>2. CASE r = s
      <4>1. hpc'[r] = "loop"
        BY <1>c, <1>24, <3>2 DEF InstallWebSocket
      <4>2. QED
        BY <1>a, <1>d, <1>24, <3>1, <3>2, <4>1 DEF InstallWebSocket, Referred, Unreferred
    <3>3. CASE r # s
      <4>1. hpc'[r] = hpc[r]
        BY <1>c, <1>24, <3>3 DEF InstallWebSocket
      <4>2. clientConnection' # WebSocket(r) /\ clientConnection' # Caching(r)
        BY <1>d, <3>1, <3>3
      <4>3. QED
        BY <1>a, <3>1, <4>1, <4>2 DEF Referred, Unreferred
    <3>4. QED
      BY <3>2, <3>3
  <2>5. QED
    BY <2>1, <2>2, <2>3, <2>4
<1>25. ASSUME NEW s \in Sockets, HandleFrame(s)
      PROVE  PageWiring' /\ Opened(r)' /\ Emptied(r)' /\ Referred(r)'
  <2>1. PageWiring'
    BY <1>a, <1>25 DEF HandleFrame, PageWiring
  <2>2. Opened(r)'
    BY <1>a, <1>c, <1>25 DEF HandleFrame, Opened
  <2>3. Emptied(r)'
    BY <1>a, <1>25 DEF HandleFrame, Emptied
  <2>4. Referred(r)'
    BY <1>a, <1>25, ReferredFrame DEF HandleFrame
  <2>5. QED
    BY <2>1, <2>2, <2>3, <2>4
<1>26. ASSUME NEW s \in Sockets, EndOfFrames(s)
      PROVE  PageWiring' /\ Opened(r)' /\ Emptied(r)' /\ Referred(r)'
  <2>1. PageWiring'
    BY <1>a, <1>c, <1>26, <1>e, <1>f DEF EndOfFrames, LeftBehind, PageWiring
  <2>2. Opened(r)'
    BY <1>a, <1>c, <1>26 DEF EndOfFrames, LeftBehind, Opened
  <2>3. Emptied(r)'
    BY <1>a, <1>c, <1>26 DEF EndOfFrames, LeftBehind, Emptied
  <2>4. Referred(r)'
    <3>1. clientConnection' = Caching(s) /\ UNCHANGED <<ref, queue>>
      BY <1>26 DEF EndOfFrames, LeftBehind
    <3>2. CASE r = s
      <4>1. hpc'[r] = "done"
        BY <1>c, <1>26, <3>2 DEF EndOfFrames
      <4>2. QED
        BY <1>a, <1>d, <1>26, <3>1, <3>2, <4>1 DEF EndOfFrames, Referred, Unreferred
    <3>3. CASE r # s
      <4>1. hpc'[r] = hpc[r]
        BY <1>c, <1>26, <3>3 DEF EndOfFrames
      <4>2. clientConnection' # WebSocket(r) /\ clientConnection' # Caching(r)
        BY <1>d, <3>1, <3>3
      <4>3. QED
        BY <1>a, <3>1, <4>1, <4>2 DEF Referred, Unreferred
    <3>4. QED
      BY <3>2, <3>3
  <2>5. QED
    BY <2>1, <2>2, <2>3, <2>4
<1>27. CASE UNCHANGED vars
  BY <1>a, <1>27, OpenedFrame, EmptiedFrame, ReferredFrame DEF PageWiring
<1>28. QED
  BY <1>1, <1>2, <1>3, <1>4, <1>5, <1>6, <1>7, <1>8, <1>9, <1>10, <1>11, <1>12, <1>13, <1>14, <1>15, <1>16, <1>17, <1>18, <1>19, <1>20, <1>21, <1>22, <1>23, <1>24, <1>25, <1>26, <1>27 DEF Next, Sender, Handler

LEMMA WiringInvariant == Spec => []Wiring
<1>1. TypeOK /\ Wiring /\ [Next]_vars => Wiring'
  BY WiringStep
<1>2. QED
  BY <1>1, WiringInit, TypeCorrect, PTL DEF Spec

(***************************************************************************)
(* Nothing is lost while the websockets stay up.                           *)
(***************************************************************************)
LEMMA MemberOfAppend ==
  ASSUME NEW S, NEW q \in Seq(S), NEW e \in S
  PROVE  ToSet(Append(q, e)) = ToSet(q) \cup {e}
<1>1. /\ DOMAIN Append(q, e) = 1..(Len(q) + 1) /\ DOMAIN q = 1..Len(q) /\ Len(q) \in Nat
      /\ Append(q, e)[Len(q) + 1] = e
      /\ \A i \in 1..Len(q) : Append(q, e)[i] = q[i]
  OBVIOUS
<1>2. QED
  BY <1>1 DEF ToSet

LEMMA MemberOfHeadTail ==
  ASSUME NEW S, NEW q \in Seq(S), q # <<>>
  PROVE  ToSet(q) = {Head(q)} \cup ToSet(Tail(q))
<1>1. /\ Len(q) \in Nat \ {0} /\ DOMAIN q = 1..Len(q) /\ Head(q) = q[1]
      /\ DOMAIN Tail(q) = 1..(Len(q) - 1)
      /\ \A i \in 1..(Len(q) - 1) : Tail(q)[i] = q[i + 1]
  OBVIOUS
<1>2. ASSUME NEW i \in DOMAIN q PROVE q[i] \in {Head(q)} \cup ToSet(Tail(q))
  <2>1. CASE i = 1
    BY <1>1, <2>1
  <2>2. CASE i # 1
    <3>1. i - 1 \in DOMAIN Tail(q) /\ Tail(q)[i - 1] = q[i]
      BY <1>1, <2>2
    <3>2. QED
      BY <3>1 DEF ToSet
  <2>3. QED
    BY <2>1, <2>2
<1>3. ASSUME NEW i \in DOMAIN Tail(q) PROVE Tail(q)[i] \in ToSet(q)
  <2>1. i + 1 \in DOMAIN q /\ Tail(q)[i] = q[i + 1]
    BY <1>1
  <2>2. QED
    BY <2>1 DEF ToSet
<1>4. Head(q) \in ToSet(q)
  BY <1>1 DEF ToSet
<1>5. QED
  BY <1>2, <1>3, <1>4 DEF ToSet

\* m has been received or can still be: the members of InFlight, one place after another.
OnItsWay(m) ==
  \/ \E c \in Caches : ~isRead[c] /\ m \in ToSet(queue[c])
  \/ \E s \in Sockets : m \in ToSet(unsent[s]) \cup ToSet(sendBuffer[s])
  \/ \E ch \in {PageChannel} \cup Sockets : m \in ToSet(down[ch])
  \/ m \in ToSet(received)

LEMMA InFlightIsOnItsWay ==
  ASSUME NEW m
  PROVE  /\ m \in InFlight \cup ToSet(received) <=> OnItsWay(m)
         /\ (m \in InFlight \cup ToSet(received) <=> OnItsWay(m))'
<1>1. m \in InFlight \cup ToSet(received) <=> OnItsWay(m)
  <2> DEFINE cached == UNION {ToSet(queue[c]) : c \in {d \in Caches : ~isRead[d]}}
             drained == UNION {ToSet(unsent[s]) : s \in Sockets}
             buffered == UNION {ToSet(sendBuffer[s]) : s \in Sockets}
             sent == UNION {ToSet(down[ch]) : ch \in {PageChannel} \cup Sockets}
  <2>1. m \in cached <=> \E c \in Caches : ~isRead[c] /\ m \in ToSet(queue[c])
    OBVIOUS
  <2>2. m \in drained <=> \E s \in Sockets : m \in ToSet(unsent[s])
    OBVIOUS
  <2>3. m \in buffered <=> \E s \in Sockets : m \in ToSet(sendBuffer[s])
    OBVIOUS
  <2>4. m \in sent <=> \E ch \in {PageChannel} \cup Sockets : m \in ToSet(down[ch])
    OBVIOUS
  <2>5. InFlight = cached \cup drained \cup buffered \cup sent
    BY DEF InFlight
  <2> HIDE DEF cached, drained, buffered, sent
  <2>6. QED
    BY <2>1, <2>2, <2>3, <2>4, <2>5 DEF OnItsWay
<1>2. QED
  BY <1>1, PTL

AllUp == \A s \in Sockets : link[s] \in {"unused", "up"}

\* A websocket that has gone down stays down, and one that is severed goes down.
LEMMA UpStaysUp ==
  ASSUME TypeOK, NEW s \in Sockets, NEW how \in {"down", "rejected"}, Sever(s, how), AllUp'
  PROVE  UNCHANGED <<link, down, up>>
<1>1. CASE link[s] = "up"
  <2>1. link' = [link EXCEPT ![s] = how]
    BY <1>1 DEF Sever
  <2>2. link'[s] \notin {"unused", "up"}
    BY <2>1 DEF TypeOK
  <2>3. QED
    BY <2>2 DEF AllUp
<1>2. CASE link[s] # "up"
  BY <1>2 DEF Sever, netVars
<1>3. QED
  BY <1>1, <1>2

\* What a send changes, and only when it takes the message.
LEMMA CachingSendAdds ==
  ASSUME TypeOK, NEW t \in Threads, CachingSend(t)
  PROVE  LET c == ref[t].id  msg == Msg(t, count[t]) IN
         /\ c \in Caches /\ msg \in Messages /\ ref[t] = Caching(c)
         /\ \/ UNCHANGED <<queue, accepted>>
            \/ /\ ~isRead[c]
               /\ queue' = [queue EXCEPT ![c] = Append(@, msg)]
               /\ accepted' = [accepted EXCEPT ![t] = @ \cup {count[t]}]
               /\ queue'[c] = Append(queue[c], msg)
               /\ ToSet(queue'[c]) = ToSet(queue[c]) \cup {msg}
               /\ \A d \in Caches : d # c => queue'[d] = queue[d]
<1> DEFINE c == ref[t].id
           msg == Msg(t, count[t])
<1>1. /\ c \in Caches /\ msg \in Messages /\ queue \in [Caches -> Seq(Messages)]
  <2>1. count[t] \in Nat /\ ref[t] \in Connections /\ queue \in [Caches -> Seq(Messages)]
    BY ConnectionAssumption DEF TypeOK
  <2>2. QED
    BY <2>1, ConnectionTypes DEF Messages, Msg
<1>2. ref[t] = Caching(c)
  BY ConnectionsDiffer DEF TypeOK, CachingSend
<1>3. CASE isRead[c]
  BY <1>1, <1>2, <1>3 DEF CachingSend, Refuses
<1>4. CASE ~isRead[c]
  <2>1. /\ queue' = [queue EXCEPT ![c] = Append(@, msg)]
        /\ accepted' = [accepted EXCEPT ![t] = @ \cup {count[t]}]
    BY <1>4 DEF CachingSend, Refuses
  <2>2. /\ queue'[c] = Append(queue[c], msg)
        /\ \A d \in Caches : d # c => queue'[d] = queue[d]
    BY <1>1, <2>1
  <2>3. ToSet(queue'[c]) = ToSet(queue[c]) \cup {msg}
    BY <1>1, <2>2, MemberOfAppend
  <2>4. QED
    BY <1>1, <1>2, <1>4, <2>1, <2>2, <2>3
<1>5. QED
  BY <1>3, <1>4

LEMMA WebSocketSendAdds ==
  ASSUME TypeOK, NEW t \in Threads, WebSocketSend(t)
  PROVE  LET s == ref[t].id  msg == Msg(t, count[t]) IN
         /\ s \in Sockets /\ msg \in Messages /\ ref[t] = WebSocket(s)
         /\ \/ UNCHANGED <<sendBuffer, accepted>>
            \/ /\ sendBuffer' = [sendBuffer EXCEPT ![s] = Append(@, msg)]
               /\ accepted' = [accepted EXCEPT ![t] = @ \cup {count[t]}]
               /\ sendBuffer'[s] = Append(sendBuffer[s], msg)
               /\ ToSet(sendBuffer'[s]) = ToSet(sendBuffer[s]) \cup {msg}
               /\ \A r \in Sockets : r # s => sendBuffer'[r] = sendBuffer[r]
<1> DEFINE s == ref[t].id
           msg == Msg(t, count[t])
<1>1. /\ s \in Sockets /\ msg \in Messages /\ sendBuffer \in [Sockets -> Seq(Messages)]
      /\ ref[t] = WebSocket(s)
  <2>1. ref[t] \in Connections /\ count[t] \in Nat /\ ref[t].kind = "WebSocket"
    BY ConnectionAssumption DEF TypeOK, WebSocketSend
  <2>2. s \in Sockets /\ ref[t] = WebSocket(s)
    BY ONLY <2>1 DEF Connections, WebSocket
  <2>3. msg \in Messages
    BY ONLY <2>1, t \in Threads DEF Messages, Msg
  <2>4. QED
    BY <2>2, <2>3 DEF TypeOK
<1>2. CASE bufferClosed[s]
  BY <1>1, <1>2 DEF WebSocketSend
<1>3. CASE ~bufferClosed[s]
  <2>1. /\ sendBuffer' = [sendBuffer EXCEPT ![s] = Append(@, msg)]
        /\ accepted' = [accepted EXCEPT ![t] = @ \cup {count[t]}]
    BY <1>3 DEF WebSocketSend
  <2>2. /\ sendBuffer'[s] = Append(sendBuffer[s], msg)
        /\ \A r \in Sockets : r # s => sendBuffer'[r] = sendBuffer[r]
    BY <1>1, <2>1
  <2>3. ToSet(sendBuffer'[s]) = ToSet(sendBuffer[s]) \cup {msg}
    BY <1>1, <2>2, MemberOfAppend
  <2>4. QED
    BY <1>1, <2>1, <2>2, <2>3
<1>4. QED
  BY <1>2, <1>3

LEMMA AcceptedBySends ==
  ASSUME [Next]_vars, accepted' # accepted
  PROVE  \E t \in Threads : CachingSend(t) \/ WebSocketSend(t)
<1> USE DEF threadVars
<1>1. SUFFICES ASSUME \A t \in Threads : ~CachingSend(t) /\ ~WebSocketSend(t)
               PROVE  accepted' = accepted
  OBVIOUS
<1>2. SwapPageCache => accepted' = accepted
  BY DEF SwapPageCache
<1>3. ServePage => accepted' = accepted
  BY DEF ServePage
<1>4. Expire => accepted' = accepted
  BY DEF Expire
<1>5. TriggerCloseListeners => accepted' = accepted
  BY DEF TriggerCloseListeners
<1>6. Receive => accepted' = accepted
  BY DEF Receive
<1>7. ConnectWs => accepted' = accepted
  BY DEF ConnectWs
<1>8. OnClose => accepted' = accepted
  BY DEF OnClose
<1>9. GiveUp => accepted' = accepted
  BY DEF GiveUp
<1>10. BrowserEvent => accepted' = accepted
  BY DEF BrowserEvent
<1>11. SendKeepalive => accepted' = accepted
  BY DEF SendKeepalive
<1>12. \A t \in Threads : CallJs(t) => accepted' = accepted
  BY DEF CallJs
<1>13. \A t \in Threads : ReadConnection(t) => accepted' = accepted
  BY DEF ReadConnection
<1>14. \A s \in Sockets : Disconnect(s) => accepted' = accepted
  BY DEF Disconnect
<1>15. \A s \in Sockets : Pump(s) => accepted' = accepted
  BY DEF Pump
<1>16. \A s \in Sockets : PumpFails(s) => accepted' = accepted
  BY DEF PumpFails
<1>17. \A s \in Sockets : ReceiveHello(s) => accepted' = accepted
  BY DEF ReceiveHello
<1>18. \A s \in Sockets : ReadCurrentCC(s) => accepted' = accepted
  BY DEF ReadCurrentCC
<1>19. \A s \in Sockets : DrainCaching(s) => accepted' = accepted
  BY DEF DrainCaching
<1>20. \A s \in Sockets : Forward(s) => accepted' = accepted
  BY DEF Forward
<1>21. \A s \in Sockets : ReplaceWebSocket(s) => accepted' = accepted
  BY DEF ReplaceWebSocket
<1>22. \A s \in Sockets : AddCloseHandler(s) => accepted' = accepted
  BY DEF AddCloseHandler
<1>23. \A s \in Sockets : InstallWebSocket(s) => accepted' = accepted
  BY DEF InstallWebSocket
<1>24. \A s \in Sockets : HandleFrame(s) => accepted' = accepted
  BY DEF HandleFrame
<1>25. \A s \in Sockets : EndOfFrames(s) => accepted' = accepted
  BY DEF EndOfFrames
<1>26. UNCHANGED vars => accepted' = accepted
  BY DEF vars
<1>27. QED
  BY <1>1, <1>2, <1>3, <1>4, <1>5, <1>6, <1>7, <1>8, <1>9, <1>10, <1>11, <1>12, <1>13, <1>14, <1>15, <1>16, <1>17, <1>18, <1>19, <1>20, <1>21, <1>22, <1>23, <1>24, <1>25, <1>26 DEF Next, Sender, Handler

LEMMA UpBefore ==
  ASSUME TypeOK, Wiring, [Next]_vars, AllUp'
  PROVE  AllUp
<1> USE DEF netVars
<1>a. link \in [Sockets -> {"unused", "up", "down", "rejected"}]
  BY DEF TypeOK
<1>1. CASE SwapPageCache
  BY <1>1 DEF SwapPageCache, AllUp
<1>2. CASE ServePage
  BY <1>2 DEF ServePage, AllUp
<1>3. CASE Expire
  BY <1>3 DEF Expire, AllUp
<1>4. CASE TriggerCloseListeners
  BY <1>a, <1>4 DEF TriggerCloseListeners, AllUp
<1>5. CASE Receive
  BY <1>5 DEF Receive, AllUp
<1>6. CASE ConnectWs
  <2>1. link' = [link EXCEPT ![socket + 1] = "up"] /\ socket + 1 \in Sockets /\ socket \in Nat
    BY <1>6, ConnectionAssumption DEF ConnectWs, TypeOK, Sockets
  <2>2. link[socket + 1] = "unused"
    BY <2>1 DEF Wiring, SocketWiring, Opened
  <2>3. QED
    BY <1>a, <2>1, <2>2 DEF AllUp
<1>7. CASE OnClose
  BY <1>7 DEF OnClose, AllUp
<1>8. CASE GiveUp
  BY <1>8 DEF GiveUp, AllUp
<1>9. CASE BrowserEvent
  BY <1>9 DEF BrowserEvent, AllUp
<1>10. CASE SendKeepalive
  BY <1>10 DEF SendKeepalive, AllUp
<1>11. ASSUME NEW t \in Threads, CallJs(t) PROVE AllUp
  BY <1>11 DEF CallJs, AllUp
<1>12. ASSUME NEW t \in Threads, ReadConnection(t) PROVE AllUp
  BY <1>12 DEF ReadConnection, AllUp
<1>13. ASSUME NEW t \in Threads, CachingSend(t) PROVE AllUp
  BY <1>13 DEF CachingSend, AllUp
<1>14. ASSUME NEW t \in Threads, WebSocketSend(t) PROVE AllUp
  BY <1>14 DEF WebSocketSend, AllUp
<1>15. ASSUME NEW s \in Sockets, Disconnect(s) PROVE AllUp
  BY <1>15, UpStaysUp DEF Disconnect, AllUp
<1>16. ASSUME NEW s \in Sockets, Pump(s) PROVE AllUp
  BY <1>16 DEF Pump, AllUp
<1>17. ASSUME NEW s \in Sockets, PumpFails(s) PROVE AllUp
  BY <1>17 DEF PumpFails, AllUp
<1>18. ASSUME NEW s \in Sockets, ReceiveHello(s) PROVE AllUp
  <2>1. CASE present
    BY <1>18, <2>1 DEF ReceiveHello, AllUp
  <2>2. CASE ~present
    BY <1>18, <2>2, UpStaysUp DEF ReceiveHello, Reject, AllUp
  <2>3. QED
    BY <2>1, <2>2
<1>19. ASSUME NEW s \in Sockets, ReadCurrentCC(s) PROVE AllUp
  BY <1>19 DEF ReadCurrentCC, AllUp
<1>20. ASSUME NEW s \in Sockets, DrainCaching(s) PROVE AllUp
  <2>1. CASE isRead[currentCC[s].id]
    BY <1>20, <2>1, UpStaysUp DEF DrainCaching, AllUp
  <2>2. CASE ~isRead[currentCC[s].id]
    BY <1>20, <2>2 DEF DrainCaching, AllUp
  <2>3. QED
    BY <2>1, <2>2
<1>21. ASSUME NEW s \in Sockets, Forward(s) PROVE AllUp
  BY <1>21 DEF Forward, AllUp
<1>22. ASSUME NEW s \in Sockets, ReplaceWebSocket(s) PROVE AllUp
  <2>1. currentCC[s].id \in Sockets /\ Sever(currentCC[s].id, "down")
    BY <1>22, ConnectionTypes DEF ReplaceWebSocket, TypeOK
  <2>2. QED
    BY <2>1, UpStaysUp DEF AllUp
<1>23. ASSUME NEW s \in Sockets, AddCloseHandler(s) PROVE AllUp
  BY <1>23 DEF AddCloseHandler, AllUp
<1>24. ASSUME NEW s \in Sockets, InstallWebSocket(s) PROVE AllUp
  BY <1>24 DEF InstallWebSocket, AllUp
<1>25. ASSUME NEW s \in Sockets, HandleFrame(s) PROVE AllUp
  BY <1>25 DEF HandleFrame, AllUp
<1>26. ASSUME NEW s \in Sockets, EndOfFrames(s) PROVE AllUp
  BY <1>26 DEF EndOfFrames, AllUp
<1>27. CASE UNCHANGED vars
  BY <1>27 DEF vars, AllUp
<1>28. QED
  BY <1>1, <1>2, <1>3, <1>4, <1>5, <1>6, <1>7, <1>8, <1>9, <1>10, <1>11, <1>12, <1>13, <1>14, <1>15, <1>16, <1>17, <1>18, <1>19, <1>20, <1>21, <1>22, <1>23, <1>24, <1>25, <1>26, <1>27 DEF Next, Sender, Handler

LEMMA OnItsWayStep ==
  ASSUME TypeOK, Wiring, [Next]_vars, AllUp', NEW m, OnItsWay(m)
  PROVE  OnItsWay(m)'
<1> USE DEF vars, cacheVars, bufferVars, netVars, handlerVars, sessionVars,
            browserVars, threadVars
<1>a. /\ Sockets = 1..NSockets /\ NSockets \in Nat /\ PageChannel \notin Sockets
      /\ Sockets \subseteq Caches
      /\ queue \in [Caches -> Seq(Messages)]
      /\ isRead \in [Caches -> BOOLEAN]
      /\ sendBuffer \in [Sockets -> Seq(Messages)]
      /\ down \in [{PageChannel} \cup Sockets -> Seq(Messages)]
      /\ unsent \in [Sockets -> Seq(Messages)]
      /\ received \in Seq(Messages)
      /\ currentCC \in [Sockets -> Connections] /\ ref \in [Threads -> Connections]
      /\ \A k \in Connections : k.id \in Caches
  BY ConnectionAssumption, ConnectionTypes DEF TypeOK, Sockets, PageChannel, Caches
<1>b. PageWiring /\ \A r \in Sockets : Opened(r) /\ Emptied(r)
  BY DEF Wiring, SocketWiring
<1>1. CASE SwapPageCache
  BY <1>1 DEF SwapPageCache, OnItsWay
<1>2. CASE ServePage
  <2>1. /\ down' = [down EXCEPT ![PageChannel] = queue[PageCache]]
        /\ isRead' = [isRead EXCEPT ![PageCache] = TRUE]
        /\ queue' = [queue EXCEPT ![PageCache] = <<>>]
        /\ UNCHANGED <<unsent, sendBuffer, received>>
    BY <1>2 DEF ServePage, ReadCaching
  <2>2. down[PageChannel] = <<>>
    BY <1>b, <1>2 DEF ServePage, PageWiring
  <2>3. m \notin ToSet(<<>>)
    BY DEF ToSet
  <2>4. CASE \E c \in Caches : ~isRead[c] /\ m \in ToSet(queue[c])
    <3>1. PICK c \in Caches : ~isRead[c] /\ m \in ToSet(queue[c])
      BY <2>4
    <3>2. CASE c = PageCache
      BY <1>a, <2>1, <3>1, <3>2 DEF OnItsWay
    <3>3. CASE c # PageCache
      <4>1. ~isRead'[c] /\ m \in ToSet(queue'[c])
        BY <1>a, <2>1, <3>1, <3>3
      <4>2. QED
        BY <4>1 DEF OnItsWay
    <3>4. QED
      BY <3>2, <3>3
  <2>5. CASE \E ch \in {PageChannel} \cup Sockets : m \in ToSet(down[ch])
    <3>1. PICK ch \in Sockets : m \in ToSet(down[ch])
      BY <2>2, <2>3, <2>5
    <3>2. down'[ch] = down[ch]
      BY <1>a, <2>1, <3>1
    <3>3. QED
      BY <3>1, <3>2 DEF OnItsWay
  <2>6. QED
    BY <2>1, <2>4, <2>5 DEF OnItsWay
<1>3. CASE Expire
  BY <1>3 DEF Expire, OnItsWay
<1>4. CASE TriggerCloseListeners
  BY <1>4 DEF TriggerCloseListeners, OnItsWay
<1>5. CASE Receive
  <2> DEFINE ch == IF browser = "loading" THEN PageChannel ELSE socket
  <2>1. /\ received' = Append(received, Head(down[ch]))
        /\ down' = [down EXCEPT ![ch] = Tail(@)] /\ down[ch] # <<>>
        /\ UNCHANGED <<queue, isRead, unsent, sendBuffer>>
    BY <1>5 DEF Receive
  <2>2. ch \in {PageChannel} \cup Sockets
    BY <1>a, <1>b DEF PageWiring, PageChannel, TypeOK
  <2>3. /\ down[ch] \in Seq(Messages) /\ Head(down[ch]) \in Messages
        /\ ToSet(down[ch]) = {Head(down[ch])} \cup ToSet(Tail(down[ch]))
    <3>1. down[ch] \in Seq(Messages)
      BY <1>a, <2>2
    <3>2. down[ch] # <<>>
      BY <2>1
    <3>3. QED
      BY ONLY <3>1, <3>2, HeadTailTypes, MemberOfHeadTail
  <2>4. ToSet(received') = ToSet(received) \cup {Head(down[ch])}
    <3>1. received \in Seq(Messages) /\ Head(down[ch]) \in Messages
      BY <1>a, <2>3
    <3>2. ToSet(Append(received, Head(down[ch]))) = ToSet(received) \cup {Head(down[ch])}
      BY ONLY <3>1, MemberOfAppend
    <3>3. QED
      BY ONLY <2>1, <3>2
  <2>5. \A c \in {PageChannel} \cup Sockets :
           c # ch => down'[c] = down[c]
    BY <1>a, <2>1
  <2>6. down'[ch] = Tail(down[ch])
    BY <1>a, <2>1, <2>2
  <2>7. CASE \E c \in {PageChannel} \cup Sockets : m \in ToSet(down[c])
    <3>1. PICK c \in {PageChannel} \cup Sockets : m \in ToSet(down[c])
      BY <2>7
    <3>2. m \in ToSet(down'[c]) \/ m \in ToSet(received')
      BY <2>3, <2>4, <2>5, <2>6, <3>1
    <3>3. QED
      BY <3>1, <3>2 DEF OnItsWay
  <2>8. QED
    BY <2>1, <2>4, <2>7 DEF OnItsWay
<1>6. CASE ConnectWs
  BY <1>6 DEF ConnectWs, OnItsWay
<1>7. CASE OnClose
  BY <1>7 DEF OnClose, OnItsWay
<1>8. CASE GiveUp
  BY <1>8 DEF GiveUp, OnItsWay
<1>9. CASE BrowserEvent
  BY <1>9 DEF BrowserEvent, OnItsWay
<1>10. CASE SendKeepalive
  BY <1>10 DEF SendKeepalive, OnItsWay
<1>11. ASSUME NEW t \in Threads, CallJs(t) PROVE OnItsWay(m)'
  BY <1>11 DEF CallJs, OnItsWay
<1>12. ASSUME NEW t \in Threads, ReadConnection(t) PROVE OnItsWay(m)'
  BY <1>12 DEF ReadConnection, OnItsWay
<1>13. ASSUME NEW t \in Threads, CachingSend(t) PROVE OnItsWay(m)'
  <2>1. \A c \in Caches : ToSet(queue[c]) \subseteq ToSet(queue'[c])
    BY <1>13, CachingSendAdds
  <2>2. UNCHANGED <<isRead, unsent, sendBuffer, down, received>>
    BY <1>13 DEF CachingSend
  <2>3. QED
    BY <2>1, <2>2 DEF OnItsWay
<1>14. ASSUME NEW t \in Threads, WebSocketSend(t) PROVE OnItsWay(m)'
  <2>1. \A s \in Sockets : ToSet(sendBuffer[s]) \subseteq ToSet(sendBuffer'[s])
    BY <1>14, WebSocketSendAdds
  <2>2. UNCHANGED <<queue, isRead, unsent, down, received>>
    BY <1>14 DEF WebSocketSend
  <2>3. QED
    BY <2>1, <2>2 DEF OnItsWay
<1>15. ASSUME NEW s \in Sockets, Disconnect(s) PROVE OnItsWay(m)'
  <2>1. UNCHANGED <<link, down, up>>
    BY <1>15, UpStaysUp DEF Disconnect
  <2>2. QED
    BY <1>15, <2>1 DEF Disconnect, OnItsWay
<1>16. ASSUME NEW s \in Sockets, Pump(s) PROVE OnItsWay(m)'
  <2>1. /\ pump[s] = "running" /\ sendBuffer[s] # <<>>
        /\ sendBuffer' = [sendBuffer EXCEPT ![s] = Tail(@)]
        /\ down' = IF link[s] = "up"
                   THEN [down EXCEPT ![s] = Append(@, Head(sendBuffer[s]))] ELSE down
        /\ UNCHANGED <<queue, isRead, unsent, received, link>>
    BY <1>16 DEF Pump
  <2>2. link[s] \in {"unused", "up"}
    BY <2>1 DEF AllUp
  <2>3. s <= socket \/ s > socket
    BY <1>a DEF TypeOK
  <2>4. link[s] = "up"
    BY <1>b, <2>1, <2>2, <2>3 DEF Opened
  <2>5. /\ Head(sendBuffer[s]) \in Messages
        /\ ToSet(sendBuffer[s]) = {Head(sendBuffer[s])} \cup ToSet(Tail(sendBuffer[s]))
    BY <1>a, <2>1, HeadTailTypes, MemberOfHeadTail
  <2>6. /\ down'[s] = Append(down[s], Head(sendBuffer[s]))
        /\ sendBuffer'[s] = Tail(sendBuffer[s])
        /\ \A ch \in {PageChannel} \cup Sockets : ch # s => down'[ch] = down[ch]
        /\ \A r \in Sockets : r # s => sendBuffer'[r] = sendBuffer[r]
    BY <1>a, <2>1, <2>4
  <2>7. ToSet(down'[s]) = ToSet(down[s]) \cup {Head(sendBuffer[s])}
    <3>1. down[s] \in Seq(Messages)
      BY <1>a
    <3>2. QED
      BY <2>5, <2>6, <3>1, MemberOfAppend
  <2>8. ASSUME NEW r \in Sockets, m \in ToSet(sendBuffer[r])
        PROVE  m \in ToSet(sendBuffer'[r]) \/ m \in ToSet(down'[s])
    BY <2>5, <2>6, <2>7, <2>8
  <2>9. \A ch \in {PageChannel} \cup Sockets : ToSet(down[ch]) \subseteq ToSet(down'[ch])
    BY <2>6, <2>7
  <2>10. QED
    BY <2>1, <2>8, <2>9 DEF OnItsWay
<1>17. ASSUME NEW s \in Sockets, PumpFails(s) PROVE OnItsWay(m)'
  BY <1>17 DEF PumpFails, OnItsWay
<1>18. ASSUME NEW s \in Sockets, ReceiveHello(s) PROVE OnItsWay(m)'
  <2>1. UNCHANGED down
    <3>1. CASE present
      BY <1>18, <3>1 DEF ReceiveHello
    <3>2. CASE ~present
      BY <1>18, <3>2, UpStaysUp DEF ReceiveHello, Reject
    <3>3. QED
      BY <3>1, <3>2
  <2>2. QED
    BY <1>18, <2>1 DEF ReceiveHello, OnItsWay
<1>19. ASSUME NEW s \in Sockets, ReadCurrentCC(s) PROVE OnItsWay(m)'
  BY <1>19 DEF ReadCurrentCC, OnItsWay
<1>20. ASSUME NEW s \in Sockets, DrainCaching(s) PROVE OnItsWay(m)'
  <2> DEFINE c == currentCC[s].id
  <2>1. CASE isRead[c]
    <3>1. UNCHANGED <<link, down, up>>
      BY <1>20, <2>1, UpStaysUp DEF DrainCaching
    <3>2. QED
      BY <1>20, <2>1, <3>1 DEF DrainCaching, OnItsWay
  <2>2. CASE ~isRead[c]
    <3>1. /\ unsent' = [unsent EXCEPT ![s] = queue[c]]
          /\ isRead' = [isRead EXCEPT ![c] = TRUE]
          /\ queue' = [queue EXCEPT ![c] = <<>>]
          /\ hpc[s] = "drain" /\ UNCHANGED <<sendBuffer, down, received>>
      BY <1>20, <2>2 DEF DrainCaching, ReadCaching
    <3>2. unsent[s] = <<>> /\ m \notin ToSet(<<>>)
      BY <1>b, <3>1 DEF Emptied, ToSet
    <3>3. CASE \E d \in Caches : ~isRead[d] /\ m \in ToSet(queue[d])
      <4>1. PICK d \in Caches : ~isRead[d] /\ m \in ToSet(queue[d])
        BY <3>3
      <4>2. CASE d = c
        <5>1. unsent'[s] = queue[c]
          BY <1>a, <3>1
        <5>2. QED
          BY <4>1, <4>2, <5>1 DEF OnItsWay
      <4>3. CASE d # c
        <5>1. isRead'[d] = isRead[d] /\ queue'[d] = queue[d]
          BY <1>a, <3>1, <4>3
        <5>2. QED
          BY <4>1, <5>1 DEF OnItsWay
      <4>4. QED
        BY <4>2, <4>3
    <3>4. CASE \E r \in Sockets : m \in ToSet(unsent[r])
      <4>1. PICK r \in Sockets : m \in ToSet(unsent[r])
        BY <3>4
      <4>2. unsent'[r] = unsent[r]
        BY <1>a, <3>1, <3>2, <4>1
      <4>3. QED
        BY <4>1, <4>2 DEF OnItsWay
    <3>5. QED
      BY <3>1, <3>3, <3>4 DEF OnItsWay
  <2>3. QED
    BY <2>1, <2>2
<1>21. ASSUME NEW s \in Sockets, Forward(s) PROVE OnItsWay(m)'
  <2>1. /\ unsent[s] # <<>>
        /\ sendBuffer' = [sendBuffer EXCEPT ![s] = Append(@, Head(unsent[s]))]
        /\ unsent' = [unsent EXCEPT ![s] = Tail(@)]
        /\ UNCHANGED <<queue, isRead, down, received>>
    BY <1>21 DEF Forward
  <2>2. /\ Head(unsent[s]) \in Messages
        /\ ToSet(unsent[s]) = {Head(unsent[s])} \cup ToSet(Tail(unsent[s]))
    BY <1>a, <2>1, HeadTailTypes, MemberOfHeadTail
  <2>3. /\ sendBuffer'[s] = Append(sendBuffer[s], Head(unsent[s]))
        /\ unsent'[s] = Tail(unsent[s])
        /\ \A r \in Sockets : r # s => sendBuffer'[r] = sendBuffer[r] /\ unsent'[r] = unsent[r]
    BY <1>a, <2>1
  <2>4. ToSet(sendBuffer'[s]) = ToSet(sendBuffer[s]) \cup {Head(unsent[s])}
    <3>1. sendBuffer[s] \in Seq(Messages)
      BY <1>a
    <3>2. QED
      BY <2>2, <2>3, <3>1, MemberOfAppend
  <2>5. ASSUME NEW r \in Sockets, m \in ToSet(unsent[r]) \cup ToSet(sendBuffer[r])
        PROVE  m \in ToSet(unsent'[r]) \cup ToSet(sendBuffer'[r])
    BY <2>2, <2>3, <2>4, <2>5
  <2>6. QED
    BY <2>1, <2>5 DEF OnItsWay
<1>22. ASSUME NEW s \in Sockets, ReplaceWebSocket(s) PROVE OnItsWay(m)'
  <2>1. currentCC[s].id \in Sockets /\ Sever(currentCC[s].id, "down")
    BY <1>22, ConnectionTypes DEF ReplaceWebSocket, TypeOK
  <2>2. UNCHANGED <<link, down, up>>
    BY <2>1, UpStaysUp
  <2>3. QED
    BY <1>22, <2>2 DEF ReplaceWebSocket, OnItsWay
<1>23. ASSUME NEW s \in Sockets, AddCloseHandler(s) PROVE OnItsWay(m)'
  BY <1>23 DEF AddCloseHandler, OnItsWay
<1>24. ASSUME NEW s \in Sockets, InstallWebSocket(s) PROVE OnItsWay(m)'
  BY <1>24 DEF InstallWebSocket, OnItsWay
<1>25. ASSUME NEW s \in Sockets, HandleFrame(s) PROVE OnItsWay(m)'
  BY <1>25 DEF HandleFrame, OnItsWay
<1>26. ASSUME NEW s \in Sockets, EndOfFrames(s) PROVE OnItsWay(m)'
  BY <1>26 DEF EndOfFrames, OnItsWay
<1>27. CASE UNCHANGED vars
  BY <1>27 DEF OnItsWay
<1>28. QED
  BY <1>1, <1>2, <1>3, <1>4, <1>5, <1>6, <1>7, <1>8, <1>9, <1>10, <1>11, <1>12, <1>13, <1>14, <1>15, <1>16, <1>17, <1>18, <1>19, <1>20, <1>21, <1>22, <1>23, <1>24, <1>25, <1>26, <1>27 DEF Next, Sender, Handler

LEMMA NothingLostStep ==
  ASSUME TypeOK, Wiring, NothingLostWhileUp, [Next]_vars
  PROVE  NothingLostWhileUp'
<1> SUFFICES ASSUME AllUp', NEW t \in Threads, NEW k \in accepted'[t]
             PROVE  (Msg(t, k) \in InFlight \cup ToSet(received))'
  BY DEF NothingLostWhileUp, AllUp
<1> DEFINE m == Msg(t, k)
<1>1. AllUp
  BY UpBefore
<1>2. SUFFICES OnItsWay(m)'
  <2>1. (m \in InFlight \cup ToSet(received) <=> OnItsWay(m))'
    BY InFlightIsOnItsWay
  <2>2. QED
    BY <2>1
<1>3. CASE k \in accepted[t]
  <2>1. OnItsWay(m)
    BY <1>1, <1>3, InFlightIsOnItsWay DEF NothingLostWhileUp, AllUp
  <2>2. QED
    BY <2>1, OnItsWayStep
<1>4. CASE k \notin accepted[t]
  <2>1. PICK u \in Threads : CachingSend(u) \/ WebSocketSend(u)
    BY <1>4, AcceptedBySends
  <2>2. CASE CachingSend(u)
    <3> DEFINE c == ref[u].id
    <3>1. /\ c \in Caches /\ ~isRead[c] /\ Msg(u, count[u]) \in ToSet(queue'[c])
          /\ accepted' = [accepted EXCEPT ![u] = @ \cup {count[u]}]
      BY <1>4, <2>2, CachingSendAdds
    <3>2. u = t /\ k = count[u]
      BY <1>4, <3>1 DEF TypeOK
    <3>3. isRead' = isRead
      BY <2>2 DEF CachingSend, cacheVars
    <3>4. QED
      BY <3>1, <3>2, <3>3 DEF OnItsWay
  <2>3. CASE WebSocketSend(u)
    <3> DEFINE s == ref[u].id
    <3>1. /\ s \in Sockets /\ Msg(u, count[u]) \in ToSet(sendBuffer'[s])
          /\ accepted' = [accepted EXCEPT ![u] = @ \cup {count[u]}]
      BY <1>4, <2>3, WebSocketSendAdds
    <3>2. u = t /\ k = count[u]
      BY <1>4, <3>1 DEF TypeOK
    <3>3. QED
      BY <3>1, <3>2 DEF OnItsWay
  <2>4. QED
    BY <2>1, <2>2, <2>3
<1>5. QED
  BY <1>3, <1>4

\* A message is lost only with a websocket (NothingLostWhileUp): through the page, through
\* every Caching and every hand-over, what a send has accepted is on its way or has arrived.
THEOREM NothingIsLostWhileUp == Spec => []NothingLostWhileUp
<1>1. Init => NothingLostWhileUp
  BY DEF Init, NothingLostWhileUp
<1>2. TypeOK /\ Wiring /\ NothingLostWhileUp /\ [Next]_vars => NothingLostWhileUp'
  BY NothingLostStep
<1>3. QED
  BY <1>1, <1>2, WiringInvariant, TypeCorrect, PTL DEF Spec

(***************************************************************************)
(* Delivery in order and without duplicates.                               *)
(***************************************************************************)
\* Threads number their messages, and every message there is was accepted.
Numbered ==
  \A t \in Threads :
    /\ \A k \in accepted[t] : k \in 1..count[t] /\ (tpc[t] # "idle" => k < count[t])
    /\ tpc[t] # "idle" => count[t] > 0

\* m is somewhere between the thread that sent it and the browser.
Present(m) ==
  \/ \E c \in Caches : m \in ToSet(queue[c])
  \/ \E s \in Sockets : m \in ToSet(unsent[s]) \cup ToSet(sendBuffer[s])
  \/ \E ch \in {PageChannel} \cup Sockets : m \in ToSet(down[ch])
  \/ m \in ToSet(received)
AllGenuine == \A m \in Messages : Present(m) => m.n \in accepted[m.from]

\* What can still reach the browser, from what has arrived to what arrives last: what
\* is under way on the channel it reads, in the buffer of its websocket, to be put there
\* by the handler, in the Caching the handler (or respondKweb) is about to take, and in
\* the Caching the session refers to.
Buffered == IF socket = 0 THEN <<>> ELSE sendBuffer[socket]
Unsent == IF socket = 0 THEN <<>> ELSE unsent[socket]
AboutToDrain ==
  socket # 0 /\ hpc[socket] = "drain" /\ currentCC[socket] # clientConnection
Taken ==
  IF page = "swapped" THEN queue[PageCache]
  ELSE IF AboutToDrain THEN queue[currentCC[socket].id] ELSE <<>>
Kept == IF clientConnection.kind = "Caching" THEN queue[clientConnection.id] ELSE <<>>
Stages == <<ToSet(received), ToSet(down[socket]), ToSet(Buffered), ToSet(Unsent),
            ToSet(Taken), ToSet(Kept)>>

\* What thread t sent first is in an earlier stage than what it sent later, or before it
\* in the same stage.
Precede(A, B) == \A x \in A, y \in B : x.from = y.from => x.n < y.n
InOrder(st) == \A i, j \in 1..6 : i < j => Precede(st[i], st[j])
Rising(q) ==
  \A i, j \in DOMAIN q : i < j /\ q[i].from = q[j].from => q[i].n < q[j].n
Rises ==
  /\ \A c \in Caches : Rising(queue[c])
  /\ Rising(down[socket]) /\ Rising(Buffered) /\ Rising(Unsent)

\* A thread that is about to send to another connection has sent nothing to this one.
Stale ==
  \A t \in Threads : tpc[t] = "send" /\ ref[t] # clientConnection =>
    \A x \in ToSet(Kept) : x.from # t

Pipeline == InOrder(Stages) /\ Rises /\ Stale
DeliveryInv == TypeOK /\ Wiring /\ Numbered /\ AllGenuine /\ Pipeline

(***************************************************************************)
(* Sequences of messages, and stages of them, in order.                    *)
(***************************************************************************)
LEMMA NoMembers == ToSet(<<>>) = {} /\ Rising(<<>>)
BY DEF ToSet, Rising

LEMMA RisingTail ==
  ASSUME NEW q \in Seq(Messages), q # <<>>, Rising(q)
  PROVE  Rising(Tail(q)) /\ Precede({Head(q)}, ToSet(Tail(q)))
<1>1. /\ Len(q) \in Nat \ {0} /\ DOMAIN q = 1..Len(q) /\ Head(q) = q[1]
      /\ DOMAIN Tail(q) = 1..(Len(q) - 1)
      /\ \A i \in 1..(Len(q) - 1) : Tail(q)[i] = q[i + 1]
  OBVIOUS
<1>2. Rising(Tail(q))
  BY <1>1 DEF Rising
<1>3. Precede({Head(q)}, ToSet(Tail(q)))
  <2>1. ASSUME NEW i \in DOMAIN Tail(q), Head(q).from = Tail(q)[i].from
        PROVE  Head(q).n < Tail(q)[i].n
    <3>1. 1 \in DOMAIN q /\ i + 1 \in DOMAIN q /\ 1 < i + 1 /\ Tail(q)[i] = q[i + 1]
      BY <1>1
    <3>2. QED
      BY <1>1, <2>1, <3>1 DEF Rising
  <2>2. QED
    BY <2>1 DEF Precede, ToSet
<1>4. QED
  BY <1>2, <1>3

LEMMA RisingAppend ==
  ASSUME NEW q \in Seq(Messages), NEW m \in Messages, Rising(q), Precede(ToSet(q), {m})
  PROVE  Rising(Append(q, m))
<1>1. /\ DOMAIN Append(q, m) = 1..(Len(q) + 1) /\ DOMAIN q = 1..Len(q) /\ Len(q) \in Nat
      /\ Append(q, m)[Len(q) + 1] = m
      /\ \A i \in 1..Len(q) : Append(q, m)[i] = q[i]
  OBVIOUS
<1>2. SUFFICES ASSUME NEW i \in DOMAIN Append(q, m), NEW j \in DOMAIN Append(q, m),
                      i < j, Append(q, m)[i].from = Append(q, m)[j].from
               PROVE  Append(q, m)[i].n < Append(q, m)[j].n
  BY DEF Rising
<1>3. i \in 1..Len(q) /\ Append(q, m)[i] = q[i]
  BY <1>1, <1>2
<1>4. CASE j = Len(q) + 1
  <2>1. q[i] \in ToSet(q)
    BY <1>1, <1>3 DEF ToSet
  <2>2. QED
    BY <1>1, <1>2, <1>3, <1>4, <2>1 DEF Precede
<1>5. CASE j # Len(q) + 1
  <2>1. j \in 1..Len(q) /\ Append(q, m)[j] = q[j]
    BY <1>1, <1>5
  <2>2. QED
    BY <1>1, <1>2, <1>3, <2>1 DEF Rising
<1>6. QED
  BY <1>4, <1>5

LEMMA CutOfRising ==
  ASSUME NEW q \in Seq(Messages), NEW r, Cut(r, q)
  PROVE  ToSet(r) \subseteq ToSet(q) /\ (Rising(q) => Rising(r))
<1>1. PICK i \in 0..Len(q) : r = SubSeq(q, 1, i)
  BY DEF Cut
<1>2. /\ DOMAIN q = 1..Len(q) /\ Len(q) \in Nat /\ DOMAIN r = 1..i
      /\ \A j \in 1..i : r[j] = q[j]
  BY <1>1
<1>3. ToSet(r) \subseteq ToSet(q)
  BY <1>1, <1>2 DEF ToSet
<1>4. Rising(q) => Rising(r)
  BY <1>1, <1>2 DEF Rising
<1>5. QED
  BY <1>3, <1>4

\* Messages are lost.
LEMMA StagesShrink ==
  ASSUME NEW st, NEW new, InOrder(st), \A i \in 1..6 : new[i] \subseteq st[i]
  PROVE  InOrder(new)
BY DEF InOrder, Precede

\* The first message of a stage becomes the last one of the stage before.
LEMMA StagesMove ==
  ASSUME NEW st, NEW new, NEW k \in 1..5, NEW m, InOrder(st),
         m \in st[k + 1], Precede({m}, new[k + 1]),
         new[k] \subseteq st[k] \cup {m}, \A i \in 1..6 : i # k => new[i] \subseteq st[i]
  PROVE  InOrder(new)
<1>1. ASSUME NEW i \in 1..6, NEW j \in 1..6, i < j, i # k
      PROVE  Precede(new[i], new[j])
  <2>1. Precede(st[i], st[j])
    BY <1>1 DEF InOrder
  <2>2. j = k => Precede(st[i], st[k + 1])
    BY <1>1 DEF InOrder
  <2>3. QED
    BY <1>1, <2>1, <2>2 DEF Precede
<1>2. ASSUME NEW j \in 1..6, k < j
      PROVE  Precede(new[k], new[j])
  <2>1. Precede(st[k], st[j])
    BY <1>2 DEF InOrder
  <2>2. CASE j = k + 1
    BY <1>2, <2>1, <2>2 DEF Precede
  <2>3. CASE j # k + 1
    <3>1. Precede(st[k + 1], st[j])
      BY <1>2, <2>3 DEF InOrder
    <3>2. QED
      BY <1>2, <2>1, <3>1 DEF Precede
  <2>4. QED
    BY <2>2, <2>3
<1>3. QED
  BY <1>1, <1>2 DEF InOrder

\* All of stage k becomes stage j, when the stages between are empty or are emptied.
LEMMA StagesShift ==
  ASSUME NEW st, NEW new, NEW j \in 1..6, NEW k \in 1..6, InOrder(st), j < k,
         new[j] \subseteq st[k], \A i \in 1..6 : j < i /\ i <= k => new[i] = {},
         \A i \in 1..6 : i < j \/ k < i => new[i] \subseteq st[i]
  PROVE  InOrder(new)
<1>1. ASSUME NEW a \in 1..6, NEW b \in 1..6, a < b
      PROVE  Precede(new[a], new[b])
  <2>1. CASE a = j
    <3>1. k < b => Precede(st[k], st[b])
      BY <1>1 DEF InOrder
    <3>2. QED
      BY <1>1, <2>1, <3>1 DEF Precede
  <2>2. CASE b = j
    <3>1. Precede(st[a], st[k])
      BY <1>1, <2>2 DEF InOrder
    <3>2. QED
      BY <1>1, <2>2, <3>1 DEF Precede
  <2>3. CASE a # j /\ b # j
    <3>1. Precede(st[a], st[b])
      BY <1>1 DEF InOrder
    <3>2. (a < j \/ k < a \/ new[a] = {}) /\ (b < j \/ k < b \/ new[b] = {})
      BY <2>3
    <3>3. QED
      BY <3>1, <3>2 DEF Precede
  <2>4. QED
    BY <2>1, <2>2, <2>3
<1>2. QED
  BY <1>1 DEF InOrder

\* A message is added to stage k that is later than all its thread sent before.
LEMMA StagesAdd ==
  ASSUME NEW st, NEW new, NEW k \in 1..6, NEW m, InOrder(st),
         new[k] \subseteq st[k] \cup {m}, \A i \in 1..6 : i # k => new[i] \subseteq st[i],
         \A i \in 1..6 : i < k => Precede(st[i], {m}),
         \A i \in 1..6 : k < i => \A x \in st[i] : x.from # m.from
  PROVE  InOrder(new)
<1>1. ASSUME NEW a \in 1..6, NEW b \in 1..6, a < b
      PROVE  Precede(new[a], new[b])
  <2>1. Precede(st[a], st[b])
    BY <1>1 DEF InOrder
  <2>2. CASE a = k
    BY <1>1, <2>1, <2>2 DEF Precede
  <2>3. CASE b = k
    BY <1>1, <2>1, <2>3 DEF Precede
  <2>4. CASE a # k /\ b # k
    BY <1>1, <2>1, <2>4 DEF Precede
  <2>5. QED
    BY <2>2, <2>3, <2>4
<1>2. QED
  BY <1>1 DEF InOrder

\* Stages, one by one.
LEMMA StagesAre ==
  /\ /\ Stages[1] = ToSet(received) /\ Stages[2] = ToSet(down[socket])
     /\ Stages[3] = ToSet(Buffered) /\ Stages[4] = ToSet(Unsent)
     /\ Stages[5] = ToSet(Taken) /\ Stages[6] = ToSet(Kept)
  /\ /\ Stages'[1] = ToSet(received') /\ Stages'[2] = ToSet(down'[socket'])
     /\ Stages'[3] = ToSet(Buffered') /\ Stages'[4] = ToSet(Unsent')
     /\ Stages'[5] = ToSet(Taken') /\ Stages'[6] = ToSet(Kept')
BY DEF Stages, ToSet

LEMMA OneToSix ==
  ASSUME NEW i \in 1..6
  PROVE  i = 1 \/ i = 2 \/ i = 3 \/ i = 4 \/ i = 5 \/ i = 6
OBVIOUS

\* What a send adds is all that is added: a message is nowhere it was not sent to.
LEMMA PresentStep ==
  ASSUME TypeOK, [Next]_vars, NEW m, Present(m)',
         \A t \in Threads : ~CachingSend(t) /\ ~WebSocketSend(t)
  PROVE  Present(m)
<1> USE DEF cacheVars, bufferVars, netVars, handlerVars, sessionVars, browserVars,
            threadVars
<1>a. /\ queue \in [Caches -> Seq(Messages)]
      /\ sendBuffer \in [Sockets -> Seq(Messages)]
      /\ down \in [{PageChannel} \cup Sockets -> Seq(Messages)]
      /\ unsent \in [Sockets -> Seq(Messages)]
      /\ received \in Seq(Messages)
      /\ currentCC \in [Sockets -> Connections] /\ socket \in 0..NSockets
      /\ \A k \in Connections : k.id \in Caches
      /\ PageCache \in Caches
  BY ConnectionTypes DEF TypeOK
<1>b. ToSet(<<>>) = {}
  BY NoMembers
<1>c. ASSUME NEW s \in Sockets, NEW how \in {"down", "rejected"}, Sever(s, how)
      PROVE  \A ch \in {PageChannel} \cup Sockets : ToSet(down'[ch]) \subseteq ToSet(down[ch])
  <2>1. \A ch \in {PageChannel} \cup Sockets : Cut(down'[ch], down[ch])
    BY <1>c, SeverCuts
  <2>2. QED
    BY <1>a, <2>1, CutOfRising
<1>1. CASE SwapPageCache
  BY <1>1 DEF SwapPageCache, Present
<1>2. CASE ServePage
  <2>1. /\ down' = [down EXCEPT ![PageChannel] = queue[PageCache]]
        /\ queue' = [queue EXCEPT ![PageCache] = <<>>]
        /\ UNCHANGED <<unsent, sendBuffer, received>>
    BY <1>2 DEF ServePage, ReadCaching
  <2>2. \A c \in Caches : ToSet(queue'[c]) \subseteq ToSet(queue[c])
    BY <1>a, <1>b, <2>1
  <2>3. \A ch \in {PageChannel} \cup Sockets :
           ToSet(down'[ch]) \subseteq ToSet(down[ch]) \cup ToSet(queue[PageCache])
    BY <1>a, <2>1
  <2>4. QED
    BY <1>a, <2>1, <2>2, <2>3 DEF Present
<1>3. CASE Expire
  BY <1>3 DEF Expire, Present
<1>4. CASE TriggerCloseListeners
  BY <1>4 DEF TriggerCloseListeners, Present
<1>5. CASE Receive
  <2> DEFINE ch == IF browser = "loading" THEN PageChannel ELSE socket
  <2>1. /\ received' = Append(received, Head(down[ch]))
        /\ down' = [down EXCEPT ![ch] = Tail(@)] /\ down[ch] # <<>>
        /\ UNCHANGED <<queue, unsent, sendBuffer>>
    BY <1>5 DEF Receive
  <2>2. ch \in {PageChannel} \cup Sockets
    BY <1>a, ConnectionAssumption DEF PageChannel, Sockets
  <2>3. /\ Head(down[ch]) \in Messages
        /\ ToSet(down[ch]) = {Head(down[ch])} \cup ToSet(Tail(down[ch]))
    BY <1>a, <2>1, <2>2, HeadTailTypes, MemberOfHeadTail
  <2>4. ToSet(received') = ToSet(received) \cup {Head(down[ch])}
    BY <1>a, <2>1, <2>3, MemberOfAppend
  <2>5. \A c \in {PageChannel} \cup Sockets : ToSet(down'[c]) \subseteq ToSet(down[c])
    BY <1>a, <2>1, <2>3
  <2>6. QED
    BY <2>1, <2>2, <2>3, <2>4, <2>5 DEF Present
<1>6. CASE ConnectWs
  BY <1>6 DEF ConnectWs, Present
<1>7. CASE OnClose
  BY <1>7 DEF OnClose, Present
<1>8. CASE GiveUp
  BY <1>8 DEF GiveUp, Present
<1>9. CASE BrowserEvent
  BY <1>9 DEF BrowserEvent, Present
<1>10. CASE SendKeepalive
  BY <1>10 DEF SendKeepalive, Present
<1>11. ASSUME NEW t \in Threads, CallJs(t) PROVE Present(m)
  BY <1>11 DEF CallJs, Present
<1>12. ASSUME NEW t \in Threads, ReadConnection(t) PROVE Present(m)
  BY <1>12 DEF ReadConnection, Present
<1>13. ASSUME NEW t \in Threads, CachingSend(t) PROVE Present(m)
  BY <1>13 DEF Present
<1>14. ASSUME NEW t \in Threads, WebSocketSend(t) PROVE Present(m)
  BY <1>14 DEF Present
<1>15. ASSUME NEW s \in Sockets, Disconnect(s) PROVE Present(m)
  BY <1>c, <1>15 DEF Disconnect, Present
<1>16. ASSUME NEW s \in Sockets, Pump(s) PROVE Present(m)
  <2>1. /\ sendBuffer[s] # <<>> /\ sendBuffer' = [sendBuffer EXCEPT ![s] = Tail(@)]
        /\ \/ down' = down
           \/ down' = [down EXCEPT ![s] = Append(@, Head(sendBuffer[s]))]
        /\ UNCHANGED <<queue, unsent, received>>
    BY <1>16 DEF Pump
  <2>2. /\ Head(sendBuffer[s]) \in Messages
        /\ ToSet(sendBuffer[s]) = {Head(sendBuffer[s])} \cup ToSet(Tail(sendBuffer[s]))
    BY <1>a, <2>1, HeadTailTypes, MemberOfHeadTail
  <2>3. \A r \in Sockets : ToSet(sendBuffer'[r]) \subseteq ToSet(sendBuffer[r])
    BY <1>a, <2>1, <2>2
  <2>4. ToSet(Append(down[s], Head(sendBuffer[s]))) = ToSet(down[s]) \cup {Head(sendBuffer[s])}
    <3>1. down[s] \in Seq(Messages)
      BY <1>a
    <3>2. QED
      BY <2>2, <3>1, MemberOfAppend
  <2>5. \A ch \in {PageChannel} \cup Sockets :
           ToSet(down'[ch]) \subseteq ToSet(down[ch]) \cup {Head(sendBuffer[s])}
    BY <1>a, <2>1, <2>4
  <2>6. QED
    BY <2>1, <2>2, <2>3, <2>5 DEF Present
<1>17. ASSUME NEW s \in Sockets, PumpFails(s) PROVE Present(m)
  BY <1>17 DEF PumpFails, Present
<1>18. ASSUME NEW s \in Sockets, ReceiveHello(s) PROVE Present(m)
  <2>1. CASE present
    BY <1>18, <2>1 DEF ReceiveHello, Present
  <2>2. CASE ~present
    BY <1>c, <1>18, <2>2 DEF ReceiveHello, Reject, Present
  <2>3. QED
    BY <2>1, <2>2
<1>19. ASSUME NEW s \in Sockets, ReadCurrentCC(s) PROVE Present(m)
  BY <1>19 DEF ReadCurrentCC, Present
<1>20. ASSUME NEW s \in Sockets, DrainCaching(s) PROVE Present(m)
  <2> DEFINE c == currentCC[s].id
  <2>1. CASE isRead[c]
    <3>1. /\ Sever(s, "down") /\ UNCHANGED <<queue, unsent, sendBuffer, received>>
      BY <1>20, <2>1 DEF DrainCaching
    <3>2. \A ch \in {PageChannel} \cup Sockets : ToSet(down'[ch]) \subseteq ToSet(down[ch])
      BY <1>c, <3>1
    <3>3. QED
      BY <3>1, <3>2 DEF Present
  <2>2. CASE ~isRead[c]
    <3>1. /\ unsent' = [unsent EXCEPT ![s] = queue[c]]
          /\ queue' = [queue EXCEPT ![c] = <<>>]
          /\ UNCHANGED <<sendBuffer, down, received>> /\ c \in Caches
      BY <1>a, <1>20, <2>2 DEF DrainCaching, ReadCaching
    <3>2. \A d \in Caches : ToSet(queue'[d]) \subseteq ToSet(queue[d])
      BY <1>a, <1>b, <3>1
    <3>3. \A r \in Sockets : ToSet(unsent'[r]) \subseteq ToSet(unsent[r]) \cup ToSet(queue[c])
      BY <1>a, <3>1
    <3>4. QED
      BY <3>1, <3>2, <3>3 DEF Present
  <2>3. QED
    BY <2>1, <2>2
<1>21. ASSUME NEW s \in Sockets, Forward(s) PROVE Present(m)
  <2>1. /\ unsent[s] # <<>>
        /\ sendBuffer' = [sendBuffer EXCEPT ![s] = Append(@, Head(unsent[s]))]
        /\ unsent' = [unsent EXCEPT ![s] = Tail(@)]
        /\ UNCHANGED <<queue, down, received>>
    BY <1>21 DEF Forward
  <2>2. /\ Head(unsent[s]) \in Messages
        /\ ToSet(unsent[s]) = {Head(unsent[s])} \cup ToSet(Tail(unsent[s]))
    BY <1>a, <2>1, HeadTailTypes, MemberOfHeadTail
  <2>3. ToSet(Append(sendBuffer[s], Head(unsent[s]))) = ToSet(sendBuffer[s]) \cup {Head(unsent[s])}
    <3>1. sendBuffer[s] \in Seq(Messages)
      BY <1>a
    <3>2. QED
      BY <2>2, <3>1, MemberOfAppend
  <2>4. \A r \in Sockets :
          /\ ToSet(unsent'[r]) \subseteq ToSet(unsent[r])
          /\ ToSet(sendBuffer'[r]) \subseteq ToSet(sendBuffer[r]) \cup {Head(unsent[s])}
    BY <1>a, <2>1, <2>2, <2>3
  <2>5. QED
    BY <2>1, <2>2, <2>4 DEF Present
<1>22. ASSUME NEW s \in Sockets, ReplaceWebSocket(s) PROVE Present(m)
  <2>1. currentCC[s].id \in Sockets /\ Sever(currentCC[s].id, "down")
    BY <1>22, ConnectionTypes DEF ReplaceWebSocket, TypeOK
  <2>2. QED
    BY <1>c, <1>22, <2>1 DEF ReplaceWebSocket, Present
<1>23. ASSUME NEW s \in Sockets, AddCloseHandler(s) PROVE Present(m)
  BY <1>23 DEF AddCloseHandler, Present
<1>24. ASSUME NEW s \in Sockets, InstallWebSocket(s) PROVE Present(m)
  BY <1>24 DEF InstallWebSocket, Present
<1>25. ASSUME NEW s \in Sockets, HandleFrame(s) PROVE Present(m)
  BY <1>25 DEF HandleFrame, Present
<1>26. ASSUME NEW s \in Sockets, EndOfFrames(s) PROVE Present(m)
  BY <1>26 DEF EndOfFrames, Present
<1>27. CASE UNCHANGED vars
  BY <1>27 DEF vars, Present
<1>28. QED
  BY <1>1, <1>2, <1>3, <1>4, <1>5, <1>6, <1>7, <1>8, <1>9, <1>10, <1>11, <1>12, <1>13, <1>14, <1>15, <1>16, <1>17, <1>18, <1>19, <1>20, <1>21, <1>22, <1>23, <1>24, <1>25, <1>26, <1>27 DEF Next, Sender, Handler

LEMMA NumberedStep ==
  ASSUME TypeOK, Numbered, [Next]_vars
  PROVE  Numbered'
<1> USE DEF threadVars
<1>a. /\ count \in [Threads -> Nat] /\ tpc \in [Threads -> {"idle", "found", "send"}]
      /\ accepted \in [Threads -> SUBSET Nat]
  BY ConnectionAssumption DEF TypeOK
<1>1. CASE SwapPageCache
  BY <1>1 DEF SwapPageCache, Numbered
<1>2. CASE ServePage
  BY <1>2 DEF ServePage, Numbered
<1>3. CASE Expire
  BY <1>3 DEF Expire, Numbered
<1>4. CASE TriggerCloseListeners
  BY <1>4 DEF TriggerCloseListeners, Numbered
<1>5. CASE Receive
  BY <1>5 DEF Receive, Numbered
<1>6. CASE ConnectWs
  BY <1>6 DEF ConnectWs, Numbered
<1>7. CASE OnClose
  BY <1>7 DEF OnClose, Numbered
<1>8. CASE GiveUp
  BY <1>8 DEF GiveUp, Numbered
<1>9. CASE BrowserEvent
  BY <1>9 DEF BrowserEvent, Numbered
<1>10. CASE SendKeepalive
  BY <1>10 DEF SendKeepalive, Numbered
<1>11. ASSUME NEW t \in Threads, CallJs(t) PROVE Numbered'
  <2>1. /\ tpc[t] = "idle" /\ count' = [count EXCEPT ![t] = @ + 1]
        /\ \A u \in Threads : u # t => tpc'[u] = tpc[u]
        /\ accepted' = accepted
    BY <1>a, <1>11 DEF CallJs
  <2>2. SUFFICES ASSUME NEW u \in Threads
                 PROVE  /\ \A k \in accepted'[u] :
                             k \in 1..count'[u] /\ (tpc'[u] # "idle" => k < count'[u])
                        /\ tpc'[u] # "idle" => count'[u] > 0
    BY DEF Numbered
  <2>3. \A k \in accepted[u] : k \in 1..count[u] /\ (tpc[u] # "idle" => k < count[u])
    BY DEF Numbered
  <2>4. tpc[u] # "idle" => count[u] > 0
    BY DEF Numbered
  <2>5. CASE u = t
    <3>1. count'[u] = count[u] + 1 /\ count[u] \in Nat
      BY <1>a, <2>1, <2>5
    <3>2. QED
      BY <2>1, <2>3, <3>1
  <2>6. CASE u # t
    <3>1. count'[u] = count[u]
      BY <1>a, <2>1, <2>6
    <3>2. QED
      BY <2>1, <2>3, <2>4, <2>6, <3>1
  <2>7. QED
    BY <2>5, <2>6
<1>12. ASSUME NEW t \in Threads, ReadConnection(t) PROVE Numbered'
  <2>1. \A u \in Threads : tpc'[u] # "idle" => tpc[u] # "idle"
    BY <1>a, <1>12 DEF ReadConnection
  <2>2. UNCHANGED <<count, accepted>>
    BY <1>12 DEF ReadConnection
  <2>3. QED
    BY <2>1, <2>2 DEF Numbered
<1>13. ASSUME NEW t \in Threads, CachingSend(t) PROVE Numbered'
  <2>1. /\ tpc[t] = "send" /\ tpc' = [tpc EXCEPT ![t] = "idle"] /\ count' = count
    BY <1>13 DEF CachingSend
  <2>2. \/ accepted' = accepted
        \/ accepted' = [accepted EXCEPT ![t] = @ \cup {count[t]}]
    BY <1>13 DEF CachingSend
  <2>3. /\ tpc'[t] = "idle" /\ \A u \in Threads : u # t => tpc'[u] = tpc[u]
    BY <1>a, <2>1
  <2>4. /\ \A k \in accepted'[t] : k \in accepted[t] \/ k = count[t]
        /\ \A u \in Threads : u # t => accepted'[u] = accepted[u]
    BY <1>a, <2>2
  <2>5. count[t] \in 1..count[t]
    BY <1>a, <2>1 DEF Numbered
  <2>6. QED
    BY <2>1, <2>3, <2>4, <2>5 DEF Numbered
<1>14. ASSUME NEW t \in Threads, WebSocketSend(t) PROVE Numbered'
  <2>1. /\ tpc[t] = "send" /\ tpc' = [tpc EXCEPT ![t] = "idle"] /\ count' = count
    BY <1>14 DEF WebSocketSend
  <2>2. \/ accepted' = accepted
        \/ accepted' = [accepted EXCEPT ![t] = @ \cup {count[t]}]
    BY <1>14 DEF WebSocketSend
  <2>3. /\ tpc'[t] = "idle" /\ \A u \in Threads : u # t => tpc'[u] = tpc[u]
    BY <1>a, <2>1
  <2>4. /\ \A k \in accepted'[t] : k \in accepted[t] \/ k = count[t]
        /\ \A u \in Threads : u # t => accepted'[u] = accepted[u]
    BY <1>a, <2>2
  <2>5. count[t] \in 1..count[t]
    BY <1>a, <2>1 DEF Numbered
  <2>6. QED
    BY <2>1, <2>3, <2>4, <2>5 DEF Numbered
<1>15. ASSUME NEW s \in Sockets, Disconnect(s) PROVE Numbered'
  BY <1>15 DEF Disconnect, Numbered
<1>16. ASSUME NEW s \in Sockets, Pump(s) PROVE Numbered'
  BY <1>16 DEF Pump, Numbered
<1>17. ASSUME NEW s \in Sockets, PumpFails(s) PROVE Numbered'
  BY <1>17 DEF PumpFails, Numbered
<1>18. ASSUME NEW s \in Sockets, ReceiveHello(s) PROVE Numbered'
  BY <1>18 DEF ReceiveHello, Numbered
<1>19. ASSUME NEW s \in Sockets, ReadCurrentCC(s) PROVE Numbered'
  BY <1>19 DEF ReadCurrentCC, Numbered
<1>20. ASSUME NEW s \in Sockets, DrainCaching(s) PROVE Numbered'
  BY <1>20 DEF DrainCaching, Numbered
<1>21. ASSUME NEW s \in Sockets, Forward(s) PROVE Numbered'
  BY <1>21 DEF Forward, Numbered
<1>22. ASSUME NEW s \in Sockets, ReplaceWebSocket(s) PROVE Numbered'
  BY <1>22 DEF ReplaceWebSocket, Numbered
<1>23. ASSUME NEW s \in Sockets, AddCloseHandler(s) PROVE Numbered'
  BY <1>23 DEF AddCloseHandler, Numbered
<1>24. ASSUME NEW s \in Sockets, InstallWebSocket(s) PROVE Numbered'
  BY <1>24 DEF InstallWebSocket, Numbered
<1>25. ASSUME NEW s \in Sockets, HandleFrame(s) PROVE Numbered'
  BY <1>25 DEF HandleFrame, Numbered
<1>26. ASSUME NEW s \in Sockets, EndOfFrames(s) PROVE Numbered'
  BY <1>26 DEF EndOfFrames, Numbered
<1>27. CASE UNCHANGED vars
  BY <1>27 DEF vars, Numbered
<1>28. QED
  BY <1>1, <1>2, <1>3, <1>4, <1>5, <1>6, <1>7, <1>8, <1>9, <1>10, <1>11, <1>12, <1>13, <1>14, <1>15, <1>16, <1>17, <1>18, <1>19, <1>20, <1>21, <1>22, <1>23, <1>24, <1>25, <1>26, <1>27 DEF Next, Sender, Handler

LEMMA AcceptedGrows ==
  ASSUME TypeOK, [Next]_vars
  PROVE  \A t \in Threads : accepted[t] \subseteq accepted'[t]
<1>1. CASE accepted' = accepted
  BY <1>1
<1>2. CASE accepted' # accepted
  <2>1. PICK u \in Threads : CachingSend(u) \/ WebSocketSend(u)
    BY <1>2, AcceptedBySends
  <2>2. accepted' = [accepted EXCEPT ![u] = @ \cup {count[u]}]
    BY <1>2, <2>1, CachingSendAdds, WebSocketSendAdds
  <2>3. QED
    BY <2>2 DEF TypeOK
<1>3. QED
  BY <1>1, <1>2

LEMMA GenuineStep ==
  ASSUME TypeOK, TypeOK', AllGenuine, [Next]_vars
  PROVE  AllGenuine'
<1> SUFFICES ASSUME NEW m \in Messages, Present(m)'
             PROVE  m.n \in accepted'[m.from]
  BY DEF AllGenuine
<1>a. m.from \in Threads
  BY DEF Messages
<1>1. CASE Present(m)
  BY <1>a, <1>1, AcceptedGrows DEF AllGenuine
<1>2. CASE ~Present(m)
  <2>1. PICK t \in Threads : CachingSend(t) \/ WebSocketSend(t)
    BY <1>2, PresentStep
  <2>2. /\ m = Msg(t, count[t])
        /\ accepted' = [accepted EXCEPT ![t] = @ \cup {count[t]}]
    <3>1. CASE CachingSend(t)
      <4>1. /\ UNCHANGED <<unsent, sendBuffer, down, received>>
        BY <3>1 DEF CachingSend, bufferVars, netVars, handlerVars, browserVars
      <4>2. queue' # queue
        BY <1>2, <4>1 DEF Present
      <4>3. /\ accepted' = [accepted EXCEPT ![t] = @ \cup {count[t]}]
            /\ ToSet(queue'[ref[t].id]) = ToSet(queue[ref[t].id]) \cup {Msg(t, count[t])}
            /\ \A d \in Caches : d # ref[t].id => queue'[d] = queue[d]
            /\ ref[t].id \in Caches
        BY <3>1, <4>2, CachingSendAdds
      <4>4. QED
        BY <1>2, <4>1, <4>3 DEF Present
    <3>2. CASE WebSocketSend(t)
      <4>1. /\ UNCHANGED <<queue, unsent, down, received>>
        BY <3>2 DEF WebSocketSend, cacheVars, netVars, handlerVars, browserVars
      <4>2. sendBuffer' # sendBuffer
        BY <1>2, <4>1 DEF Present
      <4>3. /\ accepted' = [accepted EXCEPT ![t] = @ \cup {count[t]}]
            /\ ToSet(sendBuffer'[ref[t].id])
                 = ToSet(sendBuffer[ref[t].id]) \cup {Msg(t, count[t])}
            /\ \A r \in Sockets : r # ref[t].id => sendBuffer'[r] = sendBuffer[r]
            /\ ref[t].id \in Sockets
        BY <3>2, <4>2, WebSocketSendAdds
      <4>4. QED
        BY <1>2, <4>1, <4>3 DEF Present
    <3>3. QED
      BY <2>1, <3>1, <3>2
  <2>3. QED
    BY <2>2 DEF Msg, TypeOK
<1>3. QED
  BY <1>1, <1>2

\* The parts of the invariant an action of the delivery starts from.
LEMMA DeliveryFacts ==
  ASSUME TypeOK, Wiring
  PROVE  /\ queue \in [Caches -> Seq(Messages)]
         /\ sendBuffer \in [Sockets -> Seq(Messages)]
         /\ down \in [{PageChannel} \cup Sockets -> Seq(Messages)]
         /\ unsent \in [Sockets -> Seq(Messages)]
         /\ received \in Seq(Messages)
         /\ hpc \in [Sockets -> {"none", "found", "drain", "replace", "forward",
                                 "install", "loop", "done"}]
         /\ currentCC \in [Sockets -> Connections] /\ clientConnection \in Connections
         /\ PageChannel = 0 /\ socket \in {PageChannel} \cup Sockets
         /\ socket # 0 => socket \in Sockets
         /\ 0 \notin Sockets
         /\ \A s \in Sockets : s \in Caches
         /\ \A k \in Connections : k.id \in Caches
         /\ page # "served" => socket = 0 /\ down[socket] = <<>>
         /\ Buffered \in Seq(Messages) /\ Unsent \in Seq(Messages)
         /\ Taken \in Seq(Messages) /\ Kept \in Seq(Messages)
<1>1. /\ queue \in [Caches -> Seq(Messages)]
      /\ sendBuffer \in [Sockets -> Seq(Messages)]
      /\ down \in [{PageChannel} \cup Sockets -> Seq(Messages)]
      /\ unsent \in [Sockets -> Seq(Messages)]
      /\ received \in Seq(Messages)
      /\ hpc \in [Sockets -> {"none", "found", "drain", "replace", "forward",
                              "install", "loop", "done"}]
      /\ currentCC \in [Sockets -> Connections] /\ clientConnection \in Connections
  BY DEF TypeOK
<1>2. /\ PageChannel = 0 /\ socket \in {PageChannel} \cup Sockets
      /\ socket # 0 => socket \in Sockets
      /\ 0 \notin Sockets
  BY ConnectionAssumption DEF TypeOK, PageChannel, Sockets
<1>3. page # "served" => socket = 0 /\ down[socket] = <<>>
  BY <1>2 DEF Wiring, PageWiring
<1>4. /\ PageCache \in Caches /\ \A s \in Sockets : s \in Caches
      /\ \A k \in Connections : k.id \in Caches
  BY ConnectionTypes
<1>5. Buffered \in Seq(Messages) /\ Unsent \in Seq(Messages)
  BY <1>1, <1>2 DEF Buffered, Unsent
<1>6. Taken \in Seq(Messages)
  BY <1>1, <1>2, <1>4 DEF Taken, AboutToDrain
<1>7. Kept \in Seq(Messages)
  BY <1>1, <1>4 DEF Kept
<1>8. QED
  BY <1>1, <1>2, <1>3, <1>4, <1>5, <1>6, <1>7

LEMMA SetOfMessages ==
  ASSUME NEW q \in Seq(Messages)
  PROVE  ToSet(q) \subseteq Messages
BY DEF ToSet

LEMMA StagesArePresent ==
  ASSUME TypeOK, Wiring, NEW i \in 1..6, NEW x \in Stages[i]
  PROVE  x \in Messages /\ Present(x)
<1> USE DeliveryFacts, ConnectionTypes
<1>1. CASE i = 1
  BY <1>1, StagesAre, SetOfMessages DEF Present
<1>2. CASE i = 2
  <2>1. down[socket] \in Seq(Messages) /\ x \in ToSet(down[socket])
    BY <1>2, StagesAre
  <2>2. QED
    BY <2>1, SetOfMessages DEF Present
<1>3. CASE i = 3 \/ i = 4
  <2>1. /\ x \in ToSet(Buffered) \/ x \in ToSet(Unsent)
    BY <1>3, StagesAre
  <2>2. x \in Messages
    BY <2>1, SetOfMessages
  <2>3. socket # 0
    BY <2>1, NoMembers DEF Buffered, Unsent
  <2>4. QED
    BY <2>1, <2>2, <2>3 DEF Buffered, Unsent, Present
<1>4. CASE i = 5
  <2>1. x \in ToSet(Taken) /\ x \in Messages
    BY <1>4, StagesAre, SetOfMessages
  <2>2. \E c \in Caches : Taken = queue[c]
    <3>1. Taken # <<>>
      BY <2>1, NoMembers
    <3>2. QED
      BY <3>1 DEF Taken, AboutToDrain
  <2>3. QED
    BY <2>1, <2>2 DEF Present
<1>5. CASE i = 6
  <2>1. x \in ToSet(Kept) /\ x \in Messages
    BY <1>5, StagesAre, SetOfMessages
  <2>2. \E c \in Caches : Kept = queue[c]
    <3>1. Kept # <<>>
      BY <2>1, NoMembers
    <3>2. QED
      BY <3>1 DEF Kept
  <2>3. QED
    BY <2>1, <2>2 DEF Present
<1>6. QED
  BY <1>1, <1>2, <1>3, <1>4, <1>5, OneToSix

\* The message a thread is about to send comes after all it has sent.
LEMMA Fresh ==
  ASSUME TypeOK, Numbered, AllGenuine, NEW t \in Threads, tpc[t] = "send",
         NEW x \in Messages, Present(x)
  PROVE  Precede({x}, {Msg(t, count[t])})
<1>1. x.n \in accepted[x.from]
  BY DEF AllGenuine
<1>2. SUFFICES ASSUME x.from = t PROVE x.n < count[t]
  BY DEF Precede, Msg
<1>3. QED
  BY <1>1, <1>2 DEF Numbered

LEMMA FreshAfter ==
  ASSUME TypeOK, Wiring, Numbered, AllGenuine, NEW t \in Threads, tpc[t] = "send"
  PROVE  /\ \A i \in 1..6 : Precede(Stages[i], {Msg(t, count[t])})
         /\ \A c \in Caches : Precede(ToSet(queue[c]), {Msg(t, count[t])})
<1>1. ASSUME NEW i \in 1..6 PROVE Precede(Stages[i], {Msg(t, count[t])})
  <2>1. \A x \in Stages[i] : Precede({x}, {Msg(t, count[t])})
    BY StagesArePresent, Fresh
  <2>2. QED
    BY <2>1 DEF Precede
<1>2. ASSUME NEW c \in Caches PROVE Precede(ToSet(queue[c]), {Msg(t, count[t])})
  <2>1. \A x \in ToSet(queue[c]) : x \in Messages /\ Present(x)
    <3>1. queue[c] \in Seq(Messages)
      BY DeliveryFacts
    <3>2. QED
      BY <3>1, SetOfMessages DEF Present
  <2>2. \A x \in ToSet(queue[c]) : Precede({x}, {Msg(t, count[t])})
    BY <2>1, Fresh
  <2>3. QED
    BY <2>2 DEF Precede
<1>3. QED
  BY <1>1, <1>2

\* What an action has to show that moves no message on, though it may lose some of what
\* is on the way down.
LEMMA QuietStep ==
  ASSUME TypeOK, Wiring, Pipeline,
         UNCHANGED <<received, socket, queue, page, clientConnection, Buffered, Unsent>>,
         Cut(down'[socket], down[socket]),
         AboutToDrain' => AboutToDrain /\ currentCC'[socket] = currentCC[socket],
         \A t \in Threads : tpc'[t] = "send" /\ ref'[t] # clientConnection =>
                              tpc[t] = "send" /\ ref[t] # clientConnection
  PROVE  Pipeline'
<1>1. ToSet(down'[socket]) \subseteq ToSet(down[socket])
      /\ (Rising(down[socket]) => Rising(down'[socket]))
  <2>1. down[socket] \in Seq(Messages)
    BY DeliveryFacts
  <2>2. QED
    BY <2>1, CutOfRising
<1>2. Kept' = Kept
  BY DEF Kept
<1>3. Taken' = Taken \/ Taken' = <<>>
  BY DEF Taken
<1>4. \A i \in 1..6 : Stages'[i] \subseteq Stages[i]
  BY <1>1, <1>2, <1>3, StagesAre, OneToSix, NoMembers
<1>5. InOrder(Stages')
  BY <1>4, StagesShrink DEF Pipeline
<1>6. Rises'
  BY <1>1 DEF Pipeline, Rises
<1>7. Stale'
  BY <1>2 DEF Pipeline, Stale
<1>8. QED
  BY <1>5, <1>6, <1>7 DEF Pipeline

LEMMA ServePagePipeline ==
  ASSUME TypeOK, Wiring, Pipeline, ServePage
  PROVE  Pipeline'
<1> USE DeliveryFacts, ConnectionsDiffer
<1>1. /\ page = "swapped" /\ page' = "served"
      /\ down' = [down EXCEPT ![PageChannel] = queue[PageCache]]
      /\ queue' = [queue EXCEPT ![PageCache] = <<>>]
      /\ UNCHANGED <<clientConnection, received, socket, sendBuffer, unsent, ref, tpc>>
  BY DEF ServePage, ReadCaching, bufferVars, browserVars, handlerVars, threadVars
<1>2. /\ clientConnection = Caching(ServedCache) /\ socket = 0
  BY <1>1 DEF Wiring, PageWiring
<1>3. down'[socket'] = queue[PageCache] /\ Taken = queue[PageCache]
  BY <1>1, <1>2 DEF Taken
<1>4. Taken' = <<>> /\ Buffered' = <<>> /\ Unsent' = <<>>
  BY <1>1, <1>2 DEF Taken, AboutToDrain, Buffered, Unsent
<1>5. Kept' = Kept
  BY <1>1, <1>2 DEF Kept
<1>6. InOrder(Stages')
  <2>1. Stages'[2] = Stages[5]
    BY ONLY <1>3, StagesAre
  <2>2. Stages'[3] = {} /\ Stages'[4] = {} /\ Stages'[5] = {}
    BY <1>4, StagesAre, NoMembers
  <2>3. Stages'[1] = Stages[1] /\ Stages'[6] = Stages[6]
    <3>1. received' = received
      BY <1>1
    <3>2. QED
      BY ONLY <1>5, <3>1, StagesAre
  <2>4. \A i \in 1..6 : 2 < i /\ i <= 5 => Stages'[i] = {}
    BY <2>2
  <2>5. \A i \in 1..6 : i < 2 \/ 5 < i => Stages'[i] \subseteq Stages[i]
    BY <2>3
  <2>6. InOrder(Stages)
    BY DEF Pipeline
  <2>7. 2 \in 1..6 /\ 5 \in 1..6 /\ 2 < 5
    OBVIOUS
  <2>8. QED
    BY ONLY <2>1, <2>4, <2>5, <2>6, <2>7, StagesShift
<1>7. Rises'
  <2>1. Rising(queue[PageCache]) /\ \A c \in Caches : Rising(queue[c])
    BY DEF Pipeline, Rises
  <2>2. \A c \in Caches : Rising(queue'[c])
    BY <1>1, <2>1, NoMembers
  <2>3. QED
    BY <1>3, <1>4, <2>1, <2>2, NoMembers DEF Rises
<1>8. Stale'
  BY <1>1, <1>5 DEF Pipeline, Stale
<1>9. QED
  BY <1>6, <1>7, <1>8 DEF Pipeline

LEMMA ReceivePipeline ==
  ASSUME TypeOK, Wiring, Pipeline, Receive
  PROVE  /\ Pipeline'
         /\ down[socket] # <<>> /\ received' = Append(received, Head(down[socket]))
<1> USE DeliveryFacts
<1>1. (IF browser = "loading" THEN PageChannel ELSE socket) = socket
  BY DEF Wiring, PageWiring
<1>2. /\ down[socket] # <<>> /\ received' = Append(received, Head(down[socket]))
      /\ down' = [down EXCEPT ![socket] = Tail(@)]
      /\ UNCHANGED <<clientConnection, page, socket, queue, sendBuffer, unsent, hpc,
                     currentCC, ref, tpc>>
  BY <1>1 DEF Receive, cacheVars, bufferVars, handlerVars, threadVars
<1>3. /\ down[socket] \in Seq(Messages) /\ down'[socket'] = Tail(down[socket])
      /\ UNCHANGED <<Buffered, Unsent, Taken, Kept>>
  BY <1>2 DEF Buffered, Unsent, Taken, AboutToDrain, Kept
<1>4. Rising(down[socket])
  BY DEF Pipeline, Rises
<1>5. /\ Head(down[socket]) \in Messages
      /\ ToSet(down[socket]) = {Head(down[socket])} \cup ToSet(Tail(down[socket]))
      /\ Rising(Tail(down[socket]))
      /\ Precede({Head(down[socket])}, ToSet(Tail(down[socket])))
  BY <1>2, <1>3, <1>4, HeadTailTypes, MemberOfHeadTail, RisingTail
<1>6. ToSet(received') = ToSet(received) \cup {Head(down[socket])}
  BY <1>2, <1>5, MemberOfAppend
<1>7. InOrder(Stages')
  <2>1. Stages'[1] = Stages[1] \cup {Head(down[socket])}
    BY <1>6, StagesAre
  <2>2. /\ Stages'[2] = ToSet(Tail(down[socket])) /\ Stages'[2] \subseteq Stages[2]
        /\ Head(down[socket]) \in Stages[2]
    BY <1>3, <1>5, StagesAre
  <2>3. /\ Stages'[3] = Stages[3] /\ Stages'[4] = Stages[4]
        /\ Stages'[5] = Stages[5] /\ Stages'[6] = Stages[6]
    BY <1>3, StagesAre
  <2>4. \A i \in 1..6 : i # 1 => Stages'[i] \subseteq Stages[i]
    BY <2>2, <2>3, OneToSix
  <2>5. InOrder(Stages) /\ Precede({Head(down[socket])}, Stages'[2])
    BY <1>5, <2>2 DEF Pipeline
  <2>6. 1 \in 1..5 /\ 1 + 1 = 2
    OBVIOUS
  <2>7. QED
    BY <2>1, <2>2, <2>4, <2>5, <2>6, StagesMove
<1>8. Rises'
  BY <1>2, <1>3, <1>5 DEF Pipeline, Rises
<1>9. Stale'
  BY <1>2, <1>3 DEF Pipeline, Stale
<1>10. QED
  BY <1>2, <1>7, <1>8, <1>9 DEF Pipeline

LEMMA ConnectWsPipeline ==
  ASSUME TypeOK, Wiring, Pipeline, ConnectWs
  PROVE  Pipeline'
<1> USE DeliveryFacts
<1>1. /\ socket' = socket + 1 /\ socket < NSockets
      /\ browser \in {"loading", "waiting"} /\ (browser = "loading" => page = "served")
      /\ UNCHANGED <<clientConnection, page, queue, received, down, sendBuffer, unsent,
                     hpc, currentCC, ref, tpc>>
  BY DEF ConnectWs, cacheVars, bufferVars, handlerVars, threadVars
<1>2. socket' \in Sockets /\ socket' # 0 /\ socket' > socket
  BY <1>1, ConnectionAssumption DEF TypeOK, Sockets
<1>3. hpc[socket'] = "none"
  BY <1>2 DEF Wiring, SocketWiring, Opened
<1>4. sendBuffer[socket'] = <<>> /\ unsent[socket'] = <<>> /\ down[socket'] = <<>>
  BY <1>2, <1>3 DEF Wiring, SocketWiring, Emptied
<1>5. page = "served"
  BY <1>1 DEF Wiring, PageWiring
<1>6. Buffered' = <<>> /\ Unsent' = <<>> /\ Taken' = <<>> /\ Kept' = Kept
      /\ down'[socket'] = <<>>
  BY <1>1, <1>2, <1>3, <1>4, <1>5 DEF Buffered, Unsent, Taken, AboutToDrain, Kept
<1>7. \A i \in 1..6 : Stages'[i] \subseteq Stages[i]
  <2>1. received' = received
    BY <1>1
  <2>2. QED
    BY ONLY <2>1, <1>6, StagesAre, OneToSix, NoMembers
<1>8. InOrder(Stages')
  BY <1>7, StagesShrink DEF Pipeline
<1>9. Rises'
  BY <1>1, <1>6, NoMembers DEF Pipeline, Rises
<1>10. Stale'
  BY <1>1, <1>6 DEF Pipeline, Stale
<1>11. QED
  BY <1>8, <1>9, <1>10 DEF Pipeline

LEMMA PumpPipeline ==
  ASSUME TypeOK, Wiring, Pipeline, NEW s \in Sockets, Pump(s)
  PROVE  Pipeline'
<1> USE DeliveryFacts
<1> DEFINE m == Head(sendBuffer[s])
<1>1. /\ sendBuffer[s] # <<>> /\ sendBuffer' = [sendBuffer EXCEPT ![s] = Tail(@)]
      /\ down' = down \/ down' = [down EXCEPT ![s] = Append(@, m)]
      /\ UNCHANGED <<clientConnection, page, socket, queue, received, unsent, hpc,
                     currentCC, ref, tpc>>
  BY DEF Pump, cacheVars, handlerVars, browserVars, threadVars
<1>2. UNCHANGED <<Unsent, Taken, Kept, AboutToDrain>>
  BY <1>1 DEF Unsent, Taken, AboutToDrain, Kept
<1>3. CASE s # socket
  <2>1. Buffered' = Buffered /\ down'[socket] = down[socket]
    BY <1>1, <1>3 DEF Buffered
  <2>2. Cut(down'[socket], down[socket])
    BY <2>1, CutSelf
  <2>3. QED
    BY <1>1, <1>2, <2>1, <2>2, QuietStep
<1>4. CASE s = socket
  <2>1. /\ Buffered = sendBuffer[s] /\ Buffered' = Tail(Buffered) /\ Buffered # <<>>
        /\ m = Head(Buffered)
        /\ down'[socket'] = down[socket] \/ down'[socket'] = Append(down[socket], m)
    BY <1>1, <1>4 DEF Buffered
  <2>2. /\ InOrder(Stages) /\ Rising(Buffered) /\ Rising(down[socket])
    BY DEF Pipeline, Rises
  <2>3. /\ m \in Messages
        /\ ToSet(Buffered) = {m} \cup ToSet(Buffered')
        /\ Rising(Buffered') /\ Precede({m}, ToSet(Buffered'))
    BY <2>1, <2>2, HeadTailTypes, MemberOfHeadTail, RisingTail
  <2>4. Precede(ToSet(down[socket]), {m})
    <3>1. Precede(Stages[2], Stages[3])
      BY <2>2 DEF InOrder
    <3>2. QED
      BY ONLY <2>3, <3>1, StagesAre DEF Precede
  <2>5. /\ ToSet(down'[socket']) \subseteq ToSet(down[socket]) \cup {m}
        /\ Rising(down'[socket'])
    <3>1. down[socket] \in Seq(Messages)
      OBVIOUS
    <3>2. /\ ToSet(Append(down[socket], m)) = ToSet(down[socket]) \cup {m}
          /\ Rising(Append(down[socket], m))
      BY ONLY <2>2, <2>3, <2>4, <3>1, MemberOfAppend, RisingAppend
    <3>3. QED
      BY <2>1, <2>2, <3>2
  <2>6. InOrder(Stages')
    <3>1. Stages'[2] \subseteq Stages[2] \cup {m}
      BY <2>5, StagesAre
    <3>2. /\ Stages'[3] = ToSet(Buffered') /\ Stages'[3] \subseteq Stages[3]
          /\ m \in Stages[3]
      BY ONLY <2>3, StagesAre
    <3>3. /\ Stages'[1] = Stages[1] /\ Stages'[4] = Stages[4]
          /\ Stages'[5] = Stages[5] /\ Stages'[6] = Stages[6]
      BY <1>1, <1>2, StagesAre
    <3>4. \A i \in 1..6 : i # 2 => Stages'[i] \subseteq Stages[i]
      BY <3>2, <3>3, OneToSix
    <3>5. Precede({m}, Stages'[3])
      BY <2>3, <3>2
    <3>6. 2 \in 1..5 /\ 2 + 1 = 3
      OBVIOUS
    <3>7. InOrder(Stages)
      BY <2>2
    <3>8. QED
      BY ONLY <3>1, <3>2, <3>4, <3>5, <3>6, <3>7, StagesMove
  <2>7. Rises'
    BY <1>1, <1>2, <2>3, <2>5 DEF Pipeline, Rises
  <2>8. Stale'
    BY <1>1, <1>2 DEF Pipeline, Stale
  <2>9. QED
    BY <2>6, <2>7, <2>8 DEF Pipeline
<1>5. QED
  BY <1>3, <1>4

LEMMA ForwardPipeline ==
  ASSUME TypeOK, Wiring, Pipeline, NEW s \in Sockets, Forward(s)
  PROVE  Pipeline'
<1> USE DeliveryFacts
<1> DEFINE m == Head(unsent[s])
<1>1. /\ unsent[s] # <<>> /\ unsent' = [unsent EXCEPT ![s] = Tail(@)]
      /\ sendBuffer' = [sendBuffer EXCEPT ![s] = Append(@, m)]
      /\ UNCHANGED <<clientConnection, page, socket, queue, received, down, hpc,
                     currentCC, ref, tpc>>
  BY DEF Forward, cacheVars, netVars, browserVars, threadVars
<1>2. UNCHANGED <<Taken, Kept, AboutToDrain>>
  BY <1>1 DEF Taken, AboutToDrain, Kept
<1>3. CASE s # socket
  <2>1. Buffered' = Buffered /\ Unsent' = Unsent /\ down'[socket] = down[socket]
    BY <1>1, <1>3 DEF Buffered, Unsent
  <2>2. Cut(down'[socket], down[socket])
    BY <2>1, CutSelf
  <2>3. QED
    BY <1>1, <1>2, <2>1, <2>2, QuietStep
<1>4. CASE s = socket
  <2>1. /\ Unsent = unsent[s] /\ Unsent' = Tail(Unsent) /\ Unsent # <<>>
        /\ m = Head(Unsent) /\ Buffered' = Append(Buffered, m)
    BY <1>1, <1>4 DEF Buffered, Unsent
  <2>2. /\ InOrder(Stages) /\ Rising(Buffered) /\ Rising(Unsent)
    BY DEF Pipeline, Rises
  <2>3. /\ m \in Messages
        /\ ToSet(Unsent) = {m} \cup ToSet(Unsent')
        /\ Rising(Unsent') /\ Precede({m}, ToSet(Unsent'))
    BY <2>1, <2>2, HeadTailTypes, MemberOfHeadTail, RisingTail
  <2>4. Precede(ToSet(Buffered), {m})
    <3>1. Precede(Stages[3], Stages[4])
      BY <2>2 DEF InOrder
    <3>2. QED
      BY ONLY <2>3, <3>1, StagesAre DEF Precede
  <2>5. /\ ToSet(Buffered') = ToSet(Buffered) \cup {m} /\ Rising(Buffered')
    <3>1. Buffered \in Seq(Messages)
      OBVIOUS
    <3>2. QED
      BY ONLY <2>1, <2>2, <2>3, <2>4, <3>1, MemberOfAppend, RisingAppend
  <2>6. InOrder(Stages')
    <3>1. Stages'[3] \subseteq Stages[3] \cup {m}
      BY <2>5, StagesAre
    <3>2. /\ Stages'[4] = ToSet(Unsent') /\ Stages'[4] \subseteq Stages[4]
          /\ m \in Stages[4]
      BY ONLY <2>3, StagesAre
    <3>3. /\ Stages'[1] = Stages[1] /\ Stages'[2] = Stages[2]
          /\ Stages'[5] = Stages[5] /\ Stages'[6] = Stages[6]
      BY <1>1, <1>2, StagesAre
    <3>4. \A i \in 1..6 : i # 3 => Stages'[i] \subseteq Stages[i]
      BY <3>2, <3>3, OneToSix
    <3>5. Precede({m}, Stages'[4])
      BY <2>3, <3>2
    <3>6. 3 \in 1..5 /\ 3 + 1 = 4
      OBVIOUS
    <3>7. InOrder(Stages)
      BY <2>2
    <3>8. QED
      BY ONLY <3>1, <3>2, <3>4, <3>5, <3>6, <3>7, StagesMove
  <2>7. Rises'
    BY <1>1, <1>2, <2>3, <2>5 DEF Pipeline, Rises
  <2>8. Stale'
    BY <1>1, <1>2 DEF Pipeline, Stale
  <2>9. QED
    BY <2>6, <2>7, <2>8 DEF Pipeline
<1>5. QED
  BY <1>3, <1>4

LEMMA DrainPipeline ==
  ASSUME TypeOK, Wiring, Pipeline, NEW s \in Sockets, DrainCaching(s),
         ~isRead[currentCC[s].id]
  PROVE  Pipeline'
<1> DEFINE c == currentCC[s].id
<1>a. /\ queue \in [Caches -> Seq(Messages)] /\ c \in Caches
      /\ unsent \in [Sockets -> Seq(Messages)]
      /\ hpc \in [Sockets -> {"none", "found", "drain", "replace", "forward",
                              "install", "loop", "done"}]
      /\ socket # 0 => socket \in Sockets
      /\ s # 0
  BY DeliveryFacts
<1>1. /\ hpc[s] = "drain" /\ hpc' = [hpc EXCEPT ![s] = "forward"]
      /\ unsent' = [unsent EXCEPT ![s] = queue[c]]
      /\ queue' = [queue EXCEPT ![c] = <<>>]
      /\ UNCHANGED <<clientConnection, page, socket, sendBuffer, received, down,
                     currentCC, ref, tpc>>
  BY DEF DrainCaching, ReadCaching, netVars, browserVars, threadVars
<1>2. /\ page = "served" /\ Buffered' = Buffered
      /\ currentCC[s].kind = "Caching" /\ currentCC[s] \in Connections
  <2>1. s <= socket
    BY <1>1, ConnectionAssumption DEF Wiring, SocketWiring, Opened, Sockets, TypeOK
  <2>2. page = "served"
    BY <2>1, ConnectionAssumption DEF Wiring, PageWiring, Sockets
  <2>3. currentCC[s].kind = "Caching"
    BY <1>1 DEF Wiring, SocketWiring, Emptied
  <2>4. QED
    BY <1>1, <2>2, <2>3 DEF Buffered, TypeOK
<1>3. \A d \in Caches : queue'[d] = queue[d] \/ queue'[d] = <<>>
  BY <1>a, <1>1
<1>4. Kept' = Kept \/ Kept' = <<>>
  <2>1. clientConnection.id \in Caches
    BY DeliveryFacts
  <2>2. QED
    BY <1>1, <1>3, <2>1 DEF Kept
<1>5. InOrder(Stages) /\ \A d \in Caches : Rising(queue[d])
  BY DEF Pipeline, Rises
<1>6. Stages'[1] = Stages[1] /\ Stages'[2] = Stages[2] /\ Stages'[3] = Stages[3]
      /\ Stages'[6] \subseteq Stages[6]
  BY <1>1, <1>2, <1>4, StagesAre, NoMembers
<1>7. \A d \in Caches : Rising(queue'[d])
  BY <1>3, <1>5, NoMembers
<1>8. Stale'
  <2>1. ToSet(Kept') \subseteq ToSet(Kept)
    BY <1>4, NoMembers
  <2>2. QED
    BY <1>1, <2>1 DEF Pipeline, Stale
<1>9. CASE s # socket
  <2>1. Unsent' = Unsent
    BY <1>a, <1>1, <1>9 DEF Unsent
  <2>2. Taken' = Taken \/ Taken' = <<>>
    <3>1. AboutToDrain' => AboutToDrain
      BY <1>a, <1>1, <1>9 DEF AboutToDrain
    <3>2. AboutToDrain => currentCC[socket].id \in Caches
      BY DeliveryFacts DEF AboutToDrain
    <3>3. QED
      BY <1>1, <1>2, <1>3, <3>1, <3>2 DEF Taken
  <2>3. Stages'[4] = Stages[4] /\ Stages'[5] \subseteq Stages[5]
    BY <2>1, <2>2, StagesAre, NoMembers
  <2>4. \A i \in 1..6 : Stages'[i] \subseteq Stages[i]
    BY <1>6, <2>3, OneToSix
  <2>5. InOrder(Stages')
    BY <1>5, <2>4, StagesShrink
  <2>6. Rises'
    BY <1>1, <1>2, <1>7, <2>1 DEF Pipeline, Rises
  <2>7. QED
    BY <1>8, <2>5, <2>6 DEF Pipeline
<1>10. CASE s = socket
  <2>1. Unsent' = queue[c] /\ Taken' = <<>>
    BY <1>a, <1>1, <1>2, <1>10 DEF Unsent, Taken, AboutToDrain
  <2>2. Stages'[4] = ToSet(queue[c]) /\ Stages'[5] = {}
    BY <2>1, StagesAre, NoMembers
  <2>3. Rises'
    BY <1>1, <1>2, <1>a, <1>5, <1>7, <2>1 DEF Pipeline, Rises
  <2>4. CASE currentCC[s] = clientConnection
    <3>1. Kept = queue[c] /\ Kept' = <<>>
      BY <1>a, <1>1, <1>2, <2>4 DEF Kept
    <3>2. Stages'[4] = Stages[6] /\ Stages'[6] = {}
      BY <2>2, <3>1, StagesAre, NoMembers
    <3>3. \A i \in 1..6 : 4 < i /\ i <= 6 => Stages'[i] = {}
      BY <2>2, <3>2
    <3>4. \A i \in 1..6 : i < 4 \/ 6 < i => Stages'[i] \subseteq Stages[i]
      BY <1>6, OneToSix
    <3>5. 4 \in 1..6 /\ 6 \in 1..6 /\ 4 < 6
      OBVIOUS
    <3>6. InOrder(Stages')
      BY ONLY <1>5, <3>2, <3>3, <3>4, <3>5, StagesShift
    <3>7. QED
      BY <1>8, <2>3, <3>6 DEF Pipeline
  <2>5. CASE currentCC[s] # clientConnection
    <3>1. Taken = queue[c]
      BY <1>a, <1>1, <1>2, <1>10, <2>5 DEF Taken, AboutToDrain
    <3>2. Stages'[4] = Stages[5]
      BY <2>2, <3>1, StagesAre
    <3>3. \A i \in 1..6 : 4 < i /\ i <= 5 => Stages'[i] = {}
      BY <2>2
    <3>4. \A i \in 1..6 : i < 4 \/ 5 < i => Stages'[i] \subseteq Stages[i]
      BY <1>6, OneToSix
    <3>5. 4 \in 1..6 /\ 5 \in 1..6 /\ 4 < 5
      OBVIOUS
    <3>6. InOrder(Stages')
      BY ONLY <1>5, <3>2, <3>3, <3>4, <3>5, StagesShift
    <3>7. QED
      BY <1>8, <2>3, <3>6 DEF Pipeline
  <2>6. QED
    BY <2>4, <2>5
<1>11. QED
  BY <1>9, <1>10

\* The session goes to a connection to which nothing has been sent yet.
LEMMA ReplacedPipeline ==
  ASSUME TypeOK, Wiring, Pipeline, Kept' = <<>>, page = "served",
         UNCHANGED <<page, socket, queue, received, down, sendBuffer, unsent, currentCC>>,
         socket # 0 /\ hpc'[socket] = "drain" => hpc[socket] = "drain"
  PROVE  Pipeline'
<1>1. UNCHANGED <<Buffered, Unsent>>
  BY DEF Buffered, Unsent
<1>2. Taken' = Taken \/ Taken' = Kept \/ Taken' = <<>>
  <2>1. CASE ~AboutToDrain'
    BY <2>1 DEF Taken
  <2>2. CASE AboutToDrain' /\ AboutToDrain
    BY <2>2 DEF Taken
  <2>3. CASE AboutToDrain' /\ ~AboutToDrain
    <3>1. socket # 0 /\ hpc[socket] = "drain" /\ currentCC[socket] = clientConnection
      BY <2>3 DEF AboutToDrain
    <3>2. clientConnection.kind = "Caching"
      BY <3>1, DeliveryFacts DEF Wiring, SocketWiring, Emptied
    <3>3. QED
      BY <2>3, <3>1, <3>2 DEF Taken, Kept
  <2>4. QED
    BY <2>1, <2>2, <2>3
<1>3. InOrder(Stages')
  <2>1. InOrder(Stages)
    BY DEF Pipeline
  <2>2. /\ Stages'[1] = Stages[1] /\ Stages'[2] = Stages[2]
        /\ Stages'[3] = Stages[3] /\ Stages'[4] = Stages[4] /\ Stages'[6] = {}
    BY <1>1, StagesAre, NoMembers
  <2>3. CASE Taken' = Taken \/ Taken' = <<>>
    <3>1. Stages'[5] \subseteq Stages[5]
      BY <2>3, StagesAre, NoMembers
    <3>2. \A i \in 1..6 : Stages'[i] \subseteq Stages[i]
      BY <2>2, <3>1, OneToSix
    <3>3. QED
      BY <2>1, <3>2, StagesShrink
  <2>4. CASE Taken' = Kept
    <3>1. Stages'[5] = Stages[6]
      BY <2>4, StagesAre
    <3>2. \A i \in 1..6 : 5 < i /\ i <= 6 => Stages'[i] = {}
      BY <2>2, OneToSix
    <3>3. \A i \in 1..6 : i < 5 \/ 6 < i => Stages'[i] \subseteq Stages[i]
      BY <2>2, OneToSix
    <3>4. 5 \in 1..6 /\ 6 \in 1..6 /\ 5 < 6
      OBVIOUS
    <3>5. QED
      BY ONLY <2>1, <3>1, <3>2, <3>3, <3>4, StagesShift
  <2>5. QED
    BY <1>2, <2>3, <2>4
<1>4. Rises'
  BY <1>1 DEF Pipeline, Rises
<1>5. Stale'
  BY NoMembers DEF Stale
<1>6. QED
  BY <1>3, <1>4, <1>5 DEF Pipeline

LEMMA SwapPageCachePipeline ==
  ASSUME TypeOK, Wiring, Pipeline, SwapPageCache
  PROVE  Pipeline'
<1>1. /\ page = "building" /\ page' = "swapped"
      /\ clientConnection' = Caching(ServedCache)
      /\ UNCHANGED <<socket, queue, received, down, sendBuffer, unsent>>
  BY DEF SwapPageCache, ServedConnection, cacheVars, bufferVars, netVars, handlerVars,
         browserVars
<1>2. /\ clientConnection = Caching(PageCache) /\ queue[ServedCache] = <<>>
      /\ socket = 0
  BY <1>1 DEF Wiring, PageWiring
<1>3. /\ Kept = queue[PageCache] /\ Kept' = <<>> /\ Taken' = queue[PageCache]
      /\ UNCHANGED <<Buffered, Unsent>>
  BY <1>1, <1>2, ConnectionsDiffer DEF Kept, Taken, Buffered, Unsent
<1>4. InOrder(Stages')
  <2>1. InOrder(Stages)
    BY DEF Pipeline
  <2>2. /\ Stages'[1] = Stages[1] /\ Stages'[2] = Stages[2]
        /\ Stages'[3] = Stages[3] /\ Stages'[4] = Stages[4] /\ Stages'[6] = {}
        /\ Stages'[5] = Stages[6]
    BY <1>1, <1>3, StagesAre, NoMembers
  <2>3. \A i \in 1..6 : 5 < i /\ i <= 6 => Stages'[i] = {}
    BY <2>2, OneToSix
  <2>4. \A i \in 1..6 : i < 5 \/ 6 < i => Stages'[i] \subseteq Stages[i]
    BY <2>2, OneToSix
  <2>5. 5 \in 1..6 /\ 6 \in 1..6 /\ 5 < 6
    OBVIOUS
  <2>6. QED
    BY ONLY <2>1, <2>2, <2>3, <2>4, <2>5, StagesShift
<1>5. Rises'
  BY <1>1, <1>3 DEF Pipeline, Rises
<1>6. Stale'
  BY <1>3, NoMembers DEF Stale
<1>7. QED
  BY <1>4, <1>5, <1>6 DEF Pipeline

\* What a send adds to the last stage there is for it.
LEMMA SendInOrder ==
  ASSUME TypeOK, Wiring, Numbered, AllGenuine, Pipeline, NEW t \in Threads,
         tpc[t] = "send", NEW k \in 1..6,
         Stages'[k] \subseteq Stages[k] \cup {Msg(t, count[t])},
         \A i \in 1..6 : i # k => Stages'[i] = Stages[i],
         \A i \in 1..6 : k < i => \A x \in Stages[i] : x.from # t
  PROVE  InOrder(Stages')
<1>1. \A i \in 1..6 : i < k => Precede(Stages[i], {Msg(t, count[t])})
  BY FreshAfter
<1>2. \A i \in 1..6 : k < i => \A x \in Stages[i] : x.from # Msg(t, count[t]).from
  BY DEF Msg
<1>3. \A i \in 1..6 : i # k => Stages'[i] \subseteq Stages[i]
  OBVIOUS
<1>4. InOrder(Stages)
  BY DEF Pipeline
<1>5. QED
  BY ONLY k \in 1..6, Stages'[k] \subseteq Stages[k] \cup {Msg(t, count[t])},
          <1>1, <1>2, <1>3, <1>4, StagesAdd

LEMMA CachingSendPipeline ==
  ASSUME TypeOK, Wiring, Numbered, AllGenuine, Pipeline, NEW t \in Threads, CachingSend(t)
  PROVE  Pipeline'
<1> DEFINE c == ref[t].id
           m == Msg(t, count[t])
<1>a. /\ queue \in [Caches -> Seq(Messages)] /\ clientConnection \in Connections
      /\ socket # 0 => socket \in Sockets
      /\ socket # 0 => currentCC[socket] \in Connections
      /\ tpc \in [Threads -> {"idle", "found", "send"}]
      /\ \A k \in Connections : k.id \in Caches
  BY DeliveryFacts DEF TypeOK
<1>b. PageCache \in Caches /\ ServedCache \in Caches /\ PageCache # ServedCache
      /\ Caching(ServedCache).id = ServedCache /\ Caching(PageCache).id = PageCache
      /\ \A x \in Connections : x.kind = "Caching" => x = Caching(x.id)
      /\ Caching(c).kind = "Caching"
  BY ConnectionsDiffer DEF Caching
<1>1. /\ tpc[t] = "send" /\ tpc' = [tpc EXCEPT ![t] = "idle"]
      /\ UNCHANGED <<clientConnection, page, socket, sendBuffer, unsent, received, down,
                     hpc, currentCC, ref>>
  BY DEF CachingSend, bufferVars, netVars, handlerVars, browserVars
<1>2. /\ c \in Caches /\ m \in Messages /\ ref[t] = Caching(c)
  BY CachingSendAdds
<1>3. UNCHANGED <<Buffered, Unsent, AboutToDrain>>
  BY <1>1 DEF Buffered, Unsent, AboutToDrain
<1>4. \A u \in Threads : tpc'[u] = "send" => u # t /\ tpc[u] = "send"
  BY <1>a, <1>1
<1>5. CASE queue' = queue
  <2>1. Cut(down'[socket], down[socket])
    <3>1. down[socket] \in Seq(Messages)
      BY DeliveryFacts
    <3>2. QED
      BY <1>1, <3>1, CutSelf
  <2>2. QED
    BY <1>1, <1>3, <1>4, <1>5, <2>1, QuietStep
<1>6. CASE queue' # queue
  <2>1. /\ queue'[c] = Append(queue[c], m) /\ ToSet(queue'[c]) = ToSet(queue[c]) \cup {m}
        /\ \A d \in Caches : d # c => queue'[d] = queue[d]
    BY <1>6, CachingSendAdds
  <2>2. \A d \in Caches : Rising(queue'[d])
    <3>1. queue[c] \in Seq(Messages)
      BY <1>a, <1>2
    <3>2. Rising(queue[c]) /\ \A d \in Caches : Rising(queue[d])
      BY <1>2 DEF Pipeline, Rises
    <3>3. Precede(ToSet(queue[c]), {m})
      BY <1>1, <1>2, FreshAfter
    <3>4. Rising(queue'[c])
      BY ONLY <1>2, <2>1, <3>1, <3>2, <3>3, RisingAppend
    <3>5. QED
      BY <2>1, <3>2, <3>4
  <2>3. Rises'
    BY <1>1, <1>3, <2>2 DEF Pipeline, Rises
  <2>4. /\ Stages'[1] = Stages[1] /\ Stages'[2] = Stages[2]
        /\ Stages'[3] = Stages[3] /\ Stages'[4] = Stages[4]
    BY <1>1, <1>3, StagesAre
  <2>5. /\ page = "swapped" => clientConnection = Caching(ServedCache)
        /\ AboutToDrain => currentCC[socket].kind = "Caching"
    BY DeliveryFacts DEF Wiring, PageWiring, SocketWiring, Emptied, AboutToDrain
  <2>6. CASE ref[t] = clientConnection
    <3>1. Kept = queue[c] /\ Kept' = queue'[c]
      <4>1. clientConnection.kind = "Caching" /\ clientConnection.id = c
        <5>1. ref[t].kind = "Caching"
          BY DEF CachingSend
        <5>2. QED
          BY ONLY <2>6, <5>1
      <4>2. clientConnection' = clientConnection
        BY <1>1
      <4>3. QED
        BY <4>1, <4>2 DEF Kept
    <3>2. Taken' = Taken
      <4>1. page = "swapped" => queue'[PageCache] = queue[PageCache]
        BY <1>2, <1>b, <2>1, <2>5, <2>6
      <4>2. AboutToDrain => queue'[currentCC[socket].id] = queue[currentCC[socket].id]
        <5>1. AboutToDrain => /\ socket # 0 /\ currentCC[socket] # clientConnection
                              /\ currentCC[socket].kind = "Caching"
          BY <2>5 DEF AboutToDrain
        <5>2. AboutToDrain => currentCC[socket].id # c /\ currentCC[socket].id \in Caches
          BY <1>a, <1>b, <1>2, <2>6, <5>1
        <5>3. QED
          BY <2>1, <5>2
      <4>3. QED
        BY <1>1, <1>3, <4>1, <4>2 DEF Taken
    <3>3. Stages'[6] = Stages[6] \cup {m} /\ Stages'[5] = Stages[5]
      BY <2>1, <3>1, <3>2, StagesAre
    <3>4. \A i \in 1..6 : i # 6 => Stages'[i] = Stages[i]
      BY <2>4, <3>3, OneToSix
    <3>5. \A i \in 1..6 : 6 < i => \A x \in Stages[i] : x.from # t
      BY OneToSix
    <3>6. 6 \in 1..6 /\ Stages'[6] \subseteq Stages[6] \cup {m}
      BY <3>3
    <3>7. InOrder(Stages')
      BY <1>1, <3>4, <3>5, <3>6, SendInOrder
    <3>8. Stale'
      <4>1. SUFFICES ASSUME NEW u \in Threads, tpc'[u] = "send",
                            ref'[u] # clientConnection', NEW x \in ToSet(Kept')
                     PROVE  x.from # u
        BY DEF Stale
      <4>2. u # t /\ tpc[u] = "send" /\ ref[u] # clientConnection
        BY <1>1, <1>4, <4>1
      <4>3. x \in ToSet(Kept) \/ x = m
        BY <2>1, <3>1, <4>1
      <4>4. QED
        BY <4>2, <4>3 DEF Pipeline, Stale, Msg
    <3>9. QED
      BY <2>3, <3>7, <3>8 DEF Pipeline
  <2>7. CASE ref[t] # clientConnection
    <3>1. Kept' = Kept
      <4>1. clientConnection.kind = "Caching" =>
               clientConnection.id # c /\ clientConnection.id \in Caches
        BY <1>a, <1>b, <1>2, <2>7
      <4>2. QED
        BY <1>1, <2>1, <4>1 DEF Kept
    <3>2. ToSet(Taken') \subseteq ToSet(Taken) \cup {m}
      <4>1. \A d \in Caches : ToSet(queue'[d]) \subseteq ToSet(queue[d]) \cup {m}
        BY <2>1
      <4>2. AboutToDrain => currentCC[socket].id \in Caches
        BY <1>a DEF AboutToDrain
      <4>3. QED
        BY <1>1, <1>3, <1>b, <4>1, <4>2, NoMembers DEF Taken
    <3>3. Stages'[6] = Stages[6] /\ Stages'[5] \subseteq Stages[5] \cup {m}
      BY <3>1, <3>2, StagesAre
    <3>4. \A i \in 1..6 : i # 5 => Stages'[i] = Stages[i]
      BY <2>4, <3>3, OneToSix
    <3>5. \A i \in 1..6 : 5 < i => \A x \in Stages[i] : x.from # t
      <4>1. \A x \in Stages[6] : x.from # t
        BY <1>1, <2>7, StagesAre DEF Pipeline, Stale
      <4>2. QED
        BY <4>1, OneToSix
    <3>6. 5 \in 1..6
      OBVIOUS
    <3>7. InOrder(Stages')
      BY <1>1, <3>3, <3>4, <3>5, <3>6, SendInOrder
    <3>8. Stale'
      BY <1>1, <1>4, <3>1 DEF Pipeline, Stale
    <3>9. QED
      BY <2>3, <3>7, <3>8 DEF Pipeline
  <2>8. QED
    BY <2>6, <2>7
<1>7. QED
  BY <1>5, <1>6

LEMMA WebSocketSendPipeline ==
  ASSUME TypeOK, Wiring, Numbered, AllGenuine, Pipeline, NEW t \in Threads, WebSocketSend(t)
  PROVE  Pipeline'
<1> DEFINE s == ref[t].id
           m == Msg(t, count[t])
<1>1. /\ tpc[t] = "send" /\ tpc' = [tpc EXCEPT ![t] = "idle"]
      /\ UNCHANGED <<clientConnection, page, socket, queue, unsent, received, down,
                     hpc, currentCC, ref>>
  BY DEF WebSocketSend, cacheVars, netVars, handlerVars, browserVars
<1>2. /\ s \in Sockets /\ m \in Messages /\ ref[t] = WebSocket(s) /\ s # 0
  BY WebSocketSendAdds, DeliveryFacts
<1>3. UNCHANGED <<Unsent, AboutToDrain, Taken, Kept>>
  BY <1>1 DEF Unsent, AboutToDrain, Taken, Kept
<1>4. \A u \in Threads : tpc'[u] = "send" => u # t /\ tpc[u] = "send"
  BY <1>1 DEF TypeOK
<1>5. CASE Buffered' = Buffered
  <2>1. Cut(down'[socket], down[socket])
    <3>1. down[socket] \in Seq(Messages)
      BY DeliveryFacts
    <3>2. QED
      BY <1>1, <3>1, CutSelf
  <2>2. QED
    BY <1>1, <1>3, <1>4, <1>5, <2>1, QuietStep
<1>6. CASE Buffered' # Buffered
  <2>1. socket = s /\ sendBuffer' # sendBuffer
    BY <1>1, <1>2, <1>6, WebSocketSendAdds, DeliveryFacts DEF Buffered
  <2>2. /\ Buffered' = Append(Buffered, m) /\ ToSet(Buffered') = ToSet(Buffered) \cup {m}
    BY <1>1, <1>2, <2>1, WebSocketSendAdds DEF Buffered
  <2>3. hpc[s] \in {"loop", "done"}
    BY <1>2 DEF Wiring, SocketWiring, Referred, Unreferred
  <2>4. page = "served"
    BY <1>2, <2>1 DEF Wiring, PageWiring
  <2>5. Unsent = <<>> /\ Taken = <<>>
    <3>1. unsent[s] = <<>>
      BY <1>2, <2>3 DEF Wiring, SocketWiring, Emptied
    <3>2. QED
      BY <1>2, <2>1, <2>3, <2>4, <3>1 DEF Unsent, Taken, AboutToDrain
  <2>6. \A x \in ToSet(Kept) : x.from # t
    <3>1. CASE clientConnection = ref[t]
      BY <1>2, <3>1, NoMembers DEF Kept, WebSocket
    <3>2. CASE clientConnection # ref[t]
      BY <1>1, <3>2 DEF Pipeline, Stale
    <3>3. QED
      BY <3>1, <3>2
  <2>7. InOrder(Stages')
    <3>1. Stages'[3] \subseteq Stages[3] \cup {m} /\ 3 \in 1..6
      BY <2>2, StagesAre
    <3>2. /\ Stages'[1] = Stages[1] /\ Stages'[2] = Stages[2] /\ Stages'[4] = Stages[4]
          /\ Stages'[5] = Stages[5] /\ Stages'[6] = Stages[6]
      BY <1>1, <1>3, StagesAre
    <3>3. \A i \in 1..6 : i # 3 => Stages'[i] = Stages[i]
      BY <3>2, OneToSix
    <3>4. Stages[4] = {} /\ Stages[5] = {} /\ \A x \in Stages[6] : x.from # t
      BY <2>5, <2>6, StagesAre, NoMembers
    <3>5. \A i \in 1..6 : 3 < i => \A x \in Stages[i] : x.from # t
      BY <3>4, OneToSix
    <3>6. QED
      BY <1>1, <3>1, <3>3, <3>5, SendInOrder
  <2>8. Rises'
    <3>1. Buffered \in Seq(Messages)
      BY DeliveryFacts
    <3>2. Precede(ToSet(Buffered), {m})
      <4>1. Precede(Stages[3], {m})
        BY <1>1, FreshAfter
      <4>2. QED
        BY <4>1, StagesAre
    <3>3. Rising(Buffered)
      BY DEF Pipeline, Rises
    <3>4. Rising(Buffered')
      BY ONLY <1>2, <2>2, <3>1, <3>2, <3>3, RisingAppend
    <3>5. QED
      BY <1>1, <1>3, <3>4 DEF Pipeline, Rises
  <2>9. Stale'
    BY <1>1, <1>3, <1>4 DEF Pipeline, Stale
  <2>10. QED
    BY <2>7, <2>8, <2>9 DEF Pipeline
<1>7. QED
  BY <1>5, <1>6

LEMMA HandlersServe ==
  ASSUME TypeOK, Wiring, NEW s \in Sockets, hpc[s] # "none"
  PROVE  page = "served"
<1>1. s <= socket
  BY ConnectionAssumption DEF Wiring, SocketWiring, Opened, Sockets, TypeOK
<1>2. QED
  BY <1>1, ConnectionAssumption DEF Wiring, PageWiring, Sockets

LEMMA PipelineStep ==
  ASSUME TypeOK, Wiring, Numbered, AllGenuine, Pipeline, [Next]_vars
  PROVE  Pipeline'
<1> USE DEF cacheVars, bufferVars, netVars, handlerVars, sessionVars, browserVars,
            threadVars
<1>a. ASSUME UNCHANGED <<received, socket, queue, page, clientConnection, sendBuffer,
                         unsent, ref>>,
             Cut(down'[socket], down[socket]),
             AboutToDrain' => AboutToDrain /\ currentCC'[socket] = currentCC[socket],
             \A t \in Threads : tpc'[t] = "send" => tpc[t] = "send"
      PROVE  Pipeline'
  <2>1. UNCHANGED <<Buffered, Unsent>>
    BY <1>a DEF Buffered, Unsent
  <2>2. QED
    BY <1>a, <2>1, QuietStep
<1>b. Cut(down[socket], down[socket])
  <2>1. down[socket] \in Seq(Messages)
    BY DeliveryFacts
  <2>2. QED
    BY <2>1, CutSelf
<1>c. ASSUME NEW s \in Sockets, NEW how \in {"down", "rejected"}, Sever(s, how)
      PROVE  Cut(down'[socket], down[socket])
  BY <1>c, SeverCuts, DeliveryFacts
<1>d. ASSUME UNCHANGED <<socket, clientConnection, currentCC>>,
             socket # 0 /\ hpc'[socket] = "drain" => hpc[socket] = "drain"
      PROVE  AboutToDrain' => AboutToDrain /\ currentCC'[socket] = currentCC[socket]
  BY <1>d DEF AboutToDrain
<1>e. /\ hpc \in [Sockets -> {"none", "found", "drain", "replace", "forward",
                              "install", "loop", "done"}]
      /\ currentCC \in [Sockets -> Connections]
      /\ tpc \in [Threads -> {"idle", "found", "send"}]
      /\ socket # 0 => socket \in Sockets
  BY DeliveryFacts DEF TypeOK
<1>1. CASE SwapPageCache
  BY <1>1, SwapPageCachePipeline
<1>2. CASE ServePage
  BY <1>2, ServePagePipeline
<1>3. CASE Expire
  BY <1>3, <1>a, <1>b, <1>d DEF Expire
<1>4. CASE TriggerCloseListeners
  BY <1>4, <1>a, <1>b, <1>d DEF TriggerCloseListeners
<1>5. CASE Receive
  BY <1>5, ReceivePipeline
<1>6. CASE ConnectWs
  BY <1>6, ConnectWsPipeline
<1>7. CASE OnClose
  BY <1>7, <1>a, <1>b, <1>d DEF OnClose
<1>8. CASE GiveUp
  BY <1>8, <1>a, <1>b, <1>d DEF GiveUp
<1>9. CASE BrowserEvent
  BY <1>9, <1>a, <1>b, <1>d DEF BrowserEvent
<1>10. CASE SendKeepalive
  BY <1>10, <1>a, <1>b, <1>d DEF SendKeepalive
<1>11. ASSUME NEW t \in Threads, CallJs(t) PROVE Pipeline'
  <2>1. \A u \in Threads : tpc'[u] = "send" => tpc[u] = "send"
    BY <1>e, <1>11 DEF CallJs
  <2>2. QED
    BY <1>11, <1>a, <1>b, <1>d, <2>1 DEF CallJs
<1>12. ASSUME NEW t \in Threads, ReadConnection(t) PROVE Pipeline'
  <2>1. /\ ref' = [ref EXCEPT ![t] = clientConnection]
        /\ tpc' = [tpc EXCEPT ![t] = "send"]
        /\ UNCHANGED <<received, socket, queue, page, clientConnection, sendBuffer, unsent,
                       down, hpc, currentCC>>
    BY <1>12 DEF ReadConnection
  <2>2. \A u \in Threads : tpc'[u] = "send" /\ ref'[u] # clientConnection =>
                             tpc[u] = "send" /\ ref[u] # clientConnection
    BY <2>1 DEF TypeOK
  <2>3. UNCHANGED <<Buffered, Unsent>>
    BY <2>1 DEF Buffered, Unsent
  <2>4. AboutToDrain' => AboutToDrain /\ currentCC'[socket] = currentCC[socket]
    BY <2>1, <1>d
  <2>5. QED
    BY <1>b, <2>1, <2>2, <2>3, <2>4, QuietStep
<1>13. ASSUME NEW t \in Threads, CachingSend(t) PROVE Pipeline'
  BY <1>13, CachingSendPipeline
<1>14. ASSUME NEW t \in Threads, WebSocketSend(t) PROVE Pipeline'
  BY <1>14, WebSocketSendPipeline
<1>15. ASSUME NEW s \in Sockets, Disconnect(s) PROVE Pipeline'
  BY <1>15, <1>a, <1>c, <1>d DEF Disconnect
<1>16. ASSUME NEW s \in Sockets, Pump(s) PROVE Pipeline'
  BY <1>16, PumpPipeline
<1>17. ASSUME NEW s \in Sockets, PumpFails(s) PROVE Pipeline'
  BY <1>17, <1>a, <1>b, <1>d DEF PumpFails
<1>18. ASSUME NEW s \in Sockets, ReceiveHello(s) PROVE Pipeline'
  <2>1. Cut(down'[socket], down[socket])
    <3>1. CASE present
      BY <1>18, <1>b, <3>1 DEF ReceiveHello
    <3>2. CASE ~present
      BY <1>18, <1>c, <3>2 DEF ReceiveHello, Reject
    <3>3. QED
      BY <3>1, <3>2
  <2>2. socket # 0 /\ hpc'[socket] = "drain" => hpc[socket] = "drain"
    BY <1>e, <1>18 DEF ReceiveHello
  <2>3. QED
    BY <1>18, <1>a, <1>d, <2>1, <2>2 DEF ReceiveHello
<1>19. ASSUME NEW s \in Sockets, ReadCurrentCC(s) PROVE Pipeline'
  <2>1. /\ currentCC' = [currentCC EXCEPT ![s] = clientConnection]
        /\ hpc[s] = "found"
        /\ \A r \in Sockets : r # s => hpc'[r] = hpc[r]
        /\ UNCHANGED <<received, socket, queue, page, clientConnection, sendBuffer, unsent,
                       down, ref, tpc>>
    BY <1>e, <1>19 DEF ReadCurrentCC
  <2>2. AboutToDrain' => AboutToDrain /\ currentCC'[socket] = currentCC[socket]
    BY <1>e, <2>1 DEF AboutToDrain
  <2>3. QED
    BY <1>a, <1>b, <2>1, <2>2
<1>20. ASSUME NEW s \in Sockets, DrainCaching(s) PROVE Pipeline'
  <2>1. CASE isRead[currentCC[s].id]
    <3>1. /\ hpc' = [hpc EXCEPT ![s] = "done"] /\ Sever(s, "down")
          /\ UNCHANGED <<received, socket, queue, page, clientConnection, sendBuffer,
                         unsent, currentCC, ref, tpc>>
      BY <1>20, <2>1 DEF DrainCaching
    <3>2. socket # 0 /\ hpc'[socket] = "drain" => hpc[socket] = "drain"
      BY <1>e, <3>1
    <3>3. QED
      BY <1>a, <1>c, <1>d, <3>1, <3>2
  <2>2. CASE ~isRead[currentCC[s].id]
    BY <1>20, <2>2, DrainPipeline
  <2>3. QED
    BY <2>1, <2>2
<1>21. ASSUME NEW s \in Sockets, Forward(s) PROVE Pipeline'
  BY <1>21, ForwardPipeline
<1>22. ASSUME NEW s \in Sockets, ReplaceWebSocket(s) PROVE Pipeline'
  <2>1. currentCC[s].id \in Sockets /\ Sever(currentCC[s].id, "down")
    BY <1>22, ConnectionTypes DEF ReplaceWebSocket, TypeOK
  <2>2. Cut(down'[socket], down[socket])
    BY <2>1, <1>c
  <2>3. socket # 0 /\ hpc'[socket] = "drain" => hpc[socket] = "drain"
    BY <1>e, <1>22 DEF ReplaceWebSocket
  <2>4. QED
    BY <1>22, <1>a, <1>d, <2>2, <2>3 DEF ReplaceWebSocket
<1>23. ASSUME NEW s \in Sockets, AddCloseHandler(s) PROVE Pipeline'
  <2>1. socket # 0 /\ hpc'[socket] = "drain" => hpc[socket] = "drain"
    BY <1>e, <1>23 DEF AddCloseHandler
  <2>2. QED
    BY <1>23, <1>a, <1>b, <1>d, <2>1 DEF AddCloseHandler
<1>24. ASSUME NEW s \in Sockets, InstallWebSocket(s) PROVE Pipeline'
  <2>1. /\ hpc[s] = "install" /\ hpc' = [hpc EXCEPT ![s] = "loop"]
        /\ clientConnection' = WebSocket(s)
        /\ UNCHANGED <<page, socket, queue, received, down, sendBuffer, unsent, currentCC>>
    BY <1>24 DEF InstallWebSocket, Installed
  <2>2. Kept' = <<>>
    BY <2>1 DEF Kept, WebSocket
  <2>3. socket # 0 /\ hpc'[socket] = "drain" => hpc[socket] = "drain"
    BY <1>e, <2>1
  <2>4. page = "served"
    BY <2>1, HandlersServe
  <2>5. QED
    BY <2>1, <2>2, <2>3, <2>4, ReplacedPipeline
<1>25. ASSUME NEW s \in Sockets, HandleFrame(s) PROVE Pipeline'
  BY <1>25, <1>a, <1>b, <1>d DEF HandleFrame
<1>26. ASSUME NEW s \in Sockets, EndOfFrames(s) PROVE Pipeline'
  <2>1. /\ hpc[s] = "loop" /\ hpc' = [hpc EXCEPT ![s] = "done"]
        /\ clientConnection' = Caching(s)
        /\ UNCHANGED <<page, socket, queue, received, down, sendBuffer, unsent, currentCC>>
    BY <1>26 DEF EndOfFrames, LeftBehind
  <2>2. Kept' = <<>>
    BY <2>1 DEF Kept, Caching, Wiring, SocketWiring, Referred
  <2>3. socket # 0 /\ hpc'[socket] = "drain" => hpc[socket] = "drain"
    BY <1>e, <2>1
  <2>4. page = "served"
    BY <2>1, HandlersServe
  <2>5. QED
    BY <2>1, <2>2, <2>3, <2>4, ReplacedPipeline
<1>27. CASE UNCHANGED vars
  BY <1>27, <1>a, <1>b, <1>d DEF vars
<1>28. QED
  BY <1>1, <1>2, <1>3, <1>4, <1>5, <1>6, <1>7, <1>8, <1>9, <1>10, <1>11, <1>12, <1>13, <1>14, <1>15, <1>16, <1>17, <1>18, <1>19, <1>20, <1>21, <1>22, <1>23, <1>24, <1>25, <1>26, <1>27 DEF Next, Sender, Handler

LEMMA DeliveryInit == Init => Numbered /\ AllGenuine /\ Pipeline
<1> SUFFICES ASSUME Init PROVE Numbered /\ AllGenuine /\ Pipeline
  OBVIOUS
<1>1. Numbered
  BY DEF Init, Numbered
<1>2. AllGenuine
  BY NoMembers DEF Init, AllGenuine, Present
<1>3. /\ Buffered = <<>> /\ Unsent = <<>> /\ Taken = <<>> /\ Kept = <<>>
      /\ received = <<>> /\ down[socket] = <<>>
  BY ConnectionsDiffer DEF Init, Buffered, Unsent, Taken, AboutToDrain, Kept, PageChannel
<1>4. \A i \in 1..6 : Stages[i] = {}
  BY <1>3, StagesAre, OneToSix, NoMembers
<1>5. InOrder(Stages)
  BY <1>4 DEF InOrder, Precede
<1>6. Rises
  BY <1>3, NoMembers DEF Init, Rises
<1>7. Stale
  BY <1>3, NoMembers DEF Stale
<1>8. QED
  BY <1>1, <1>2, <1>5, <1>6, <1>7 DEF Pipeline

LEMMA DeliveryInvariant == Spec => []DeliveryInv
<1>1. Init => DeliveryInv
  BY InitTypes, WiringInit, DeliveryInit DEF DeliveryInv
<1>2. DeliveryInv /\ [Next]_vars => DeliveryInv'
  <2> SUFFICES ASSUME DeliveryInv, [Next]_vars PROVE DeliveryInv'
    OBVIOUS
  <2>1. TypeOK /\ Wiring /\ Numbered /\ AllGenuine /\ Pipeline
    BY DEF DeliveryInv
  <2>2. TypeOK'
    BY <2>1, StepTypes
  <2>3. Wiring'
    BY <2>1, WiringStep
  <2>4. Numbered'
    BY <2>1, NumberedStep
  <2>5. AllGenuine'
    BY <2>1, <2>2, GenuineStep
  <2>6. Pipeline'
    BY <2>1, PipelineStep
  <2>7. QED
    BY <2>2, <2>3, <2>4, <2>5, <2>6 DEF DeliveryInv
<1>3. QED
  BY <1>1, <1>2, PTL DEF Spec

(***************************************************************************)
(* The refinement of ProducerFeed.                                         *)
(***************************************************************************)
\* The last message of a thread is the one with the largest index.
LEMMA LargestExists ==
  ASSUME NEW n \in Nat, NEW S, S \subseteq 1..n, S # {}
  PROVE  Max(S) \in S
<1> DEFINE T == {n - i : i \in S}
<1>1. T \subseteq Nat
  OBVIOUS
<1>2. T # {}
  <2>1. PICK i \in S : TRUE
    OBVIOUS
  <2>2. n - i \in T
    OBVIOUS
  <2>3. QED
    BY <2>2
<1>3. IsWellFoundedOn(OpToRel(<, Nat), Nat)
  BY NatLessThanWellFounded
<1>4. PICK d \in T : \A e \in T : <<e, d>> \notin OpToRel(<, Nat)
  BY ONLY <1>1, <1>2, <1>3, WFMin
<1>5. \A e \in T : ~(e < d)
  BY <1>1, <1>4 DEF OpToRel
<1>6. PICK k \in S : d = n - k
  BY <1>4
<1>7. \A i \in S : k >= i
  <2> TAKE i \in S
  <2>1. n - i \in T
    OBVIOUS
  <2>2. ~(n - i < n - k)
    BY <1>5, <1>6, <2>1
  <2>3. i \in Int /\ k \in Int
    OBVIOUS
  <2>4. QED
    BY ONLY <2>2, <2>3, n \in Nat
<1>8. QED
  BY <1>7 DEF Max

LEMMA LargestIndex ==
  ASSUME NEW n \in Nat, NEW S, S \subseteq 1..n, n \in S
  PROVE  Max(S) = n
<1>1. n \in S /\ \A i \in S : n >= i
  OBVIOUS
<1>2. Max(S) \in S /\ \A i \in S : Max(S) >= i
  BY <1>1 DEF Max
<1>3. PICK k \in S : k = Max(S) /\ k >= n
  BY ONLY <1>1, <1>2
<1>4. k \in 1..n
  BY ONLY <1>3, S \subseteq 1..n
<1>5. k = n
  BY ONLY <1>3, <1>4, n \in Nat
<1>6. QED
  BY ONLY <1>3, <1>5

LEMMA LastOfAppend ==
  ASSUME received \in Seq(Messages), NEW m \in Messages, received' = Append(received, m)
  PROVE  /\ LastReceived(m.from)' = m.n
         /\ \A t \in Threads : t # m.from => LastReceived(t)' = LastReceived(t)
<1>1. /\ Len(received) \in Nat /\ DOMAIN received = 1..Len(received)
      /\ DOMAIN received' = 1..(Len(received) + 1)
      /\ received'[Len(received) + 1] = m
      /\ \A i \in 1..Len(received) : received'[i] = received[i]
  OBVIOUS
<1>2. LastReceived(m.from)' = m.n
  <2> DEFINE mine == {i \in DOMAIN received' : received'[i].from = m.from}
  <2>1. mine \subseteq 1..(Len(received) + 1) /\ Len(received) + 1 \in mine
    BY <1>1
  <2>2. Max(mine) = Len(received) + 1
    <3>1. Len(received) + 1 \in Nat
      BY <1>1
    <3>2. QED
      BY ONLY <2>1, <3>1, LargestIndex
  <2>3. QED
    BY <1>1, <2>1, <2>2 DEF LastReceived
<1>3. ASSUME NEW t \in Threads, t # m.from
      PROVE  LastReceived(t)' = LastReceived(t)
  <2>1. {i \in DOMAIN received' : received'[i].from = t}
          = {i \in DOMAIN received : received[i].from = t}
    BY <1>1, <1>3
  <2> DEFINE mine == {i \in DOMAIN received : received[i].from = t}
  <2>2. mine # {} => Max(mine) \in DOMAIN received
    <3>1. mine \subseteq 1..Len(received)
      BY <1>1
    <3>2. mine # {} => Max(mine) \in mine
      BY ONLY <1>1, <3>1, LargestExists
    <3>3. QED
      BY <3>2
  <2>3. mine # {} => received'[Max(mine)] = received[Max(mine)]
    BY <1>1, <2>2
  <2>4. QED
    BY <2>1, <2>3 DEF LastReceived
<1>4. QED
  BY <1>2, <1>3

\* Only the event loop of the browser adds to what has arrived.
LEMMA ReceivedGrows ==
  ASSUME [Next]_vars, ~Receive
  PROVE  received' = received
<1> USE DEF browserVars
<1>1. CASE SwapPageCache \/ ServePage \/ Expire \/ TriggerCloseListeners
  BY <1>1 DEF SwapPageCache, ServePage, Expire, TriggerCloseListeners
<1>2. CASE ConnectWs \/ OnClose \/ GiveUp \/ BrowserEvent \/ SendKeepalive
  BY <1>2 DEF ConnectWs, OnClose, GiveUp, BrowserEvent, SendKeepalive
<1>3. ASSUME NEW t \in Threads, CallJs(t) \/ Sender(t)
      PROVE  received' = received
  BY <1>3 DEF CallJs, Sender, ReadConnection, CachingSend, WebSocketSend
<1>4. ASSUME NEW s \in Sockets, Disconnect(s) \/ Pump(s) \/ PumpFails(s)
      PROVE  received' = received
  BY <1>4 DEF Disconnect, Pump, PumpFails
<1>5. ASSUME NEW s \in Sockets, Handler(s)
      PROVE  received' = received
  <2>1. CASE ReceiveHello(s) \/ ReadCurrentCC(s) \/ DrainCaching(s) \/ Forward(s)
    BY <2>1 DEF ReceiveHello, ReadCurrentCC, DrainCaching, Forward
  <2>2. CASE ReplaceWebSocket(s) \/ AddCloseHandler(s) \/ InstallWebSocket(s)
    BY <2>2 DEF ReplaceWebSocket, AddCloseHandler, InstallWebSocket
  <2>3. CASE HandleFrame(s) \/ EndOfFrames(s)
    BY <2>3 DEF HandleFrame, EndOfFrames
  <2>4. QED
    BY <1>5, <2>1, <2>2, <2>3 DEF Handler
<1>6. CASE UNCHANGED vars
  BY <1>6 DEF vars
<1>7. QED
  BY <1>1, <1>2, <1>3, <1>4, <1>5, <1>6 DEF Next

\* What a thread had delivered last has arrived.
LEMMA LastHasArrived ==
  ASSUME received \in Seq(Messages), NEW t \in Threads, LastReceived(t) # 0
  PROVE  \E x \in ToSet(received) : x.from = t /\ x.n = LastReceived(t)
<1> DEFINE mine == {i \in DOMAIN received : received[i].from = t}
<1>1. mine \subseteq 1..Len(received) /\ Len(received) \in Nat
  OBVIOUS
<1>2. mine # {} /\ LastReceived(t) = received[Max(mine)].n
  BY DEF LastReceived
<1>3. Max(mine) \in mine
  BY ONLY <1>1, <1>2, LargestExists
<1>4. received[Max(mine)] \in ToSet(received) /\ received[Max(mine)].from = t
  BY <1>3 DEF ToSet
<1>5. QED
  BY <1>2, <1>4

LEMMA LastUnchanged ==
  ASSUME received' = received
  PROVE  [t \in Threads |-> LastReceived(t)]' = [t \in Threads |-> LastReceived(t)]
BY DEF LastReceived

\* The browser gets the next message of its thread.
LEMMA ReceiveDelivers ==
  ASSUME DeliveryInv, Receive
  PROVE  \E p \in Threads : \E k \in accepted[p] : Feed!Deliver(p, k)
<1>1. /\ down[socket] # <<>> /\ received' = Append(received, Head(down[socket]))
  BY ReceivePipeline DEF DeliveryInv
<1>2. /\ received \in Seq(Messages) /\ down[socket] \in Seq(Messages)
      /\ accepted \in [Threads -> SUBSET Nat]
  BY DeliveryFacts DEF DeliveryInv, TypeOK
<1>3. PICK m \in Messages :
         m \in ToSet(down[socket]) /\ received' = Append(received, m)
  BY <1>1, <1>2, HeadTailTypes, MemberOfHeadTail
<1>4. m.from \in Threads /\ m.n \in Nat
  BY <1>3 DEF Messages
<1>5. m.n \in accepted[m.from]
  <2>1. m \in Stages[2]
    BY <1>3, StagesAre
  <2>2. Present(m)
    BY <2>1, <1>3, StagesArePresent, OneToSix DEF DeliveryInv
  <2>3. QED
    BY <1>3, <2>2 DEF DeliveryInv, AllGenuine
<1>6. m.n > LastReceived(m.from)
  <2>1. m.n > 0
    BY <1>4, <1>5 DEF DeliveryInv, Numbered
  <2>2. ASSUME LastReceived(m.from) # 0 PROVE m.n > LastReceived(m.from)
    <3>1. PICK x \in ToSet(received) : x.from = m.from /\ x.n = LastReceived(m.from)
      BY <1>2, <1>4, <2>2, LastHasArrived
    <3>2. Precede(Stages[1], Stages[2])
      BY OneToSix DEF DeliveryInv, Pipeline, InOrder
    <3>3. Precede(ToSet(received), ToSet(down[socket]))
      BY <3>2, StagesAre
    <3>4. x.n < m.n
      BY <1>3, <3>1, <3>3 DEF Precede
    <3>5. x \in Messages
      BY <1>2, <3>1 DEF ToSet
    <3>6. x.n \in Nat
      BY <3>5 DEF Messages
    <3>7. QED
      BY <1>4, <3>1, <3>4, <3>6
  <2>3. QED
    BY <2>1, <2>2
<1>7. /\ LastReceived(m.from)' = m.n
      /\ \A t \in Threads : t # m.from => LastReceived(t)' = LastReceived(t)
  BY <1>2, <1>3, LastOfAppend
<1>8. [t \in Threads |-> LastReceived(t)]'
        = [[t \in Threads |-> LastReceived(t)] EXCEPT ![m.from] = m.n]
  BY <1>4, <1>7
<1>9. accepted' = accepted
  BY DEF Receive, threadVars
<1>10. Feed!Deliver(m.from, m.n)
  BY <1>4, <1>5, <1>6, <1>8, <1>9 DEF Feed!Deliver
<1>11. QED
  BY <1>4, <1>5, <1>10

\* A send that is not refused takes the next message of its thread.
LEMMA SendAccepts ==
  ASSUME DeliveryInv, NEW t \in Threads, CachingSend(t) \/ WebSocketSend(t),
         accepted' # accepted
  PROVE  \E p \in Threads : \E k \in accepted'[p] : Feed!Accept(p, k)
<1>1. /\ tpc[t] = "send" /\ accepted \in [Threads -> SUBSET Nat]
      /\ count \in [Threads -> Nat]
  BY ConnectionAssumption DEF CachingSend, WebSocketSend, DeliveryInv, TypeOK
<1>2. accepted' = [accepted EXCEPT ![t] = @ \cup {count[t]}]
  BY DEF CachingSend, WebSocketSend
<1>3. /\ count[t] > 0 /\ \A j \in accepted[t] : j < count[t]
  BY <1>1 DEF DeliveryInv, Numbered
<1>4. received' = received
  BY DEF CachingSend, WebSocketSend, browserVars
<1>5. [p \in Threads |-> LastReceived(p)]' = [p \in Threads |-> LastReceived(p)]
  BY <1>4, LastUnchanged
<1>6. count[t] \in accepted'[t]
  BY <1>1, <1>2
<1>7. Feed!Accept(t, count[t])
  BY <1>2, <1>3, <1>5 DEF Feed!Accept
<1>8. QED
  BY <1>6, <1>7

LEMMA FeedInit == Init => Feed!Init
<1> SUFFICES ASSUME Init PROVE Feed!Init
  OBVIOUS
<1>1. received = <<>> /\ accepted = [t \in Threads |-> {}]
  BY DEF Init
<1>2. \A t \in Threads : LastReceived(t) = 0
  BY <1>1 DEF LastReceived
<1>3. [t \in Threads |-> LastReceived(t)] = [t \in Threads |-> 0]
  BY <1>2
<1>4. QED
  BY <1>1, <1>3 DEF Feed!Init

LEMMA FeedStep ==
  ASSUME DeliveryInv, [Next]_vars
  PROVE  [Feed!Next]_(Feed!feedVars)
<1>1. CASE Receive
  BY <1>1, ReceiveDelivers DEF Feed!Next
<1>2. CASE ~Receive /\ accepted' # accepted
  <2>1. PICK t \in Threads : CachingSend(t) \/ WebSocketSend(t)
    BY <1>2, AcceptedBySends
  <2>2. QED
    BY <1>2, <2>1, SendAccepts DEF Feed!Next
<1>3. CASE ~Receive /\ accepted' = accepted
  <2>1. received' = received
    BY <1>3, ReceivedGrows
  <2>2. [t \in Threads |-> LastReceived(t)]' = [t \in Threads |-> LastReceived(t)]
    BY <2>1, LastUnchanged
  <2>3. QED
    BY <1>3, <2>2 DEF Feed!feedVars
<1>4. QED
  BY <1>1, <1>2, <1>3

(***************************************************************************)
(* Delivery to the browser implements ProducerFeed: whatever connections   *)
(* replace one another in the session, every message that arrives was      *)
(* accepted from its thread, the messages of one thread arrive in the      *)
(* order it sent them, and none of them arrives twice.                     *)
(***************************************************************************)
THEOREM DeliversInOrder == Spec => FeedSpec
<1>1. Init => Feed!Init
  BY FeedInit
<1>2. DeliveryInv /\ [Next]_vars => [Feed!Next]_(Feed!feedVars)
  BY FeedStep
<1>3. Spec => []DeliveryInv
  BY DeliveryInvariant
<1>4. QED
  BY <1>1, <1>2, <1>3, PTL DEF Spec, FeedSpec, Feed!Spec

(***************************************************************************)
(* The events of the user, on their way from the browser to the server.    *)
(***************************************************************************)
\* What is under way on the websocket the browser uses, as far as the server still reads it.
Sent == IF socket = 0 THEN <<>> ELSE up[socket]

\* The events in a sequence of frames are in the order they happened; all events of A
\* happened before those of B.
Ascending(q) ==
  \A i, j \in DOMAIN q : i < j /\ q[i] \in Events /\ q[j] \in Events => q[i] < q[j]
Before(A, B) == \A x \in A \cap Events, y \in B \cap Events : x < y

EventOrder ==
  /\ Ascending(handled) /\ Ascending(Sent) /\ Ascending(preWSMsgQueue)
  /\ Before(ToSet(handled), ToSet(Sent))
  /\ Before(ToSet(handled), ToSet(preWSMsgQueue))
  /\ Before(ToSet(Sent), ToSet(preWSMsgQueue))
  /\ \A x \in (ToSet(handled) \cup ToSet(Sent) \cup ToSet(preWSMsgQueue)) \cap Events :
        x <= events
  /\ browser \in {"loading", "open"} => preWSMsgQueue = <<>>

LEMMA FrameTypes ==
  ASSUME TypeOK
  PROVE  /\ up \in [Sockets -> Seq(Frames)] /\ preWSMsgQueue \in Seq(Frames)
         /\ handled \in Seq(Frames) /\ Sent \in Seq(Frames)
         /\ events \in Nat /\ socket \in Nat
         /\ socket # 0 => socket \in Sockets /\ Sent = up[socket]
         /\ Hello \in Frames /\ Keepalive \in Frames
         /\ Hello \notin Events /\ Keepalive \notin Events
         /\ \A f \in Frames : f \in Int
<1>1. /\ up \in [Sockets -> Seq(Frames)] /\ preWSMsgQueue \in Seq(Frames \ {Hello})
      /\ handled \in Seq(Events) /\ events \in Nat /\ socket \in 0..NSockets
  BY ConnectionAssumption DEF TypeOK
<1>2. /\ Hello \in Frames /\ Keepalive \in Frames
      /\ Hello \notin Events /\ Keepalive \notin Events
      /\ \A f \in Frames : f \in Int
  BY ConnectionAssumption DEF Frames, Hello, Keepalive, Events
<1>3. preWSMsgQueue \in Seq(Frames)
  BY <1>1
<1>4. handled \in Seq(Frames)
  BY <1>1 DEF Frames
<1>5. socket \in Nat /\ (socket # 0 => socket \in Sockets /\ Sent = up[socket])
  BY <1>1, ConnectionAssumption DEF Sockets, Sent
<1>6. Sent \in Seq(Frames)
  BY <1>1, <1>5 DEF Sent
<1>7. QED
  BY <1>1, <1>2, <1>3, <1>4, <1>5, <1>6

\* r is a stretch of q.
Part(r, q) == \E d \in Nat : \A k \in DOMAIN r : k + d \in DOMAIN q /\ r[k] = q[k + d]

LEMMA PartOfFrames ==
  ASSUME NEW q \in Seq(Frames), NEW r \in Seq(Frames), Part(r, q)
  PROVE  ToSet(r) \subseteq ToSet(q) /\ (Ascending(q) => Ascending(r))
<1>1. PICK d \in Nat : \A k \in DOMAIN r : k + d \in DOMAIN q /\ r[k] = q[k + d]
  BY DEF Part
<1>2. ToSet(r) \subseteq ToSet(q)
  BY <1>1 DEF ToSet
<1>3. ASSUME Ascending(q) PROVE Ascending(r)
  <2>1. SUFFICES ASSUME NEW i \in DOMAIN r, NEW j \in DOMAIN r, i < j,
                        r[i] \in Events, r[j] \in Events
                 PROVE  r[i] < r[j]
    BY DEF Ascending
  <2>2. /\ i + d \in DOMAIN q /\ j + d \in DOMAIN q
        /\ r[i] = q[i + d] /\ r[j] = q[j + d]
    BY <1>1
  <2>3. i + d < j + d
    BY <2>1
  <2>4. QED
    BY <1>3, <2>1, <2>2, <2>3 DEF Ascending
<1>4. QED
  BY <1>2, <1>3

LEMMA TailAndCutAreParts ==
  ASSUME NEW q \in Seq(Frames)
  PROVE  /\ Part(q, q)
         /\ q # <<>> => Part(Tail(q), q)
         /\ \A j \in 0..Len(q) : Part(SubSeq(q, 1, j), q)
<1>1. Part(q, q)
  <2>1. 0 \in Nat /\ \A k \in DOMAIN q : k + 0 \in DOMAIN q /\ q[k] = q[k + 0]
    OBVIOUS
  <2>2. QED
    BY ONLY <2>1 DEF Part
<1>2. ASSUME q # <<>> PROVE Part(Tail(q), q)
  <2>1. 1 \in Nat /\ \A k \in DOMAIN Tail(q) : k + 1 \in DOMAIN q /\ Tail(q)[k] = q[k + 1]
    BY <1>2
  <2>2. QED
    BY ONLY <2>1 DEF Part
<1>3. ASSUME NEW j \in 0..Len(q) PROVE Part(SubSeq(q, 1, j), q)
  <2>1. DOMAIN SubSeq(q, 1, j) = 1..j /\ DOMAIN q = 1..Len(q) /\ Len(q) \in Nat
    OBVIOUS
  <2>2. \A k \in 1..j : k + 0 \in 1..Len(q) /\ SubSeq(q, 1, j)[k] = q[k + 0]
    OBVIOUS
  <2>3. QED
    BY ONLY <2>1, <2>2 DEF Part
<1>4. QED
  BY <1>1, <1>2, <1>3

\* A frame is sent after all others.
LEMMA AscendingAppend ==
  ASSUME NEW q \in Seq(Frames), NEW f \in Frames, Ascending(q), Before(ToSet(q), {f})
  PROVE  Ascending(Append(q, f))
<1>1. /\ DOMAIN Append(q, f) = 1..(Len(q) + 1) /\ DOMAIN q = 1..Len(q) /\ Len(q) \in Nat
      /\ Append(q, f)[Len(q) + 1] = f
      /\ \A i \in 1..Len(q) : Append(q, f)[i] = q[i]
  OBVIOUS
<1>2. SUFFICES ASSUME NEW i \in 1..(Len(q) + 1), NEW j \in 1..(Len(q) + 1), i < j,
                      Append(q, f)[i] \in Events, Append(q, f)[j] \in Events
               PROVE  Append(q, f)[i] < Append(q, f)[j]
  BY <1>1 DEF Ascending
<1>3. i \in 1..Len(q) /\ q[i] \in ToSet(q)
  BY <1>1, <1>2 DEF ToSet
<1>4. CASE j = Len(q) + 1
  BY <1>1, <1>2, <1>3, <1>4 DEF Before
<1>5. CASE j # Len(q) + 1
  <2>1. j \in 1..Len(q)
    BY <1>1, <1>5
  <2>2. QED
    BY <1>1, <1>2, <1>3, <2>1 DEF Ascending
<1>6. QED
  BY <1>4, <1>5

\* The head of a sequence in order comes before its tail.
LEMMA HeadBeforeTail ==
  ASSUME NEW q \in Seq(Frames), q # <<>>, Ascending(q)
  PROVE  Before({Head(q)}, ToSet(Tail(q)))
<1>1. /\ Len(q) \in Nat \ {0} /\ DOMAIN q = 1..Len(q) /\ Head(q) = q[1]
      /\ DOMAIN Tail(q) = 1..(Len(q) - 1)
      /\ \A i \in 1..(Len(q) - 1) : Tail(q)[i] = q[i + 1]
  OBVIOUS
<1>2. SUFFICES ASSUME NEW i \in 1..(Len(q) - 1), q[1] \in Events, q[i + 1] \in Events
               PROVE  q[1] < q[i + 1]
  BY <1>1 DEF Before, ToSet
<1>3. 1 \in DOMAIN q /\ i + 1 \in DOMAIN q /\ 1 < i + 1
  BY <1>1
<1>4. QED
  BY <1>2, <1>3 DEF Ascending

\* What a step has to show that handles no frame and sends none.
LEMMA EventsStayInOrder ==
  ASSUME TypeOK, TypeOK', EventOrder, UNCHANGED <<handled, preWSMsgQueue, events>>,
         Part(Sent', Sent), browser' \in {"loading", "open"} => preWSMsgQueue = <<>>
  PROVE  EventOrder'
<1>1. Sent \in Seq(Frames) /\ Sent' \in Seq(Frames)
  <2>1. up' \in [Sockets -> Seq(Frames)] /\ socket' \in 0..NSockets
    BY DEF TypeOK
  <2>2. socket' # 0 => socket' \in Sockets
    BY <2>1, ConnectionAssumption DEF Sockets
  <2>3. Sent' \in Seq(Frames)
    BY <2>1, <2>2 DEF Sent
  <2>4. QED
    BY <2>3, FrameTypes
<1>2. ToSet(Sent') \subseteq ToSet(Sent) /\ (Ascending(Sent) => Ascending(Sent'))
  BY <1>1, PartOfFrames
<1>3. QED
  BY <1>2 DEF EventOrder, Before

\* What the browser sends next comes after all that it has sent and not yet after
\* anything else.
LEMMA SendClientMessageOrder ==
  ASSUME TypeOK, EventOrder, NEW f \in Frames, NEW n \in Nat, f \in Events => f = n,
         f \in Events => n = events + 1, f \notin Events => n = events,
         browser \in {"open", "waiting"}, SendClientMessage(f),
         events' = n, UNCHANGED <<handled, browser, socket>>
  PROVE  EventOrder'
<1> USE FrameTypes
<1>1. n >= events
  OBVIOUS
<1>2. /\ Before(ToSet(handled), {f}) /\ Before(ToSet(Sent), {f})
      /\ Before(ToSet(preWSMsgQueue), {f})
      /\ f \in Events => f <= events'
  <2>1. ASSUME NEW x \in (ToSet(handled) \cup ToSet(Sent) \cup ToSet(preWSMsgQueue)) \cap Events,
               f \in Events
        PROVE  x < f
    <3>1. x <= events /\ f = events + 1 /\ x \in Int
      BY <2>1 DEF EventOrder, Events
    <3>2. QED
      BY <3>1
  <2>2. QED
    BY <2>1 DEF Before
<1>3. CASE browser = "open"
  <2>1. /\ preWSMsgQueue = <<>> /\ preWSMsgQueue' = <<>>
        /\ up' = up \/ up' = [up EXCEPT ![socket] = Append(@, f)]
    BY <1>3 DEF SendClientMessage, EventOrder
  <2>2. Sent' = Sent \/ Sent' = Append(Sent, f)
    BY <2>1 DEF Sent
  <2>3. ToSet(Append(Sent, f)) = ToSet(Sent) \cup {f} /\ Ascending(Append(Sent, f))
    BY <1>2, MemberOfAppend, AscendingAppend DEF EventOrder
  <2>4. ToSet(<<>>) = {} /\ Ascending(<<>>)
    BY DEF ToSet, Ascending
  <2>5. Ascending(Sent') /\ ToSet(Sent') \subseteq ToSet(Sent) \cup {f}
    BY <2>2, <2>3 DEF EventOrder
  <2>6. \A x \in (ToSet(handled) \cup ToSet(Sent') \cup {}) \cap Events : x <= events'
    <3>1. TAKE x \in (ToSet(handled) \cup ToSet(Sent') \cup {}) \cap Events
    <3>2. CASE x = f
      BY <1>2, <3>2
    <3>3. CASE x # f
      <4>1. x <= events /\ x \in Int
        BY <2>5, <3>3 DEF EventOrder, Events
      <4>2. QED
        BY <1>1, <4>1
    <3>4. QED
      BY <3>2, <3>3
  <2>7. Before(ToSet(handled), ToSet(Sent'))
    BY <1>2, <2>5 DEF EventOrder, Before
  <2>8. QED
    BY <1>3, <2>1, <2>4, <2>5, <2>6, <2>7 DEF EventOrder, Before
<1>4. CASE browser = "waiting"
  <2>1. /\ preWSMsgQueue' = Append(preWSMsgQueue, f) /\ Sent' = Sent
    BY <1>4 DEF SendClientMessage, Sent
  <2>2. /\ ToSet(preWSMsgQueue') = ToSet(preWSMsgQueue) \cup {f}
        /\ Ascending(preWSMsgQueue')
    <3>1. preWSMsgQueue \in Seq(Frames)
      OBVIOUS
    <3>2. Ascending(preWSMsgQueue)
      BY DEF EventOrder
    <3>3. QED
      BY ONLY <1>2, <2>1, <3>1, <3>2, f \in Frames, MemberOfAppend, AscendingAppend
  <2>3. \A x \in (ToSet(handled) \cup ToSet(Sent') \cup ToSet(preWSMsgQueue')) \cap Events :
           x <= events'
    <3>1. TAKE x \in (ToSet(handled) \cup ToSet(Sent') \cup ToSet(preWSMsgQueue')) \cap Events
    <3>2. CASE x = f
      BY <1>2, <3>2
    <3>3. CASE x # f
      <4>1. x <= events /\ x \in Int
        BY <2>1, <2>2, <3>3 DEF EventOrder, Events
      <4>2. QED
        BY <1>1, <4>1
    <3>4. QED
      BY <3>2, <3>3
  <2>4. /\ Before(ToSet(handled), ToSet(preWSMsgQueue'))
        /\ Before(ToSet(Sent), ToSet(preWSMsgQueue'))
    BY <1>2, <2>2 DEF EventOrder, Before
  <2>5. QED
    BY <1>4, <2>1, <2>2, <2>3, <2>4 DEF EventOrder
<1>5. QED
  BY <1>3, <1>4

\* The handler of the websocket in use takes the first frame.
LEMMA HandleFrameOrder ==
  ASSUME TypeOK, OneHandlerAtATime, EventOrder, NEW s \in Sockets, HandleFrame(s)
  PROVE  EventOrder'
<1> USE FrameTypes
<1>1. s = socket
  BY OnlyTheLatest DEF HandleFrame
<1>2. /\ Sent # <<>> /\ Sent = up[socket]
      /\ handled' = IF Head(Sent) \in Events THEN Append(handled, Head(Sent)) ELSE handled
      /\ UNCHANGED <<browser, socket, preWSMsgQueue, events>>
      /\ up' = [up EXCEPT ![socket] = Tail(@)]
  <2>1. s # 0
    BY ConnectionAssumption DEF Sockets
  <2>2. Sent = up[s]
    BY ONLY <1>1, <2>1 DEF Sent
  <2>3. /\ up[s] # <<>> /\ up' = [up EXCEPT ![s] = Tail(@)]
        /\ handled' = IF Head(up[s]) \in Events THEN Append(handled, Head(up[s])) ELSE handled
        /\ UNCHANGED <<browser, socket, preWSMsgQueue, events>>
    BY ONLY HandleFrame(s) DEF HandleFrame, browserVars
  <2>4. QED
    BY ONLY <1>1, <2>2, <2>3
<1>3. PICK f \in Frames : f = Head(Sent)
  BY <1>2, HeadTailTypes
<1>4. Sent' = Tail(Sent) /\ Tail(Sent) \in Seq(Frames)
  <2>1. socket # 0
    BY <1>1, ConnectionAssumption DEF Sockets
  <2>2. QED
    BY <1>2, <2>1, HeadTailTypes DEF Sent
<1>5. /\ ToSet(Sent) = {f} \cup ToSet(Sent')
      /\ Ascending(Sent') /\ Before({f}, ToSet(Sent'))
  <2>1. Ascending(Sent)
    BY DEF EventOrder
  <2>2. Part(Tail(Sent), Sent)
    BY <1>2, TailAndCutAreParts
  <2>3. Ascending(Tail(Sent))
    BY <1>4, <2>1, <2>2, PartOfFrames
  <2>4. QED
    BY <1>2, <1>3, <1>4, <2>1, <2>3, MemberOfHeadTail, HeadBeforeTail
<1>6. Before(ToSet(handled), {f})
  BY <1>5 DEF EventOrder, Before
<1>7. /\ Ascending(handled') /\ ToSet(handled') \subseteq ToSet(handled) \cup {f}
  <2>1. ToSet(Append(handled, f)) = ToSet(handled) \cup {f} /\ Ascending(Append(handled, f))
    <3>1. handled \in Seq(Frames)
      OBVIOUS
    <3>2. Ascending(handled)
      BY DEF EventOrder
    <3>3. QED
      BY ONLY <1>6, <3>1, <3>2, f \in Frames, MemberOfAppend, AscendingAppend
  <2>2. QED
    BY <1>2, <1>3, <2>1 DEF EventOrder
<1>8. /\ Before(ToSet(handled'), ToSet(Sent'))
      /\ Before(ToSet(handled'), ToSet(preWSMsgQueue))
      /\ Before(ToSet(Sent'), ToSet(preWSMsgQueue))
  BY <1>5, <1>7 DEF EventOrder, Before
<1>9. ToSet(handled') \cup ToSet(Sent') \cup ToSet(preWSMsgQueue')
        \subseteq ToSet(handled) \cup ToSet(Sent) \cup ToSet(preWSMsgQueue)
  BY <1>2, <1>5, <1>7
<1>10. QED
  BY <1>2, <1>5, <1>7, <1>8, <1>9 DEF EventOrder

\* What was queued follows the hello on the new websocket.
LEMMA ConnectWsOrder ==
  ASSUME TypeOK, EventOrder, ConnectWs
  PROVE  EventOrder'
<1> USE FrameTypes
<1>1. /\ browser' = "open" /\ socket' = socket + 1 /\ socket + 1 \in Sockets
      /\ up' = [up EXCEPT ![socket + 1] = <<Hello>> \o preWSMsgQueue]
      /\ preWSMsgQueue' = <<>> /\ UNCHANGED <<handled, events>>
  <2>1. /\ browser' = "open" /\ socket' = socket + 1 /\ socket < NSockets
        /\ up' = [up EXCEPT ![socket + 1] = <<Hello>> \o preWSMsgQueue]
        /\ preWSMsgQueue' = <<>> /\ UNCHANGED <<handled, events>>
    BY ONLY ConnectWs DEF ConnectWs, FirstFrames, FlushedQueue, handlerVars
  <2>2. socket + 1 \in Sockets
    <3>1. socket \in Nat /\ socket < NSockets
      BY <2>1
    <3>2. QED
      BY ONLY <3>1, ConnectionAssumption DEF Sockets
  <2>3. QED
    BY ONLY <2>1, <2>2
<1>2. Sent' = <<Hello>> \o preWSMsgQueue
  BY <1>1 DEF Sent
<1>3. /\ Len(preWSMsgQueue) \in Nat /\ DOMAIN preWSMsgQueue = 1..Len(preWSMsgQueue)
      /\ DOMAIN (<<Hello>> \o preWSMsgQueue) = 1..(Len(preWSMsgQueue) + 1)
      /\ (<<Hello>> \o preWSMsgQueue)[1] = Hello
      /\ \A i \in 2..(Len(preWSMsgQueue) + 1) :
            (<<Hello>> \o preWSMsgQueue)[i] = preWSMsgQueue[i - 1]
  BY FrameTypes
<1>4. \A i \in DOMAIN Sent' : Sent'[i] \in Events =>
         i - 1 \in DOMAIN preWSMsgQueue /\ Sent'[i] = preWSMsgQueue[i - 1]
  <2> SUFFICES ASSUME NEW i \in DOMAIN Sent', Sent'[i] \in Events
               PROVE  i - 1 \in DOMAIN preWSMsgQueue /\ Sent'[i] = preWSMsgQueue[i - 1]
    OBVIOUS
  <2>1. i \in 1..(Len(preWSMsgQueue) + 1) /\ i # 1
    BY <1>2, <1>3
  <2>2. i \in 2..(Len(preWSMsgQueue) + 1) /\ i - 1 \in 1..Len(preWSMsgQueue)
    BY ONLY <1>3, <2>1
  <2>3. QED
    BY ONLY <1>2, <1>3, <2>2
<1>5. Ascending(Sent')
  <2> SUFFICES ASSUME NEW i \in DOMAIN Sent', NEW j \in DOMAIN Sent', i < j,
                      Sent'[i] \in Events, Sent'[j] \in Events
               PROVE  Sent'[i] < Sent'[j]
    BY DEF Ascending
  <2>1. /\ i - 1 \in DOMAIN preWSMsgQueue /\ Sent'[i] = preWSMsgQueue[i - 1]
        /\ j - 1 \in DOMAIN preWSMsgQueue /\ Sent'[j] = preWSMsgQueue[j - 1]
    BY <1>4
  <2>2. i - 1 < j - 1
    BY <1>2, <1>3
  <2>3. QED
    BY <2>1, <2>2 DEF EventOrder, Ascending
<1>6. ToSet(Sent') \cap Events \subseteq ToSet(preWSMsgQueue)
  BY <1>4 DEF ToSet
<1>7. ToSet(<<>>) = {} /\ Ascending(<<>>)
  BY DEF ToSet, Ascending
<1>8. Before(ToSet(handled), ToSet(Sent'))
  BY <1>6 DEF EventOrder, Before
<1>9. \A x \in (ToSet(handled) \cup ToSet(Sent') \cup {}) \cap Events : x <= events
  BY <1>6 DEF EventOrder
<1>10. QED
  BY <1>1, <1>5, <1>7, <1>8, <1>9 DEF EventOrder, Before

LEMMA SeverSends ==
  ASSUME TypeOK, NEW s \in Sockets, NEW how, Sever(s, how), socket' = socket
  PROVE  Part(Sent', Sent)
<1>1. /\ up \in [Sockets -> Seq(Frames)] /\ Sent \in Seq(Frames)
      /\ socket # 0 => socket \in Sockets
  BY FrameTypes
<1>2. Part(Sent, Sent)
  BY <1>1, TailAndCutAreParts
<1>3. CASE link[s] # "up"
  <2>1. up' = up
    BY <1>3 DEF Sever, netVars
  <2>2. Sent' = Sent
    BY <2>1 DEF Sent
  <2>3. QED
    BY <1>2, <2>2
<1>4. CASE link[s] = "up"
  <2>1. PICK j \in 0..Len(up[s]) : up' = [up EXCEPT ![s] = SubSeq(@, 1, j)]
    BY <1>4 DEF Sever
  <2>2. CASE socket = s /\ socket # 0
    <3>1. Sent = up[s] /\ Sent' = SubSeq(up[s], 1, j)
      BY <1>1, <2>1, <2>2 DEF Sent
    <3>2. QED
      BY <1>1, <2>1, <3>1, TailAndCutAreParts
  <2>3. CASE socket # s \/ socket = 0
    <3>1. Sent' = Sent
      BY <1>1, <2>1, <2>3 DEF Sent
    <3>2. QED
      BY <1>2, <3>1
  <2>4. QED
    BY <2>2, <2>3
<1>5. QED
  BY <1>3, <1>4

LEMMA EventOrderStep ==
  ASSUME TypeOK, TypeOK', OrderlyInv, EventOrder, [Next]_vars
  PROVE  EventOrder'
<1> USE DEF cacheVars, bufferVars, netVars, handlerVars, sessionVars, browserVars,
            threadVars
<1>a. ASSUME UNCHANGED <<handled, browser, socket, preWSMsgQueue, events>>, Part(Sent', Sent)
      PROVE  EventOrder'
  BY <1>a, EventsStayInOrder DEF EventOrder
<1>b. ASSUME UNCHANGED <<handled, browser, socket, preWSMsgQueue, events, up>>
      PROVE  EventOrder'
  <2>1. Sent' = Sent
    BY <1>b DEF Sent
  <2>2. Part(Sent, Sent)
    BY FrameTypes, TailAndCutAreParts
  <2>3. QED
    BY <1>a, <1>b, <2>1, <2>2
<1>1. CASE SwapPageCache \/ ServePage \/ Expire \/ TriggerCloseListeners \/ Receive
  BY <1>b, <1>1 DEF SwapPageCache, ServePage, Expire, TriggerCloseListeners, Receive
<1>2. CASE ConnectWs
  BY <1>2, ConnectWsOrder
<1>3. CASE OnClose \/ GiveUp
  <2>1. /\ UNCHANGED <<handled, socket, preWSMsgQueue, events, up>>
        /\ browser' \in {"waiting", "reloaded"}
    BY <1>3 DEF OnClose, GiveUp
  <2>2. Sent' = Sent
    BY <2>1 DEF Sent
  <2>3. Part(Sent, Sent)
    BY FrameTypes, TailAndCutAreParts
  <2>4. QED
    BY <2>1, <2>2, <2>3, EventsStayInOrder
<1>4. CASE BrowserEvent
  <2>1. /\ browser \in {"open", "waiting"} /\ events < MaxEvents /\ events' = events + 1
        /\ SendClientMessage(events + 1) /\ UNCHANGED <<handled, browser, socket>>
    BY <1>4 DEF BrowserEvent
  <2>2. events \in Nat
    BY FrameTypes
  <2>3. events + 1 \in Events /\ events + 1 \in Nat
    BY <2>1, <2>2, ConnectionAssumption DEF Events
  <2>4. events + 1 \in Frames
    BY <2>3 DEF Frames
  <2>5. QED
    BY <2>1, <2>3, <2>4, SendClientMessageOrder
<1>5. CASE SendKeepalive
  <2>1. /\ browser \in {"open", "waiting"} /\ events' = events
        /\ SendClientMessage(Keepalive) /\ UNCHANGED <<handled, browser, socket>>
    BY <1>5 DEF SendKeepalive
  <2>2. events \in Nat /\ Keepalive \in Frames /\ Keepalive \notin Events
    BY FrameTypes
  <2>3. QED
    BY <2>1, <2>2, SendClientMessageOrder
<1>6. ASSUME NEW t \in Threads, CallJs(t) \/ Sender(t)
      PROVE  EventOrder'
  BY <1>b, <1>6 DEF CallJs, Sender, ReadConnection, CachingSend, WebSocketSend
<1>7. ASSUME NEW s \in Sockets, Disconnect(s)
      PROVE  EventOrder'
  <2>1. Sever(s, "down") /\ UNCHANGED <<handled, browser, socket, preWSMsgQueue, events>>
    BY <1>7 DEF Disconnect
  <2>2. QED
    BY <1>a, <2>1, SeverSends
<1>8. ASSUME NEW s \in Sockets, Pump(s) \/ PumpFails(s)
      PROVE  EventOrder'
  BY <1>b, <1>8 DEF Pump, PumpFails
<1>9. ASSUME NEW s \in Sockets, ReceiveHello(s)
      PROVE  EventOrder'
  <2>1. UNCHANGED <<handled, browser, socket, preWSMsgQueue, events>>
    BY <1>9 DEF ReceiveHello
  <2>2. CASE present
    <3>1. s = socket
      BY <1>9, OnlyTheLatest DEF ReceiveHello, OrderlyInv
    <3>2. up[s] # <<>> /\ up' = [up EXCEPT ![s] = Tail(@)]
      BY <1>9, <2>2 DEF ReceiveHello
    <3>3. Sent # <<>> /\ Sent' = Tail(Sent)
      <4>1. socket # 0 /\ up \in [Sockets -> Seq(Frames)]
        BY <3>1, FrameTypes, ConnectionAssumption DEF Sockets
      <4>2. QED
        BY <2>1, <3>1, <3>2, <4>1 DEF Sent
    <3>4. Part(Tail(Sent), Sent)
      BY <3>3, FrameTypes, TailAndCutAreParts
    <3>5. QED
      BY <1>a, <2>1, <3>3, <3>4
  <2>3. CASE ~present
    <3>1. Sever(s, "rejected")
      BY <1>9, <2>3 DEF ReceiveHello, Reject
    <3>2. QED
      BY <1>a, <2>1, <3>1, SeverSends
  <2>4. QED
    BY <2>2, <2>3
<1>10. ASSUME NEW s \in Sockets, ReadCurrentCC(s) \/ Forward(s) \/ AddCloseHandler(s)
       PROVE  EventOrder'
  BY <1>b, <1>10 DEF ReadCurrentCC, Forward, AddCloseHandler
<1>11. ASSUME NEW s \in Sockets, DrainCaching(s)
       PROVE  EventOrder'
  <2>1. UNCHANGED <<handled, browser, socket, preWSMsgQueue, events>>
    BY <1>11 DEF DrainCaching
  <2>2. CASE isRead[currentCC[s].id]
    <3>1. Sever(s, "down")
      BY <1>11, <2>2 DEF DrainCaching
    <3>2. QED
      BY <1>a, <2>1, <3>1, SeverSends
  <2>3. CASE ~isRead[currentCC[s].id]
    <3>1. up' = up
      BY <1>11, <2>3 DEF DrainCaching
    <3>2. QED
      BY <1>b, <2>1, <3>1
  <2>4. QED
    BY <2>2, <2>3
<1>12. ASSUME NEW s \in Sockets, ReplaceWebSocket(s)
       PROVE  EventOrder'
  <2>1. currentCC[s].id \in Sockets /\ Sever(currentCC[s].id, "down")
    BY <1>12, ConnectionTypes DEF ReplaceWebSocket, TypeOK
  <2>2. UNCHANGED <<handled, browser, socket, preWSMsgQueue, events>>
    BY <1>12 DEF ReplaceWebSocket
  <2>3. QED
    BY <1>a, <2>1, <2>2, SeverSends
<1>13. ASSUME NEW s \in Sockets, InstallWebSocket(s) \/ EndOfFrames(s)
       PROVE  EventOrder'
  BY <1>b, <1>13 DEF InstallWebSocket, EndOfFrames
<1>14. ASSUME NEW s \in Sockets, HandleFrame(s)
       PROVE  EventOrder'
  BY <1>14, HandleFrameOrder DEF OrderlyInv
<1>15. CASE UNCHANGED vars
  BY <1>b, <1>15 DEF vars
<1>16. QED
  BY <1>1, <1>2, <1>3, <1>4, <1>5, <1>6, <1>7, <1>8, <1>9, <1>10, <1>11, <1>12, <1>13,
     <1>14, <1>15 DEF Next, Handler

\* The server handles the events of the user in the order they happened and none of them
\* twice, provided a handler has finished before the browser opens its next websocket.
THEOREM EventsAreHandledInOrder ==
  ASSUME HalfOpen = FALSE
  PROVE  Spec => []EventsInOrder
<1>1. Init => EventOrder
  <2> SUFFICES ASSUME Init PROVE EventOrder
    OBVIOUS
  <2>1. /\ handled = <<>> /\ Sent = <<>> /\ preWSMsgQueue = <<>>
    BY DEF Init, Sent
  <2>2. ToSet(<<>>) = {} /\ Ascending(<<>>)
    BY DEF ToSet, Ascending
  <2>3. QED
    BY <2>1, <2>2 DEF EventOrder, Before
<1>2. TypeOK /\ TypeOK' /\ OrderlyInv /\ EventOrder /\ [Next]_vars => EventOrder'
  BY EventOrderStep
<1>3. TypeOK /\ EventOrder => EventsInOrder
  <2> SUFFICES ASSUME TypeOK, EventOrder PROVE EventsInOrder
    OBVIOUS
  <2>1. \A i \in DOMAIN handled : handled[i] \in Events
    BY DEF TypeOK
  <2>2. QED
    BY <2>1 DEF EventOrder, Ascending, EventsInOrder
<1>4. QED
  BY <1>1, <1>2, <1>3, OrderlyInvariant, TypeCorrect, PTL DEF Spec
=============================================================================
