------------------------------ MODULE KVarClosing ------------------------------
(***************************************************************************)
(* KVarGraph with every close in its steps.  KVal.close drops the          *)
(* listeners of the KVar and then runs its close handlers, which map and   *)
(* combine have registered with it.  A handler removes a listener from     *)
(* another KVar, or closes another one, whose handlers run before the      *)
(* rest.  The thread does nothing else before all of them have run.        *)
(***************************************************************************)
EXTENDS KVarGraph

VARIABLE
  closing  \* per thread, the handlers left of each close it is in

closingVars == <<vars, closing>>

ClosingInit == Init /\ closing = [t \in Threads |-> <<>>]

-----------------------------------------------------------------------------
(***************************************************************************)
(* The handlers.  They run in the order they were registered in; here, in  *)
(* any order.                                                              *)
(***************************************************************************)
RemoveListener(l) == [does |-> "remove", listener |-> l]
CloseEnd(l) == [does |-> "close", listener |-> l]

\* Seeded fault: KVal.map leaves its listener with the source.
RemovesNoMapped(l, k) == l.kind \in Links \ {"map"} /\ l.to = k
\* Seeded fault: of a reversible map, the mapped KVar leaves the source its listener.
RemovesNoForward(l, k) == l.kind \in Links \ {"forward"} /\ l.to = k
\* Does the close of k remove l?  One way of a reversible map is removed by both.
Removes(l, k) == l.kind \in Links /\ (l.to = k \/ (l.kind = "forward" /\ l.of = k))

Handlers(k) ==
  {RemoveListener(l) : l \in {m \in Listeners : Removes(m, k)}}
    \cup {CloseEnd(l) : l \in {m \in Closers : m.of = k}}

\* k.close(reason), but for its handlers.
CloseAlone(k, reason) ==
  IF IsClosed(k)
  THEN UNCHANGED <<closeReason, listening>>
  ELSE /\ closeReason' = [closeReason EXCEPT ![k] = reason]
       /\ listening' = listening \ ListenersOf(k)

\* Thread t has those handlers left, and before them those of what it closes now.
Leave(t, handlers) ==
  \/ /\ closeReason' = closeReason
     /\ closing' = [closing EXCEPT ![t] = handlers]
  \/ \E k \in KVars :
       /\ ~IsClosed(k) /\ IsClosed(k)'
       /\ closing' = [closing EXCEPT ![t] = Append(handlers, Handlers(k))]

RunHandler(t) ==
  /\ closing[t] # <<>>
  /\ \E h \in Last(closing[t]) :
       /\ IF h.does = "remove"
          THEN listening' = listening \ {h.listener} /\ UNCHANGED closeReason
          ELSE CloseAlone(h.listener.to, "source")
       /\ Leave(t, Append(Front(closing[t]), Last(closing[t]) \ {h}))
  /\ UNCHANGED <<value, told, stack, sets>>

CloseReturns(t) ==
  /\ closing[t] # <<>> /\ Last(closing[t]) = {}
  /\ closing' = [closing EXCEPT ![t] = Front(@)]
  /\ UNCHANGED vars

-----------------------------------------------------------------------------
\* What a thread does that is in no close.
Closed == closing = [t \in Threads |-> <<>>]

ProceedInSteps(t) ==
  \/ Read(t) \/ Assign(t) \/ Notify(t) \/ NoneLeft(t) \/ Tell(t)
  \/ SetOther(t) \/ SetBoth(t)
  \/ AssignClosedBy(t, CloseAlone) \/ ListenerThrowsBy(t, CloseAlone)
  \/ CloseListenerBy(t, CloseAlone) \/ UpdateMappedBy(t, CloseAlone)

CallInSteps(t) ==
  /\ Concurrent \/ Closed
  /\ \/ \E k \in Settable : \E v \in ValuesOf[k] : SetValue(t, k, v)
     \/ \E k \in Closable : CloseCalledBy(t, k, CloseAlone)

ClosingNext ==
  \E t \in Threads :
    \/ RunHandler(t) \/ CloseReturns(t)
    \/ /\ closing[t] = <<>> /\ (ProceedInSteps(t) \/ CallInSteps(t))
       /\ Leave(t, <<>>)

ClosingSpec == ClosingInit /\ [][ClosingNext]_closingVars

-----------------------------------------------------------------------------
\* When no close is under way, everything made from a closed KVar is closed, and just
\* those listeners are registered whose ends are open: the handlers that map and
\* combine register with both sides leave none behind, and take no other away.
NoneOutlives ==
  Closed =>
    /\ \A l \in Closers : IsClosed(l.of) => IsClosed(l.to)
    /\ listening =
         {l \in Listeners : ~IsClosed(l.of) /\ (l.kind \in Links => ~IsClosed(l.to))}

-----------------------------------------------------------------------------
(***************************************************************************)
(* Seen as done at once, a close has closed what its handlers will close,  *)
(* and removed what they, and the handlers of that, will remove.           *)
(***************************************************************************)
Left == UNION {UNION Range(closing[t]) : t \in Threads}

Doomed ==
  {k \in Made : ~IsClosed(k) /\ \E h \in Left : h.does = "close" /\ k \in ClosedWith[h.listener.to]}

ReasonAtOnce == [k \in KVars |-> IF k \in Doomed THEN "source" ELSE closeReason[k]]

ListeningAtOnce ==
  {l \in listening :
     /\ l.of \notin Doomed /\ RemoveListener(l) \notin Left
     /\ \A k \in Doomed : RemoveListener(l) \notin Handlers(k)}

AtOnce == INSTANCE KVarGraph WITH
  closeReason <- ReasonAtOnce, listening <- ListeningAtOnce

\* The close handlers of map and combine, run one by one and within each other, do
\* what KVarGraph says of a close: all that was made from the KVar is closed with
\* it, and of the listeners just those are gone that would outlive an end.
ClosingIsAtomic == AtOnce!Spec

=============================================================================
