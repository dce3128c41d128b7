# A TLA+ model of Kweb

Kweb runs the logic of a web page on the server. The page in the browser is a
thin client: the server sends it JavaScript to run, it reports events. What can
go wrong is in the traffic between the two and in the reactive state (`KVar`,
`ObservableList`) that decides what is sent. This directory models that part of
the code with TLA+, checks it with TLC, and proves some of its invariants with
TLAPS. `PROJECT.json` maps every definition to the lines it stands for.

## The system

| component | source (under `src/src/main/`) | state | operations | talks to |
|---|---|---|---|---|
| connection of one session | `kotlin/kweb/client/*.kt`, `kotlin/kweb/Kweb.kt`, `resources/kweb/kweb_bootstrap.js` | `clientState`, `clientConnection`, queue and `isRead` of each `Caching`, send buffer and pump of each `WebSocket`, close handlers; `socket`, `preWSMsgQueue` in the browser | serve the page, send, hello, install or replace a connection, end of a websocket, expiry; connect, close, reconnect, give up, keepalive | every server thread that sends; the browser |
| JavaScript function calls | `WebBrowser.kt`, `OnImmediateReceiver.kt`, `Server2ClientMessage.kt`, `Kweb.kt`, `kweb_bootstrap.js` | `cachedFunctions` on both sides, the thread-local catcher, `eventHandlers` | call with and without callback, batch, `onImmediate`, inline into the page, execute, answer | the connection |
| render | `state/render.kt` | `renderState`, `previousElementCreator`, listener, cleaner | loop of rounds, notification, cleanup | the KVar that calls it; batch |
| observable list and renderEach | `state/ObservableList.kt`, `state/renderEach.kt` | `items`, `closed`, listeners; `renderHandles`, the DOM between two markers | insert, change, delete, move, addAll, retainAll, close; the same on the DOM | render, function calls |
| KVal, KVar | `state/KVal.kt`, `state/KVar.kt` | value, listeners, close handlers | set, map, combine, close | render, elements |
| input elements | `ValueElement.kt`, `kweb_bootstrap.js` | value in the browser and in a KVar | setValue, input event with a diff | KVar, function calls |
| URL and routing | `WebBrowser.kt`, `prelude.kt`, `routing/` | `urlSource`, parameters | pushState, popstate, choice of a template | KVar, render |
| ElementCreator | `ElementCreator.kt`, `Element.kt`, `render.kt` | cleaners, `isCleanedUp` | create, onCleanup, cleanup | render, KVar |
| server, plugins, DSL, configuration, storage, cookies, upload | the rest | none, or fixed at start-up | | |

What makes it hard: sending threads, websocket handlers and the expiry of the
session share one field that is read, used and reassigned without a common
lock; websockets die at any moment and both ends find out at different times;
changes of a KVar re-enter the code that draws it; several steps of one
operation may be interrupted by an exception; ids are published before what
they name; two copies of a list are changed one after the other. `PROJECT.json`
lists these hazards at their lines, with the properties that watch them.

## The modules

| module | models | checked as |
|---|---|---|
| `ProducerFeed` | what a connection promises a sending thread: its messages arrive in order, none twice | refined by `KwebConnection` |
| `KwebConnection` | the connection of one session, both ends | `MC_KwebConnection`, `KwebConnection_proofs` |
| `JsFunctionCalls` | calls of JavaScript functions, from a thread of the server into the browser and back | `MC_JsFunctionCalls`, `JsFunctionCalls_proofs` |
| `KVarGraph` | KVals and KVars joined by map and combine, and the listeners a change travels through | `MC_KVarGraph`, `KVarGraph_proofs` |
| `KVarClosing` | `KVarGraph` with the close handlers run one by one | `MC_KVarGraph`, `KVarGraph_proofs` |
| `UrlState` | the URL of a page, on top of `KVarGraph`, and the history of the browser | `MC_UrlState`, `UrlState_proofs` |
| `InputSync` | an input element and its KVar: differences one way, texts the other | `MC_InputSync`, `InputSync_proofs` |
| `RenderLoop` | one call of `render`, and the threads that set its KVar | `MC_RenderLoop`, `RenderLoop_proofs` |
| `RenderEach` | an `ObservableList` and one `renderEach` of it | `MC_RenderEach`, `RenderEach_proofs` |
| `Cleaners` | the tree of ElementCreators, what they make, and how it is cleaned up | `MC_Cleaners`, `Cleaners_proofs` |

`UrlState` extends `KVarGraph` with the KVars of routing as its parameters, and
adds the browser: the KVars themselves are those that `kvar` checks. The other
modules are each about one component and take their neighbours by what they do.
`JsFunctionCalls` takes the connection for a queue that loses nothing;
`RenderLoop`, `RenderEach` and `Cleaners` take a call of a function for its effect
on the DOM; `InputSync` takes a change of its two KVars, with all their listeners
do, for one step; `Cleaners` takes one round of a fragment for a call that
creates a creator and runs the block, and leaves the states of that call, and
threads that race for it, to `RenderLoop`.

Several properties of this code hold only if the application has its threads
take turns, or if nothing throws, or if a network round trip is longer than a
few instructions of the server. Such a condition is a constant of the module
(`Concurrent`, `EarlyCalls`, `LongTrip`, `HalfOpen`, `Redirects`, `CleanersRedraw`,
`Unrenderable`, ...). The passing runs say under which conditions a property
holds. One run lifts such a condition, expects a violation, and has a finding in
`PROJECT.json` that says what the code does then; the others are listed below
with what happens without them.

### KwebConnection

State as in the code: `clientConnection` refers to a `Caching` or a `WebSocket`
by a record; objects are named by what creates them (respondKweb creates two
Cachings, the handler of websocket s creates the WebSocket and, in its finally
block, the Caching number s). A read of the volatile field and the call on the
object that was read are separate actions (`ReadConnection`, then `CachingSend`
or `WebSocketSend`); so are the steps of `listenForWebsocketConnection` between
its accesses to shared state: `ReceiveHello`, `ReadCurrentCC`, `DrainCaching`
or `ReplaceWebSocket`, `Forward`, `AddCloseHandler`, `InstallWebSocket`, then
`HandleFrame` until `EndOfFrames`. `Caching.send` and `Caching.read` hold a lock
and are one step each. The browser is single-threaded: one action per event.
Messages are numbers of their sender; payloads do not matter here.

`HalfOpen` says whether the browser may open a websocket before the server has
finished with the one before, which happens when a connection dies silently.

### RenderLoop

A change of the KVar, the loop it starts and a cleanup are calls, on a stack per
thread, since a block may change the KVar it is drawn from. One round is
`EraseBetweenSpans`, `NewElementCreator`, `BeginRound`, `GetElementCreator`,
`Draw`, `BlockReturns` or `BlockThrows`, `EndRound`, `SendBatch`; `Again`
decides about the next. An ElementCreator is a number, `live` the set of those
not cleaned up.

### RenderEach

A modification is applied to `items` under their lock (`Apply`, `Applies`), then
to `renderHandles` and the DOM by the listener under its own lock (`Notify`,
`Notified`), one modification per step; an index out of bounds ends the call
where the code throws. The DOM is the sequence of fragments before the end
marker. The two translations of a position, to an index of the list and to a
marker of the DOM, are written down apart, as in the code, and compared by
`DomShowsItems`.

The itemRenderer throws on the items of `Unrenderable`. `insertItem` has created
the two markers of the fragment by then and not yet put its handle into
`renderHandles` (`renderEach.kt:37-40`): the markers stay in the DOM (`Blank`), the
call ends, and nothing refers to them any more (`InsertFails`). If that happens while
the list is drawn first, renderEach ends before it adds its listener (`RenderItems`).
A renderer that throws on a change leaves the fragment where it is, since the setter
of the item's KVar logs the exception.
What the JavaScript of a call that threw has put into the DOM is taken as executed.

### JsFunctionCalls

A body of JavaScript is a model value with two attributes that matter: whether
it can be quoted (`Quotable`), and the id it is given. A call is `CallJsFunction`
(the look-up), `Define` (the id becomes visible), `Send`, and `AddCallback`
for a callback. A thread may be in a block whose calls are caught. The page is
served from the messages sent so far: their functions become part of its script
(`InPage`), which does not run at all if one of them is a syntax error.
Arguments are left out, and so are callbacks within `onImmediate`, which nothing
could answer.

In the browser `Execute` is one call of a message: a syntax error ends the message,
an exception in the function that runs does not. It is logged, nothing is sent for
the callback (`failed`), and the function stays in the cache
(`kweb_bootstrap.js:60-77`). With `debug` on, the server is sent an error report as
well, which is left out.

Four uses of the API are known to break the page or a function, and the properties
name them instead of excluding them from the run: a body left in a batch that threw,
or sent ahead of a handler although it cannot be quoted (`Lost`); a handler of the
page that records two calls, and a direct call, while the page is built, of a body
that a handler was the first to call (`pitfalls`, a history variable, as is
`recorded`). `FunctionsAreThere` and `PageComesAlive` say that nothing else goes
wrong.

### KVarGraph

Which KVars there are, and their listeners, is a parameter: `Mapped`,
`ReversiblyMapped` and `Combined` give the listeners that `KVal.map`, `KVar.map`
and `combine` register. A change is a stack of calls, since a listener sets the
next KVar: `Read` and `Assign` (Delegates.observable reads the old value, assigns
the new one, and only then is it checked that the KVar is open), `Notify`, then
one step per listener, in any order, as the hash map may have them. The iterator
has fetched the next listener when it calls one (`Make`), which matters once a
listener closes KVars. `Close` closes all that follows from it, in one step.

`KVarClosing` replaces that step by those of `KVal.close`: the KVar is marked closed
and loses its listeners, and then its close handlers run one by one, each removing
a listener from another KVar or closing another KVal, whose handlers run first
(`RunHandler`, `CloseReturns`). Which handlers a KVar has (`Handlers`) is read off
`KVal.map`, `KVar.map` and `combine`. `NoneOutlives` compares what they leave behind
with the listeners that have both ends open; neither is defined by the other. The
run `kvar` is about `KVarClosing`. That closing in steps implements closing at
once, `ClosingIsAtomic`, is proved for threads that take turns, and was checked once
by TLC on the graph of the run with one assignment (`MaxSets = 1`, `Settable = {b,
c}`, `Closable = {a, b, c}`: 4,663 states); on the run itself the check of the
refinement takes too long. A close tests and sets `closeReason` without a lock; the
model takes the test and the assignment as one step, and a thread that is in a
close as doing nothing else.

What the model shows of the code and its comments do not say: an exception in
any listener of a mapped KVal closes that KVal as if its mapper had thrown
(`KVal.kt:79-81`); a mapper that threw once leaves the mapped KVal as it was, and
the next value it can map closes it; setting a combined pair runs its listeners
with the new first and the old second part in between (`KVar.kt:117`), the one
re-entry that `NoReentry` allows.

### UrlState

The KVars are `urlSource`, `url`, the path and the template; the listeners that
reach the browser push the URL or draw the page of a template. `Navigate` is the
user going back or forward, which the browser reports with a popstate event;
`ReceiveMessage` takes a push into the session history. `crossed` is a history
variable: a push and a popstate were under way at the same time, and no change
has come through alone since.

### InputSync

The browser reports each input event as a difference (`GetDiffChanges`) to the
text it reported last, and forgets that one when the server writes. Texts are
sequences of letters, prefixes and postfixes are longest common ones, by their
definition rather than by the loops that find them. A change by the browser comes
back to the second KVar as one by the server (`ComesBack`), and is written to the
element again, whatever was typed since.

### Cleaners

An object is a creator, an element, a fragment or something to be closed; it has
the creators above it (`under`) and the elements and fragments around it
(`inside`), as the arguments of the constructors have them. `OnCleanup` registers
a cleaner with a creator, or with all above it as well. A cleanup is a call on the
stack that runs its cleaners one by one; the iterator has fetched the next one
(`NextCleaner`). The application makes objects, and has fragments drawn again,
when no call is in progress, in a block, and in a cleaner; it makes them with any
creator, one that is cleaned up included (`late`). A block that throws ends its
round, and its fragment is not drawn again (`BlockThrows`, `stuck`); in the first
round it keeps `render` from registering the cleaner (`render.kt:101-103`), which
counts as one that came too late. What is `page` depends on the
browser: an element whose host is gone is not put anywhere.

## Runs

Passing runs (`Spec` unless fairness is mentioned):

| run | instance | shows |
|---|---|---|
| `conn_delivery` | 1 thread, 2 messages, 3 websockets, half-open allowed | `TypeOK`; delivery implements `ProducerFeed`; nothing is lost while no websocket has gone down |
| `conn_orderly` | 2 threads, 3 websockets, 2 events, no half-open ones | the browser's websocket is the one the session sends to, a Caching is read once and refuses writes only during a hand-over; events arrive in order |
| `conn_live` | fair; 1 thread, 2 messages, 2 websockets, 1 keepalive, the session expires | no message waits for ever; a sender blocks only on the full buffer of a dead websocket; an open websocket is closed with its session; the browser reloads |
| `calls` | fair; 2 threads by turns, 2 bodies, 3 calls or blocks, functions and blocks that throw, a body that cannot be quoted, handlers with up to two calls | `TypeOK`; a call and a listener find their functions unless the text is lost; the page's script runs but for two pitfalls; results of calls that are under way arrive unless the function throws or the page has died |
| `kvar` | 8 KVars, 2 assignments, closing handler by handler, functions that throw | maps and combinations agree at rest; the browser is told the last value; closing leaves just the listeners between open ends; closed ends are left alone; no KVar changes while it tells of a change, but a pair |
| `url` | fair; 2 paths, 2 queries, 3 changes | `UrlTypeOK`; the address bar agrees unless a push and a popstate crossed; a popstate is not pushed back; the page follows the URL |
| `input` | fair; texts of up to 3 letters, 2 input events, 1 assignment | `TypeOK`; element and KVar agree at rest and do so again; until the server writes each event carries the text that was typed |
| `render_loop` | fair; 2 threads by turns, changes within the block, a value on which the block throws | `TypeOK`; the browser shows the value unless a round was abandoned; creators are cleaned up, one loop at a time, every call returns |
| `list_turns` | 2 threads by turns, items that can be rendered, any single modification or two in one call, addAll, close | `TypeOK`; the DOM is the list |
| `list_chaos` | 2 threads at once, wrong positions, retainAll, an item whose renderer throws | `renderHandles` has the fragments of the DOM, which has nothing else but the markers of items that could not be rendered |
| `cleaners` | 7 objects, blocks and cleaners that throw | `TypeOK`; a cleanup does what was promised, nothing is left, one round is shown |

Violated, with a finding in `PROJECT.json`:

| run | what it shows |
|---|---|
| `conn_clobbered` | the finally block of an old websocket handler replaces the connection of the new one (`Kweb.kt:343`) |

Bounds. Three websockets are the fewest with a reconnection from a reconnection,
so that a stale handler, a current one and a new one can meet; the buffer has
capacity 1 or 2 where the code has 1000, so that it is full at times. Two
threads are enough for a race on one field; a third would only wait. Lists have
up to three elements, so that a move has a place to go in both directions, and
`MaxCalls` counts modifications, so that two of them are either two calls or one.
Two bodies and three calls or blocks are what the first use, the second use and
the use inside a block of a function need. The graph of `kvar` has a chain of
each kind of link, a KVar with several listeners and one that is reached on two
ways; two assignments and closings between them are enough to close what the
first has changed while the second is under way. Three letters have a prefix, a
postfix and something between. Seven objects are enough for a fragment in an
element in a fragment, with something to be closed in each and a second round of
one (eight were checked once, without a difference). Counters (`MaxSends`,
`MaxSets`, `MaxCalls`, ...) bound how often the environment acts, never how the
code reacts. The runs under fairness are the smallest, since TLC checks them
without symmetry. `CHECK_DEADLOCK FALSE` because an application that has nothing
left to do, and a browser that has reloaded, stop.

Every property of a passing run has a mutant: a seeded fault beside the
definition it changes, under which the property fails.

Fairness. Coroutines, threads and browser timers that can go on do (`WF` on the
steps of each); nothing makes the application send, the user act, the network
fail, or a session expire. The keepalive is fair since `setInterval` drives it.
No strong fairness is assumed.

## What the code does when a condition is lifted

The constants that limit the passing runs each stand for a case in which the
code breaks a property. Besides the violated run these were met; a reader can
repeat each by changing the constant in the configuration named.

| change | in | violated | why |
|---|---|---|---|
| check `NeverWriteAfterRead` | `MC_conn_orderly` | a write to a Caching that has been read | `Kweb.kt:278` reads the queue before the new connection is assigned: a send in between gets the error of `ClientConnection.kt:59`, its message is dropped |
| check `ReadOnlyOnce` | `MC_conn_delivery` | two reads of one Caching | with half-open websockets two handlers find the same Caching (`Kweb.kt:274`) and the second gets the error of `ClientConnection.kt:70` |
| check `RedrawnAfterFailure` | `MC_render_loop` | the browser keeps an old value | after block has thrown (`render.kt:58`) renderState stays where it was, and later changes are only marked as pending |
| `CleanUpInBlock = TRUE` | `MC_render_loop` | `CreatorsAreCleanedUp` | the cleaner (`render.kt:103`) leaves the pending change, and the loop draws another round |
| `Concurrent = TRUE` | `MC_render_loop` | `OneLoopAtATime`, `Redrawn` | the listener reads renderState outside of its lock (`render.kt:82`): a change that falls between the end of a round and that of its loop is lost, while `docs/src/state.md:117` says that "the relevant part of the DOM will be redrawn instantly" |
| `Concurrent = TRUE` | `MC_list_turns` | `DomShowsItems` | listeners are called after the lock on the items is released (`ObservableList.kt:71`), so that two modifications may reach renderEach in the other order; `docs/src/state.md:133-134` promises "automatically updating the rendered DOM in response to changes in the list" |
| `EarlyCalls = TRUE` | `MC_list_turns` | `DomShowsItems` | renderEach draws a copy and adds its listener afterwards (`renderEach.kt:103`) |
| `RetainAll = TRUE` | `MC_list_turns` | `DomShowsItems` | retainAll clears the items behind the listener's back (`ObservableList.kt:255`) |
| `Careless = TRUE` | `MC_list_turns` | `DomShowsItems` | an index out of bounds in the second half of a call keeps the first half from the listener (`ObservableList.kt:60`) |
| `Unrenderable = {b}` | `MC_list_turns` | `DomShowsItems` | an item whose renderer throws stays in the list, and its markers in the DOM without a handle (`renderEach.kt:37-40`), so that later positions are off by one |
| `Concurrent = TRUE`, check `FrozenOnceClosed` | `MC_list_turns` | a closed list changes | closed is checked before the lock is taken (`ObservableList.kt:35`) |
| `Concurrent = TRUE` | `MC_calls` | `FunctionsAreThere` | the id is in the cache before the body is sent (`WebBrowser.kt:166`) |
| `Concurrent = TRUE`, `Bodies` of one, without the invariants | `MC_calls` | `ResultArrives` | `eventHandlers` is a HashMap (`RemoteClientState.kt:12`): an entry may be lost |
| drop `Stranded` from `Lost` | `MC_calls` | `FunctionsAreThere` | a batch that throws (`WebBrowser.kt:90`) drops bodies whose ids stay cached, and its catcher is not reset in a finally block (`WebBrowser.kt:89`) |
| drop `recorded` from `Lost` | `MC_calls` | `PageComesAlive`, `FunctionsAreThere` | createCacheFunctionJs does not escape the body (`WebBrowser.kt:282`), whose quotes and line breaks end the string it is put in |
| without `"called"` in `pitfalls` | `MC_calls` | `PageComesAlive` | a body that an onImmediate handler records first is sent ahead without its id (`WebBrowser.kt:185-187`); when the page calls it, the first message with that id has neither js nor parameters, and `Kweb.kt:437` writes `function(null) { null }` into the script of the page, which is a syntax error |
| without `"joined"` in `pitfalls` | `MC_calls` | `PageComesAlive` | recorded calls are joined without a semicolon (`OnImmediateReceiver.kt:29`) |
| `LongTrip = FALSE` | `MC_calls` | `ResultArrives` | the call is sent before its callback is registered (`WebBrowser.kt:231`) |
| `Concurrent = TRUE`, two threads, nothing to close | `MC_kvar_graph` | `NoReentry`, `Settled`, `ToldLast` | two setters tell the listeners in the other order than they assigned (`KVar.kt:28`) |
| the `Nullable...` definitions of `MC_KVarGraph` | `MC_kvar_graph` | `Settled` | a nullable KVar with a KVal mapped from it, and its `notNull(default)`: set to the default, it is turned into null by the reverse (`KVar.kt:104-106`), and the KVal may hear of the two changes in the other order and keep the default. `KVal.kt:57-58` says that the mapping function "will be called whenever this KVal changes, and the new KVal will be updated" |
| check `OnlyTheUserEdits` | `MC_input` | the element changes under the user's fingers | an event comes back as a write (`ValueElement.kt:84`); the comment at line 114 says "Only update the DOM element if the source of the change was the server" |
| `Redirects = TRUE` | `MC_url` | `NoReentry`, `UrlAgrees` | a page that sets the URL while it is drawn, as `docs/src/routing.md:104` has it, changes the path while its listeners are being told; those of them that have not been called yet hear of the two changes in the other order, so that `url` and the address bar may part |
| `Queries = {"none", "empty"}` | `MC_url` | `PopstatesAreNotPushed` | a question mark with nothing after it is lost on the way back from the path (`UrlToPathSegmentsRF.kt:13-18`), so that the URL the browser reports is changed and pushed again, which `WebBrowser.kt:322-325` wants to avoid |
| check `UrlAlwaysAgrees` | `MC_url` | address bar and `url` differ | when a push and a popstate cross, each end takes the change of the other; `WebBrowser.kt:358` says that url is "The URL of the page" |
| `CleanersRedraw = TRUE` | `MC_cleaners` | `OneRoundIsShown` | while the last round is cleaned up renderState still says that nothing is drawn (`render.kt:44`); a cleaner that sets the KVar draws a round, whose creator the outer loop overwrites without cleaning it up |
| check `QueuesForget` | `MC_cleaners` | cleaners are kept and run again | a cleaner registered with all creators above (`ElementCreator.kt:190`) is never removed from their queues; the queues of a page grow with every round |

`NeverWriteAfterRead`, `RedrawnAfterFailure`, `FrozenOnceClosed`,
`OnlyTheUserEdits`, `UrlAlwaysAgrees` and `QueuesForget` are definitions of the
modules that say so in their comments: they are what one would expect of the
code, they are not true of it, and no run checks them. `Redrawn` says the same as
`RedrawnAfterFailure` for executions in which no round was abandoned.
`FunctionsAreThere`, `PageComesAlive` and `ResultArrives` name the cases they leave
out, and four rows say what goes wrong in them.

The passing runs, therefore, do not watch every hazard of `PROJECT.json`: where a
property is not true of the code under the hazard, the hazard has a note that says
so, and names only the properties that remain checked under it.

## Proofs

TLAPS checks, for all values of the constants:

* `KwebConnection_proofs`: `TypeCorrect`; `SocketsAreClosable` (a websocket in
  service is known to the close handlers or closed already), inductive with a
  clause about the handlers on their way into service; and, assuming
  `HalfOpen = FALSE`, `InstalledWhileConnected`, `CachingIsReadOnce` and
  `RefusalsEndWithHandOver`. The last three are not inductive as they stand.
  They follow from `OrderlyInv`: only the handler of the latest websocket runs;
  the session refers to an unread Caching until that handler reads it, to that
  same Caching until it installs its websocket, and to the websocket until it
  ends, when it leaves a Caching nobody else has.
  Its second part is about delivery: `NothingIsLostWhileUp` and
  `DeliversInOrder` (the refinement of `ProducerFeed`), with half-open websockets
  or without, and `EventsAreHandledInOrder`, assuming `HalfOpen = FALSE`. The
  invariant of the refinement says how the connections are wired (`Wiring`), that
  a thread numbers its messages and each that is on its way was accepted
  (`Numbered`, `AllGenuine`), and that what can still reach the browser stands in
  six stages (`Stages`: arrived, under way, in the buffer of the websocket, in the
  hands of its handler, in the Caching taken from, in the Caching written to), so
  that of two messages of one thread the earlier one is ahead (`Pipeline`). A
  message that misses the hand-over is in a Caching nobody reads any more: it is
  lost, and `Stale` keeps it from overtaking. Events stand in three stages the
  other way (`EventOrder`).
* `RenderLoop_proofs`: `TypeCorrect` in any case; assuming `Concurrent = FALSE`,
  `OneLoop` and `ChangesAreDrawn`, and `NoCreatorIsLost` if no block cleans up its
  own fragment (`CleanUpInBlock = FALSE`). The invariant (`Turns`) lists what one
  thread can be doing: nothing, one call, or one call in the block of a round; and
  says in each case that what has been drawn is what the KVar holds, or a change
  is marked, or about to be. `CInv` adds that one creator is not cleaned up, or
  none between two rounds.
* `JsFunctionCalls_proofs`: `TypeCorrect` in any case, by counting: the ids given,
  the threads about to give one and those whose handler will get one are no more
  than the calls. `CallsFindFunctions` and `PageRuns` assume that threads take turns
  (`Concurrent = FALSE`) and nothing else: any body may fail to be quoted, handlers
  record any number of calls, functions and blocks throw. The invariant of the
  first (`Orderly`): each call on its way whose text is not lost finds its function among those
  the browser has and those defined ahead of it, in messages before it or earlier
  in its own, and so do the calls caught so far; a body whose id is cached is
  there, on its way, in the batch of the one thread that is busy, or lost. That of
  the second (`PInv`): as long as nothing of what the property excepts has happened,
  no call that will be inlined comes without its text before the one that has it. What a message
  does to the browser is a fold of the model; the lemmas `FoldedStep`,
  `MessageRuns` and `FlatSound` follow it step by step, by induction over the
  natural numbers.
* `RenderEach_proofs`: `TypeCorrect`, `HandlesAreMirrored` and `ListIsShown`. The
  inductive invariant of the first two adds that every modification in progress is
  well-formed and that the fragments of `renderHandles` are distinct and were
  created, and that what is left of the DOM without the blank markers of items that
  could not be rendered is those fragments in that order (`Mirrors`); each
  operation on the DOM names a marker that is there, so that it does to the
  fragments what is done to `renderHandles`. Nothing is assumed about turns, valid
  positions, closing or renderers. `ListIsShown` assumes what the run `list_turns`
  does: threads take turns and wait for renderEach, positions are within bounds,
  every item can be rendered, and retainAll is not used (`list_chaos` and the hazards say what happens otherwise).
  Its invariant (`ShowInv`): while a call applies its modifications there is a path
  of lists (`Path`) from what the browser shows over the list as it is; while it
  tells the listener, one from what the browser shows to the list. That a careful
  call has such a path (`CarefulPath`) follows the fold of the model step by step.
* `InputSync_proofs`: `TypeCorrect`, `TextsAgree` and `KeystrokesReachKVar`, for
  every alphabet, texts of any length, and any number of events and assignments.
  The lemma under them is `RoundTrip`: applying the difference of two texts to
  the first gives the second. The invariant of `TextsAgree` (`InSync`): the last
  write under way is the text of the KVar, previousInput is undefined or what the
  element shows, and if nothing is being written and the two differ, an event
  under way will change the KVar. That of `KeystrokesReachKVar` (`Chained`):
  while the server has not written, each event under way is the difference of
  the text typed to the one before it, or to none.
* `KVarGraph_proofs`: `ListenersGoWithTheirEnds` is about `KVarClosing`, for any
  graph of KVars, any functions, any number of threads at once, and close handlers
  in any order. `NoneOutlives` speaks of states in which no close is under way; the
  invariant (`Handled`) says what holds in between: a KVar is open, or closed, or a
  handler is left that will close it; a listener that an end has left has a handler
  left that will remove it, and none is removed whose ends are open and stay so.
  `CloseIsAtomic`, for threads that take turns: seen with what the handlers left will
  close and remove as closed and removed already (`AtOnce`), the first step of a
  close is the `Close` of `KVarGraph` and the handlers are stuttering steps. The
  theorems of the second part, which are about `KVarGraph`, hold of the handlers
  through it whenever no close is under way.
  The second part is about families of KVars and KVals made from each other by
  `KVal.map` and `KVar.map`, in any number and arrangement: `ChangesArrive`,
  `BrowserIsTold`, `NoneIsReentered`, `NothingReachesClosed` and `TypeCorrect`.
  They assume that threads take turns, `Family` (each KVar is made from at most one
  other, which was there before; a KVal is not set, and no KVar is mapped reversibly
  from it, as their types have it; listeners of the application tell the browser)
  and `Lenses` (the function of `KVar.map` does not throw, and its reverse makes
  something that shows what was set and changes nothing that shows it already; that
  of `KVal.map` may be any, and throw). Closing is not restricted: the application
  closes any of them between two changes, and functions that throw while one is
  under way. The invariant (`FInv`) says that the calls on a stack are a way
  (`Way`): a change climbs towards the KVars that others were made from, and
  descends from each to those made from it, so that no KVar that tells its
  listeners is on the way twice (`Slopes`); a listener that leads back is the other
  half of the reversible map the change came through (`Answer`), and finds the value
  there already (`NewOnTheWay`), which ends it. Two ends of a map agree, or a
  listener between them is still to be called (`EdgesAgree`); each call knows what
  the KVals it has not told yet still show (`Telling`).
* `UrlState_proofs`: `TypesCorrect` in any case, and `AddressAgrees` and
  `PopstatesStayInTheBrowser` assuming `Undisturbed`: threads take turns, no page
  redirects while it is drawn, and no URL ends in a question mark (without the
  first two, and for popstates the third, the table above has what happens; that
  the addresses agree with such URLs is model-checked only). The module assumes
  of the operators of `KVarGraph` that they are those of routing
  (`UrlGraphAssumption`), which TLC evaluates. The invariant (`UrlInv`) sees a
  change as a wave: each call on the stack sets its KVar to what the change wants
  for it, and two neighbouring KVars agree or a listener between them is still to
  be called (`Reaches`), whichever comes first. `urlSource` takes the author of
  the change on the way (`Signed`), which decides whether the browser is told.
  `InHistory` says where the browser will be once it has received what was sent:
  where the wave leads, unless the change and a popstate have crossed.
  `RoutingIsAFamily` shows that the KVars of routing meet `Family` and `Lenses`, so
  that the theorems of `KVarGraph_proofs` are about them as well.
* `Cleaners_proofs`: `TypeCorrect`, `CleanersKeepPromises`, `OneRoundAtATime` and
  `NothingRemains`, assuming `CleanersRedraw = FALSE`, for any number of objects
  nested in any way, with blocks and cleaners that throw. The invariant (`IInv`) says what
  the tree looks like (the creator of a round has the parent of its fragment, and
  lies in the elements around it), that what was made is registered with the
  creators above it, that what was promised is done, about to be done or in the
  rest of a queue that is being run, and that no two calls on the stack clean up
  one creator or draw one fragment: without that a round under way could be
  drawn over. `NothingRemains` follows by the smallest element that is left: it
  was made for an element that is left as well, or for a round that was cleaned
  up. The types need a second invariant (`Bounds`), because a queue is run by its
  index: a queue holds fewer cleaners than there are objects, counting one for
  each call of `render` that has yet to register its own.

Model-checked only: the properties under fairness (liveness is out of this prover's
reach); `Settled`, `ToldLast`, `NoReentry` and `ClosedIsCutOff` for graphs of
`KVarGraph` that are no families, such as that of `MC_KVarGraph`, which has a
combination and listeners of the application that set or close a KVar. Those
depend on the graph: a combination re-enters its pair, and a listener that closes
or sets a KVar at the wrong place breaks them, as does a map whose reverse is not
one of `Lenses` (the `Nullable...` row of the table above).

## Not modelled

* `ElementCreator` and its elements beyond their place in the page: attributes,
  classes, text, children by position. They are JavaScript text sent through the
  calls of `JsFunctionCalls`, and keep no state on the server.
* Route templates: which template matches a path is a lookup among those of its
  length, without state; `UrlState` has one template per path.
* `KVal.plus`, `gurl` and the KVars of single path segments: listeners of the
  kinds `KVarGraph` has, with other functions.
* Callbacks within `onImmediate`, ids that collide, debug tokens, refreshAllPages,
  and deletion of a render fragment by renderEach.
* Two races of ElementCreator: two threads that create the queue of cleaners at
  the same time (`ElementCreator.kt:192`), or that both find it not cleaned up
  (`ElementCreator.kt:200`). `Cleaners` is about one thread. So are two threads that
  find a KVar open and close it both (`KVal.kt:104`).
* The error reports of debug mode: what `debugErr` sends when a function throws, and
  the handler that logs it.
* The HTML and style DSL, plugins, configuration, storage, cookie and upload
  wrappers (no state of their own), ktor and the JVM.
* The JavaScript under `src/main/resources/kweb/static/plugins`, which is Fomantic
  UI and jQuery as their authors publish them: 61,000 lines that Kweb serves and
  neither calls for its own state nor changes. The JavaScript of Kweb itself is
  `kweb_bootstrap.js`: the connection, the messages and the differences of texts
  are modelled; its cookie functions and `hasClass` are one expression each.

What could come next: a composition of `KwebConnection` and `JsFunctionCalls`
(functions cached on the server for a browser whose websocket lost them), and
one of `RenderLoop` and `Cleaners`.
