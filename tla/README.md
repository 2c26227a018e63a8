# node-browser in TLA+

node-browser lets a browser run Node modules: fills in the browser (`client/`) make remote
calls over a connection to proxies on a server (`server/`), and the server pushes their
events back. These modules model how the two halves stay in agreement when answers,
events, timeouts, disconnects and disposals come in any order, check it with TLC, and prove
with TLAPS every safety property that the passing runs check.

Paths below are relative to the repository's `src/`.

## 1. Inventory

| Component | State | Operations | What makes it correct |
|---|---|---|---|
| Connection (`common/connection.ts`, supplied by the embedder; `test/helpers.ts` has one) | up, down, closed; messages in flight | send, onMessage, onDown, onUp, onClose | first-in first-out; a drop loses a suffix |
| Server (`server/server.ts`) | `status`, `lastDisconnect`, `proxyId`, `proxies` (with `disposePromise`, `disposeTimeout`, `disconnected`), methods still running | `handleMessage`, `runMethod`, `storeProxy`, `removeProxy`, `sendEvent`, disconnect and reconnect | every proxy is disposed of and deleted; nothing is sent for a session that is over; the done handler never throws |
| Client (`client/client.ts`) | `status`, `messageId`, listeners and timeouts of pending calls, `proxies` | `remoteCall`, `handleMessage`, `createProxy` and its done handler, disconnect and reconnect | every call settles once; fills hear the end of what they hold; a proxy belongs to one caller |
| ServerProxy (`common/proxy.ts`), child processes and streams (`server/child_process.ts`, `server/stream.ts`) | listeners on the native object, `exited` | `onEvent`, `onDone`, `bindDelayedEvent`, `dispose`, the methods | what is disposed of ends; a dispose() that waits is woken |
| Emitter (`common/events.ts`) | `listeners`, `idListeners` | `event`, `emit`, `dispose` | an emission calls the listeners it is for, once, while they change |
| Batch (`common/proxy.ts`, three uses in `client/fs.ts`) | queue, two timers, calls in flight | `add`, `flush` | every request is answered once, with its own answer, in bounded time |
| Arguments (`common/arguments.ts`) | none | `encode`, `decode` | what is sent is what arrives |
| ClientProxy and fills (`common/proxy.ts`, `client/child_process.ts`, `stream.ts`, `net.ts`, `fs.ts`, `os.ts`) | the proxy's promise and the calls held for it; `connected`, `killed`, `connecting`, `destroyed`, `listening`; a Server's `sockets` | Node's API, `addListener`, `catch`, `handleDisconnect` | what the program sees follows the native object; it hears of an end, and nothing after it |
| Callbacks (`storeCallback`, `sendCallback`, `runCallback`; one user, `onConnection`) | callbacks by proxy | store, send, run | called for as long as the proxy lives; what they pass is stored and announced before its events |
| Handshake | a promise | one message, one answer | settled before any answer to a call |
| Ping | a timer | send | goes on until the permanent close |

How they interact: a fill calls a method on a client proxy; `remoteCall` numbers it, sends
it and waits under its number for a success, a fail, 10 s or a disconnect. The server
decodes the arguments, runs the method on a stored proxy and answers. Encoding an answer
*stores* the proxies in it and binds their events; decoding it *creates* them on the
client. When a native object is done (a stream closes, a process exits or fails) the
server sends `done` and arms a 10 s timeout; the client answers with a `dispose` call;
whichever comes first disposes of the proxy. A disconnect fails every call and drops every
numbered proxy on the client, and silences and disposes of them all on the server, where a
live process is killed and waited for. Every client of a connection shares its server, its
proxies and its numbering, and hears every message.

What is hard: both sides act on their own on a disconnect, with messages of the old
session possibly still in flight when the next begins; three things race to dispose of a
proxy; and a listener that is removed one step too early is a promise that never settles.
`PROJECT.json` lists these hazards line by line.

## 2. Modules

| Module | Models |
|---|---|
| `Protocol` | messages, kinds of method, the connection (its two queues, drops, close) |
| `Server` | the server and the proxies it stores, with the native object behind each |
| `Client` | the clients |
| `NodeBrowser` | `Server` and `Client` over `Protocol`: `Next`, fairness, all the properties |
| `MCNodeBrowser` | symmetry of the clients, for TLC |
| `Calls` | the abstract promise of `remoteCall`: a call waits under a number, and ends once |
| `NodeBrowserProofs` | theorems about `NodeBrowser`: disposal, disconnects, calls |
| `AgreementProofs` | theorems about `NodeBrowser`: how clients and server agree about proxies |
| `FillKinds` | the fills and their proxies as tables: calls, flags, events, native objects |
| `Fill` | one fill, its ServerProxy and native object, with both ends of the connection |
| `Fills` | `Fill` over a lossy link: `Next` and the properties |
| `Watched` | the abstract promise of a fill to its program: a native object watched from afar |
| `DeliveryProofs` | theorems about `Fills`: what is told of a disconnect shows nothing more; what reaches a fill, and that what is owed to it is due |
| `ConnectionProofs` | theorem about `Fills`: the connections a Server counts |
| `Batch`, `Requests` | `Batch`, and the abstract promise to its callers that it implements |
| `BatchProofs` | the theorems about `Batch` |
| `Emitter` | the Emitter, with emissions that listeners change under way |
| `EmitterProofs` | the theorems about `Emitter` |
| `Arguments` | `encode`, JSON, `decode` |
| `MCArguments` | the values and stores that TLC tries |
| `ArgumentsProofs` | the theorems about `Arguments` |
| `QueueLemmas` | lemmas about sequences by index, and induction along one |

Definitions ending in nothing but a different body of a neighbour (`SilencedAgain`,
`NeverArmed`, `WaitSwapped`, ...) are plausible bugs of that neighbour; no action uses them.
They show that each property can fail.

### The core (`Protocol`, `Server`, `Client`, `NodeBrowser`)

*Atomicity.* One action is one turn of the event loop with the microtasks it queues:
a message with the method it runs as far as that goes without waiting for Node, a timer, an
event of a native object, a connection callback. JavaScript lets nothing in between. What
the code awaits across turns (a file, a write, a process that is to die) is a separate
action: `RunSettles`, `NativeEnds`.

*Server state.* `store[p]` says where a proxy is in the `proxies` map: not made, stored,
with its `disposePromise` set, or deleted. `bound` are those whose `onEvent` and `onDone`
listeners are in place, `waiting` those whose `dispose()` has its own listener in place,
`gone` is the `disconnected` flag, `timers` counts armed dispose timeouts (the code keeps
the newest only), `done` is a process's `exited`. The three module proxies are one,
`Module`, which is always there: they go only on a permanent close, after which
`handleMessage` discards everything. `runs` are methods that await something, `stale`
those of them for which `disconnected()` holds. `Date.now()` is abstracted to the one thing
`started <= lastDisconnect` asks: `tied` says that the clock still shows the millisecond of
the last disconnect.

*Methods* are abstracted to what they do on the server: `stat` and `write` settle later,
`open` makes a stream, `spawn` a process with or without a stream, `pipe` takes a proxy as
argument, `kill` signals, `dispose` is the client's own. A call is refused when its proxy is gone or has
no such method (`Runnable`); `kill` and `pipe` may fail. A native object ends whenever it
likes; a live process may report one error.

*Client state.* `calls` are calls with both listeners and the timeout in place; the three go
together in `Settle`. A call whose arguments cannot be encoded throws at its caller when its number is
already taken (`UserCallThrows`): it is settled as thrown, and never waits. `cProxies` is its `proxies` map without the modules. `settled`, `born`
and `heard` are histories for the properties; `leaked` is the server's.

*The connection* is not the repository's. The model asks of it what the code needs: order,
and callbacks on both sides. A message sent while it is down is lost, a drop loses any
suffix of either direction, and **what is left may still arrive after the drop, and after
the reconnect**: the code's claim to cope with that is the point of `stale`,
`gone` and the settled calls. `LinkUp` waits until both sides had their `onDown`
(`Noticed`): a transport that reported up before down would make `onDown` come last and
stay. There is no drop after the close.

`Calls` is what the fills rely on in all this. `NodeBrowser` implements it by `asked <- nextMsg`,
`pending <-` the numbers in `calls`, `ended <- settled`: a second answer, a late timeout or a
disconnect after either is a stutter.

The embedder's `send` is taken not to throw for a dispose call, whose arguments are none; what a throwing `send`
or encoding does to a user's call is `UserCallThrows`, and to a batch `FlushThrows`.

### The fills (`FillKinds`, `Fill`, `Fills`)

Where the core asks what becomes of calls and proxies, these ask what the program sees. One fill
of some kind has just been constructed: a child process, its stdout, a file read or written,
a socket of `createConnection` or of `new Socket()`, a watcher, or a `net.Server`. The client has
just connected too: its handshake goes ahead of the call that makes the proxy.

`promise` is the proxy's promise; `queued` are the calls `unpromisify` holds for it, which go
out, in order, in the turn it resolves (`Made`), fail with it (`Fails`, `ClientDown`), or come to nothing when it
resolves to no proxy (`MadeNull`): the stdout of a process whose stdio is not piped. `flags`
are what the fill says of itself (`connected`, `killed`, ...), by the tables `Raised` and `Cleared`. A
fill is `Attached` from the promise's resolution until its proxy is deleted: its listener in
`eventEmitter` is there as long. `heard` are the native events it emitted and `told` counts its
"disconnected"s, after which it emits an error and what its `handleDisconnect` does (`OnDisconnect`).

On the server `listeners[e]` counts the listeners that forward event `e`: those of `bindEvents` from
the moment the proxy is stored, and `data` once asked for (`BindData`), by `on()` or `pipe()`.
`bindDelayedEvent` of any other event does nothing, so `bind` stands for all of the constructor's.
A native object goes through phases and emits the events of `Steps(kind)`, which is Node's
behaviour and not the repository's: it may end, or fail and end, at any time; `data` and `end`
wait until it flows. A `net.Server` accepts connections while it listens. `onConnection`'s
callback carries the new socket's proxy, stored as its message is encoded, so its events
come after it; of such a Socket only what the Server counts is modelled: that it was announced, its
first error or close, and a call on it that failed. Node emits a server's `close` on the next tick after its last
connection is destroyed, which may be before that connection's own `close`: `ConnEnding` is the destruction,
`ConnStep` what is emitted of it, and a server may close between the two (`NativeStep`).

`Watched` is what all this is for, and knows nothing of calls, listeners or a link: once held, the fill shows
the events of the native object, each once and in order; it is let go of after an event that ends the object was shown, or by being
told "disconnected"; then it is silent. `Fills` implements it by `stage <- promise`, `happened <- produced`,
`shown <- heard`, `lost <- told`. What it says beyond `Faithful` is that a fill that was let go of is silent, and the order of the end: `Reports` sends the event
before "done", and only "done" makes the client call `dispose`, so a proxy is not let go of with its end unheard.

Left out because they repeat what is there: a process's messages (like `data`), `open`, `lookup`
and `timeout` events, which no flag depends on, and the calls that change nothing the fill or its
proxy keeps. Left to the core: results discarded within the millisecond, sharing, methods that settle
later, and the permanent close, which to a fill is a drop never followed by a reconnect.

### Batch

Time is in ticks. A timer that is due fires before time goes on: `BoundedWait` is a bound
on the code, not on a loaded event loop. `Requests` knows nothing of queues: each request is
asked, waits, and settles as its own. `Implements` is the refinement, by the variable
`outcome`.

`remoteCall` may throw instead of returning a promise: encoding an argument throws, or sending does, and neither the client's
`remoteCall` nor the proxy's trap is an async function. `flush` has then emptied the queue and has no promise to
catch (`FlushThrows`). From a timer the error is nobody's; from `add` it rejects the promise being made (`AddThrows`), and
only that one. The others wait for ever: `lost` remembers them, so that `HeldOnce` and `AllSettle` can say that
they are the only ones.

### Emitter

The walk follows JavaScript: `Map.forEach` visits entries present when it gets there,
`Array.forEach` the indices below the length at its start, skipping those that are gone.
`Unsubscribe` is `indexOf` and `splice` in the array that is the map's *then*; `dispose(id)` deletes an
entry, an empty array's too, and leaves a walk of that array to go on; `dispose()` replaces both.
Emissions do not nest: no listener in this code emits on the emitter that called it.

### Arguments

Values, encodings and JSON are one set of values, so that a plain object
`{type: "proxy", ...}` is really a candidate for confusion. JSON is by what it does: `NaN`
is null, undefined is null or goes, a Buffer has a `toJSON`, a Uint8Array is an object.

`Convert`, `Json` and `Revert` are functions by depth: what they do at depth `d` refers to what they do
at `d - 1`, by `ConvertWith`, `JsonWith` and `RevertWith`, one for each `convert` of the code. An
encoding puts what it encodes two levels lower, so JSON and decode go twice as deep. `store` is what
the callers of `encode` keep: a client its callbacks (`storeCallback`), the server its proxies
(`storeProxy`), each under the number of its place. `Parts` converts parts in their order, each with
what those before it left there, and stops at one that throws. One store serves one message; the numbering is that
of one kind, and `Stores` says what was kept before.

`Node` says which values there are, as the code tells them apart: an object with a function `onEvent` is
a proxy (`util.ts:5`) and one with a function `getTime` a date (`arguments.ts:101`), so neither is a plain
object here. An object with a message and a stack stays one, and is meant to arrive as an error (`LikeError`): the code says
so. A key `__proto__` is none: `values[key] =` at line 106 would set the prototype and drop it.

## 3. Runs

| Run | Instance | Shows |
|---|---|---|
| `Remote` | 1 client, 1 proxy, 2 user calls, 1 drop, all methods | `DisconnectSettlesAll`: no call or proxy outlives a session on the client. `DisposalCompletes`: a waiting disposal keeps its listener. `DoneHandlerSafe`: the done handler never throws. `FillHearsEnd`: a fill is told. `KillSafe`: kill() without a message is harmless but for a process that failed. `DoneChain`, `Lifecycle`: what may lead to a disposal, and the order of a proxy's life. `SilentOnceGone`: no event after a disconnect. |
| `Sharing` | 2 clients, 1 proxy, 1 call each, 1 drop, symmetric | `CallAccounting`: each call settles once. `CallsImplemented`: the refinement of `Calls`. `OwnedByCaller`, `ProxyAgreement`, `EventsFindProxy`: a proxy reaches its caller only, both ends agree on it, and no event overtakes its creation. |
| `Fair` | 1 client, spawn, 1 proxy, 1 drop, `FairSpec` | `DoneRemoved`: a proxy that is done is removed, whatever its client does. `DisconnectReaps`: one that was disconnected is removed, and not while its process lives, unless that reported an error. `NoZombies`: one that the server removed leaves the client. |
| `Fills` | one fill of each of the 8 kinds, each call the program can make once, 1 connection, 1 event of a kind that repeats, 1 drop, any call timing out | `Faithful`: what a fill emitted is what its native object emitted, in order and once, and until a drop the rest is on its way. `DeadStaysDead`: told of a disconnect, it shows nothing alive again, in the next session either. `EndHeard`: a fill whose proxy is removed heard of an end or is due to. `NoCallStranded`: no call is held for a promise that is settled, and until a drop each that waits has its answer coming. `ConnectionsAgree`: until a drop a Server counts every connection that has emitted no end, and what it counts is one, or due to be counted out. `GreetedFirst`: the handshake is answered before any proxy is held. `WatchedFromAfar`: the refinement of `Watched`. |
| `Batch` | 4 requests, flush at 4, 2 and 3 ticks | every request that waits is in the queue, in one batch under way, or lost with a batch that could not be sent; timers run exactly while something is queued; bounded wait; the refinement; all but the lost settle |
| `Emitter` | 3 listeners (1 always disposes itself, the others may do anything), 2 ids, 5 arrays | the arrays agree with who listens; nobody is called twice or for another's id; nobody is missed but behind a disposal in the same array |
| `Arguments` | 13 atoms, three levels, 4 stores | `ArrivesIntact`: values arrive as what they were, by value, and callbacks and proxies by the id they are kept under. |
| `TimersOwned`, `DiscardedDisposed`, `ShortcutJustified`, `AllEventsCaught`, `Uint8Arrays` | the smallest that show it | what a comment or type says and the code does not do (section 6) |

*Why the bounds suffice.* A second proxy never interacts with the first: the server's
steps touch one number, or all numbers alike. What two of anything could add is a second
dispose (by a timeout, by the client), a second disconnect (`Remote` has a drop and a
close) and a second session (one reconnect); all are within the bounds. `MaxCalls` bounds
user calls only; dispose calls of done handlers come on top. Two clients are what sharing
needs, and they start with equal message ids. In `Fills` a second drop would find nothing attached, and a second
connection never touches the first; one repeated event is enough to be lost, doubled or overtaken. `Batch` flushes at 4 of 4, so that both the count and the
timers get there first in some behaviour. Deadlock is not checked: a session that is over,
a batch that is answered or a value that has arrived has nothing left to do.

*Fairness* (`FairSpec`): messages that arrive are handled, callbacks and timers run, and a
process that `dispose()` signals ends: it sends SIGKILL after 5 s. No user call, no other end of a
native object, no drop and no reconnect is ever forced. `Fills` has safety properties only: what should happen in the
end is stated as what is due in every state (`EndHeard`, `NoCallStranded`). In `Batch`, timers fire and a
remote call settles, at the latest by its own timeout.

## 4. Proofs

Every safety property that a passing run checks, each refinement included, is a theorem for every
value of the constants that the assumption of its module admits; that of `Arguments` excludes one kind of value besides.

`NodeBrowserProofs` proves, for every set of clients, every bound and every set of user methods:

- `TypeCorrect`, `DisposalsComplete`, `DoneHandlersSafe`, `DoneChains`, `Lifecycles`,
  `DisconnectsSettleAll`: the invariants of the same subject that `Remote` checks;
- `SilentAfterDisconnect`: the action property `SilentOnceGone`.

- `CallsAccounted`: every number a client gave is of a call that waits or of one that settled, never
  both, never twice; and `CallsRefined`: the model implements `Calls`.

They assume only that the three bounds are naturals.

The inductive invariant `Inv` has a part for each group of variables. The hard one is
`DisposalCompletes` with `DoneHandlerSafe`: neither is inductive. A disconnect takes away
every listener of a proxy it silences, so if a disposal could be waiting *without* a
disconnect before it, the first disconnect would leave it waiting for ever. What starts a
disposal without a disconnect is a dispose timeout or a dispose call, and a process that is
done is disposed of at once. So `Inv` says where those come from (`DoneChain`): an armed
timeout, a `done` event in flight and a dispose call in flight are all of proxies that
*are* done, since `done` only grows. Hence whatever waits was disconnected (`Lifecycle`), and
`removeProxy` silences a proxy once only. `LEMMA RemoveDone` and `RemoveAll` are this
argument for `removeProxy`'s two uses; the others carry the chain through queues
that grow, shrink and are cut.

`SilentAfterDisconnect` follows from `Inv`: a disconnected proxy is not bound, and only what
is bound is forwarded. `DisconnectsSettleAll` needs types only.

`CallsAccounted` is an invariant of the clients alone, inductive once `calls` and `settled` are known to
hold records with ids below `nextMsg`. For `CallsRefined`, `SettlesOne` and `SettlesAll` show that removing a call from
`calls` is exactly the abstract `EndOne`, for an answer or a timeout, and `EndAll` for a disconnect.
Every client but the one that acts is unchanged, and a server step is a stutter.

`AgreementProofs` proves, on top of `Inv` and from the same assumptions, `OwnedByCallers`, `FillsHearEnds`,
`ProxiesAgree`, `EventsFindProxies` and `KillsSafe`. Its invariant `Agree` has six parts, which need each other:

- `AskedOnce`: a call is in one place. It is on its way, or running, or answered, or the owner of proxies; and
  its caller took no answer while it is in the first two. `GivenOnce`: so the answer that gives a proxy is the only one
  to its call, and its caller will still take it or has given up. `HeldByCaller` (`OwnedByCaller` with it) follows.
- `InOrder`: an event in a queue comes after the answer that gives its proxy, unless the client had it or gave up;
  and while the session lasts, whatever is stored was announced so. `ProxyAgreement` and `EventsFindProxy` are
  what this says of an empty queue and of its head. It survives a drop because a drop takes suffixes.
- `EndThenDone`: a "done" comes directly behind the event that ends its proxy, so the client that handles it has
  heard the end; and it is the only reason for a dispose call. That is `FillHearsEnd`.
- `LetGoDead`: what a client dropped is done, or being removed, unless both it and the transport are between
  sessions: its own `onDown` may come before the server's. `KillSafe` is what is left of it for a connected client.

The steps of the server are handled alike through `Ages` (what happens to the proxies there are) and `Makes` (what
a step that makes proxies sends).

`DeliveryProofs` proves first, for every set of kinds and connections and every bound:

- `DeadFillsStayDead`: the invariant `DeadStaysDead`. It is not inductive: a proxy's late answer or that of
  `getPid` would bring a fill back. `DeadInv` adds why neither can: once told, its proxy is gone and
  neither call is waited for (`Buried`), and a fill has the flags of its kind only, so what
  `handleDisconnect` emits clears all of them that say something lives (`AfterDisconnect`).

It assumes only that the kinds are among those of `FillKinds`.

It then proves, from the same assumption, `FillsTyped`, `FillsFaithful`, `FillsGreetedFirst`, `FillsEndHeard`,
`FillsNoCallStranded`, and `FillsWatched`: `Fills` implements `Watched`. The invariant, `Delivery`, has ten parts. `Sides`, `Waits` and `Bound` say who is connected, who waits
for what and that each event is forwarded by one listener; `Once`, that the proxy is made once, or comes to nothing once. `Ordered` puts the answer that gives the proxy before
all that is about it, so nothing is dropped for want of a fill. `Followed` is `Faithful` made inductive: what the fill
emitted, with what is on its way, begins what the native object emitted, and is all of it in the first session (`First`).
`Greeting` is about the order of two answers, and so of the two messages they answer. `Ends` puts the event that ends a proxy
before its "done", so a dispose call means that the end was heard; whatever removed the proxy, the end was then
heard, or is in the queue, or a disconnect is (`Due`). `Answered`: before a drop, a call that waits is in one
queue or its answer in the other. `Picked`, which takes a fill's events out of a queue, is a recursive function; what it
does to a queue that grows or is cut is proved by `UpTo` (below).
The refinement takes a step of the fill to one of `Watched` or to none: `Followed` after `Heard` says that what was shown is the next of what
happened (`HeardShows`), and `Waits` and `Ends` before an answer say that it settles the promise that waited, or lets go with an end
heard (`AnswerSettles`); a disconnect is a `Lose` or a `Settle`, and the server's steps but a native event's are stutters.

`ConnectionProofs` proves `FillsConnectionsAgree`. `Delivery` does not say enough: that a Server counts what it has
needs that, in the first session, `onConnection` is registered before `listen` is called (`Registers`); that
the end of a connection comes behind its beginning in the queue, each being there while the client has not handled it
(`Connecting`); and that a Server that is done accepts nothing more, and is let go of only when no connection is left to be announced
(`Closing`). Its close may come before the last connection's, so that its proxy is gone with the connection still counted:
the connection's own close, which has a proxy of its own, counts it out.

`EmitterProofs` proves, for every set of listeners and ids and any number of arrays, `EmitterTyped`, `ArraysAgreed`,
`CalledAtMostOnce`, `AddressedOnly` and `AllReceived`, from the assumptions that ids are not the marks the model uses for "every id", "not yet" and "gone", and that `MaxArrays` is a natural. The invariant,
`EInv`, says of the arrays that each listener is in one, at one index, dropped arrays included (`Single`), that no two places
share one (`Mapped`) and that the array of a place has who listens there (`Agreed`). Of an emission it says that whoever was
called is at no index it comes to (`Calling`), that the array it is in serves its own id or every id, now and later
(`Addressing`), and that whoever it is meant for was called or is ahead of it (`Receiving`, `Ahead`). A listener that changes the arrays while it
is called is one step; the proof takes it as the call, on the arrays as they were, and then the change. Every change, of
`event`, a splice or the two `dispose`s, does four things only (`Changed`): a listener comes once and goes once, what is
in an array moves down or is new at the end, the array a place gets is new, and where nobody is disposed of
nothing moves. The parts about an emission survive whatever does these four.

`QueueLemmas` has what the proofs about queues share. Its `UpTo` is induction up to a bound over a set of naturals
instead of a predicate, which the provers can instantiate; it rests on the library's theorem that `<` is well founded.

`BatchProofs` proves, for every set of requests and every `MaxCount`, `IdleTime` and `MaxTime`
that `BatchAssumption` admits:

- `TypesCorrect`, `TimersCover`, `WaitsBounded` and `AllHeldOnce`: the invariants `TypeOK`,
  `TimersCoverQueue`, `BoundedWait` and `HeldOnce`;
- `BatchRefinesRequests`: `Batch` implements `Requests`.

`HeldOnce` counts, and a count is not inductive by itself. `BatchInv` has `Apart` in its place: no request is
twice in the queue, no two carriers (the queue, the batches under way) share one, and those carried are
those that wait. `flush` moves the queue whole, and a batch settles whole, so both keep it;
`AllHeldOnce` then counts. `BoundedWait` needs `Aged`: the age of what waits and what the max timer has left
add up to no more than `MaxTime`, which no `add` undoes since it restarts the idle timer only.

`ArgumentsProofs` proves `Intact` for every depth, every set of keys and texts, every set of values of that
depth and every store, from `ArgumentsAssumption` (the keys and texts of encodings are among the keys and texts, `__proto__` is no key, what
is sent and kept are values) and without Uint8Arrays, for which `Uint8Arrays` shows that it fails. It
says nothing inductive of a step: encoding, JSON and decoding are one step each, and what there is to prove is
what three recursive functions do one after the other. `Goes` is that for one value: its encoding, carried by
JSON and decoded with what is kept, is what was meant. It is asked of *every* later store that keeps the same under the same
ids (`Extends`), as the parts behind a part are still to be kept when it has been. `Sound` says it of what `convert` returns, with what it kept.
`PartsSound` is induction along the parts, for any conversion that is sound for each of them; `PartsGo` is why a plain object is not
taken for the encoding it looks like: it is under a key of its own, where decode looks for no type. `ConvertSound` puts the
kinds together by induction on the depth. Both are inductions by `UpTo`, since the library's take a predicate. `Along`
carries `Sound` through the three steps.

Only model-checked: the liveness of `Fair` and `Batch`'s `AllSettle` (liveness is out of TLAPS's reach here).

## 5. What is not modelled, and the plan

Not modelled: the ping loop (a timer that rearms itself; nothing depends on its answers); the fs
methods (pass-through to Node); write, end and send of the fills beyond their being calls that settle once;
option shuffling in the fills; logging; client ids that collide (they are 32 random bits).

Abstracted: the microtask order that makes an event wait for its proxy's promise
(`ensureResolved`) and a spawn's error come after its listeners are bound; errors of a
native object nobody listens to any more; buffers.

What is left, in this order:

1. A fill whose writes are queued: `end()`'s callback against `finish`, `write`'s against the disposal.
2. Two fills on one native object (a Duplex's two halves) and pipes between two fills.

## 6. Where code and comments disagree

- `TimersOwned`: a process that fails and then exits arms two dispose timeouts; `removeProxy` clears the
  newest, and the other's `removeProxy` rejects with nobody to catch it (`server/server.ts:210`, `283`).
- `DiscardedDisposed`: a discarded result is disposed of only if it is itself a proxy; what
  spawn, fork and exec return is an object of proxies (`server/server.ts:166`). The run reaches it by a call
  that starts after a reconnect but in the millisecond of the disconnect, which
  `started <= lastDisconnect` takes for interrupted (line 161). Such a call is also never answered.
- `ShortcutJustified`: an error of a process that lives on is taken for its end. The server removes its proxy without
  a kill (its dispose timeout fires, or the client asks), the client drops it when its own dispose call is answered or times
  out, and `kill()` then resolves without a message while the process runs (`client/client.ts:211`).
- `AllEventsCaught`: a process's `close` comes after its `exit`, and is lost when the proxy, done at
  exit, is disposed of first, by the client's dispose call or the server's dispose timeout (`client/client.ts:332`).
- `Uint8Arrays`: a Uint8Array that is no Buffer is encoded and cannot be decoded (`common/arguments.ts:97`).

Not disagreements with any comment, but visible in `Fill`: a process that exits before its `getPid` is answered is
`connected` from then on; `connect()` on a Socket whose proxy is gone leaves it `connecting`; and a spawn that is
pending at a disconnect, or fails, gives its fill an error and never an exit, for which `exec`'s callback waits. In
`Batch`: requests of a batch whose `remoteCall` throws are never answered (`common/proxy.ts:345`).

Two more are visible in the modules and harmless: a call on a disposed proxy is answered by an exception and
then a success (`Refuse`), and an emission without an id misses the listener behind one that
disposes itself (`Emitter`'s `AllReceive` says when), which never happens here since such
listeners have their id to themselves.
