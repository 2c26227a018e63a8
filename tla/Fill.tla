-------------------------------- MODULE Fill --------------------------------
(***************************************************************************)
(* One fill of a client (common/proxy.ts ClientProxy and the classes in    *)
(* client/) from its constructor to its end, with the ServerProxy behind   *)
(* it, the native object behind that, and the connection between them.     *)
(* The client has just connected: its handshake is on its way too.         *)
(***************************************************************************)
EXTENDS FillKinds

CONSTANTS
    Kinds,      \* the kinds of fill there may be
    Conns,      \* the connections a net.Server may accept
    MaxRepeats, \* bound: how many events of a repeated kind the native object emits
    MaxDowns    \* bound: how many times the connection drops

ASSUME KindsAssumption == Kinds \subseteq AllKinds
ASSUME RepeatsAssumption == MaxRepeats \in Nat
ASSUME DownsAssumption == MaxDowns \in Nat

VARIABLES
    kind,       \* the kind of the fill
    link,       \* the connection: "up" or "down"
    downs,      \* how many times it dropped
    c2s,        \* calls on their way to the server, in order
    s2c,        \* messages on their way to the client, in order
    cUp,        \* the client's status is Connected
    greeted,    \* the handshake promise resolved
    promise,    \* the proxy's promise: "asked", "held", "failed", "null" when it resolved
                \* to none, or "gone" when the client has deleted the proxy
    queued,     \* calls that unpromisify holds until the promise settles
    pending,    \* calls that wait for an answer
    used,       \* calls the program made (bound: each once)
    flags,      \* the fill's flags
    heard,      \* ghost: the native events the fill emitted, in order
    told,       \* ghost: how many times it emitted "disconnected"
    sockets,    \* a Server's sockets
    unheeded,   \* ghost: those deleted because a call on them failed
    sUp,        \* the server's status is Connected
    srv,        \* the ServerProxy: "none", "stored" or "removed"
    listeners,  \* listeners[e]: listeners that forward native event e
    timer,      \* its dispose timeout is armed
    phase,      \* the native object's phase
    flowing,    \* the native stream flows
    registered, \* onConnection registered its listener
    conn,       \* conn[s]: accepted connection s: "none", "open", "ending" (destroyed, and
                \* nothing emitted yet), "erred" or "closed"
    produced    \* ghost: the native events since the proxy was stored

linkVars == <<link, downs>>
clientVars == <<cUp, greeted, promise, queued, pending, used, flags, heard, told, sockets, unheeded>>
nativeVars == <<phase, flowing, registered, conn, produced>>
serverVars == <<sUp, srv, listeners, timer, nativeVars>>
vars == <<kind, linkVars, c2s, s2c, clientVars, serverVars>>

\* "of" is the call a success, a null or a fail answers, an event's name, or a
\* connection; a null is the success that gives no proxy.
Message == [is: {"init", "success", "null", "fail", "event", "done", "connection", "socket"},
            of: Calls \union Events \union Conns]
Msg(is, of) == [is |-> is, of |-> of]
InFlight(q) == {q[i] : i \in DOMAIN q}

Deliver(q, ms) == IF link = "up" THEN q \o ms ELSE q
Cut(q) == {SubSeq(q, 1, n) : n \in 0 .. Len(q)}

GreetLast == <<"make", "handshake">>
Greetings == <<"handshake", "make">>

Init ==
    /\ kind \in Kinds
    /\ link = "up"
    /\ downs = 0
    /\ c2s = Greetings
    /\ s2c = <<>>
    /\ cUp = TRUE
    /\ greeted = FALSE
    /\ promise = "asked"
    /\ queued = Constructor(kind)
    /\ pending = {"make"}
    /\ used = {}
    /\ flags = IF kind = "connection" THEN {"connecting"} ELSE {}
    /\ heard = <<>>
    /\ told = 0
    /\ sockets = {}
    /\ unheeded = {}
    /\ sUp = TRUE
    /\ srv = "none"
    /\ listeners = [e \in Events |-> 0]
    /\ timer = FALSE
    /\ phase = "none"
    /\ flowing = FALSE
    /\ registered = FALSE
    /\ conn = [s \in Conns |-> "none"]
    /\ produced = <<>>

-----------------------------------------------------------------------------
(* The program calls the fill.                                             *)

\* unpromisify: a call waits for the promise.
Queue(n) ==
    /\ promise = "asked"
    /\ queued' = Append(queued, n)
    /\ flags' = After(kind, flags, n)
    /\ UNCHANGED <<c2s, pending>>

Forward(n) ==
    /\ promise = "held" \/ (promise = "gone" /\ cUp /\ n \notin Shortcuts)
    /\ c2s' = Deliver(c2s, <<n>>)
    /\ pending' = pending \union {n}
    /\ flags' = After(kind, flags, n)
    /\ UNCHANGED queued

\* Nothing is sent: there never was a proxy, or there is no need.
Skip(n) ==
    /\ promise = "null" \/ (promise = "gone" /\ n \in Shortcuts)
    /\ flags' = After(kind, flags, n)
    /\ UNCHANGED <<c2s, queued, pending>>

\* The promise failed, or the client is not connected.
Reject(n) ==
    /\ promise = "failed" \/ (promise = "gone" /\ ~cUp /\ n \notin Shortcuts)
    /\ flags' = After(kind, After(kind, flags, n), "error")
    /\ UNCHANGED <<c2s, queued, pending>>

UserCall(n) ==
    /\ n \in UserCalls(kind) \ used
    /\ used' = used \union {n}
    /\ Queue(n) \/ Forward(n) \/ Skip(n) \/ Reject(n)
    /\ UNCHANGED <<kind, linkVars, s2c, cUp, greeted, promise, heard, told, sockets, unheeded, serverVars>>

-----------------------------------------------------------------------------
(* The client receives m, the message at the head of the queue.            *)

Takes(m) == cUp /\ s2c # <<>> /\ m = Head(s2c) /\ s2c' = Tail(s2c)

ClientDiscard ==
    /\ ~cUp
    /\ s2c # <<>>
    /\ s2c' = Tail(s2c)
    /\ UNCHANGED <<kind, linkVars, c2s, clientVars, serverVars>>

Greet(m) ==
    /\ Takes(m)
    /\ m.is = "init"
    /\ greeted' = TRUE
    /\ UNCHANGED <<kind, linkVars, c2s, cUp, promise, queued, pending, used, flags, heard, told,
                   sockets, unheeded, serverVars>>

\* The call that makes the proxy resolves: the fill binds its events, and the calls
\* it held go out in their order, in the same turn.
Made(m) ==
    /\ Takes(m)
    /\ m.is = "success" /\ m.of = "make"
    /\ "make" \in pending
    /\ promise' = "held"
    /\ pending' = (pending \ {"make"}) \union InFlight(queued)
    /\ c2s' = Deliver(c2s, queued)
    /\ queued' = <<>>
    /\ UNCHANGED <<kind, linkVars, cUp, greeted, used, flags, heard, told, sockets, unheeded, serverVars>>

\* It resolves to no proxy: the calls the fill held, its binding of events with
\* them, come to nothing.
MadeNull(m) ==
    /\ Takes(m)
    /\ m.is = "null"
    /\ "make" \in pending
    /\ promise' = "null"
    /\ pending' = pending \ {"make"}
    /\ queued' = <<>>
    /\ UNCHANGED <<kind, linkVars, c2s, cUp, greeted, used, flags, heard, told, sockets, unheeded,
                   serverVars>>

\* Another call resolves; when it is dispose() the client deletes the proxy and
\* the listeners on it.
Resolved(m) ==
    /\ Takes(m)
    /\ m.is = "success" /\ m.of # "make"
    /\ m.of \in pending
    /\ pending' = pending \ {m.of}
    /\ flags' = IF m.of = "getPid" THEN After(kind, flags, "getPid") ELSE flags
    /\ promise' = IF m.of = "dispose" THEN "gone" ELSE promise
    /\ UNCHANGED <<kind, linkVars, c2s, cUp, greeted, queued, used, heard, told, sockets, unheeded,
                   serverVars>>

\* A call fails: the fill emits an error.  With the call that makes the proxy fail
\* all that wait for it; dispose() failing is as good as its success.
QueueKept(n) == queued
QueueAfter(n) == IF n = "make" THEN <<>> ELSE queued
Fails(n) ==
    /\ n \in pending
    /\ pending' = pending \ {n}
    /\ queued' = QueueAfter(n)
    /\ promise' = CASE n = "make" -> "failed" [] n = "dispose" -> "gone" [] OTHER -> promise
    /\ flags' = IF n = "dispose" THEN flags ELSE After(kind, flags, "error")
    /\ UNCHANGED <<kind, linkVars, c2s, cUp, greeted, used, heard, told, sockets, unheeded, serverVars>>

Rejected(m) == Takes(m) /\ m.is = "fail" /\ Fails(m.of)

CallTimeout(n) == Fails(n) /\ UNCHANGED s2c

\* Nothing waits for the answer any more.
Unexpected(m) ==
    /\ Takes(m)
    /\ m.is \in {"success", "null", "fail"}
    /\ m.of \notin pending
    /\ UNCHANGED <<kind, linkVars, c2s, clientVars, serverVars>>

\* The proxy's events reach a fill from the moment its promise resolves until the
\* proxy is deleted: its listener is in the client's eventEmitter.
Attached == promise = "held"

\* An event, or a callback, of a proxy the client does not have throws, is logged;
\* a Socket that is not counted any more deletes nothing.
Lost(m) ==
    /\ Takes(m)
    /\ \/ m.is \in {"event", "done", "connection"} /\ promise # "held"
       \/ m.is = "socket" /\ m.of \notin sockets
    /\ UNCHANGED <<kind, linkVars, c2s, clientVars, serverVars>>

Heard(m) ==
    /\ Takes(m)
    /\ m.is = "event"
    /\ promise = "held"
    /\ heard' = Append(heard, m.of)
    /\ flags' = After(kind, flags, m.of)
    /\ UNCHANGED <<kind, linkVars, c2s, cUp, greeted, promise, queued, pending, used, told, sockets,
                   unheeded, serverVars>>

\* createProxy's done handler.
DoneHeard(m) ==
    /\ Takes(m)
    /\ m.is = "done"
    /\ promise = "held"
    /\ pending' = pending \union {"dispose"}
    /\ c2s' = Deliver(c2s, <<"dispose">>)
    /\ UNCHANGED <<kind, linkVars, cUp, greeted, promise, queued, used, flags, heard, told, sockets,
                   unheeded, serverVars>>

\* runCallback on onConnection's: a Socket that the Server counts.
Accepted(m) ==
    /\ Takes(m)
    /\ m.is = "connection"
    /\ promise = "held"
    /\ sockets' = sockets \union {m.of}
    /\ UNCHANGED <<kind, linkVars, c2s, cUp, greeted, promise, queued, pending, used, flags, heard,
                   told, unheeded, serverVars>>

\* A counted Socket emits error or close.
SocketKept(s) == sockets
Uncounted(s) == sockets \ {s}
SocketHeard(m) ==
    /\ Takes(m)
    /\ m.is = "socket"
    /\ m.of \in sockets
    /\ sockets' = Uncounted(m.of)
    /\ UNCHANGED <<kind, linkVars, c2s, cUp, greeted, promise, queued, pending, used, flags, heard,
                   told, unheeded, serverVars>>

\* A call on a counted Socket fails, by its timeout or otherwise.
SocketCallFails(s) ==
    /\ s \in sockets
    /\ sockets' = sockets \ {s}
    /\ unheeded' = unheeded \union {s}
    /\ UNCHANGED <<kind, linkVars, c2s, s2c, cUp, greeted, promise, queued, pending, used, flags,
                   heard, told, serverVars>>

ClientTakes(m) ==
    \/ Greet(m)
    \/ Made(m)
    \/ MadeNull(m)
    \/ Resolved(m)
    \/ Rejected(m)
    \/ Unexpected(m)
    \/ Lost(m)
    \/ Heard(m)
    \/ DoneHeard(m)
    \/ Accepted(m)
    \/ SocketHeard(m)

ClientReceive == ClientDiscard \/ (s2c # <<>> /\ ClientTakes(Head(s2c)))

\* handleDisconnect: every call fails; a fill that is attached emits "disconnected",
\* hence an error and what ends it; then the proxies are deleted.
CallsKept == pending
CallsLeft == {}
ClientDown ==
    /\ link = "down"
    /\ cUp
    /\ cUp' = FALSE
    /\ pending' = CallsLeft
    /\ queued' = <<>>
    /\ promise' = CASE promise = "asked" -> "failed" [] promise = "held" -> "gone" [] OTHER -> promise
    /\ told' = IF Attached THEN told + 1 ELSE told
    /\ flags' = IF Attached THEN AfterAll(kind, flags, OnDisconnect(kind))
                ELSE IF pending # {} THEN After(kind, flags, "error") ELSE flags
    /\ sockets' = {}
    /\ UNCHANGED <<kind, linkVars, c2s, s2c, greeted, used, heard, unheeded, serverVars>>

ClientUp ==
    /\ link = "up"
    /\ ~cUp
    /\ cUp' = TRUE
    /\ UNCHANGED <<kind, linkVars, c2s, s2c, greeted, promise, queued, pending, used, flags, heard,
                   told, sockets, unheeded, serverVars>>

ClientNext ==
    \/ \E n \in Calls : UserCall(n)
    \/ ClientReceive
    \/ \E n \in Calls : CallTimeout(n)
    \/ \E s \in Conns : SocketCallFails(s)
    \/ ClientDown
    \/ ClientUp

-----------------------------------------------------------------------------
(* The server receives n, the call at the head of the queue.               *)

Send(ms) == s2c' = IF sUp THEN Deliver(s2c, ms) ELSE s2c

Arrives(n) == sUp /\ c2s # <<>> /\ n = Head(c2s) /\ c2s' = Tail(c2s)

ServerDiscard ==
    /\ ~sUp
    /\ c2s # <<>>
    /\ c2s' = Tail(c2s)
    /\ UNCHANGED <<kind, linkVars, s2c, clientVars, serverVars>>

Handshake(n) ==
    /\ Arrives(n)
    /\ n = "handshake"
    /\ Send(<<Msg("init", "make")>>)
    /\ UNCHANGED <<kind, linkVars, clientVars, serverVars>>

\* storeProxy: a native object, and listeners for what its proxy forwards.
Store(n) ==
    /\ Arrives(n)
    /\ n = "make"
    /\ srv' = "stored"
    /\ listeners' = [e \in Events |-> IF e \in Forwarded(kind) THEN 1 ELSE 0]
    /\ phase' = Start(kind)
    /\ flowing' = (kind = "stdout")
    /\ Send(<<Msg("success", "make")>>)
    /\ UNCHANGED <<kind, linkVars, clientVars, sUp, timer, registered, conn, produced>>

\* A process whose stdio is not piped comes without the proxies of its streams.
StoreNone(n) ==
    /\ Arrives(n)
    /\ n = "make"
    /\ kind = "stdout"
    /\ Send(<<Msg("null", "make")>>)
    /\ UNCHANGED <<kind, linkVars, clientVars, serverVars>>

Refuse(n) ==
    /\ Arrives(n)
    /\ n = "make"
    /\ Send(<<Msg("fail", "make")>>)
    /\ UNCHANGED <<kind, linkVars, clientVars, serverVars>>

\* A proxy that was removed: getProxy throws, and the call is answered twice.
NoProxy(n) ==
    /\ Arrives(n)
    /\ n \notin {"handshake", "make"}
    /\ srv # "stored"
    /\ Send(<<Msg("fail", n), Msg("success", n)>>)
    /\ UNCHANGED <<kind, linkVars, clientVars, serverVars>>

\* bindDelayedEvent("data") and pipe() bind the data event, once, and make the
\* stream flow.
BindNothing == listeners
BindAgain == [listeners EXCEPT !["data"] = @ + 1]
BindData == IF listeners["data"] = 0 THEN [listeners EXCEPT !["data"] = 1] ELSE listeners
Binds(n) == n \in {"on data", "pipe()"}

Perform(n) ==
    /\ Arrives(n)
    /\ n \notin {"handshake", "make", "dispose"}
    /\ srv = "stored"
    /\ listeners' = IF Binds(n) THEN BindData ELSE listeners
    /\ flowing' = (flowing \/ Binds(n))
    /\ registered' = (registered \/ n = "onConnection")
    /\ phase' = Moved(kind, phase, n)
    /\ Send(<<Msg("success", n)>>)
    /\ UNCHANGED <<kind, linkVars, clientVars, sUp, srv, timer, conn, produced>>

Dispose(n) ==
    /\ Arrives(n)
    /\ n = "dispose"
    /\ srv = "stored"
    /\ srv' = "removed"
    /\ timer' = FALSE
    /\ Send(<<Msg("success", n)>>)
    /\ UNCHANGED <<kind, linkVars, clientVars, sUp, listeners, nativeVars>>

ServerTakes(n) ==
    \/ Handshake(n)
    \/ Store(n)
    \/ StoreNone(n)
    \/ Refuse(n)
    \/ NoProxy(n)
    \/ Perform(n)
    \/ Dispose(n)

ServerReceive == ServerDiscard \/ (c2s # <<>> /\ ServerTakes(Head(c2s)))

DisposeTimer ==
    /\ timer
    /\ timer' = FALSE
    /\ srv' = "removed"
    /\ UNCHANGED <<kind, linkVars, c2s, s2c, clientVars, sUp, listeners, nativeVars>>

-----------------------------------------------------------------------------
(* Native objects.                                                         *)

Emitted(e) == Cardinality({i \in DOMAIN produced : produced[i] = e})

\* storeProxy adds the listener for events before the one for done.
Forwards(e) == [i \in 1 .. listeners[e] |-> Msg("event", e)]
Finishes(e) == IF e \in Done(kind) THEN <<Msg("done", "make")>> ELSE <<>>
DoneFirst(e) == Finishes(e) \o Forwards(e)
Reports(e) == Forwards(e) \o Finishes(e)

\* A native event of a proxy that is stored: each listener forwards it, and the done
\* handler says so and arms the dispose timeout.  A net.Server closes as soon as its
\* last connection is destroyed, which may be before that connection's own close.
NativeStep(e) ==
    /\ srv = "stored"
    /\ \E to \in Phases : <<phase, e, to>> \in Steps(kind) /\ phase' = to
    /\ e \in Repeated => Emitted(e) < MaxRepeats
    /\ e \in Flowing(kind) => flowing
    /\ kind = "server" /\ e = "close" => \A s \in Conns : conn[s] # "open"
    /\ produced' = Append(produced, e)
    /\ Send(Reports(e))
    /\ timer' = (timer \/ e \in Done(kind))
    /\ UNCHANGED <<kind, linkVars, c2s, clientVars, sUp, srv, listeners, flowing, registered, conn>>

\* onConnection's listener stores the socket's proxy and calls back.
Connects(s) ==
    /\ kind = "server"
    /\ srv = "stored"
    /\ phase = "listening"
    /\ conn[s] = "none"
    /\ conn' = [conn EXCEPT ![s] = "open"]
    /\ Send(IF registered THEN <<Msg("connection", s)>> ELSE <<>>)
    /\ UNCHANGED <<kind, linkVars, c2s, clientVars, sUp, srv, listeners, timer, phase, flowing,
                   registered, produced>>

\* A connection is destroyed, emitting an error at once or nothing; then it closes.
ConnEnding(s) ==
    /\ conn[s] = "open"
    /\ conn' = [conn EXCEPT ![s] = "ending"]
    /\ UNCHANGED <<kind, linkVars, c2s, s2c, clientVars, sUp, srv, listeners, timer, phase, flowing,
                   registered, produced>>

ConnStep(s) ==
    /\ \/ conn[s] = "open" /\ conn' = [conn EXCEPT ![s] = "erred"]
       \/ conn[s] \in {"ending", "erred"} /\ conn' = [conn EXCEPT ![s] = "closed"]
    /\ Send(IF registered THEN <<Msg("socket", s)>> ELSE <<>>)
    /\ UNCHANGED <<kind, linkVars, c2s, clientVars, sUp, srv, listeners, timer, phase, flowing,
                   registered, produced>>

\* handleDisconnect: the proxies are silenced and disposed of.
ServerDown ==
    /\ link = "down"
    /\ sUp
    /\ sUp' = FALSE
    /\ srv' = IF srv = "stored" THEN "removed" ELSE srv
    /\ timer' = FALSE
    /\ conn' = [s \in Conns |-> IF conn[s] = "none" THEN "none" ELSE "closed"]
    /\ UNCHANGED <<kind, linkVars, c2s, s2c, clientVars, listeners, phase, flowing, registered, produced>>

ServerUp ==
    /\ link = "up"
    /\ ~sUp
    /\ sUp' = TRUE
    /\ UNCHANGED <<kind, linkVars, c2s, s2c, clientVars, srv, listeners, timer, nativeVars>>

ServerNext ==
    \/ ServerReceive
    \/ DisposeTimer
    \/ \E e \in Events : NativeStep(e)
    \/ \E s \in Conns : Connects(s) \/ ConnEnding(s) \/ ConnStep(s)
    \/ ServerDown
    \/ ServerUp

=============================================================================
