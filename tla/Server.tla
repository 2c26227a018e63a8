------------------------------- MODULE Server -------------------------------
(***************************************************************************)
(* The server (server/server.ts) and the proxies it stores: a stream's     *)
(* proxy (server/stream.ts) and a child process's (server/child_process.ts)*)
(* with the native object behind each.  One action is one turn of the      *)
(* event loop with the microtasks it queues: receiving a message and       *)
(* running its method as far as it goes, the settling of a method that     *)
(* awaited something, a timer, an event of a native object, a connection   *)
(* callback.                                                               *)
(***************************************************************************)
EXTENDS Protocol

VARIABLES
    sStatus,    \* the server's ConnectionStatus
    tied,       \* Date.now() still equals lastDisconnect
    nextProxy,  \* proxyId: the next number
    owner,      \* owner[p]: the client and the call p was made for
    kind,       \* kind[p]: "stream" or "process" ("none": not made)
    store,      \* store[p]: "unborn", "stored", "disposing" (disposePromise set) or "removed"
    bound,      \* proxies whose events the server forwards (onEvent, onDone)
    gone,       \* proxies with their "disconnected" flag set
    waiting,    \* proxies whose dispose() waits for a done event
    timers,     \* timers[p]: dispose timeouts armed and not cleared
    native,     \* native[p]: "live", "exited" or "closed" ("none": not made)
    done,       \* proxies a done event fired for: a process's "exited" flag, which is
                \* not read again once a disconnect removed the listener that sets it
    runs,       \* calls whose method has not settled
    stale,      \* those of them disconnected() holds for
    leaked      \* ghost: calls whose proxies were discarded without dispose()

storeVars == <<owner, kind, store, bound, gone, waiting, timers, native, done>>
runVars == <<runs, stale>>
serverVars == <<sStatus, tied, nextProxy, storeVars, runVars, leaked>>

Maker == [client: Clients, id: Nat]
Nobody == [client |-> "nobody", id |-> 0]

ServerInit ==
    /\ sStatus = "Connected"
    /\ tied = FALSE
    /\ nextProxy = 0
    /\ owner = [p \in ProxyId |-> Nobody]
    /\ kind = [p \in ProxyId |-> "none"]
    /\ store = [p \in ProxyId |-> "unborn"]
    /\ bound = {}
    /\ gone = {}
    /\ waiting = {}
    /\ timers = [p \in ProxyId |-> 0]
    /\ native = [p \in ProxyId |-> "none"]
    /\ done = {}
    /\ runs = {}
    /\ stale = {}
    /\ leaked = {}

ServerTypeOK ==
    /\ sStatus \in Status
    /\ tied \in BOOLEAN
    /\ nextProxy \in 0 .. MaxProxies
    /\ owner \in [ProxyId -> Maker \union {Nobody}]
    /\ kind \in [ProxyId -> {"none", "stream", "process"}]
    /\ store \in [ProxyId -> {"unborn", "stored", "disposing", "removed"}]
    /\ {bound, gone, waiting, done} \subseteq SUBSET ProxyId
    /\ timers \in [ProxyId -> Nat]
    /\ native \in [ProxyId -> {"none", "live", "exited", "closed"}]
    /\ {runs, stale} \subseteq SUBSET Call
    /\ leaked \subseteq Maker

-----------------------------------------------------------------------------

\* send: only while connected; every client of the connection hears it.
Send(ms) ==
    s2c' = IF sStatus = "Connected"
           THEN [c \in Clients |-> Deliver(s2c[c], ms)]
           ELSE s2c

\* getProxy: neither absent nor being disposed.
Usable(p) == p \in ProxyId => store[p] = "stored"

\* Is a method that starts now already "disconnected"?  Only when its start
\* time does not exceed the time of the last disconnect.
Discarded == tied

\* The answer to a call whose method settles in the same turn.
Answer(ms) == Send(IF Discarded THEN <<>> ELSE ms)

\* removeProxy on each of P, with armed the timeouts still armed: silence what a
\* disconnect reaches for the first time, then start the disposal of what is not
\* yet disposing.  A stream, or a process that is done, is disposed and deleted
\* before the turn ends; a live process is killed and waited for.
SilencedAgain(P, disconnect) ==
    IF disconnect THEN {p \in P : store[p] \in {"stored", "disposing"}} ELSE {}
Silenced(P, disconnect) ==
    IF disconnect THEN {p \in P : store[p] \in {"stored", "disposing"}} \ gone ELSE {}
Starting(P) == {p \in P : store[p] = "stored"}
EndedUnchecked(P) == Starting(P)
Ended(P) == {p \in Starting(P) : kind[p] = "stream" \/ p \in done}
Reaped(P) == Starting(P) \ Ended(P)

\* Proxies whose listeners, the server's or dispose()'s own, a disconnect removes.
NoneUnlistened(P, disconnect) == {}
Unlistened(P, disconnect) == Silenced(P, disconnect)

Remove(P, disconnect, armed) ==
    /\ store' = [p \in ProxyId |-> IF p \in Ended(P) THEN "removed"
                                   ELSE IF p \in Reaped(P) THEN "disposing" ELSE store[p]]
    /\ gone' = gone \union Silenced(P, disconnect)
    /\ bound' = bound \ (Unlistened(P, disconnect) \union Ended(P))
    /\ waiting' = (waiting \ Unlistened(P, disconnect)) \union Reaped(P)
    /\ timers' = [p \in ProxyId |-> IF p \in Starting(P) /\ armed[p] > 0
                                    THEN armed[p] - 1 ELSE armed[p]]
    /\ native' = [p \in ProxyId |-> IF p \in Ended(P) /\ kind[p] = "stream"
                                    THEN "closed" ELSE native[p]]
    /\ UNCHANGED <<owner, kind, done>>

-----------------------------------------------------------------------------
(* Receiving a call.  m is the message at the head of the queue.           *)

Take == c2s # <<>> /\ c2s' = Tail(c2s)
Arrives(m) == Take /\ m = Head(c2s) /\ sStatus = "Connected"

\* handleMessage returns early.
Discard ==
    /\ Take
    /\ sStatus # "Connected"
    /\ UNCHANGED <<link, downs, s2c, serverVars>>

\* Decoding an argument that names a disposed proxy throws out of runMethod,
\* which is logged: the call is never answered.
ArgumentFails(m) ==
    /\ Arrives(m)
    /\ ~Usable(m.dest)
    /\ UNCHANGED <<link, downs, s2c, serverVars>>

\* "is not a function on proxy": what is called is a method of the object behind the
\* proxy.  All of those return promises, so the check that comes next never fails.
MethodsOf(p) ==
    IF p = Module THEN ModuleMethods
    ELSE {"dispose"} \union (IF kind[p] = "process" THEN ProcessMethods ELSE StreamMethods)

\* The method can be run: getProxy finds the proxy, and the proxy has the method.
Runnable(m) == Usable(m.proxy) /\ m.method \in MethodsOf(m.proxy)

\* Otherwise an exception is sent, and then, falling through to awaiting the
\* undefined response, a success too.
Refuse(m) ==
    /\ Arrives(m)
    /\ Usable(m.dest)
    /\ ~Runnable(m)
    /\ Send(IF Discarded THEN <<Fail(m.client, m.id)>>
            ELSE <<Fail(m.client, m.id), Success(m.client, m.id, {})>>)
    /\ UNCHANGED <<link, downs, serverVars>>

\* runMethod once the argument, the proxy and its method are found.
Runs(m) == Arrives(m) /\ Usable(m.dest) /\ Runnable(m)

\* removeProxy without the disconnect flag; answered when the proxy is removed.
DisposeCall(m) ==
    /\ Runs(m)
    /\ m.method = "dispose"
    /\ m.proxy \in ProxyId
    /\ Remove({m.proxy}, FALSE, timers)
    /\ IF m.proxy \in Ended({m.proxy})
       THEN Answer(<<Success(m.client, m.id, {})>>) /\ UNCHANGED runVars
       ELSE /\ runs' = runs \union {m}
            /\ stale' = IF Discarded THEN stale \union {m} ELSE stale
            /\ UNCHANGED s2c
    /\ UNCHANGED <<link, downs, sStatus, tied, nextProxy, leaked>>

\* A method that settles at once and changes nothing modelled here: a signal's
\* effect is NativeEnds's.  What it asks of the native object may throw.
RunAtOnce(m) ==
    /\ Runs(m)
    /\ m.method \in {"kill", "pipe"}
    /\ Answer(<<Success(m.client, m.id, {})>>) \/ Answer(<<Fail(m.client, m.id)>>)
    /\ UNCHANGED <<link, downs, serverVars>>

\* A method that awaits something.
RunLong(m) ==
    /\ Runs(m)
    /\ m.method \in {"stat", "write"}
    /\ runs' = runs \union {m}
    /\ stale' = IF Discarded THEN stale \union {m} ELSE stale
    /\ UNCHANGED <<link, downs, s2c, sStatus, tied, nextProxy, storeVars, leaked>>

\* What a making method returns: a stream, or a process with or without a stream
\* of its own (a process whose stdio is ignored has none).
Sizes(method) == IF method = "open" THEN {1} ELSE {1, 2}
Made(size) == nextProxy .. nextProxy + size - 1
KindOf(method, p) ==
    IF method = "spawn" /\ p = nextProxy THEN "process" ELSE "stream"

\* proxyId once each proxy of new took its number.
NumberedTwice(new) == nextProxy + 2 * Cardinality(new)
Numbered(new) == nextProxy + Cardinality(new)

\* storeProxy on each proxy encode meets.
StoreMade(m, new) ==
    /\ nextProxy' = Numbered(new)
    /\ owner' = [p \in ProxyId |-> IF p \in new THEN [client |-> m.client, id |-> m.id]
                                   ELSE owner[p]]
    /\ kind' = [p \in ProxyId |-> IF p \in new THEN KindOf(m.method, p) ELSE kind[p]]
    /\ store' = [p \in ProxyId |-> IF p \in new THEN "stored" ELSE store[p]]
    /\ native' = [p \in ProxyId |-> IF p \in new THEN "live" ELSE native[p]]
    /\ bound' = bound \union new
    /\ UNCHANGED <<gone, waiting, timers, done>>

RunMaking(m) ==
    /\ Runs(m)
    /\ m.method \in {"open", "spawn"}
    /\ ~Discarded
    /\ \E size \in Sizes(m.method) :
           /\ Made(size) \subseteq ProxyId
           /\ StoreMade(m, Made(size))
           /\ Send(<<Success(m.client, m.id, Made(size))>>)
    /\ UNCHANGED <<link, downs, sStatus, tied, runVars, leaked>>

\* A resolve that is discarded: the value is disposed if it is a proxy, but the
\* object of proxies that spawn resolves to is not one.
EncodedThenDiscarded(m) ==
    /\ Runs(m)
    /\ m.method \in {"open", "spawn"}
    /\ Discarded
    /\ Made(1) \subseteq ProxyId
    /\ StoreMade(m, Made(1))
    /\ UNCHANGED <<link, downs, s2c, sStatus, tied, runVars, leaked>>
RunMakingDiscarded(m) ==
    /\ Runs(m)
    /\ m.method \in {"open", "spawn"}
    /\ Discarded
    /\ leaked' = IF m.method = "spawn"
                 THEN leaked \union {[client |-> m.client, id |-> m.id]} ELSE leaked
    /\ UNCHANGED <<link, downs, s2c, sStatus, tied, nextProxy, storeVars, runVars>>

\* The method rejects.
RunRejects(m) ==
    /\ Runs(m)
    /\ m.method \in {"open", "spawn"}
    /\ Answer(<<Fail(m.client, m.id)>>)
    /\ UNCHANGED <<link, downs, serverVars>>

ServerReceives(m) ==
    \/ ArgumentFails(m)
    \/ Refuse(m)
    \/ DisposeCall(m)
    \/ RunAtOnce(m)
    \/ RunLong(m)
    \/ RunMaking(m)
    \/ RunMakingDiscarded(m)
    \/ RunRejects(m)

ServerReceive == Discard \/ (c2s # <<>> /\ ServerReceives(Head(c2s)))

-----------------------------------------------------------------------------

\* A pending method settles: answered, or discarded if disconnected() holds.
Settles(m) == m.method = "dispose" => store[m.proxy] = "removed"

RunSettles(m) ==
    /\ m \in runs
    /\ Settles(m)
    /\ \E r \in {Success(m.client, m.id, {}), Fail(m.client, m.id)} :
           /\ m.method = "dispose" => r.type = "success"
           /\ Send(IF m \in stale THEN <<>> ELSE <<r>>)
    /\ runs' = runs \ {m}
    /\ stale' = stale \ {m}
    /\ UNCHANGED <<link, downs, c2s, sStatus, tied, nextProxy, storeVars, leaked>>

\* The dispose timeout of onDone.
DisposeTimer(p) ==
    /\ timers[p] > 0
    /\ Remove({p}, FALSE, [timers EXCEPT ![p] = @ - 1])
    /\ UNCHANGED <<link, downs, c2s, s2c, sStatus, tied, nextProxy, runVars, leaked>>

-----------------------------------------------------------------------------
(* Native objects.                                                         *)

\* A done event e: the proxy's listeners run in the order they were bound.  The
\* server forwards e, sends "done" and arms a timeout, unless getProxy throws;
\* then a waiting dispose() completes.
DoneMessages(p, e) ==
    IF p \notin bound THEN <<>>
    ELSE <<Event(owner[p].client, p, e)>>
         \o (IF Usable(p) THEN <<Event(owner[p].client, p, "done")>> ELSE <<>>)

\* The "exited" flag is set on either done event.
OnlyExitEnds(p, e) == IF e = "error" THEN {} ELSE {p}
Ends(p, e) == {p}

\* The timeout onDone arms; one armed before stays.
NeverArmed(p) == 0
Armed(p) == IF p \in bound /\ Usable(p) THEN 1 ELSE 0

DoneFires(p, e) ==
    /\ done' = done \union Ends(p, e)
    /\ Send(DoneMessages(p, e))
    /\ timers' = [timers EXCEPT ![p] = @ + Armed(p)]
    /\ store' = IF p \in waiting THEN [store EXCEPT ![p] = "removed"] ELSE store
    /\ bound' = IF p \in waiting THEN bound \ {p} ELSE bound
    /\ waiting' = waiting \ {p}
    /\ UNCHANGED <<link, downs, c2s, sStatus, tied, nextProxy, owner, kind, gone, runVars, leaked>>

\* A stream closes, or a process exits (a signal's effect included).
NativeEnds(p) ==
    /\ native[p] = "live"
    /\ native' = [native EXCEPT ![p] = IF kind[p] = "stream" THEN "closed" ELSE "exited"]
    /\ DoneFires(p, IF kind[p] = "stream" THEN "close" ELSE "exit")

\* A live process reports an error: it could not be signalled, or sent a message.
NativeError(p) ==
    /\ native[p] = "live"
    /\ kind[p] = "process"
    /\ p \notin done
    /\ DoneFires(p, "error")
    /\ UNCHANGED native

\* An exited process's stdio closes.
NativeCloses(p) ==
    /\ native[p] = "exited"
    /\ native' = [native EXCEPT ![p] = "closed"]
    /\ Send(IF p \in bound THEN <<Event(owner[p].client, p, "close")>> ELSE <<>>)
    /\ UNCHANGED <<link, downs, c2s, sStatus, tied, nextProxy, owner, kind, store, bound,
                   gone, waiting, timers, done, runVars, leaked>>

-----------------------------------------------------------------------------
(* The connection, as the server is told of it.                            *)

\* handleDisconnect: every method still running is now disconnected, and every
\* numbered proxy is silenced and disposed.
Disconnect(status) ==
    /\ sStatus' = status
    /\ tied' = TRUE
    /\ stale' = runs
    /\ Remove(ProxyId, TRUE, timers)
    /\ UNCHANGED <<linkVars, nextProxy, runs, leaked>>

ServerDown == link = "down" /\ sStatus = "Connected" /\ Disconnect("Disconnected")

ServerClose == link = "closed" /\ sStatus # "Closed" /\ Disconnect("Closed")

ServerUp ==
    /\ link = "up"
    /\ sStatus = "Disconnected"
    /\ sStatus' = "Connected"
    /\ UNCHANGED <<linkVars, tied, nextProxy, storeVars, runVars, leaked>>

\* Time passes the millisecond of the last disconnect.
Tick ==
    /\ tied
    /\ tied' = FALSE
    /\ UNCHANGED <<linkVars, sStatus, nextProxy, storeVars, runVars, leaked>>

NativeStep == \E p \in ProxyId : NativeEnds(p) \/ NativeError(p) \/ NativeCloses(p)

ServerNext ==
    \/ ServerReceive
    \/ \E m \in runs : RunSettles(m)
    \/ \E p \in ProxyId : DisposeTimer(p)
    \/ NativeStep
    \/ ServerDown
    \/ ServerUp
    \/ ServerClose
    \/ Tick

=============================================================================
