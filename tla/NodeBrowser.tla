----------------------------- MODULE NodeBrowser -----------------------------
(***************************************************************************)
(* The server, its clients and the connection between them: the remote     *)
(* calls and the life of the proxies that Server.tla and Client.tla share. *)
(***************************************************************************)
EXTENDS Server, Client

vars == <<linkVars, serverVars, clientVars>>

Init == LinkInit /\ ServerInit /\ ClientInit

\* The transport is up again only once both sides know that it went down.
Noticed == sStatus # "Connected" /\ \A c \in Clients : cStatus[c] # "Connected"

LinkUp ==
    /\ link = "down"
    /\ Noticed
    /\ link' = "up"
    /\ UNCHANGED <<downs, c2s, s2c>>

LinkNext == LinkDown \/ LinkUp \/ LinkClose

Next ==
    \/ LinkNext /\ UNCHANGED <<serverVars, clientVars>>
    \/ ServerNext /\ UNCHANGED clientVars
    \/ \E c \in Clients : ClientNext(c) /\ UNCHANGED serverVars

Spec == Init /\ [][Next]_vars

-----------------------------------------------------------------------------
(* Fairness.  Callbacks, messages and timers that are due run eventually;  *)
(* so does the end of a process that dispose() signals, with SIGKILL after *)
(* 5 s.  Nothing else need ever happen: no user call, no other end of a    *)
(* native object, no drop, no return of the transport.                     *)

ServerFair ==
    /\ WF_vars(ServerReceive /\ UNCHANGED clientVars)
    /\ WF_vars(ServerDown /\ UNCHANGED clientVars)
    /\ WF_vars(ServerClose /\ UNCHANGED clientVars)
    /\ \A p \in ProxyId :
           /\ WF_vars(DisposeTimer(p) /\ UNCHANGED clientVars)
           /\ WF_vars(store[p] = "disposing" /\ NativeEnds(p) /\ UNCHANGED clientVars)

ClientFair(c) ==
    /\ WF_vars(ClientReceive(c) /\ UNCHANGED serverVars)
    /\ WF_vars(ClientDown(c) /\ UNCHANGED serverVars)
    /\ WF_vars(ClientClose(c) /\ UNCHANGED serverVars)
    /\ WF_vars((\E k \in calls[c] : CallTimeout(c, k)) /\ UNCHANGED serverVars)

FairSpec == Spec /\ ServerFair /\ \A c \in Clients : ClientFair(c)

-----------------------------------------------------------------------------
(* Safety.                                                                 *)

\* Types of all the variables.
TypeOK == LinkTypeOK /\ ServerTypeOK /\ ClientTypeOK

\* A call is settled exactly once: every messageId the client used is either
\* waiting or settled in one way, never both and never two ways, whatever the
\* order of its answer, a second answer, its timeout and a disconnect; one whose
\* arguments could not be encoded took a number and threw.
WaitingIds(c) == {k.id : k \in calls[c]}
SettledIds(c) == {s.id : s \in settled[c]}
CallAccounting ==
    \A c \in Clients :
        /\ WaitingIds(c) \intersect SettledIds(c) = {}
        /\ WaitingIds(c) \union SettledIds(c) = 0 .. nextMsg[c] - 1
        /\ \A k, l \in calls[c] : k.id = l.id => k = l
        /\ \A s, t \in settled[c] : s.id = t.id => s = t

\* The remote calls implement Calls.tla: under every interleaving of answers,
\* second answers, timeouts, done handlers and disconnects, a step makes one call
\* under a fresh number, throws, ends one, or ends all of a client's at once.
Remote == INSTANCE Calls WITH
    asked <- nextMsg, pending <- [c \in Clients |-> WaitingIds(c)], ended <- settled
CallsImplemented == Remote!Spec

\* "calls will neither succeed nor fail nor exit so we need to send a failure":
\* a client that is not connected has no call left to wait for and no numbered
\* proxy, so nothing of the old session is used in the next.
DisconnectSettlesAll ==
    \A c \in Clients : cStatus[c] # "Connected" => calls[c] = {} /\ cProxies[c] = {}

\* The dispose() of a live process always has the listener it waits for: no
\* disconnect, not even a second one while it waits, takes it away.
DisposalCompletes == \A p \in ProxyId : store[p] = "disposing" => p \in waiting

\* The server's done handler finds its proxy: while it is bound, getProxy neither
\* throws nor meets a proxy that is being disposed.
DoneHandlerSafe == \A p \in bound : store[p] = "stored"

\* The caller gave up on call id: it timed out, or was failed by a disconnect.
GaveUp(c, id) ==
    \E s \in settled[c] : s.id = id /\ s.how \in {"timed out", "disconnected"}

\* While both sides are connected, a proxy the server keeps for a client is known
\* to that client, or on its way to it in the answer of its call, or its caller
\* gave up on that call, or the client had it and let it go.
ProxyAgreement ==
    \A p \in ProxyId :
        LET c == owner[p].client
            id == owner[p].id
        IN  store[p] = "stored" /\ link = "up" /\ sStatus = "Connected" /\ cStatus[c] = "Connected" =>
                \/ p \in born[c]
                \/ GaveUp(c, id)
                \/ \E m \in InFlight(s2c[c]) : m.type = "success" /\ m.id = id /\ p \in m.made

\* An event never overtakes the answer that creates its proxy: when it is lost
\* on a connected client that never had the proxy, the caller gave up before.
EventsFindProxy ==
    \A c \in Clients :
        s2c[c] # <<>> /\ cStatus[c] = "Connected" =>
            LET m == Head(s2c[c])
            IN  m.type = "event" /\ m.client = c =>
                    m.proxy \in born[c] \/ GaveUp(c, owner[m.proxy].id)

\* No fill is left waiting for a proxy the client dropped: it heard its exit,
\* close or error, or that it was disconnected.
FillHearsEnd == \A c \in Clients : born[c] \ cProxies[c] \subseteq heard[c]

\* A proxy reaches only the client whose call made it.
OwnedByCaller ==
    \A c \in Clients : \A p \in born[c] :
        /\ owner[p].client = c
        /\ [id |-> owner[p].id, how |-> "resolved"] \in settled[c]

\* kill() on a proxy a connected client no longer has resolves without a message;
\* the process behind it is dead, or failing to be signalled, or being killed.
KillSafe ==
    \A c \in Clients : \A p \in born[c] \ cProxies[c] :
        cStatus[c] = "Connected" /\ kind[p] = "process" =>
            native[p] # "live" \/ p \in done \/ store[p] = "disposing"

\* "If disconnected we don't want to send any more events": a step sends no event
\* of a proxy that was disconnected before it.
EventsOf(q, p) == {m \in InFlight(q) : m.type = "event" /\ m.proxy = p}
Silent(p) == \A c \in Clients : EventsOf(s2c'[c], p) \subseteq EventsOf(s2c[c], p)
SilentOnceGone == [][\A p \in gone : Silent(p)]_vars

\* Whatever leads to a disposal without a disconnect, a timeout, a "done" on its
\* way or a dispose() on its way, comes from a done event: such a disposal never
\* has a live process to wait for.
DoneChain ==
    /\ \A p \in ProxyId : timers[p] > 0 => p \in done
    /\ \A c \in Clients : \A m \in InFlight(s2c[c]) :
           m.type = "event" /\ m.event = "done" => m.proxy \in done
    /\ \A m \in InFlight(c2s) : m.method = "dispose" => m.proxy \in done

\* A disposal that waits is a disconnect's; a proxy that was disconnected is
\* disposed and bound no more; numbers are given once, in order, to a caller.
Lifecycle ==
    /\ \A p \in ProxyId : store[p] = "disposing" => p \in gone
    /\ \A p \in gone : store[p] \in {"disposing", "removed"} /\ p \notin bound
    /\ \A p \in ProxyId : store[p] = "unborn" <=> p >= nextProxy
    /\ \A p \in ProxyId : store[p] # "unborn" => owner[p] \in Maker

-----------------------------------------------------------------------------
(* Liveness, of FairSpec.                                                  *)

\* A proxy that is done is removed, whether or not its client ever asks.
DoneRemoved == \A p \in ProxyId : (p \in done) ~> (store[p] = "removed")

\* A proxy that was disconnected is removed, and not before its process is dead or
\* reported an error, which dispose() takes for its end ("exited").
Reapable(p) == kind[p] = "process" /\ native[p] = "live" => p \in done
DisconnectReaps == \A p \in ProxyId : (p \in gone) ~> (store[p] = "removed" /\ Reapable(p))

\* A proxy the server removed goes from the client that has it.
NoZombies ==
    \A c \in Clients : \A p \in ProxyId :
        (p \in cProxies[c] /\ store[p] = "removed") ~> (p \notin cProxies[c])

-----------------------------------------------------------------------------
(* What comments of the code say, and the code does not do.                *)

\* server.ts:283: removeProxy takes a proxy that is already removed for an error:
\* a dispose timeout left armed never meets one.
TimersOwned == \A p \in ProxyId : store[p] = "removed" => timers[p] = 0

\* server.ts:154: on a disconnect "we need to just dispose": what a method made
\* is disposed of when it is not sent.
DiscardedDisposed == leaked = {}

\* client.ts:211: "killing and closing works because a disconnected proxy is
\* disposed on the server and a non-existent proxy has already been disposed": when
\* both sides let go of a process's proxy, the process does not live on.
ShortcutJustified ==
    \A c \in Clients : \A p \in born[c] \ cProxies[c] :
        cStatus[c] = "Connected" /\ kind[p] = "process" /\ store[p] = "removed" =>
            native[p] # "live"

\* client.ts:332: "emit all events from the server so all events are always
\* caught on the client": while nothing disconnects, a process whose proxy is
\* removed has nothing left to emit.
AllEventsCaught ==
    \A p \in ProxyId \ gone :
        store[p] = "removed" /\ kind[p] = "process" => native[p] = "closed"

=============================================================================
