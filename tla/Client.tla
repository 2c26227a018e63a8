------------------------------- MODULE Client -------------------------------
(***************************************************************************)
(* The clients (client/client.ts): remote calls and their settling, the    *)
(* proxies a response creates, the events that reach the fills that hold   *)
(* them, and what a disconnect does to all three.  One action is one turn  *)
(* of the event loop with the microtasks it queues.                        *)
(***************************************************************************)
EXTENDS Protocol

VARIABLES
    cStatus,   \* cStatus[c]: the client's ConnectionStatus
    nextMsg,   \* nextMsg[c]: messageId
    calls,     \* calls[c]: calls with their timeout and two listeners in place
    settled,   \* settled[c], ghost: how each call ended
    cProxies,  \* cProxies[c]: the numbered proxies the client holds
    born,      \* born[c], ghost: those it ever held
    heard      \* heard[c], ghost: those whose fill was told of its end

clientVars == <<cStatus, nextMsg, calls, settled, cProxies, born, heard>>

Outcomes == {"resolved", "rejected", "timed out", "disconnected", "thrown"}
Pending == [id: Nat, method: Methods, proxy: Target]
Settled == [id: Nat, how: Outcomes]

ClientInit ==
    /\ cStatus = [c \in Clients |-> "Connected"]
    /\ nextMsg = [c \in Clients |-> 0]
    /\ calls = [c \in Clients |-> {}]
    /\ settled = [c \in Clients |-> {}]
    /\ cProxies = [c \in Clients |-> {}]
    /\ born = [c \in Clients |-> {}]
    /\ heard = [c \in Clients |-> {}]

ClientTypeOK ==
    /\ cStatus \in [Clients -> Status]
    /\ nextMsg \in [Clients -> Nat]
    /\ calls \in [Clients -> SUBSET Pending]
    /\ settled \in [Clients -> SUBSET Settled]
    /\ {cProxies, born, heard} \subseteq [Clients -> SUBSET ProxyId]

-----------------------------------------------------------------------------

\* remoteCall on a connected client: take a messageId, send, and wait for the
\* answer under that id.
RemoteCall(c, method, p, dest) ==
    LET id == nextMsg[c]
    IN  /\ nextMsg' = [nextMsg EXCEPT ![c] = id + 1]
        /\ calls' = [calls EXCEPT ![c] = @ \union {[id |-> id, method |-> method, proxy |-> p]}]
        /\ c2s' = Deliver(c2s, <<[client |-> c, id |-> id, method |-> method,
                                  proxy |-> p, dest |-> dest]>>)

\* close and kill on a proxy the client no longer has, or while it is not
\* connected, resolve without being sent.
Shortcut(c, method, p) ==
    /\ p \in ProxyId
    /\ method = "kill"
    /\ cStatus[c] # "Connected" \/ p \notin cProxies[c]

\* What the fills may call: a module's methods at any time, a proxy's for as
\* long as the program holds the fill, which may outlive the proxy.
Callable(c, method, p, dest) ==
    \/ method \in ModuleMethods /\ p = Module /\ dest = Module
    \/ method = "pipe" /\ {p, dest} \subseteq born[c]
    \/ method \in {"write", "kill"} /\ p \in born[c] /\ dest = Module

UserCall(c, method, p, dest) ==
    /\ nextMsg[c] < MaxCalls
    /\ Callable(c, method, p, dest)
    /\ ~Shortcut(c, method, p)
    /\ cStatus[c] = "Connected"
    /\ RemoteCall(c, method, p, dest)
    /\ UNCHANGED <<link, downs, s2c, cStatus, settled, cProxies, born, heard>>

\* An argument that cannot be encoded throws at the caller; the messageId is taken
\* by then.  Some method that takes arguments is always there to call.
UserCallThrows(c) ==
    /\ nextMsg[c] < MaxCalls
    /\ cStatus[c] = "Connected"
    /\ nextMsg' = [nextMsg EXCEPT ![c] = @ + 1]
    /\ settled' = [settled EXCEPT ![c] = @ \union {[id |-> nextMsg[c], how |-> "thrown"]}]
    /\ UNCHANGED <<linkVars, cStatus, calls, cProxies, born, heard>>

\* A call ends: its timeout and listeners go together.  When it is the dispose()
\* of a done handler the proxy goes with it, however it ended.
Answered(c, id) == {k \in calls[c] : k.id = id}
DisposedBy(ks) == {k.proxy : k \in {j \in ks : j.method = "dispose"}}

SettleLeavingSuccess(c, ks, how) ==
    /\ calls' = IF how = "resolved" THEN calls ELSE [calls EXCEPT ![c] = @ \ ks]
    /\ settled' = [settled EXCEPT ![c] = @ \union {[id |-> k.id, how |-> how] : k \in ks}]
Settle(c, ks, how) ==
    /\ calls' = [calls EXCEPT ![c] = @ \ ks]
    /\ settled' = [settled EXCEPT ![c] = @ \union {[id |-> k.id, how |-> how] : k \in ks}]

-----------------------------------------------------------------------------
(* Receiving a message.  m is the one at the head of the client's queue.   *)

TakeReply(c) == s2c[c] # <<>> /\ s2c' = [s2c EXCEPT ![c] = Tail(@)]

AnyonesMessage(c, m) ==
    /\ TakeReply(c)
    /\ m = Head(s2c[c])
    /\ cStatus[c] = "Connected"
Mine(c, m) ==
    /\ TakeReply(c)
    /\ m = Head(s2c[c])
    /\ cStatus[c] = "Connected"
    /\ m.client = c

ClientDiscard(c) ==
    /\ TakeReply(c)
    /\ cStatus[c] # "Connected" \/ Head(s2c[c]).client # c
    /\ UNCHANGED <<link, downs, c2s, clientVars>>

\* The proxies decoding a response creates: none when no call waits for it.
NeverCreated(ks, m) == {}
Created(ks, m) == IF ks = {} THEN {} ELSE m.made

\* emitSuccess: the listener, if the call still waits, resolves it.
ReceiveSuccess(c, m) ==
    LET ks == Answered(c, m.id)
        new == Created(ks, m)
    IN  /\ Mine(c, m)
        /\ m.type = "success"
        /\ Settle(c, ks, "resolved")
        /\ cProxies' = [cProxies EXCEPT ![c] = (@ \ DisposedBy(ks)) \union new]
        /\ born' = [born EXCEPT ![c] = @ \union new]
        /\ UNCHANGED <<link, downs, c2s, cStatus, nextMsg, heard>>

ReceiveFail(c, m) ==
    LET ks == Answered(c, m.id)
    IN  /\ Mine(c, m)
        /\ m.type = "fail"
        /\ Settle(c, ks, "rejected")
        /\ cProxies' = [cProxies EXCEPT ![c] = @ \ DisposedBy(ks)]
        /\ UNCHANGED <<link, downs, c2s, cStatus, nextMsg, born, heard>>

\* emitEvent: an event of a proxy the client does not have throws and is logged.
EventLost(c, m) ==
    /\ Mine(c, m)
    /\ m.type = "event"
    /\ m.proxy \notin cProxies[c]
    /\ UNCHANGED <<link, downs, c2s, clientVars>>

\* The fill hears every event.
EventHeard(c, m) ==
    /\ Mine(c, m)
    /\ m.type = "event"
    /\ m.proxy \in cProxies[c]
    /\ m.event \in EndEvents
    /\ heard' = [heard EXCEPT ![c] = @ \union {m.proxy}]
    /\ UNCHANGED <<link, downs, c2s, cStatus, nextMsg, calls, settled, cProxies, born>>

\* The done handler asks the server to dispose the proxy, which it keeps until
\* that call ends.
EventDone(c, m) ==
    /\ Mine(c, m)
    /\ m.type = "event"
    /\ m.proxy \in cProxies[c]
    /\ m.event = "done"
    /\ RemoteCall(c, "dispose", m.proxy, Module)
    /\ UNCHANGED <<link, downs, cStatus, settled, cProxies, born, heard>>

ClientReceives(c, m) ==
    \/ ReceiveSuccess(c, m)
    \/ ReceiveFail(c, m)
    \/ EventLost(c, m)
    \/ EventHeard(c, m)
    \/ EventDone(c, m)

ClientReceive(c) ==
    ClientDiscard(c) \/ (s2c[c] # <<>> /\ ClientReceives(c, Head(s2c[c])))

\* The 10 s timeout of a call.
TimeoutKeepsProxy(c, k) ==
    /\ k \in calls[c]
    /\ Settle(c, {k}, "timed out")
    /\ UNCHANGED <<linkVars, cStatus, nextMsg, cProxies, born, heard>>
CallTimeout(c, k) ==
    /\ k \in calls[c]
    /\ Settle(c, {k}, "timed out")
    /\ cProxies' = [cProxies EXCEPT ![c] = @ \ DisposedBy({k})]
    /\ UNCHANGED <<linkVars, cStatus, nextMsg, born, heard>>

-----------------------------------------------------------------------------
(* The connection, as the client is told of it.                            *)

\* The events handleDisconnect emits to every listener once every call has
\* failed.  At "done" a proxy is dropped with its listeners, for good.
DoneFirst == <<"done", "disconnected">>
DisconnectEvents == <<"disconnected", "done">>
ToldBeforeDone(ps) == IF DisconnectEvents[1] = "disconnected" THEN ps ELSE {}

DisconnectKeepsCalls(c, status) ==
    /\ cStatus' = [cStatus EXCEPT ![c] = status]
    /\ heard' = [heard EXCEPT ![c] = @ \union ToldBeforeDone(cProxies[c])]
    /\ cProxies' = [cProxies EXCEPT ![c] = {}]
    /\ UNCHANGED <<linkVars, nextMsg, calls, settled, born>>
ClientDisconnect(c, status) ==
    /\ cStatus' = [cStatus EXCEPT ![c] = status]
    /\ Settle(c, calls[c], "disconnected")
    /\ heard' = [heard EXCEPT ![c] = @ \union ToldBeforeDone(cProxies[c])]
    /\ cProxies' = [cProxies EXCEPT ![c] = {}]
    /\ UNCHANGED <<linkVars, nextMsg, born>>

ClientDown(c) ==
    /\ link = "down"
    /\ cStatus[c] = "Connected"
    /\ ClientDisconnect(c, "Disconnected")

ClientClose(c) ==
    /\ link = "closed"
    /\ cStatus[c] # "Closed"
    /\ ClientDisconnect(c, "Closed")

ClientUp(c) ==
    /\ link = "up"
    /\ cStatus[c] = "Disconnected"
    /\ cStatus' = [cStatus EXCEPT ![c] = "Connected"]
    /\ UNCHANGED <<linkVars, nextMsg, calls, settled, cProxies, born, heard>>

UserCalls(c) ==
    \E method \in UserMethods, p \in Target, dest \in Target : UserCall(c, method, p, dest)

ClientNext(c) ==
    \/ UserCalls(c)
    \/ UserCallThrows(c)
    \/ ClientReceive(c)
    \/ \E k \in calls[c] : CallTimeout(c, k)
    \/ ClientDown(c)
    \/ ClientClose(c)
    \/ ClientUp(c)

=============================================================================
