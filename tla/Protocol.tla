------------------------------ MODULE Protocol ------------------------------
(***************************************************************************)
(* What the two halves of node-browser share: the messages, the statuses   *)
(* and the connection.  One server connection carries every client's       *)
(* messages: what the server sends reaches all the clients, and each keeps *)
(* what bears its own id.  The connection itself is a ReadWriteConnection  *)
(* the embedding application supplies; it is modelled by what the code and *)
(* its test transport ask of it: each direction is first-in first-out, a   *)
(* drop loses a suffix of what is in flight, and what is left may still be *)
(* delivered after the drop, and even after the connection is up again.    *)
(***************************************************************************)
EXTENDS Naturals, Integers, Sequences, FiniteSets

CONSTANTS
    Clients,     \* the clients that share the server's connection
    UserMethods, \* the methods the program calls
    MaxProxies,  \* bound: how many numbered proxies the server creates
    MaxCalls,    \* bound: a client's user makes no call once its messageId is this
    MaxDowns     \* bound: how many times the connection drops

ASSUME ProxiesAssumption == MaxProxies \in Nat
ASSUME CallsAssumption == MaxCalls \in Nat
ASSUME DownsAssumption == MaxDowns \in Nat

VARIABLES
    link,   \* the transport: "up", "down" or "closed"
    downs,  \* how many times it dropped
    c2s,    \* messages to the server, in order
    s2c     \* s2c[c]: messages that reach client c, in order

linkVars == <<link, downs, c2s, s2c>>

-----------------------------------------------------------------------------

Status == {"Connected", "Disconnected", "Closed"}

\* Numbered proxies; the three module proxies are one, which is never removed.
ProxyId == 0 .. MaxProxies - 1
Module == -1
Target == ProxyId \union {Module}

\* The kinds of method the fills call, by what they do on the server: "stat"
\* answers later, as most of fs does, "open" (createReadStream, createWriteStream)
\* and "spawn" create proxies, "write" on a stream answers later, "pipe" takes
\* another stream as its argument and "kill" signals a process.  "dispose" is only
\* ever sent by the client's own done handler.
ModuleMethods == {"stat", "open", "spawn"}
StreamMethods == {"write", "pipe"}
ProcessMethods == {"kill"}
Methods == ModuleMethods \union StreamMethods \union ProcessMethods \union {"dispose"}

\* Events that end a proxy's life in the eyes of a fill, and the internal "done".
EndEvents == {"exit", "close", "error"}
Events == EndEvents \union {"done"}

ASSUME UserMethodsAssumption == UserMethods \subseteq Methods \ {"dispose"}

Call == [client: Clients, id: Nat, method: Methods, proxy: Target, dest: Target]

\* "id" is the call a success or a fail answers and "made" the proxies a success
\* encodes; "proxy" and "event" are an event's.
Reply == [type: {"success", "fail"}, client: Clients, id: Nat, made: SUBSET ProxyId]
Notice == [type: {"event"}, client: Clients, proxy: ProxyId, event: Events]

Success(c, i, made) == [type |-> "success", client |-> c, id |-> i, made |-> made]
Fail(c, i) == [type |-> "fail", client |-> c, id |-> i, made |-> {}]
Event(c, p, e) == [type |-> "event", client |-> c, proxy |-> p, event |-> e]

\* The messages in a queue.
InFlight(q) == {q[i] : i \in 1 .. Len(q)}

-----------------------------------------------------------------------------

\* A message written to a transport that is not up is lost.
Deliver(q, ms) == IF link = "up" THEN q \o ms ELSE q

\* What a drop leaves of a queue: any prefix.
Cut(q) == {SubSeq(q, 1, n) : n \in 0 .. Len(q)}

LinkInit ==
    /\ link = "up"
    /\ downs = 0
    /\ c2s = <<>>
    /\ s2c = [c \in Clients |-> <<>>]

LinkTypeOK ==
    /\ link \in {"up", "down", "closed"}
    /\ downs \in 0 .. MaxDowns
    /\ c2s \in Seq(Call)
    /\ s2c \in [Clients -> Seq(Reply \union Notice)]

LinkDown ==
    /\ link = "up"
    /\ downs < MaxDowns
    /\ link' = "down"
    /\ downs' = downs + 1
    /\ c2s' \in Cut(c2s)
    /\ s2c' \in [Clients -> UNION {Cut(s2c[c]) : c \in Clients}]
    /\ \A c \in Clients : s2c'[c] \in Cut(s2c[c])

LinkClose ==
    /\ link \in {"up", "down"}
    /\ link' = "closed"
    /\ UNCHANGED <<downs, c2s, s2c>>

=============================================================================
