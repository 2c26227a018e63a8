------------------------------- MODULE Fills --------------------------------
(***************************************************************************)
(* A fill and its proxy at work: what the program sees through the fill    *)
(* against what happens to the native object.                              *)
(***************************************************************************)
EXTENDS Fill

\* The transport is up again only once both sides know that it went down.
LinkUp ==
    /\ link = "down"
    /\ ~sUp /\ ~cUp
    /\ link' = "up"
    /\ UNCHANGED <<kind, downs, c2s, s2c, clientVars, serverVars>>

\* A drop loses what it will of the last messages of either direction.
LinkDown ==
    /\ link = "up"
    /\ downs < MaxDowns
    /\ link' = "down"
    /\ downs' = downs + 1
    /\ c2s' \in Cut(c2s)
    /\ s2c' \in Cut(s2c)
    /\ UNCHANGED <<kind, clientVars, serverVars>>

Next == ClientNext \/ ServerNext \/ LinkUp \/ LinkDown

Spec == Init /\ [][Next]_vars

-----------------------------------------------------------------------------

\* Types, and: no native event is forwarded by two listeners, however often the
\* program asks for the delayed one.
TypeOK ==
    /\ kind \in Kinds
    /\ link \in {"up", "down"}
    /\ downs \in 0 .. MaxDowns
    /\ c2s \in Seq(Calls \union {"handshake"})
    /\ s2c \in Seq(Message)
    /\ {cUp, greeted, sUp, timer, flowing, registered} \subseteq BOOLEAN
    /\ promise \in {"asked", "held", "null", "failed", "gone"}
    /\ queued \in Seq(Calls)
    /\ pending \subseteq Calls
    /\ used \subseteq Calls
    /\ flags \subseteq Flags
    /\ heard \in Seq(Events)
    /\ told \in Nat
    /\ {sockets, unheeded} \subseteq SUBSET Conns
    /\ srv \in {"none", "stored", "removed"}
    /\ listeners \in [Events -> {0, 1}]
    /\ phase \in Phases
    /\ conn \in [Conns -> {"none", "open", "ending", "erred", "closed"}]
    /\ produced \in Seq(Events)

\* The native events on their way: Picked(q)[i] are those of q's first i messages.
Pick(es, m) == IF m.is = "event" THEN Append(es, m.of) ELSE es
Picked(q) == LET f[i \in 0 .. Len(q)] == IF i = 0 THEN <<>> ELSE Pick(f[i - 1], q[i]) IN f
Coming == Picked(s2c)[Len(s2c)]

\* "We just always send all events from the server, so we never miss any due to
\* listening too late" (proxy.ts:237): what a fill emitted is a prefix of what its
\* native object emitted, each event once and in order; and until a drop, as long
\* as the proxy's call waits or its proxy is held, the rest is on its way.
Faithful ==
    /\ Len(heard) <= Len(produced) /\ heard = SubSeq(produced, 1, Len(heard))
    /\ downs = 0 /\ promise \in {"asked", "held"} => heard \o Coming = produced

\* "Trigger events so things like child processes can clean up" (client.ts:154): a
\* fill that was told of a disconnect shows nothing alive, then or in a session
\* after it: no late answer, event or callback of the old session reaches it.
DeadStaysDead ==
    told > 0 =>
        /\ flags \intersect {"connected", "listening"} = {}
        /\ kind = "process" => "killed" \in flags
        /\ Class(kind) = "socket" =>
               "destroyed" \in flags /\ ("connecting" \in flags => "connect()" \in used)
        /\ sockets = {}

\* net.Server's connections and getConnections(): until a drop, a connection that has
\* emitted no end is counted, or due to be, unless a call on it failed; and ever, what
\* is counted is such a connection, or due to be counted out by its end or by the
\* disconnect.  The server's own close may come before that of its last connection.
On(is, s) == \E m \in InFlight(s2c) : m.is = is /\ m.of = s
Lasting == {s \in Conns : conn[s] \in {"open", "ending"}}
ConnectionsAgree ==
    /\ downs = 0 /\ promise \in {"held", "gone"} =>
           \A s \in Lasting : s \in sockets \union unheeded \/ On("connection", s)
    /\ \A s \in sockets : s \in Lasting \/ On("socket", s) \/ (link = "down" /\ cUp)

\* The fills that read the init data without waiting for it (os.ts) find it once
\* any proxy is held: until a drop, the handshake is answered first.
GreetedFirst == downs = 0 /\ promise # "asked" /\ "make" \notin pending => greeted \/ promise = "failed"

\* "Trigger events so things like child processes can clean up" (client.ts:154), and
\* the done handler of createProxy: when a proxy is removed, whatever removed it and
\* whatever was lost, its fill heard of an end, of the native object, of the
\* connection or of its promise, or is due to hear.
EndHeard ==
    srv = "removed" =>
        \/ told > 0
        \/ promise = "failed"
        \/ \E i \in DOMAIN heard : heard[i] \in Done(kind)
        \/ promise # "gone" /\ \E m \in InFlight(s2c) : m.is = "event" /\ m.of \in Done(kind)
        \/ link = "down" /\ cUp

\* "Allow using a proxy like it's returned synchronously" (proxy.ts:25): a call is held only for a promise that will
\* settle, and until a drop one that waits is on its way, or its answer is.
NoCallStranded ==
    /\ queued # <<>> => promise = "asked" /\ "make" \in pending
    /\ downs = 0 =>
           \A n \in pending :
               \/ n \in InFlight(c2s)
               \/ \E m \in InFlight(s2c) : m.is \in {"success", "null", "fail"} /\ m.of = n

\* "Allow using a proxy like it's returned synchronously" (proxy.ts:25), and createProxy's
\* handlers: whatever the link does, the program sees of a fill what Watched promises.
Seen == INSTANCE Watched WITH
    ends <- Done(kind), happened <- produced, shown <- heard, stage <- promise, lost <- told
WatchedFromAfar == Seen!Spec

=============================================================================
