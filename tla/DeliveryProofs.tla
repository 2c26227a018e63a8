--------------------------- MODULE DeliveryProofs ---------------------------
(***************************************************************************)
(* Proofs about Fills: nothing alive after a disconnect; then what reaches *)
(* a fill: every event once and in order, an end whatever is lost, and an  *)
(* answer to each call; for every set of kinds and connections and every   *)
(* bound.                                                                  *)
(***************************************************************************)
EXTENDS Fills, QueueLemmas

-----------------------------------------------------------------------------
(* A fill that was told of a disconnect shows nothing alive.               *)

\* The flags a fill of this kind has.
OwnFlags(k) ==
    CASE k = "process" -> {"connected", "killed"}
      [] k \in Sockets -> {"connecting", "destroyed"}
      [] k = "server" -> {"listening"}
      [] OTHER -> {}

\* What keeps a fill dead: its proxy is gone for good, and neither the answer that
\* would make it nor the one that would set connected is waited for.
Buried ==
    /\ promise = "gone"
    /\ "make" \notin pending
    /\ "getPid" \notin pending

\* DeadStaysDead, strengthened to be inductive.
DeadInv ==
    /\ kind \in AllKinds
    /\ told \in Nat
    /\ flags \subseteq OwnFlags(kind)
    /\ told > 0 => Buried
    /\ DeadStaysDead

\* A fill of kind k has the flags of k only, whatever it hears.
LEMMA RaisedOwn ==
    ASSUME NEW k \in AllKinds, NEW what, NEW f, <<Class(k), what, f>> \in Raised
    PROVE  f \in OwnFlags(k)
<1>1. CASE k \in Sockets
  <2>1. Class(k) = "socket" /\ OwnFlags(k) = {"connecting", "destroyed"}
    BY <1>1 DEF Class, OwnFlags, Sockets
  <2> QED
    BY <2>1 DEF Raised
<1>2. CASE k \notin Sockets
  <2>1. Class(k) = k /\ k # "socket"
    BY <1>2 DEF Class, Sockets, AllKinds
  <2>2. \/ k = "process" /\ f \in {"connected", "killed"}
        \/ k = "server" /\ f = "listening"
    BY <2>1 DEF Raised
  <2> QED
    BY <1>2, <2>2 DEF OwnFlags, Sockets
<1> QED
  BY <1>1, <1>2

LEMMA AfterOwn ==
    ASSUME NEW k \in AllKinds, NEW f \in SUBSET OwnFlags(k), NEW what
    PROVE  After(k, f, what) \subseteq OwnFlags(k)
BY RaisedOwn DEF After

LEMMA AfterAllOwn ==
    ASSUME NEW k \in AllKinds, NEW f \in SUBSET OwnFlags(k), NEW es
    PROVE  AfterAll(k, f, es) \subseteq OwnFlags(k)
BY RaisedOwn DEF AfterAll

\* Only the answer of getPid raises connected and only an event listening; nothing
\* takes killed or destroyed back, and only connect() raises connecting.
LEMMA AfterCalls ==
    ASSUME NEW k \in AllKinds, NEW f, NEW what,
           what \in UserCalls(k) \union {"error"}
    PROVE  /\ "connected" \in After(k, f, what) => "connected" \in f
           /\ "listening" \in After(k, f, what) => "listening" \in f
           /\ "killed" \in f => "killed" \in After(k, f, what)
           /\ "destroyed" \in f => "destroyed" \in After(k, f, what)
           /\ "connecting" \in After(k, f, what) => "connecting" \in f \/ what = "connect()"
<1>1. what \notin {"getPid", "listening"}
  BY DEF UserCalls, AllKinds
<1>2. \A c : <<c, what, "killed">> \notin Cleared /\ <<c, what, "destroyed">> \notin Cleared
  BY DEF Cleared
<1>3. \A c : <<c, what, "connected">> \notin Raised /\ <<c, what, "listening">> \notin Raised
  BY <1>1 DEF Raised
<1>4. \A c : <<c, what, "connecting">> \in Raised => what = "connect()"
  BY DEF Raised
<1> QED
  BY <1>2, <1>3, <1>4 DEF After, Flags

\* What a disconnect emits clears all that says that something lives.
LEMMA AfterDisconnect ==
    ASSUME NEW k \in AllKinds, NEW f \in SUBSET OwnFlags(k)
    PROVE  LET g == AfterAll(k, f, OnDisconnect(k))
           IN  /\ "connected" \notin g
               /\ "listening" \notin g
               /\ k = "process" => "killed" \in g
               /\ Class(k) = "socket" => "destroyed" \in g /\ "connecting" \notin g
<1> DEFINE g == AfterAll(k, f, OnDisconnect(k))
           Sets(flag) == \E e \in OnDisconnect(k) : <<Class(k), e, flag>> \in Raised
           Clears(flag) == \E e \in OnDisconnect(k) : <<Class(k), e, flag>> \in Cleared
<1>0. \A flag \in Flags : flag \in g <=> (flag \in f /\ ~Clears(flag)) \/ Sets(flag)
  BY DEF AfterAll
<1>1. {"connected", "listening", "killed", "destroyed", "connecting"} \subseteq Flags
  BY DEF Flags
<1>2. CASE k = "process"
  <2>1. OnDisconnect(k) = {"error", "exit", "close"} /\ Class(k) = "process"
    BY <1>2 DEF OnDisconnect, Class, Sockets
  <2>2. "listening" \notin f
    BY <1>2 DEF OwnFlags, Sockets
  <2>3. Clears("connected") /\ ~Sets("connected") /\ ~Sets("listening")
    BY <2>1 DEF Raised, Cleared
  <2>4. Sets("killed")
    BY <2>1 DEF Raised
  <2> QED
    BY <1>0, <1>1, <2>1, <2>2, <2>3, <2>4
<1>3. CASE k \in Sockets
  <2>1. OnDisconnect(k) = {"error", "close", "finish", "end"} /\ Class(k) = "socket"
    BY <1>3 DEF OnDisconnect, Class, Sockets
  <2>2. "listening" \notin f /\ "connected" \notin f
    BY <1>3 DEF OwnFlags, Sockets
  <2>3. Clears("connecting") /\ ~Sets("connecting") /\ ~Sets("listening") /\ ~Sets("connected")
    BY <2>1 DEF Raised, Cleared
  <2>4. Sets("destroyed")
    BY <2>1 DEF Raised
  <2> QED
    BY <1>0, <1>1, <1>3, <2>1, <2>2, <2>3, <2>4 DEF Sockets
<1>4. CASE k \notin Sockets /\ k # "process"
  <2>1. Class(k) = k /\ k # "socket"
    BY <1>4 DEF Class, Sockets, AllKinds
  <2>2. "connected" \notin f /\ (k # "server" => "listening" \notin f)
    BY <1>4 DEF OwnFlags
  <2>3. k = "server" => OnDisconnect(k) = {"error", "close"}
    BY DEF OnDisconnect, Sockets
  <2>4. ~Sets("connected") /\ ~Sets("listening")
    BY <1>4, <2>1, <2>3 DEF Raised
  <2>5. k = "server" => Clears("listening")
    BY <2>1, <2>3 DEF Cleared
  <2> QED
    BY <1>0, <1>1, <1>4, <2>1, <2>2, <2>4, <2>5
<1> QED
  BY <1>2, <1>3, <1>4

LEMMA DeadInit == Init => DeadInv
<1> SUFFICES ASSUME Init PROVE DeadInv
  OBVIOUS
<1>1. kind \in AllKinds
  BY KindsAssumption DEF Init
<1>2. flags \subseteq OwnFlags(kind)
  BY DEF Init, OwnFlags, Sockets
<1> QED
  BY <1>1, <1>2 DEF Init, DeadInv, DeadStaysDead

\* What the fill keeps of its proxy and shows of it.
shown == <<kind, promise, pending, used, flags, told, sockets>>

LEMMA DeadUnchanged == DeadInv /\ UNCHANGED shown => DeadInv'
BY DEF DeadInv, Buried, DeadStaysDead, shown, Class, OwnFlags

\* A step in which a fill that was told takes a call, or an error, of the program's.
LEMMA DeadCalls ==
    ASSUME DeadInv, UNCHANGED <<kind, told, sockets>>,
           NEW what \in UserCalls(kind) \union {"error"},
           told > 0 => /\ promise' = "gone"
                       /\ pending' \subseteq pending \union UserCalls(kind)
                       /\ \/ flags' = flags
                          \/ flags' = After(kind, flags, what)
                          \/ flags' = After(kind, After(kind, flags, what), "error"),
           flags' \subseteq OwnFlags(kind),
           what = "connect()" => what \in used',
           used \subseteq used'
    PROVE  DeadInv'
<1> SUFFICES ASSUME told > 0 PROVE Buried' /\ DeadStaysDead'
  BY DEF DeadInv, DeadStaysDead, OwnFlags
<1>1. "make" \notin UserCalls(kind) /\ "getPid" \notin UserCalls(kind)
  BY DEF UserCalls, DeadInv, AllKinds
<1>2. Buried'
  BY <1>1 DEF DeadInv, Buried
<1> DEFINE once == After(kind, flags, what)
           twice == After(kind, once, "error")
<1>3. kind \in AllKinds /\ DeadStaysDead
  BY DEF DeadInv
<1>4. /\ "connected" \in once => "connected" \in flags
      /\ "listening" \in once => "listening" \in flags
      /\ "killed" \in flags => "killed" \in once
      /\ "destroyed" \in flags => "destroyed" \in once
      /\ "connecting" \in once => "connecting" \in flags \/ what = "connect()"
  BY <1>3, AfterCalls
<1>5. /\ "connected" \in twice => "connected" \in once
      /\ "listening" \in twice => "listening" \in once
      /\ "killed" \in once => "killed" \in twice
      /\ "destroyed" \in once => "destroyed" \in twice
      /\ "connecting" \in twice => "connecting" \in once \/ "error" = "connect()"
  BY <1>3, AfterCalls
<1>6. /\ flags' \intersect {"connected", "listening"} = {}
      /\ "killed" \in flags => "killed" \in flags'
      /\ "destroyed" \in flags => "destroyed" \in flags'
      /\ "connecting" \in flags' => "connecting" \in flags \/ what = "connect()"
  <2>1. flags \intersect {"connected", "listening"} = {}
    BY <1>3 DEF DeadStaysDead
  <2> HIDE DEF once, twice
  <2>2. flags' = flags \/ flags' = once \/ flags' = twice
    BY DEF once, twice
  <2>3. "error" # "connect()"
    OBVIOUS
  <2>4. CASE flags' = flags
    BY <2>1, <2>4
  <2>5. CASE flags' = once
    BY <2>1, <2>5, <1>4
  <2>6. CASE flags' = twice
    BY <2>1, <2>3, <2>6, <1>4, <1>5
  <2> QED
    BY <2>2, <2>4, <2>5, <2>6
<1>7. DeadStaysDead'
  BY <1>3, <1>6 DEF DeadStaysDead, Class
<1> QED
  BY <1>2, <1>7

LEMMA DeadUserCall == ASSUME DeadInv, NEW n \in Calls, UserCall(n) PROVE DeadInv'
<1>1. kind \in AllKinds /\ flags \subseteq OwnFlags(kind) /\ n \in UserCalls(kind)
  BY DEF DeadInv, UserCall
<1>2. /\ UNCHANGED <<kind, told, sockets, promise>>
      /\ used' = used \union {n}
  BY DEF UserCall
<1>3. \/ flags' = After(kind, flags, n)
      \/ flags' = After(kind, After(kind, flags, n), "error")
  BY DEF UserCall, Queue, Forward, Skip, Reject
<1>4. pending' \subseteq pending \union UserCalls(kind)
  BY <1>1 DEF UserCall, Queue, Forward, Skip, Reject
<1>5. flags' \subseteq OwnFlags(kind)
  BY <1>1, <1>3, AfterOwn
<1>6. told > 0 => promise' = "gone"
  BY <1>2 DEF DeadInv, Buried
<1> QED
  BY <1>1, <1>2, <1>3, <1>4, <1>5, <1>6, DeadCalls

LEMMA DeadFails ==
    ASSUME DeadInv, NEW n, Fails(n)
    PROVE  DeadInv'
<1>1. kind \in AllKinds /\ flags \subseteq OwnFlags(kind)
  BY DEF DeadInv
<1>2. /\ UNCHANGED <<kind, told, sockets, used>>
      /\ pending' \subseteq pending
      /\ flags' = flags \/ flags' = After(kind, flags, "error")
  BY DEF Fails
<1>3. flags' \subseteq OwnFlags(kind)
  BY <1>1, <1>2, AfterOwn
<1>4. told > 0 => promise' = "gone"
  BY DEF DeadInv, Buried, Fails
<1> QED
  BY <1>2, <1>3, <1>4, DeadCalls

LEMMA DeadReceive == DeadInv /\ ClientReceive => DeadInv'
<1> SUFFICES ASSUME DeadInv, ClientReceive PROVE DeadInv'
  OBVIOUS
<1> DEFINE m == Head(s2c)
<1>0. kind \in AllKinds /\ told \in Nat /\ flags \subseteq OwnFlags(kind)
  BY DEF DeadInv
<1>1. CASE ClientDiscard \/ Greet(m) \/ Unexpected(m) \/ Lost(m)
  BY <1>1, DeadUnchanged DEF ClientDiscard, Greet, Unexpected, Lost, clientVars, shown
<1>2. CASE Made(m) \/ MadeNull(m)
  <2>1. ~(told > 0) /\ told' = told /\ kind' = kind /\ flags' = flags
    BY <1>2 DEF Made, MadeNull, DeadInv, Buried
  <2> QED
    BY <1>0, <2>1 DEF DeadInv, DeadStaysDead, OwnFlags
<1>3. CASE Resolved(m)
  <2>1. CASE m.of = "getPid"
    <3>1. ~(told > 0) /\ told' = told /\ kind' = kind /\ flags' = After(kind, flags, "getPid")
      BY <1>3, <2>1 DEF Resolved, DeadInv, Buried
    <3>2. flags' \subseteq OwnFlags(kind)
      BY <1>0, <3>1, AfterOwn
    <3> QED
      BY <1>0, <3>1, <3>2 DEF DeadInv, DeadStaysDead, OwnFlags
  <2>2. CASE m.of # "getPid"
    <3>1. /\ UNCHANGED <<kind, told, sockets, used, flags>>
          /\ pending' \subseteq pending
          /\ promise' = promise \/ promise' = "gone"
      BY <1>3, <2>2 DEF Resolved
    <3>2. told > 0 => promise' = "gone"
      BY <3>1 DEF DeadInv, Buried
    <3> QED
      BY <1>0, <3>1, <3>2, DeadCalls
  <2> QED
    BY <2>1, <2>2
<1>4. CASE Rejected(m)
  BY <1>4, DeadFails DEF Rejected
<1>5. CASE Heard(m)
  <2>1. ~(told > 0) /\ told' = told /\ kind' = kind /\ flags' = After(kind, flags, m.of)
    BY <1>5 DEF Heard, DeadInv, Buried
  <2>2. flags' \subseteq OwnFlags(kind)
    BY <1>0, <2>1, AfterOwn
  <2> QED
    BY <1>0, <2>1, <2>2 DEF DeadInv, DeadStaysDead, OwnFlags
<1>6. CASE DoneHeard(m) \/ Accepted(m)
  <2>1. ~(told > 0) /\ told' = told /\ kind' = kind /\ flags' = flags
    BY <1>6 DEF DoneHeard, Accepted, DeadInv, Buried
  <2> QED
    BY <1>0, <2>1 DEF DeadInv, DeadStaysDead, OwnFlags
<1>7. CASE SocketHeard(m)
  <2>1. ~(told > 0) /\ told' = told /\ kind' = kind /\ flags' = flags
    BY <1>7 DEF SocketHeard, DeadInv, DeadStaysDead
  <2> QED
    BY <1>0, <2>1 DEF DeadInv, DeadStaysDead, OwnFlags
<1> QED
  BY <1>1, <1>2, <1>3, <1>4, <1>5, <1>6, <1>7 DEF ClientReceive, ClientTakes

LEMMA DeadDown == DeadInv /\ ClientDown => DeadInv'
<1> SUFFICES ASSUME DeadInv, ClientDown PROVE DeadInv'
  OBVIOUS
<1>0. kind \in AllKinds /\ told \in Nat /\ flags \subseteq OwnFlags(kind) /\ kind' = kind
  BY DEF DeadInv, ClientDown
<1>1. CASE Attached
  <2>1. /\ told' = told + 1
        /\ flags' = AfterAll(kind, flags, OnDisconnect(kind))
        /\ promise' = "gone"
        /\ pending' = {}
        /\ sockets' = {}
    BY <1>1 DEF ClientDown, Attached, CallsLeft
  <2>2. flags' \subseteq OwnFlags(kind)
    BY <1>0, <2>1, AfterAllOwn
  <2>3. /\ "connected" \notin flags'
        /\ "listening" \notin flags'
        /\ kind = "process" => "killed" \in flags'
        /\ Class(kind) = "socket" => "destroyed" \in flags' /\ "connecting" \notin flags'
    BY <1>0, <2>1, AfterDisconnect
  <2>4. DeadStaysDead'
    BY <1>0, <2>1, <2>3 DEF DeadStaysDead, Class
  <2> QED
    BY <1>0, <2>1, <2>2, <2>4 DEF DeadInv, Buried, OwnFlags
<1>2. CASE ~Attached
  <2>1. /\ UNCHANGED <<kind, told, used>>
        /\ flags' = flags \/ flags' = After(kind, flags, "error")
        /\ pending' = {}
        /\ sockets' = {}
    BY <1>2 DEF ClientDown, CallsLeft
  <2>2. flags' \subseteq OwnFlags(kind)
    BY <1>0, <2>1, AfterOwn
  <2>3. told > 0 => promise' = "gone" /\ sockets' = sockets
    BY <2>1 DEF ClientDown, DeadInv, Buried, DeadStaysDead
  <2>4. CASE told > 0
    BY <2>1, <2>2, <2>3, <2>4, DeadCalls
  <2>5. CASE ~(told > 0)
    BY <1>0, <2>1, <2>2, <2>5 DEF DeadInv, DeadStaysDead, OwnFlags
  <2> QED
    BY <2>4, <2>5
<1> QED
  BY <1>1, <1>2

LEMMA DeadNext == DeadInv /\ [Next]_vars => DeadInv'
<1> SUFFICES ASSUME DeadInv, [Next]_vars PROVE DeadInv'
  OBVIOUS
<1>1. ASSUME NEW n \in Calls, UserCall(n) PROVE DeadInv'
  BY <1>1, DeadUserCall
<1>2. CASE ClientReceive
  BY <1>2, DeadReceive
<1>3. ASSUME NEW n \in Calls, CallTimeout(n) PROVE DeadInv'
  BY <1>3, DeadFails DEF CallTimeout
<1>4. ASSUME NEW s \in Conns, SocketCallFails(s) PROVE DeadInv'
  <2>1. ~(told > 0) /\ told' = told /\ kind' = kind /\ flags' = flags
    BY <1>4 DEF SocketCallFails, DeadInv, DeadStaysDead
  <2> QED
    BY <2>1 DEF DeadInv, DeadStaysDead, OwnFlags
<1>5. CASE ClientDown
  BY <1>5, DeadDown
<1>6. CASE ClientUp
  BY <1>6, DeadUnchanged DEF ClientUp, shown
<1>7. CASE ServerNext
  <2>1. UNCHANGED <<kind, clientVars>>
    <3>1. CASE ServerReceive
      BY <3>1 DEF ServerReceive, ServerTakes, ServerDiscard, Handshake, Store, StoreNone, Refuse, NoProxy, Perform, Dispose
    <3>2. CASE DisposeTimer \/ ServerDown \/ ServerUp
      BY <3>2 DEF DisposeTimer, ServerDown, ServerUp
    <3>3. CASE \E e \in Events : NativeStep(e)
      BY <3>3 DEF NativeStep
    <3>4. CASE \E s \in Conns : Connects(s) \/ ConnEnding(s) \/ ConnStep(s)
      BY <3>4 DEF Connects, ConnEnding, ConnStep
    <3> QED
      BY <1>7, <3>1, <3>2, <3>3, <3>4 DEF ServerNext
  <2> QED
    BY <2>1, DeadUnchanged DEF clientVars, shown
<1>8. CASE LinkUp \/ LinkDown
  BY <1>8, DeadUnchanged DEF LinkUp, LinkDown, clientVars, shown
<1>9. CASE UNCHANGED vars
  BY <1>9, DeadUnchanged DEF vars, clientVars, shown
<1> QED
  BY <1>1, <1>2, <1>3, <1>4, <1>5, <1>6, <1>7, <1>8, <1>9 DEF Next, ClientNext

\* "Trigger events so things like child processes can clean up" (client.ts:154): a
\* fill that was told of a disconnect shows nothing alive, then or in a session
\* after it, since no answer it could still hear was asked for before.
THEOREM DeadFillsStayDead == Spec => []DeadStaysDead
<1>1. DeadInv => DeadStaysDead
  BY DEF DeadInv
<1> QED
  BY <1>1, DeadInit, DeadNext, PTL DEF Spec

-----------------------------------------------------------------------------
(* The inductive invariant, in one part per concern.                       *)

\* The first session: the fill may hold the proxy, and nothing was lost yet.
First == promise \in {"asked", "held"} /\ link = "up"

\* Answers are to calls, and events and callbacks are of what there is.
Sound(m) ==
    /\ m.is \in {"success", "null", "fail"} => m.of \in Calls
    /\ m.is = "null" => m.of = "make"
    /\ m.is = "event" => m.of \in Events
    /\ m.is \in {"connection", "socket"} => m.of \in Conns
Types == TypeOK /\ \A m \in InFlight(s2c) : Sound(m)

\* Before a drop both sides are connected; a proxy is held, or asked for, by a client
\* that is, and stored by a server that is.
Sides ==
    /\ downs = 0 => link = "up" /\ sUp /\ cUp
    /\ promise \in {"asked", "held"} => cUp
    /\ srv = "stored" => sUp
    /\ timer => srv = "stored"
    /\ First => sUp
    /\ srv = "none" => \A s \in Conns : conn[s] = "none"

\* Who waits for what.
Waits ==
    /\ "make" \in pending <=> promise = "asked"
    /\ queued # <<>> => promise = "asked"
    /\ \A i \in 1 .. Len(queued) : queued[i] \notin {"make", "dispose"}
    /\ "dispose" \in pending => promise \in {"held", "gone"}

\* A stored proxy forwards each event that its native object emits, once.
Bound ==
    srv = "stored" =>
        /\ \A e \in Forwarded(kind) : listeners[e] = 1
        /\ listeners["data"] \in {0, 1}
        /\ flowing => listeners["data"] = 1

\* The answer that gives the proxy comes before all that is about it.
Given(q, i) == \E j \in 1 .. i : q[j] = Msg("success", "make")
Ordered ==
    promise = "asked" =>
        /\ \A i \in 1 .. Len(s2c) :
               s2c[i].is \in {"event", "done", "connection", "socket"} => Given(s2c, i - 1)
        /\ link = "up" /\ srv # "none" => Given(s2c, Len(s2c))

\* s begins t.
Prefix(s, t) == Len(s) <= Len(t) /\ \A i \in 1 .. Len(s) : s[i] = t[i]

\* What is emitted and what is on its way begin what the native object emitted, and
\* are all of it in the first session.
Followed ==
    /\ Prefix(heard, produced)
    /\ promise \in {"asked", "held"} => Prefix(heard \o Coming, produced)
    /\ First => heard \o Coming = produced

\* The handshake's answer comes before that of the call that makes the proxy.
Making(m) == m = Msg("success", "make") \/ m.is = "null"
Welcome(q, i) == \E j \in 1 .. i : q[j].is = "init"
Greeting ==
    downs = 0 /\ ~greeted =>
        /\ promise \in {"asked", "failed"}
        /\ \A i \in 1 .. Len(s2c) : Making(s2c[i]) => Welcome(s2c, i - 1)
        /\ "make" \in InFlight(c2s) => Head(c2s) = "handshake" \/ Welcome(s2c, Len(s2c))

\* The proxy is made once, or comes to nothing.
NoneNull(q) == \A i \in 1 .. Len(q) : q[i].is # "null"
Once ==
    /\ \A i, j \in 1 .. Len(c2s) : c2s[i] = "make" /\ c2s[j] = "make" => i = j
    /\ "make" \in InFlight(c2s) => srv = "none" /\ promise # "null" /\ NoneNull(s2c)
    /\ srv # "none" => promise # "null" /\ NoneNull(s2c)
    /\ srv = "none" =>
           /\ phase = "none" /\ promise # "held"
           /\ \A i \in 1 .. Len(s2c) : s2c[i] # Msg("success", "make")

\* A "done" comes after the event that ends the proxy, and leads to dispose() only
\* when that was heard.
HeardEnd == \E i \in 1 .. Len(heard) : heard[i] \in Done(kind)
EndIn(q, i) == \E j \in 1 .. i : q[j].is = "event" /\ q[j].of \in Done(kind)
Due ==
    \/ told > 0
    \/ promise = "failed"
    \/ HeardEnd
    \/ promise # "gone" /\ EndIn(s2c, Len(s2c))
    \/ link = "down" /\ cUp
Ends ==
    /\ promise = "gone" => told > 0 \/ HeardEnd
    /\ "dispose" \in pending \union InFlight(c2s) => HeardEnd
    /\ promise \in {"asked", "held"} =>
           \A i \in 1 .. Len(s2c) : s2c[i].is = "done" => HeardEnd \/ EndIn(s2c, i - 1)
    /\ srv = "removed" \/ timer => Due

\* Before a drop a call that waits is on its way, or its answer is.
Answer(q, n) == \E i \in 1 .. Len(q) : q[i].is \in {"success", "null", "fail"} /\ q[i].of = n
Answered == downs = 0 => \A n \in pending : n \in InFlight(c2s) \/ Answer(s2c, n)

-----------------------------------------------------------------------------
(* The events in a queue.                                                  *)

\* What Picked promises of the first n messages of q.
Picks(f, q, n) ==
    /\ f \in [0 .. n -> Seq(Events)]
    /\ f[0] = <<>>
    /\ \A i \in 1 .. n : f[i] = Pick(f[i - 1], q[i])

\* A queue of messages whose events are events.
Mail(q) == q \in Seq(Message) /\ \A i \in 1 .. Len(q) : q[i].is = "event" => q[i].of \in Events

LEMMA PickType ==
    ASSUME NEW q, Mail(q), NEW i \in 1 .. Len(q), NEW es \in Seq(Events)
    PROVE  Pick(es, q[i]) \in Seq(Events)
BY DEF Mail, Pick

LEMMA PicksExists ==
    ASSUME NEW q, Mail(q)
    PROVE  \E f : Picks(f, q, Len(q))
<1> DEFINE S == {m \in 0 .. Len(q) : \E f : Picks(f, q, m)}
<1>0. Len(q) \in Nat
  BY DEF Mail
<1>1. 0 \in S
  <2>1. Picks([i \in 0 .. 0 |-> <<>>], q, 0)
    BY DEF Picks
  <2> QED
    BY <1>0, <2>1
<1>2. ASSUME NEW m \in 1 .. Len(q), m - 1 \in S PROVE m \in S
  <2>1. PICK f : Picks(f, q, m - 1)
    BY <1>2
  <2> HIDE DEF S
  <2>2. m - 1 \in 0 .. m - 1 /\ f[m - 1] \in Seq(Events)
    BY <1>0, <2>1 DEF Picks
  <2> DEFINE last == Pick(f[m - 1], q[m])
             g == [i \in 0 .. m |-> IF i = m THEN last ELSE f[i]]
  <2>3. last \in Seq(Events)
    BY <2>2, PickType
  <2> HIDE DEF last
  <2>4. \A i \in 0 .. m : g[i] = IF i = m THEN last ELSE f[i]
    OBVIOUS
  <2>5. g \in [0 .. m -> Seq(Events)]
    BY <1>0, <2>1, <2>3 DEF Picks
  <2> HIDE DEF g
  <2>6. ASSUME NEW i \in 1 .. m PROVE g[i] = Pick(g[i - 1], q[i])
    <3>1. i - 1 \in 0 .. m /\ i - 1 # m /\ g[i - 1] = f[i - 1] /\ i \in 0 .. m
      BY <1>0, <2>4
    <3>2. CASE i = m
      BY <2>4, <3>1, <3>2 DEF last
    <3>3. CASE i # m
      <4>1. i \in 1 .. m - 1
        BY <3>3
      <4>2. f[i] = Pick(f[i - 1], q[i])
        BY <2>1, <4>1 DEF Picks
      <4> QED
        BY <2>4, <3>1, <3>3, <4>2
    <3> QED
      BY <3>2, <3>3
  <2>7. g[0] = <<>>
    BY <1>0, <2>1, <2>4 DEF Picks
  <2>8. Picks(g, q, m)
    BY <2>5, <2>6, <2>7 DEF Picks
  <2> QED
    BY <1>0, <2>8 DEF S
<1>3. S \in SUBSET (0 .. Len(q))
  OBVIOUS
<1> HIDE DEF S
<1>4. S = 0 .. Len(q)
  BY <1>0, <1>1, <1>2, <1>3, UpTo
<1>5. Len(q) \in S
  BY <1>0, <1>4
<1> QED
  BY <1>5 DEF S

LEMMA PickedPicks == ASSUME NEW q, Mail(q) PROVE Picks(Picked(q), q, Len(q))
<1>0. Len(q) \in Nat
  BY DEF Mail
<1> DEFINE Body(f) == [i \in 0 .. Len(q) |-> IF i = 0 THEN <<>> ELSE Pick(f[i - 1], q[i])]
<1>1. PICK f : Picks(f, q, Len(q))
  BY PicksExists
<1>2. f = Body(f)
  <2>1. \A i \in 0 .. Len(q) : f[i] = IF i = 0 THEN <<>> ELSE Pick(f[i - 1], q[i])
    BY <1>0, <1>1 DEF Picks
  <2>2. f = [i \in 0 .. Len(q) |-> f[i]]
    BY <1>1 DEF Picks
  <2> QED
    BY <2>1, <2>2
<1>3. Picked(q) = Body(Picked(q))
  BY <1>2 DEF Picked
<1>4. ASSUME NEW g, g = Body(g) PROVE Picks(g, q, Len(q))
  <2>1. \A i \in 0 .. Len(q) : g[i] = IF i = 0 THEN <<>> ELSE Pick(g[i - 1], q[i])
    BY <1>4
  <2>2. g = [i \in 0 .. Len(q) |-> g[i]]
    BY <1>4, <2>1
  <2> DEFINE S == {m \in 0 .. Len(q) : g[m] \in Seq(Events)}
  <2>3. 0 \in S
    <3>1. 0 \in 0 .. Len(q) /\ g[0] = <<>> /\ <<>> \in Seq(Events)
      BY <1>0, <2>1
    <3>2. g[0] \in Seq(Events)
      BY <3>1
    <3> QED
      BY <3>1, <3>2
  <2>4. ASSUME NEW m \in 1 .. Len(q), m - 1 \in S PROVE m \in S
    <3>1. g[m - 1] \in Seq(Events) /\ m \in 0 .. Len(q) /\ m # 0
      BY <1>0, <2>4
    <3>2. Pick(g[m - 1], q[m]) \in Seq(Events)
      BY <3>1, PickType
    <3> QED
      BY <2>1, <3>1, <3>2
  <2>5. S \in SUBSET (0 .. Len(q))
    OBVIOUS
  <2>6. S = 0 .. Len(q)
    <3> HIDE DEF S
    <3> QED
      BY <1>0, <2>3, <2>4, <2>5, UpTo
  <2>7. g \in [0 .. Len(q) -> Seq(Events)]
    BY <2>2, <2>6
  <2>8. \A i \in 1 .. Len(q) : g[i] = Pick(g[i - 1], q[i])
    BY <1>0, <2>1
  <2>9. g[0] = <<>>
    BY <1>0, <2>1
  <2> QED
    BY <2>7, <2>8, <2>9 DEF Picks
<1> HIDE DEF Body
<1> QED
  BY <1>3, <1>4

\* What is picked from a queue does not depend on what is behind.
LEMMA PickedAgree ==
    ASSUME NEW q, Mail(q), NEW r, Mail(r), NEW n \in 0 .. Len(q), n \in 0 .. Len(r),
           \A i \in 1 .. n : q[i] = r[i]
    PROVE  Picked(q)[n] = Picked(r)[n]
<1> DEFINE S == {m \in 0 .. n : Picked(q)[m] = Picked(r)[m]}
<1>0. Len(q) \in Nat /\ Len(r) \in Nat /\ n \in Nat
  BY DEF Mail
<1>1. Picks(Picked(q), q, Len(q)) /\ Picks(Picked(r), r, Len(r))
  BY PickedPicks
<1>2. 0 \in S
  <2>1. Picked(q)[0] = <<>> /\ Picked(r)[0] = <<>> /\ 0 \in 0 .. n
    BY <1>0, <1>1 DEF Picks
  <2> QED
    BY <2>1
<1>3. ASSUME NEW i \in 1 .. n, i - 1 \in S PROVE i \in S
  <2>1. i \in 1 .. Len(q) /\ i \in 1 .. Len(r) /\ i \in 0 .. n
    BY <1>0
  <2>2. Picked(q)[i] = Pick(Picked(q)[i - 1], q[i]) /\ Picked(r)[i] = Pick(Picked(r)[i - 1], r[i])
    BY <1>1, <2>1 DEF Picks
  <2>3. Picked(q)[i] = Picked(r)[i]
    BY <1>3, <2>2
  <2> QED
    BY <2>1, <2>3
<1>4. S \in SUBSET (0 .. n)
  OBVIOUS
<1>5. n \in S
  <2> HIDE DEF S
  <2> QED
    BY <1>0, <1>2, <1>3, <1>4, UpTo
<1> QED
  BY <1>5

\* What is picked from the head comes first.
LEMMA PickedTail ==
    ASSUME NEW q, Mail(q), q # <<>>
    PROVE  /\ Mail(Tail(q))
           /\ Picked(q)[Len(q)] = Pick(<<>>, q[1]) \o Picked(Tail(q))[Len(Tail(q))]
<1> DEFINE r == Tail(q)
           n == Len(r)
           S == {m \in 0 .. n : Picked(q)[m + 1] = Pick(<<>>, q[1]) \o Picked(r)[m]}
<1>0. /\ r \in Seq(Message)
      /\ n = Len(q) - 1 /\ n \in Nat
      /\ \A i \in 1 .. n : r[i] = q[i + 1] /\ i + 1 \in 1 .. Len(q)
      /\ 1 \in 1 .. Len(q)
  BY DEF Mail
<1>1. Mail(r)
  BY <1>0 DEF Mail
<1>2. Picks(Picked(q), q, Len(q)) /\ Picks(Picked(r), r, n)
  BY <1>1, PickedPicks
<1>7. <<>> \in Seq(Events)
  OBVIOUS
<1>8. r = Tail(q) /\ n = Len(r)
  OBVIOUS
<1> HIDE DEF r, n
<1>3. 0 \in S
  <2>1. Picked(q)[1] = Pick(Picked(q)[1 - 1], q[1]) /\ Picked(q)[0] = <<>> /\ Picked(r)[0] = <<>>
    BY <1>0, <1>2 DEF Picks
  <2>2. Pick(<<>>, q[1]) \in Seq(Events)
    BY <1>0, <1>7, PickType
  <2>3. Picked(q)[0 + 1] = Pick(<<>>, q[1]) \o Picked(r)[0] /\ 0 \in 0 .. n
    BY <1>0, <2>1, <2>2
  <2> QED
    BY <2>3
<1>4. ASSUME NEW i \in 1 .. n, i - 1 \in S PROVE i \in S
  <2>1. Picked(r)[i] = Pick(Picked(r)[i - 1], r[i])
    BY <1>2 DEF Picks
  <2>2. /\ i + 1 \in 1 .. Len(q) /\ (i - 1) + 1 = (i + 1) - 1 /\ i \in 0 .. n /\ i - 1 \in 0 .. n
        /\ r[i] = q[i + 1]
    BY <1>0
  <2>3. Picked(q)[i + 1] = Pick(Picked(q)[(i + 1) - 1], q[i + 1])
    BY <1>2, <2>2 DEF Picks
  <2>4. Picked(q)[(i + 1) - 1] = Pick(<<>>, q[1]) \o Picked(r)[i - 1]
    BY <1>4, <2>2
  <2>5. Picked(r)[i - 1] \in Seq(Events) /\ Pick(<<>>, q[1]) \in Seq(Events)
    BY <1>0, <1>2, <1>7, <2>2, PickType DEF Picks
  <2>6. \A s \in Seq(Events), t \in Seq(Events) : Pick(s \o t, r[i]) = s \o Pick(t, r[i])
    <3>1. r[i].is = "event" => r[i].of \in Events
      BY <1>1 DEF Mail, n
    <3> QED
      BY <3>1 DEF Pick
  <2>7. Picked(q)[i + 1] = Pick(<<>>, q[1]) \o Picked(r)[i]
    BY <2>1, <2>2, <2>3, <2>4, <2>5, <2>6
  <2> QED
    BY <2>2, <2>7
<1>5. S \in SUBSET (0 .. n)
  OBVIOUS
<1>6. n \in S
  <2> HIDE DEF S
  <2> QED
    BY <1>0, <1>3, <1>4, <1>5, UpTo
<1>9. Picked(q)[n + 1] = Pick(<<>>, q[1]) \o Picked(r)[n] /\ n + 1 = Len(q)
  <2>1. \A m \in S : Picked(q)[m + 1] = Pick(<<>>, q[1]) \o Picked(r)[m]
    OBVIOUS
  <2> HIDE DEF S
  <2>2. Picked(q)[n + 1] = Pick(<<>>, q[1]) \o Picked(r)[n]
    BY <1>6, <2>1
  <2>3. n + 1 = Len(q)
    <3>1. Len(q) \in Nat /\ n = Len(q) - 1
      BY <1>0 DEF Mail
    <3> QED
      BY <3>1
  <2> QED
    BY <2>2, <2>3
<1> QED
  BY <1>1, <1>8, <1>9

\* What is picked from the front of a queue begins what is picked from it.
LEMMA PickedPrefix ==
    ASSUME NEW q, Mail(q), NEW n \in 0 .. Len(q)
    PROVE  Prefix(Picked(q)[n], Picked(q)[Len(q)])
<1> DEFINE P == Picked(q)
           S == {m \in 0 .. Len(q) : m >= n => Prefix(P[n], P[m])}
<1>0. Len(q) \in Nat /\ n \in Nat
  BY DEF Mail
<1>1. Picks(P, q, Len(q))
  BY PickedPicks
<1> HIDE DEF P
<1>2. \A m \in 0 .. Len(q) : P[m] \in Seq(Events)
  BY <1>1 DEF Picks
<1>3. Prefix(P[n], P[n])
  <2>1. Len(P[n]) \in Nat
    BY <1>2
  <2> QED
    BY <2>1 DEF Prefix
<1>4. 0 \in S
  <2>1. 0 >= n => n = 0
    BY <1>0
  <2> QED
    BY <1>0, <1>3, <2>1
<1>5. ASSUME NEW m \in 1 .. Len(q), m - 1 \in S PROVE m \in S
  <2>1. m \in 0 .. Len(q) /\ m - 1 \in 0 .. Len(q) /\ m \in Int
    BY <1>0
  <2>2. CASE m >= n /\ m # n
    <3>1. Prefix(P[n], P[m - 1])
      BY <1>0, <1>5, <2>1, <2>2
    <3>2. P[m] = Pick(P[m - 1], q[m])
      BY <1>1 DEF Picks
    <3>3. P[m] = P[m - 1] \/ \E e \in Events : P[m] = Append(P[m - 1], e)
      BY <2>1, <3>2 DEF Pick, Mail
    <3>4. Prefix(P[m - 1], P[m])
      <4>1. P[m - 1] \in Seq(Events)
        BY <1>2, <2>1
      <4> QED
        BY <3>3, <4>1 DEF Prefix
    <3>5. Len(P[n]) \in Nat /\ Len(P[m - 1]) \in Nat /\ Len(P[m]) \in Nat
      BY <1>2, <2>1
    <3>6. Prefix(P[n], P[m])
      BY <3>1, <3>4, <3>5 DEF Prefix
    <3> QED
      BY <2>1, <3>6
  <2>3. CASE m = n
    BY <1>3, <2>1, <2>3
  <2>4. CASE ~(m >= n)
    BY <2>1, <2>4
  <2> QED
    BY <2>2, <2>3, <2>4
<1>6. S \in SUBSET (0 .. Len(q))
  OBVIOUS
<1>7. Len(q) \in S
  <2> HIDE DEF S
  <2> QED
    BY <1>0, <1>4, <1>5, <1>6, UpTo
<1>8. Prefix(P[n], P[Len(q)])
  BY <1>0, <1>7
<1> QED
  BY <1>8 DEF P

-----------------------------------------------------------------------------
(* What is in a queue.                                                     *)

LEMMA InQueue ==
    ASSUME NEW S, NEW q \in Seq(S)
    PROVE  /\ InFlight(q) \subseteq S
           /\ \A i \in 1 .. Len(q) : q[i] \in InFlight(q)
           /\ \A x \in InFlight(q) : \E i \in 1 .. Len(q) : x = q[i]
           /\ InFlight(<<>>) = {}
BY DEF InFlight

LEMMA InTail ==
    ASSUME NEW S, NEW q \in Seq(S), q # <<>>
    PROVE  /\ Tail(q) \in Seq(S)
           /\ InFlight(Tail(q)) \subseteq InFlight(q)
           /\ Head(q) \in InFlight(q)
           /\ InFlight(q) \subseteq InFlight(Tail(q)) \union {Head(q)}
<1> DEFINE r == Tail(q)
<1>1. /\ r \in Seq(S)
      /\ Len(r) = Len(q) - 1 /\ Len(q) \in Nat
      /\ Head(q) = q[1] /\ 1 \in 1 .. Len(q)
      /\ \A i \in 1 .. Len(r) : r[i] = q[i + 1] /\ i + 1 \in 1 .. Len(q)
  BY TailAt
<1> HIDE DEF r
<1>2. ASSUME NEW x \in InFlight(q), x # q[1] PROVE x \in InFlight(r)
  <2>1. PICK i \in 1 .. Len(q) : x = q[i]
    BY InQueue
  <2>2. i - 1 \in 1 .. Len(r) /\ (i - 1) + 1 = i
    BY <1>1, <1>2, <2>1
  <2>3. r[i - 1] = q[i]
    BY <1>1, <2>2
  <2> QED
    BY <1>1, <2>1, <2>2, <2>3, InQueue
<1>3. \A x \in InFlight(r) : x \in InFlight(q)
  BY <1>1, InQueue
<1>4. q[1] \in InFlight(q)
  BY <1>1, InQueue
<1>5. r = Tail(q)
  BY DEF r
<1> QED
  BY <1>1, <1>2, <1>3, <1>4, <1>5

LEMMA InJoin ==
    ASSUME NEW S, NEW q \in Seq(S), NEW ms \in Seq(S)
    PROVE  q \o ms \in Seq(S) /\ InFlight(q \o ms) = InFlight(q) \union InFlight(ms)
<1> DEFINE r == q \o ms
<1>1. /\ r \in Seq(S)
      /\ \A i \in 1 .. Len(q) : r[i] = q[i] /\ i \in 1 .. Len(r)
      /\ \A i \in 1 .. Len(r) :
             i \in 1 .. Len(q) \/ (i - Len(q) \in 1 .. Len(ms) /\ r[i] = ms[i - Len(q)])
      /\ \A k \in 1 .. Len(ms) : r[Len(q) + k] = ms[k]
      /\ Len(r) = Len(q) + Len(ms)
  BY JoinAt
<1>0. Len(q) \in Nat /\ Len(ms) \in Nat
  OBVIOUS
<1>5. r = q \o ms
  OBVIOUS
<1> HIDE DEF r
<1>2. ASSUME NEW x \in InFlight(r) PROVE x \in InFlight(q) \/ x \in InFlight(ms)
  BY <1>1, InQueue
<1>3. ASSUME NEW x \in InFlight(q) PROVE x \in InFlight(r)
  BY <1>1, InQueue
<1>4. ASSUME NEW x \in InFlight(ms) PROVE x \in InFlight(r)
  <2>1. PICK k \in 1 .. Len(ms) : x = ms[k]
    BY InQueue
  <2>2. Len(q) + k \in 1 .. Len(r)
    BY <1>0, <1>1
  <2>3. r[Len(q) + k] \in InFlight(r)
    BY <1>1, <2>2, InQueue
  <2> QED
    BY <1>1, <2>1, <2>3
<1> QED
  BY <1>1, <1>2, <1>3, <1>4, <1>5

LEMMA InCut ==
    ASSUME NEW S, NEW q \in Seq(S), NEW r \in Cut(q)
    PROVE  /\ r \in Seq(S)
           /\ InFlight(r) \subseteq InFlight(q)
           /\ Len(r) \in 0 .. Len(q)
           /\ \A i \in 1 .. Len(r) : r[i] = q[i] /\ i \in 1 .. Len(q)
<1>1. /\ r \in Seq(S)
      /\ Len(r) \in 0 .. Len(q)
      /\ \A i \in 1 .. Len(r) : r[i] = q[i] /\ i \in 1 .. Len(q)
  BY FrontAt DEF Cut
<1>2. \A x \in InFlight(r) : x \in InFlight(q)
  BY <1>1, InQueue
<1> QED
  BY <1>1, <1>2

-----------------------------------------------------------------------------
(* Types.                                                                  *)

LEMMA MessageTypes ==
    /\ \A n \in Calls : Msg("success", n) \in Message /\ Msg("fail", n) \in Message
    /\ \A e \in Events : Msg("event", e) \in Message
    /\ \A c \in Conns : Msg("connection", c) \in Message /\ Msg("socket", c) \in Message
    /\ "make" \in Calls
    /\ Msg("init", "make") \in Message /\ Msg("done", "make") \in Message
    /\ Msg("null", "make") \in Message
<1>1. "make" \in Calls
  BY DEF Calls
<1> QED
  BY <1>1 DEF Message, Msg

LEMMA SoundMessages ==
    /\ \A n \in Calls : Sound(Msg("success", n)) /\ Sound(Msg("fail", n))
    /\ \A e \in Events : Sound(Msg("event", e))
    /\ \A c \in Conns : Sound(Msg("connection", c)) /\ Sound(Msg("socket", c))
    /\ Sound(Msg("init", "make")) /\ Sound(Msg("done", "make")) /\ Sound(Msg("null", "make"))
<1>1. "make" \in Calls
  BY DEF Calls
<1> QED
  BY <1>1 DEF Sound, Msg

LEMMA UserCallTypes ==
    ASSUME NEW k \in AllKinds, NEW n \in UserCalls(k)
    PROVE  n \in Calls /\ n \notin {"make", "bind", "getPid", "onConnection", "dispose", "handshake"}
<1>1. n \in Calls
  BY DEF Calls
<1>2. n \notin {"make", "bind", "getPid", "onConnection", "dispose", "handshake"}
  BY DEF UserCalls, AllKinds
<1> QED
  BY <1>1, <1>2

LEMMA ConstructorTypes ==
    ASSUME NEW k \in AllKinds
    PROVE  /\ Constructor(k) \in Seq(Calls)
           /\ \A i \in 1 .. Len(Constructor(k)) : Constructor(k)[i] \notin {"make", "dispose"}
<1>1. {"bind", "getPid", "onConnection"} \subseteq Calls
  BY DEF Calls
<1> QED
  BY <1>1 DEF Constructor

LEMMA EventTypes ==
    ASSUME NEW k \in AllKinds
    PROVE  Forwarded(k) \subseteq Events /\ "data" \in Events /\ Done(k) \subseteq Forwarded(k)
<1>1. Forwarded(k) \subseteq Events
  BY DEF Events
<1>2. "stdout" \in AllKinds /\ "data" \in Forwarded("stdout")
  BY DEF AllKinds, Forwarded, Sockets
<1>3. "data" \in Events
  BY <1>2 DEF Events
<1>4. Done(k) \subseteq Forwarded(k)
  BY DEF Done, Forwarded, AllKinds, Sockets
<1> QED
  BY <1>1, <1>3, <1>4

LEMMA SendTypes ==
    ASSUME Types, NEW ms \in Seq(Message), Send(ms), \A m \in InFlight(ms) : Sound(m)
    PROVE  s2c' \in Seq(Message) /\ \A m \in InFlight(s2c') : Sound(m)
<1>1. s2c \in Seq(Message) /\ \A m \in InFlight(s2c) : Sound(m)
  BY DEF Types, TypeOK
<1>2. s2c' = s2c \/ s2c' = s2c \o ms
  BY DEF Send, Deliver
<1>3. s2c \o ms \in Seq(Message) /\ InFlight(s2c \o ms) = InFlight(s2c) \union InFlight(ms)
  BY <1>1, InJoin
<1> QED
  BY <1>1, <1>2, <1>3

LEMMA OneMessage ==
    ASSUME NEW S, NEW m \in S
    PROVE  <<m>> \in Seq(S) /\ InFlight(<<m>>) = {m} /\ Len(<<m>>) = 1 /\ <<m>>[1] = m
BY DEF InFlight

LEMMA SendOne ==
    ASSUME Types, NEW m \in Message, Sound(m), Send(<<m>>)
    PROVE  s2c' \in Seq(Message) /\ \A x \in InFlight(s2c') : Sound(x)
<1>1. <<m>> \in Seq(Message) /\ \A x \in InFlight(<<m>>) : Sound(x)
  BY OneMessage
<1> QED
  BY <1>1, SendTypes

LEMMA DeliverTypes ==
    ASSUME Types, NEW ns \in Seq(Calls), c2s' = Deliver(c2s, ns)
    PROVE  c2s' \in Seq(Calls \union {"handshake"})
<1>1. c2s \in Seq(Calls \union {"handshake"}) /\ ns \in Seq(Calls \union {"handshake"})
  BY DEF Types, TypeOK
<1>2. c2s \o ns \in Seq(Calls \union {"handshake"})
  BY <1>1, InJoin
<1> QED
  BY <1>1, <1>2 DEF Deliver

LEMMA AfterTypes ==
    ASSUME NEW k, NEW f \in SUBSET Flags, NEW what
    PROVE  After(k, f, what) \in SUBSET Flags /\ AfterAll(k, f, what) \in SUBSET Flags
BY DEF After, AfterAll

\* A call of the program's is held, sent or settled at once.
LEMMA CallShape ==
    ASSUME NEW n, UserCall(n)
    PROVE  /\ n \in UserCalls(kind)
           /\ UNCHANGED <<kind, linkVars, s2c, cUp, greeted, promise, heard, told, sockets, unheeded, serverVars>>
           /\ \/ promise = "asked" /\ queued' = Append(queued, n) /\ UNCHANGED <<c2s, pending>>
              \/ /\ promise \in {"held", "gone"}
                 /\ c2s' = Deliver(c2s, <<n>>) /\ pending' = pending \union {n} /\ UNCHANGED queued
              \/ UNCHANGED <<c2s, queued, pending>>
           /\ flags' = After(kind, flags, n) \/ flags' = After(kind, After(kind, flags, n), "error")
BY DEF UserCall, Queue, Forward, Skip, Reject

LEMMA UserCallKeepsTypes == ASSUME Types, NEW n \in Calls, UserCall(n) PROVE Types'
<1>1. kind \in AllKinds /\ n \in Calls
  BY KindsAssumption DEF Types, TypeOK
<1>0. /\ c2s \in Seq(Calls \union {"handshake"}) /\ queued \in Seq(Calls)
      /\ pending \subseteq Calls /\ flags \subseteq Flags
  BY DEF Types, TypeOK
<1>2. c2s' \in Seq(Calls \union {"handshake"})
  <2>1. <<n>> \in Seq(Calls)
    BY <1>1
  <2> QED
    BY <1>0, <2>1, CallShape, DeliverTypes
<1>3. queued' \in Seq(Calls) /\ pending' \subseteq Calls
  <2>1. /\ queued' = queued \/ queued' = Append(queued, n)
        /\ pending' = pending \/ pending' = pending \union {n}
    BY CallShape
  <2> QED
    BY <1>0, <1>1, <2>1
<1>4. flags' \subseteq Flags
  <2>1. After(kind, flags, n) \in SUBSET Flags
    BY <1>0, AfterTypes
  <2>2. After(kind, After(kind, flags, n), "error") \in SUBSET Flags
    BY <2>1, AfterTypes
  <2>3. flags' = After(kind, flags, n) \/ flags' = After(kind, After(kind, flags, n), "error")
    BY CallShape
  <2> QED
    BY <2>1, <2>2, <2>3
<1>5. used' \subseteq Calls
  BY DEF UserCall, Types, TypeOK
<1>6. UNCHANGED <<kind, linkVars, s2c, cUp, greeted, promise, heard, told, sockets, unheeded, serverVars>>
  BY DEF UserCall
<1> QED
  BY <1>2, <1>3, <1>4, <1>5, <1>6 DEF Types, TypeOK, linkVars, serverVars, nativeVars

LEMMA FailsKeepsTypes ==
    ASSUME Types, NEW n, Fails(n), s2c' \in Seq(Message), \A m \in InFlight(s2c') : Sound(m)
    PROVE  Types'
<1>1. queued' \in Seq(Calls) /\ pending' \subseteq Calls
  BY DEF Fails, QueueAfter, Types, TypeOK
<1>2. flags' \subseteq Flags
  BY AfterTypes DEF Fails, Types, TypeOK
<1>3. promise' \in {"asked", "held", "null", "failed", "gone"}
  BY DEF Fails, Types, TypeOK
<1>4. UNCHANGED <<kind, linkVars, c2s, cUp, greeted, used, heard, told, sockets, unheeded, serverVars>>
  BY DEF Fails
<1> QED
  BY <1>1, <1>2, <1>3, <1>4 DEF Types, TypeOK, linkVars, serverVars, nativeVars

LEMMA TakesTypes ==
    ASSUME Types, s2c # <<>>, s2c' = Tail(s2c)
    PROVE  /\ s2c' \in Seq(Message) /\ \A m \in InFlight(s2c') : Sound(m)
           /\ Head(s2c) \in Message /\ Sound(Head(s2c))
BY InTail, InQueue DEF Types, TypeOK

LEMMA ClientReceiveKeepsTypes == ASSUME Types, ClientReceive PROVE Types'
<1> DEFINE m == Head(s2c)
<1>1. s2c # <<>> /\ s2c' = Tail(s2c)
  BY DEF ClientReceive, ClientDiscard, ClientTakes, Takes, Greet, Made, MadeNull, Resolved, Rejected, Unexpected, Lost, Heard,
         DoneHeard, Accepted, SocketHeard
<1>2. s2c' \in Seq(Message) /\ (\A x \in InFlight(s2c') : Sound(x)) /\ Sound(m)
  BY <1>1, TakesTypes
<1> HIDE DEF m
<1>3. CASE ClientDiscard \/ Greet(m) \/ Unexpected(m) \/ Lost(m)
  <2>1. UNCHANGED <<kind, linkVars, c2s, cUp, promise, queued, pending, used, flags, heard, told, sockets, unheeded,
                    serverVars>>
    BY <1>3 DEF ClientDiscard, Greet, Unexpected, Lost, clientVars
  <2>2. greeted' \in BOOLEAN
    BY <1>3 DEF ClientDiscard, Greet, Unexpected, Lost, clientVars, Types, TypeOK
  <2> QED
    BY <1>2, <2>1, <2>2 DEF Types, TypeOK, linkVars, serverVars, nativeVars
<1>4. CASE Made(m)
  <2>1. /\ promise' = "held"
        /\ pending' = (pending \ {"make"}) \union InFlight(queued)
        /\ c2s' = Deliver(c2s, queued)
        /\ queued' = <<>>
        /\ UNCHANGED <<kind, linkVars, cUp, greeted, used, flags, heard, told, sockets, unheeded, serverVars>>
    BY <1>4 DEF Made
  <2>2. queued \in Seq(Calls) /\ InFlight(queued) \subseteq Calls
    BY InQueue DEF Types, TypeOK
  <2>3. c2s' \in Seq(Calls \union {"handshake"})
    BY <2>1, <2>2, DeliverTypes
  <2>4. pending' \subseteq Calls /\ queued' \in Seq(Calls)
    BY <2>1, <2>2 DEF Types, TypeOK
  <2> QED
    BY <1>2, <2>1, <2>3, <2>4 DEF Types, TypeOK, linkVars, serverVars, nativeVars
<1>5. CASE Resolved(m)
  <2>1. flags' \subseteq Flags
    BY <1>5, AfterTypes DEF Resolved, Types, TypeOK
  <2>2. pending' \subseteq Calls /\ promise' \in {"asked", "held", "null", "failed", "gone"}
    BY <1>5 DEF Resolved, Types, TypeOK
  <2>3. UNCHANGED <<kind, linkVars, c2s, cUp, greeted, queued, used, heard, told, sockets, unheeded, serverVars>>
    BY <1>5 DEF Resolved
  <2> QED
    BY <1>2, <2>1, <2>2, <2>3 DEF Types, TypeOK, linkVars, serverVars, nativeVars
<1>6. CASE Rejected(m)
  BY <1>2, <1>6, FailsKeepsTypes DEF Rejected
<1>7. CASE Heard(m)
  <2>1. heard' \in Seq(Events)
    BY <1>2, <1>7 DEF Heard, Sound, Types, TypeOK
  <2>2. flags' \subseteq Flags
    BY <1>7, AfterTypes DEF Heard, Types, TypeOK
  <2>3. UNCHANGED <<kind, linkVars, c2s, cUp, greeted, promise, queued, pending, used, told, sockets, unheeded,
                    serverVars>>
    BY <1>7 DEF Heard
  <2> QED
    BY <1>2, <2>1, <2>2, <2>3 DEF Types, TypeOK, linkVars, serverVars, nativeVars
<1>8. CASE DoneHeard(m)
  <2>1. "dispose" \in Calls
    BY DEF Calls
  <2>2. /\ pending' = pending \union {"dispose"}
        /\ c2s' = Deliver(c2s, <<"dispose">>)
        /\ UNCHANGED <<kind, linkVars, cUp, greeted, promise, queued, used, flags, heard, told, sockets, unheeded,
                       serverVars>>
    BY <1>8 DEF DoneHeard
  <2>3. c2s' \in Seq(Calls \union {"handshake"})
    BY <2>1, <2>2, OneMessage, DeliverTypes
  <2>4. pending' \subseteq Calls
    BY <2>1, <2>2 DEF Types, TypeOK
  <2> QED
    BY <1>2, <2>2, <2>3, <2>4 DEF Types, TypeOK, linkVars, serverVars, nativeVars
<1>9. CASE Accepted(m) \/ SocketHeard(m)
  <2>1. sockets' \subseteq Conns
    BY <1>2, <1>9 DEF Accepted, SocketHeard, Uncounted, Sound, Types, TypeOK
  <2>2. UNCHANGED <<kind, linkVars, c2s, cUp, greeted, promise, queued, pending, used, flags, heard, told, unheeded,
                    serverVars>>
    BY <1>9 DEF Accepted, SocketHeard
  <2> QED
    BY <1>2, <2>1, <2>2 DEF Types, TypeOK, linkVars, serverVars, nativeVars
<1>10. CASE MadeNull(m)
  <2>1. /\ promise' = "null" /\ pending' = pending \ {"make"} /\ queued' = <<>>
        /\ UNCHANGED <<kind, linkVars, c2s, cUp, greeted, used, flags, heard, told, sockets, unheeded, serverVars>>
    BY <1>10 DEF MadeNull
  <2>2. pending' \subseteq Calls /\ queued' \in Seq(Calls)
    BY <2>1 DEF Types, TypeOK
  <2> QED
    BY <1>2, <2>1, <2>2 DEF Types, TypeOK, linkVars, serverVars, nativeVars
<1> QED
  BY <1>3, <1>4, <1>5, <1>6, <1>7, <1>8, <1>9, <1>10 DEF m, ClientReceive, ClientTakes

\* What the server sends when it takes call n.
Answers(ms, n) ==
    \/ n = "handshake" /\ ms = <<Msg("init", "make")>>
    \/ n # "handshake" /\ ms = <<Msg("success", n)>>
    \/ n = "make" /\ ms = <<Msg("null", n)>>
    \/ n # "handshake" /\ ms = <<Msg("fail", n)>>
    \/ n # "handshake" /\ ms = <<Msg("fail", n), Msg("success", n)>>

LEMMA AnswersTypes ==
    ASSUME NEW n \in Calls \union {"handshake"}, NEW ms, Answers(ms, n)
    PROVE  /\ ms \in Seq(Message)
           /\ \A m \in InFlight(ms) : Sound(m)
           /\ \A i \in 1 .. Len(ms) : ms[i].is \in {"init", "success", "null", "fail"} /\ ms[i] \in InFlight(ms)
           /\ Len(ms) >= 1
<1>0. Sound(Msg("init", "make")) /\ Msg("init", "make") \in Message /\ Msg("init", "make").is = "init"
  BY SoundMessages, MessageTypes DEF Msg
<1>1. n # "handshake" =>
        /\ Sound(Msg("success", n)) /\ Msg("success", n) \in Message /\ Msg("success", n).is = "success"
        /\ Sound(Msg("fail", n)) /\ Msg("fail", n) \in Message /\ Msg("fail", n).is = "fail"
        /\ n = "make" => Sound(Msg("null", n)) /\ Msg("null", n) \in Message /\ Msg("null", n).is = "null"
  BY SoundMessages, MessageTypes DEF Msg
<1>2. CASE ms = <<Msg("init", "make")>> /\ n = "handshake"
  <2>1. ms \in Seq(Message) /\ Len(ms) = 1 /\ ms[1] = Msg("init", "make")
    BY <1>0, <1>2
  <2> QED
    BY <1>0, <2>1, InQueue
<1>3. ASSUME n # "handshake", NEW m, ms = <<m>>,
             m = Msg("success", n) \/ m = Msg("fail", n) \/ (n = "make" /\ m = Msg("null", n))
      PROVE  /\ ms \in Seq(Message)
             /\ \A x \in InFlight(ms) : Sound(x)
             /\ \A i \in 1 .. Len(ms) : ms[i].is \in {"init", "success", "null", "fail"} /\ ms[i] \in InFlight(ms)
             /\ Len(ms) >= 1
  <2>1. m \in Message /\ Sound(m) /\ m.is \in {"success", "null", "fail"}
    BY <1>1, <1>3
  <2>2. ms \in Seq(Message) /\ InFlight(ms) = {m} /\ Len(ms) = 1 /\ ms[1] = m
    BY <1>3, <2>1, OneMessage
  <2> QED
    BY <2>1, <2>2
<1>4. CASE n # "handshake" /\ ms = <<Msg("fail", n), Msg("success", n)>>
  <2>1. ms \in Seq(Message) /\ Len(ms) = 2 /\ ms[1] = Msg("fail", n) /\ ms[2] = Msg("success", n)
    BY <1>1, <1>4
  <2>2. /\ \A i \in 1 .. Len(ms) : i = 1 \/ i = 2
        /\ \A i \in 1 .. Len(ms) : ms[i] \in InFlight(ms)
        /\ \A x \in InFlight(ms) : \E i \in 1 .. Len(ms) : x = ms[i]
    BY <2>1, InQueue
  <2> QED
    BY <1>1, <1>4, <2>1, <2>2
<1> QED
  <2>1. n = "make" => n # "handshake"
    OBVIOUS
  <2> QED
    BY <1>2, <1>3, <1>4, <2>1 DEF Answers

\* A server that is not connected drops what it receives, one that is answers.
LEMMA ReceiveShape ==
    ASSUME Types, ServerReceive
    PROVE  /\ c2s # <<>> /\ c2s' = Tail(c2s)
           /\ Head(c2s) \in Calls \union {"handshake"}
           /\ UNCHANGED <<kind, linkVars, clientVars, sUp, conn, produced>>
           /\ \/ ~sUp /\ UNCHANGED <<s2c, serverVars>>
              \/ sUp /\ \E ms : Answers(ms, Head(c2s)) /\ Send(ms)
<1> DEFINE n == Head(c2s)
<1>1. c2s # <<>> /\ c2s' = Tail(c2s)
  BY DEF ServerReceive, ServerDiscard, ServerTakes, Arrives, Handshake, Store, StoreNone, Refuse, NoProxy, Perform, Dispose
<1>2. n \in Calls \union {"handshake"}
  BY <1>1, InTail, InQueue DEF Types, TypeOK
<1>3. UNCHANGED <<kind, linkVars, clientVars, sUp, conn, produced>>
  BY DEF ServerReceive, ServerDiscard, ServerTakes, Handshake, Store, StoreNone, Refuse, NoProxy, Perform, Dispose, serverVars,
         nativeVars
<1>4. ASSUME ~ServerDiscard PROVE sUp /\ \E ms : Answers(ms, n) /\ Send(ms)
  <2> HIDE DEF n
  <2>0. ServerTakes(n)
    BY <1>4 DEF ServerReceive, n
  <2>1. sUp
    BY <2>0 DEF ServerTakes, Handshake, Store, StoreNone, Refuse, NoProxy, Perform, Dispose, Arrives
  <2>2. CASE Handshake(n)
    BY <2>1, <2>2 DEF Handshake, Answers
  <2>3. CASE Store(n) \/ StoreNone(n) \/ Refuse(n)
    BY <2>1, <2>3 DEF Store, StoreNone, Refuse, Answers
  <2>4. CASE NoProxy(n)
    BY <2>1, <2>4 DEF NoProxy, Answers
  <2>5. CASE Perform(n) \/ Dispose(n)
    BY <2>1, <2>5 DEF Perform, Dispose, Answers
  <2> QED
    BY <2>0, <2>1, <2>2, <2>3, <2>4, <2>5 DEF ServerTakes
<1> QED
  BY <1>1, <1>2, <1>3, <1>4 DEF ServerDiscard

\* What the server sends of a native event.
LEMMA ReportsTypes ==
    ASSUME Types, NEW e \in Events
    PROVE  Reports(e) \in Seq(Message) /\ \A m \in InFlight(Reports(e)) : Sound(m)
<1> DEFINE es == [i \in 1 .. listeners[e] |-> Msg("event", e)]
           ds == IF e \in Done(kind) THEN <<Msg("done", "make")>> ELSE <<>>
<1>1. listeners[e] \in {0, 1}
  BY DEF Types, TypeOK
<1>2. Msg("event", e) \in Message /\ Sound(Msg("event", e)) /\ Msg("done", "make") \in Message
      /\ Sound(Msg("done", "make"))
  BY MessageTypes, SoundMessages
<1>3. es \in Seq(Message) /\ \A i \in 1 .. Len(es) : es[i] = Msg("event", e)
  BY <1>1, <1>2
<1>4. ds \in Seq(Message) /\ \A i \in 1 .. Len(ds) : ds[i] = Msg("done", "make")
  BY <1>2
<1>5. Reports(e) = es \o ds
  BY DEF Reports, Forwards, Finishes
<1> HIDE DEF es, ds
<1>6. \A m \in InFlight(es) \union InFlight(ds) : Sound(m)
  BY <1>2, <1>3, <1>4, InQueue
<1> QED
  BY <1>3, <1>4, <1>5, <1>6, InJoin

LEMMA ServerReceiveKeepsTypes == ASSUME Types, ServerReceive PROVE Types'
<1>1. s2c' \in Seq(Message) /\ \A m \in InFlight(s2c') : Sound(m)
  BY ReceiveShape, AnswersTypes, SendTypes DEF Types, TypeOK
<1>2. c2s' \in Seq(Calls \union {"handshake"})
  <2>1. c2s \in Seq(Calls \union {"handshake"})
    BY DEF Types, TypeOK
  <2> QED
    BY <2>1, ReceiveShape, InTail
<1>3. UNCHANGED <<kind, linkVars, clientVars, sUp, conn, produced>>
  BY ReceiveShape
<1>4. /\ {timer', flowing', registered'} \subseteq BOOLEAN
      /\ srv' \in {"none", "stored", "removed"}
      /\ listeners' \in [Events -> {0, 1}]
      /\ phase' \in Phases
  <2> DEFINE n == Head(c2s)
  <2> HIDE DEF n
  <2>0. /\ {timer, flowing, registered} \subseteq BOOLEAN
        /\ srv \in {"none", "stored", "removed"}
        /\ listeners \in [Events -> {0, 1}]
        /\ phase \in Phases
    BY DEF Types, TypeOK
  <2>1. CASE ServerDiscard \/ Handshake(n) \/ StoreNone(n) \/ Refuse(n) \/ NoProxy(n)
    BY <2>0, <2>1 DEF ServerDiscard, Handshake, StoreNone, Refuse, NoProxy, serverVars, nativeVars
  <2>2. CASE Store(n)
    <3>1. Start(kind) \in Phases
      BY DEF Start, Phases
    <3> QED
      BY <2>0, <2>2, <3>1 DEF Store
  <2>3. CASE Perform(n)
    <3>1. Moved(kind, phase, n) \in Phases
      BY <2>0 DEF Moved, Phases
    <3>2. BindData \in [Events -> {0, 1}]
      BY <2>0 DEF BindData
    <3> QED
      BY <2>0, <2>3, <3>1, <3>2 DEF Perform, Binds
  <2>4. CASE Dispose(n)
    BY <2>0, <2>4 DEF Dispose, nativeVars
  <2> QED
    BY <2>1, <2>2, <2>3, <2>4 DEF n, ServerReceive, ServerTakes
<1> QED
  BY <1>1, <1>2, <1>3, <1>4 DEF Types, TypeOK, linkVars, clientVars

LEMMA ServerKeepsTypes == ASSUME Types, ServerNext PROVE Types'
<1>0. /\ {sUp, timer, flowing, registered} \subseteq BOOLEAN
      /\ srv \in {"none", "stored", "removed"}
      /\ listeners \in [Events -> {0, 1}]
      /\ phase \in Phases
      /\ conn \in [Conns -> {"none", "open", "ending", "erred", "closed"}]
      /\ produced \in Seq(Events)
      /\ s2c \in Seq(Message) /\ \A m \in InFlight(s2c) : Sound(m)
  BY DEF Types, TypeOK
<1>1. CASE DisposeTimer \/ ServerDown \/ ServerUp
  <2>1. /\ UNCHANGED <<kind, linkVars, c2s, s2c, clientVars, listeners, phase, flowing, registered, produced>>
        /\ {sUp', timer'} \subseteq BOOLEAN
        /\ srv' \in {"none", "stored", "removed"}
        /\ conn' \in [Conns -> {"none", "open", "ending", "erred", "closed"}]
    BY <1>0, <1>1 DEF DisposeTimer, ServerDown, ServerUp, nativeVars
  <2> QED
    BY <1>0, <2>1 DEF Types, TypeOK, linkVars, clientVars
<1>2. ASSUME NEW e \in Events, NativeStep(e) PROVE Types'
  <2>1. Send(Reports(e))
    BY <1>2 DEF NativeStep
  <2>2. s2c' \in Seq(Message) /\ \A m \in InFlight(s2c') : Sound(m)
    BY <2>1, ReportsTypes, SendTypes
  <2>3. /\ UNCHANGED <<kind, linkVars, c2s, clientVars, sUp, srv, listeners, flowing, registered, conn>>
        /\ timer' \in BOOLEAN
        /\ phase' \in Phases
        /\ produced' \in Seq(Events)
    BY <1>0, <1>2 DEF NativeStep
  <2> QED
    BY <1>0, <2>2, <2>3 DEF Types, TypeOK, linkVars, clientVars
<1>3. ASSUME NEW s \in Conns, Connects(s) \/ ConnEnding(s) \/ ConnStep(s) PROVE Types'
  <2>1. Msg("connection", s) \in Message /\ Msg("socket", s) \in Message
        /\ Sound(Msg("connection", s)) /\ Sound(Msg("socket", s))
    BY MessageTypes, SoundMessages
  <2>2. Send(<<Msg("connection", s)>>) \/ Send(<<Msg("socket", s)>>) \/ Send(<<>>) \/ s2c' = s2c
    BY <1>3 DEF Connects, ConnEnding, ConnStep
  <2>3. s2c' \in Seq(Message) /\ \A m \in InFlight(s2c') : Sound(m)
    <3>1. CASE Send(<<>>)
      <4>1. <<>> \in Seq(Message)
        OBVIOUS
      <4>2. InFlight(<<>>) = {}
        BY DEF InFlight
      <4> QED
        BY <3>1, <4>1, <4>2, SendTypes
    <3> QED
      BY <1>0, <2>1, <2>2, <3>1, SendOne
  <2>4. /\ UNCHANGED <<kind, linkVars, c2s, clientVars, sUp, srv, listeners, timer, phase, flowing, registered,
                       produced>>
        /\ conn' \in [Conns -> {"none", "open", "ending", "erred", "closed"}]
    BY <1>0, <1>3 DEF Connects, ConnEnding, ConnStep
  <2> QED
    BY <1>0, <2>3, <2>4 DEF Types, TypeOK, linkVars, clientVars
<1> QED
  BY <1>1, <1>2, <1>3, ServerReceiveKeepsTypes DEF ServerNext

LEMMA LinkKeepsTypes == ASSUME Types, LinkUp \/ LinkDown PROVE Types'
<1>0. /\ c2s \in Seq(Calls \union {"handshake"})
      /\ s2c \in Seq(Message) /\ \A m \in InFlight(s2c) : Sound(m)
      /\ downs \in 0 .. MaxDowns
  BY DEF Types, TypeOK
<1>1. CASE LinkUp
  BY <1>1 DEF LinkUp, Types, TypeOK, clientVars, serverVars, nativeVars
<1>2. CASE LinkDown
  <2>1. c2s' \in Seq(Calls \union {"handshake"})
    BY <1>0, <1>2, InCut DEF LinkDown
  <2>2. s2c' \in Seq(Message) /\ \A m \in InFlight(s2c') : Sound(m)
    BY <1>0, <1>2, InCut DEF LinkDown
  <2>3. downs' \in 0 .. MaxDowns
    BY <1>0, <1>2, DownsAssumption DEF LinkDown
  <2> QED
    BY <1>2, <2>1, <2>2, <2>3 DEF LinkDown, Types, TypeOK, clientVars, serverVars, nativeVars
<1> QED
  BY <1>1, <1>2

LEMMA TypesInit == Init => Types
<1> SUFFICES ASSUME Init PROVE Types
  OBVIOUS
<1>1. Greetings \in Seq(Calls \union {"handshake"}) /\ {"make"} \subseteq Calls
  BY MessageTypes DEF Greetings
<1>2. kind \in AllKinds /\ queued \in Seq(Calls)
  BY KindsAssumption, ConstructorTypes DEF Init
<1>3. InFlight(s2c) = {}
  BY InQueue DEF Init
<1>4. downs \in 0 .. MaxDowns
  BY DownsAssumption DEF Init
<1>5. <<>> \in Seq(Message) /\ <<>> \in Seq(Events)
  OBVIOUS
<1>6. flags \subseteq Flags
  BY DEF Init, Flags
<1>7. phase \in Phases
  BY DEF Init, Phases
<1> QED
  BY <1>1, <1>2, <1>3, <1>4, <1>5, <1>6, <1>7 DEF Init, Types, TypeOK

LEMMA TypesNext == Types /\ [Next]_vars => Types'
<1> SUFFICES ASSUME Types, [Next]_vars PROVE Types'
  OBVIOUS
<1>1. CASE ClientNext
  <2>1. ASSUME NEW n \in Calls, UserCall(n) PROVE Types'
    BY <2>1, UserCallKeepsTypes
  <2>2. CASE ClientReceive
    BY <2>2, ClientReceiveKeepsTypes
  <2>3. ASSUME NEW n \in Calls, CallTimeout(n) PROVE Types'
    <3>1. s2c' \in Seq(Message) /\ \A m \in InFlight(s2c') : Sound(m)
      BY <2>3 DEF CallTimeout, Types, TypeOK
    <3> QED
      BY <2>3, <3>1, FailsKeepsTypes DEF CallTimeout
  <2>4. ASSUME NEW s \in Conns, SocketCallFails(s) PROVE Types'
    BY <2>4 DEF SocketCallFails, Types, TypeOK, linkVars, serverVars, nativeVars
  <2>5. CASE ClientDown
    <3>0. UNCHANGED <<kind, linkVars, c2s, s2c, greeted, used, heard, unheeded, serverVars>>
      BY <2>5 DEF ClientDown
    <3>1. flags' \subseteq Flags
      BY <2>5, AfterTypes DEF ClientDown, Types, TypeOK
    <3>2. /\ cUp' = FALSE /\ pending' = {} /\ queued' = <<>> /\ sockets' = {}
          /\ promise' \in {"asked", "held", "null", "failed", "gone"}
          /\ told' \in Nat
      BY <2>5 DEF ClientDown, CallsLeft, Types, TypeOK
    <3>3. pending' \subseteq Calls /\ queued' \in Seq(Calls) /\ sockets' \subseteq Conns /\ cUp' \in BOOLEAN
      <4>1. <<>> \in Seq(Calls)
        OBVIOUS
      <4> QED
        BY <3>2, <4>1
    <3> QED
      BY <3>0, <3>1, <3>2, <3>3 DEF Types, TypeOK, linkVars, serverVars, nativeVars
  <2>6. CASE ClientUp
    BY <2>6 DEF ClientUp, Types, TypeOK, linkVars, serverVars, nativeVars
  <2> QED
    BY <1>1, <2>1, <2>2, <2>3, <2>4, <2>5, <2>6 DEF ClientNext
<1>2. CASE UNCHANGED vars
  BY <1>2 DEF vars, linkVars, clientVars, serverVars, nativeVars, Types, TypeOK
<1> QED
  BY <1>1, <1>2, ServerKeepsTypes, LinkKeepsTypes DEF Next

\* Every queue, table and ghost of a fill keeps its type (Fill.tla).
THEOREM FillsTyped == Spec => []TypeOK
<1>1. Types => TypeOK
  BY DEF Types
<1> QED
  BY <1>1, TypesInit, TypesNext, PTL DEF Spec

-----------------------------------------------------------------------------
(* Steps of one side leave the other alone.                                *)

LEMMA ServerShape == ASSUME ServerNext PROVE UNCHANGED <<kind, linkVars, clientVars>>
<1>1. CASE ServerReceive
  BY <1>1 DEF ServerReceive, ServerTakes, ServerDiscard, Handshake, Store, StoreNone, Refuse, NoProxy, Perform, Dispose
<1>2. CASE DisposeTimer \/ ServerDown \/ ServerUp
  BY <1>2 DEF DisposeTimer, ServerDown, ServerUp
<1>3. CASE \E e \in Events : NativeStep(e)
  BY <1>3 DEF NativeStep
<1>4. CASE \E s \in Conns : Connects(s) \/ ConnEnding(s) \/ ConnStep(s)
  BY <1>4 DEF Connects, ConnEnding, ConnStep
<1> QED
  BY <1>1, <1>2, <1>3, <1>4 DEF ServerNext

LEMMA ClientShape == ASSUME ClientNext PROVE UNCHANGED <<kind, linkVars, serverVars>>
<1>1. CASE ClientReceive
  BY <1>1 DEF ClientReceive, ClientTakes, ClientDiscard, Greet, Made, MadeNull, Resolved, Rejected, Fails, Unexpected, Lost, Heard,
              DoneHeard, Accepted, SocketHeard
<1>2. CASE \E n \in Calls : UserCall(n) \/ CallTimeout(n)
  BY <1>2 DEF UserCall, CallTimeout, Fails
<1>3. CASE (\E s \in Conns : SocketCallFails(s)) \/ ClientDown \/ ClientUp
  BY <1>3 DEF SocketCallFails, ClientDown, ClientUp
<1> QED
  BY <1>1, <1>2, <1>3 DEF ClientNext

\* What a client's step does with the message it takes, or without one.
LEMMA ReceiptShape ==
    ASSUME ClientReceive
    PROVE  s2c # <<>> /\ s2c' = Tail(s2c)
BY DEF ClientReceive, ClientDiscard, ClientTakes, Takes, Greet, Made, MadeNull, Resolved, Rejected, Unexpected, Lost, Heard,
       DoneHeard, Accepted, SocketHeard

LEMMA QuietShape ==
    ASSUME ClientNext, ~ClientReceive
    PROVE  s2c' = s2c
BY DEF ClientNext, UserCall, CallTimeout, SocketCallFails, ClientDown, ClientUp

-----------------------------------------------------------------------------
(* Who is connected, and who waits for what.                               *)

LEMMA FirstInit == Init => Sides /\ Waits
<1> SUFFICES ASSUME Init PROVE Sides /\ Waits
  OBVIOUS
<1>1. kind \in AllKinds
  BY KindsAssumption DEF Init
<1>2. \A i \in 1 .. Len(queued) : queued[i] \notin {"make", "dispose"}
  BY <1>1, ConstructorTypes DEF Init
<1> QED
  BY <1>2 DEF Init, Sides, Waits, First

LEMMA WaitsNext == ASSUME Types, Waits, [Next]_vars PROVE Waits'
<1>1. /\ kind \in AllKinds /\ queued \in Seq(Calls)
      /\ "make" \in pending <=> promise = "asked"
      /\ queued # <<>> => promise = "asked"
      /\ \A i \in 1 .. Len(queued) : queued[i] \notin {"make", "dispose"}
      /\ "dispose" \in pending => promise \in {"held", "gone"}
  BY KindsAssumption DEF Types, TypeOK, Waits
<1>2. ASSUME UNCHANGED <<promise, queued, pending>> PROVE Waits'
  BY <1>1, <1>2 DEF Waits
<1>3. ASSUME NEW n \in Calls, UserCall(n) PROVE Waits'
  <2>1. n \notin {"make", "dispose"} /\ promise' = promise
    BY <1>1, <1>3, CallShape, UserCallTypes
  <2>2. CASE promise = "asked" /\ queued' = Append(queued, n) /\ pending' = pending
    <3>1. \A i \in 1 .. Len(queued') : queued'[i] \notin {"make", "dispose"}
      BY <1>1, <2>1, <2>2
    <3> QED
      BY <1>1, <2>1, <2>2, <3>1 DEF Waits
  <2>3. CASE queued' = queued /\ (pending' = pending \union {n} \/ pending' = pending)
    BY <1>1, <2>1, <2>3 DEF Waits
  <2> QED
    BY <1>3, <2>2, <2>3, CallShape
<1>4. ASSUME NEW n, Fails(n) PROVE Waits'
  <2>1. /\ n \in pending /\ pending' = pending \ {n}
        /\ queued' = QueueAfter(n)
        /\ promise' = CASE n = "make" -> "failed" [] n = "dispose" -> "gone" [] OTHER -> promise
    BY <1>4 DEF Fails
  <2>2. \A i \in 1 .. Len(queued') : queued'[i] \notin {"make", "dispose"}
    BY <1>1, <2>1 DEF QueueAfter
  <2> QED
    BY <1>1, <2>1, <2>2 DEF Waits, QueueAfter
<1>5. CASE ClientReceive
  <2> DEFINE m == Head(s2c)
  <2> HIDE DEF m
  <2>1. CASE Made(m)
    <3>1. /\ promise' = "held" /\ queued' = <<>>
          /\ pending' = (pending \ {"make"}) \union InFlight(queued)
      BY <2>1 DEF Made
    <3>2. "make" \notin InFlight(queued) /\ "dispose" \notin InFlight(queued)
      BY <1>1, InQueue
    <3>3. \A i \in 1 .. Len(queued') : queued'[i] \notin {"make", "dispose"}
      BY <3>1
    <3> QED
      BY <1>1, <3>1, <3>2, <3>3 DEF Waits
  <2>2. CASE Resolved(m)
    <3>1. /\ m.of # "make" /\ m.of \in pending /\ pending' = pending \ {m.of} /\ queued' = queued
          /\ promise' = IF m.of = "dispose" THEN "gone" ELSE promise
      BY <2>2 DEF Resolved
    <3> QED
      BY <1>1, <3>1 DEF Waits
  <2>3. CASE Rejected(m)
    BY <1>4, <2>3 DEF Rejected
  <2>4. CASE DoneHeard(m)
    <3>1. promise = "held" /\ promise' = promise /\ queued' = queued /\ pending' = pending \union {"dispose"}
      BY <2>4 DEF DoneHeard
    <3> QED
      BY <1>1, <3>1 DEF Waits
  <2>5. CASE ClientDiscard \/ Greet(m) \/ Unexpected(m) \/ Lost(m) \/ Heard(m) \/ Accepted(m) \/ SocketHeard(m)
    BY <1>2, <2>5 DEF ClientDiscard, Greet, Unexpected, Lost, Heard, Accepted, SocketHeard, clientVars
  <2>6. CASE MadeNull(m)
    <3>1. promise' = "null" /\ queued' = <<>> /\ pending' = pending \ {"make"} /\ "make" \in pending
      BY <2>6 DEF MadeNull
    <3>2. \A i \in 1 .. Len(queued') : queued'[i] \notin {"make", "dispose"}
      BY <3>1
    <3> QED
      BY <1>1, <3>1, <3>2 DEF Waits
  <2> QED
    BY <1>5, <2>1, <2>2, <2>3, <2>4, <2>5, <2>6 DEF m, ClientReceive, ClientTakes
<1>6. ASSUME NEW n \in Calls, CallTimeout(n) PROVE Waits'
  BY <1>4, <1>6 DEF CallTimeout
<1>7. CASE ClientDown
  <2>1. /\ pending' = {} /\ queued' = <<>>
        /\ promise' = CASE promise = "asked" -> "failed" [] promise = "held" -> "gone" [] OTHER -> promise
    BY <1>7 DEF ClientDown, CallsLeft
  <2>2. \A i \in 1 .. Len(queued') : queued'[i] \notin {"make", "dispose"}
    BY <2>1
  <2> QED
    BY <2>1, <2>2 DEF Waits
<1>8. CASE (\E s \in Conns : SocketCallFails(s)) \/ ClientUp \/ LinkUp \/ LinkDown \/ ServerNext \/ UNCHANGED vars
  BY <1>2, <1>8, ServerShape DEF SocketCallFails, ClientUp, LinkUp, LinkDown, vars, clientVars
<1> QED
  BY <1>3, <1>5, <1>6, <1>7, <1>8 DEF Next, ClientNext

LEMMA SidesNext == ASSUME Types, Sides, Waits, [Next]_vars PROVE Sides'
<1>0. /\ downs \in Nat
      /\ downs = 0 => link = "up" /\ sUp /\ cUp
      /\ promise \in {"asked", "held"} => cUp
      /\ srv = "stored" => sUp
      /\ timer => srv = "stored"
      /\ promise \in {"asked", "held"} /\ link = "up" => sUp
      /\ srv = "none" => \A s \in Conns : conn[s] = "none"
      /\ conn \in [Conns -> {"none", "open", "ending", "erred", "closed"}]
  BY DownsAssumption DEF Types, TypeOK, Sides, First
<1>1. CASE ClientNext
  <2>1. UNCHANGED <<linkVars, serverVars>>
    BY <1>1, ClientShape
  <2>2. promise' \in {"asked", "held"} => promise \in {"asked", "held"}
    <3>1. CASE ClientReceive
      BY <3>1 DEF ClientReceive, ClientTakes, ClientDiscard, Greet, Made, MadeNull, Resolved, Rejected, Fails, Unexpected, Lost,
                  Heard, DoneHeard, Accepted, SocketHeard, clientVars, Waits
    <3>2. CASE \E n \in Calls : UserCall(n) \/ CallTimeout(n)
      BY <3>2 DEF UserCall, CallTimeout, Fails
    <3>3. CASE (\E s \in Conns : SocketCallFails(s)) \/ ClientDown \/ ClientUp
      BY <3>3 DEF SocketCallFails, ClientDown, ClientUp
    <3> QED
      BY <1>1, <3>1, <3>2, <3>3 DEF ClientNext
  <2>3. cUp' = cUp \/ cUp' = TRUE \/ (link = "down" /\ promise' \notin {"asked", "held"})
    <3>1. CASE ClientReceive
      BY <3>1 DEF ClientReceive, ClientTakes, ClientDiscard, Greet, Made, MadeNull, Resolved, Rejected, Fails, Unexpected, Lost,
                  Heard, DoneHeard, Accepted, SocketHeard, clientVars
    <3>2. CASE \E n \in Calls : UserCall(n) \/ CallTimeout(n)
      BY <3>2 DEF UserCall, CallTimeout, Fails
    <3>3. CASE (\E s \in Conns : SocketCallFails(s)) \/ ClientDown \/ ClientUp
      BY <3>3 DEF SocketCallFails, ClientDown, ClientUp
    <3> QED
      BY <1>1, <3>1, <3>2, <3>3 DEF ClientNext
  <2> QED
    BY <1>0, <2>1, <2>2, <2>3 DEF Sides, First, linkVars, serverVars, nativeVars
<1>2. CASE ServerNext
  <2>1. UNCHANGED <<linkVars, cUp, promise>>
    BY <1>2, ServerShape DEF clientVars
  <2>2. /\ sUp' = sUp \/ sUp' = TRUE \/ (link = "down" /\ srv' # "stored")
        /\ srv' = "stored" => sUp'
        /\ timer' => srv' = "stored"
        /\ srv' = "none" => \A s \in Conns : conn'[s] = "none"
    <3>1. CASE ServerReceive
      <4>1. sUp' = sUp /\ conn' = conn /\ (srv' = "none" => srv = "none")
        BY <3>1 DEF ServerReceive, ServerTakes, ServerDiscard, Handshake, Store, StoreNone, Refuse, NoProxy, Perform, Dispose,
                    serverVars, nativeVars
      <4>2. /\ srv' = "stored" => srv = "stored" \/ sUp
            /\ timer' => (timer /\ srv' # "removed") \/ srv' = "stored" \/ srv' = srv
            /\ timer' => timer
        BY <3>1 DEF ServerReceive, ServerTakes, ServerDiscard, Arrives, Handshake, Store, StoreNone, Refuse, NoProxy, Perform,
                    Dispose, serverVars, nativeVars
      <4>3. timer' /\ srv = "stored" => srv' = "stored"
        BY <3>1 DEF ServerReceive, ServerTakes, ServerDiscard, Arrives, Handshake, Store, StoreNone, Refuse, NoProxy, Perform,
                    Dispose, serverVars, nativeVars
      <4> QED
        BY <1>0, <4>1, <4>2, <4>3
    <3>2. CASE DisposeTimer \/ ServerUp
      BY <1>0, <3>2 DEF DisposeTimer, ServerUp, nativeVars
    <3>3. CASE ServerDown
      BY <1>0, <3>3 DEF ServerDown
    <3>4. CASE \E e \in Events : NativeStep(e)
      BY <1>0, <3>4 DEF NativeStep
    <3>5. CASE \E s \in Conns : Connects(s) \/ ConnEnding(s) \/ ConnStep(s)
      <4>1. PICK s \in Conns : Connects(s) \/ ConnEnding(s) \/ ConnStep(s)
        BY <3>5
      <4>2. srv # "none" /\ UNCHANGED <<sUp, srv, timer>>
        BY <1>0, <4>1 DEF Connects, ConnEnding, ConnStep
      <4> QED
        BY <1>0, <4>2
    <3> QED
      BY <1>2, <3>1, <3>2, <3>3, <3>4, <3>5 DEF ServerNext
  <2> QED
    BY <1>0, <2>1, <2>2 DEF Sides, First, linkVars
<1>3. CASE LinkUp
  BY <1>0, <1>3 DEF LinkUp, Sides, First, clientVars, serverVars, nativeVars
<1>4. CASE LinkDown
  BY <1>0, <1>4 DEF LinkDown, Sides, First, clientVars, serverVars, nativeVars
<1>5. CASE UNCHANGED vars
  BY <1>5 DEF vars, linkVars, clientVars, serverVars, nativeVars, Sides, First
<1> QED
  BY <1>1, <1>2, <1>3, <1>4, <1>5 DEF Next

-----------------------------------------------------------------------------
(* What a proxy forwards.                                                  *)

LEMMA BoundNext == ASSUME Types, Bound, [Next]_vars PROVE Bound'
<1>0. /\ kind \in AllKinds /\ listeners \in [Events -> {0, 1}]
      /\ Forwarded(kind) \subseteq Events /\ "data" \in Events
  BY KindsAssumption, EventTypes DEF Types, TypeOK
<1>1. ASSUME kind' = kind, srv' = "stored" => srv = "stored", UNCHANGED <<listeners, flowing>> PROVE Bound'
  BY <1>1 DEF Bound
<1>2. CASE ServerReceive
  <2> DEFINE n == Head(c2s)
  <2> HIDE DEF n
  <2>1. CASE Store(n)
    <3>1. /\ srv' = "stored" /\ kind' = kind
          /\ listeners' = [e \in Events |-> IF e \in Forwarded(kind) THEN 1 ELSE 0]
          /\ flowing' = (kind = "stdout")
      BY <2>1 DEF Store
    <3>2. kind = "stdout" => "data" \in Forwarded(kind)
      BY DEF Forwarded, Sockets
    <3>3. \A e \in Forwarded(kind) : listeners'[e] = 1
      BY <1>0, <3>1
    <3>4. listeners'["data"] \in {0, 1} /\ (flowing' => listeners'["data"] = 1)
      BY <1>0, <3>1, <3>2
    <3> QED
      BY <3>1, <3>3, <3>4 DEF Bound
  <2>2. CASE Perform(n)
    <3>1. /\ srv = "stored" /\ kind' = kind
          /\ listeners' = IF Binds(n) THEN BindData ELSE listeners
          /\ flowing' = (flowing \/ Binds(n))
      BY <2>2 DEF Perform
    <3>2. /\ \A e \in Forwarded(kind) : listeners[e] = 1
          /\ listeners["data"] \in {0, 1}
          /\ flowing => listeners["data"] = 1
      BY <3>1 DEF Bound
    <3>3. CASE Binds(n) /\ listeners["data"] = 0
      <4>1. listeners' = [listeners EXCEPT !["data"] = 1]
        BY <3>1, <3>3 DEF BindData
      <4>2. listeners'["data"] = 1 /\ \A e \in Forwarded(kind) : listeners'[e] = 1
        BY <1>0, <3>2, <4>1
      <4> QED
        BY <3>1, <4>2 DEF Bound
    <3>4. CASE ~(Binds(n) /\ listeners["data"] = 0)
      <4>1. listeners' = listeners
        BY <3>1, <3>4 DEF BindData
      <4>2. flowing' => listeners["data"] = 1
        BY <3>1, <3>2, <3>4
      <4> QED
        BY <3>1, <3>2, <4>1, <4>2 DEF Bound
    <3> QED
      BY <3>3, <3>4
  <2>3. CASE ServerDiscard \/ Handshake(n) \/ StoreNone(n) \/ Refuse(n) \/ NoProxy(n) \/ Dispose(n)
    BY <1>1, <2>3 DEF ServerDiscard, Handshake, StoreNone, Refuse, NoProxy, Dispose, serverVars, nativeVars
  <2> QED
    BY <1>2, <2>1, <2>2, <2>3 DEF n, ServerReceive, ServerTakes
<1>3. CASE \E e \in Events : NativeStep(e)
  BY <1>1, <1>3 DEF NativeStep
<1>4. CASE \E s \in Conns : Connects(s) \/ ConnEnding(s) \/ ConnStep(s)
  BY <1>1, <1>4 DEF Connects, ConnEnding, ConnStep
<1>5. CASE DisposeTimer \/ ServerDown \/ ServerUp
  BY <1>1, <1>5 DEF DisposeTimer, ServerDown, ServerUp, nativeVars
<1>6. CASE ClientNext \/ LinkUp \/ LinkDown \/ UNCHANGED vars
  BY <1>1, <1>6, ClientShape DEF LinkUp, LinkDown, vars, serverVars, nativeVars
<1> QED
  BY <1>2, <1>3, <1>4, <1>5, <1>6 DEF Next, ServerNext

\* An event of the table is forwarded, or is data of a stream that flows.
LEMMA StepsForwarded ==
    ASSUME NEW k \in AllKinds, NEW from, NEW e, NEW to, <<from, e, to>> \in Steps(k)
    PROVE  e \in Forwarded(k) \/ (e = "data" /\ "data" \in Flowing(k))
<1>1. CASE k = "process"
  <2>1. <<from, e, to>> \in {<<"open", "disconnect", "lone">>, <<"open", "exit", "ended">>,
              <<"lone", "exit", "ended">>, <<"open", "error", "erred">>,
              <<"erred", "exit", "ended">>, <<"erred", "close", "closed">>,
              <<"ended", "close", "closed">>}
    BY <1>1 DEF Steps, Sockets
  <2>2. e \in {"close", "disconnect", "error", "exit"}
    BY <2>1
  <2>3. Forwarded(k) = {"close", "disconnect", "error", "exit"}
    BY <1>1 DEF Forwarded, Sockets
  <2> QED
    BY <2>2, <2>3
<1>2. CASE k = "stdout" \/ k = "reader"
  <2>1. <<from, e, to>> \in ReadableSteps
    BY <1>2 DEF Steps, Sockets
  <2>2. e \in {"close", "end", "error", "data"}
    BY <2>1 DEF ReadableSteps
  <2>3. {"close", "end", "error"} \subseteq Forwarded(k)
    BY <1>2 DEF Forwarded, Sockets
  <2>4. Delayed(k) = {"data"}
    BY <1>2 DEF Delayed
  <2>5. "data" \in Flowing(k)
    BY <2>4 DEF Flowing
  <2> QED
    BY <2>2, <2>3, <2>5
<1>4. CASE k \in Sockets
  <2>1. k \notin {"process", "stdout", "reader", "writer", "watcher", "server"}
    BY <1>4 DEF Sockets
  <2>2. Delayed(k) = {"data"}
    BY <1>4 DEF Delayed
  <2>3. "data" \in Flowing(k)
    BY <2>2 DEF Flowing
  <2>4. <<from, e, to>> \in ReadableSteps \union
             {<<"idle", "close", "closed">>, <<"dialing", "connect", "open">>,
              <<"dialing", "error", "erred">>, <<"dialing", "close", "closed">>,
              <<"ended", "finish", "finished">>, <<"finished", "close", "closed">>}
    BY <1>4, <2>1 DEF Steps
  <2>5. e \in {"close", "connect", "end", "error", "finish", "data"}
    BY <2>4 DEF ReadableSteps
  <2>6. Forwarded(k) = {"close", "connect", "end", "error", "finish"}
    BY <1>4, <2>1 DEF Forwarded
  <2> QED
    BY <2>3, <2>5, <2>6
<1>5. CASE k = "writer"
  <2>1. <<from, e, to>> \in {<<"open", "drain", "open">>, <<"open", "finish", "finished">>,
              <<"open", "error", "erred">>, <<"open", "close", "closed">>,
              <<"finished", "close", "closed">>, <<"erred", "close", "closed">>}
    BY <1>5 DEF Steps, Sockets
  <2>2. e \in {"close", "drain", "error", "finish"}
    BY <2>1
  <2>3. Forwarded(k) = {"close", "drain", "error", "finish"}
    BY <1>5 DEF Forwarded, Sockets
  <2> QED
    BY <2>2, <2>3
<1>6. CASE k = "watcher"
  <2>1. <<from, e, to>> \in {<<"open", "change", "open">>, <<"open", "error", "erred">>,
              <<"open", "close", "closed">>, <<"erred", "close", "closed">>}
    BY <1>6 DEF Steps, Sockets
  <2>2. e \in {"change", "close", "error"}
    BY <2>1
  <2>3. Forwarded(k) = {"change", "close", "error"}
    BY <1>6 DEF Forwarded, Sockets
  <2> QED
    BY <2>2, <2>3
<1>7. CASE k = "server"
  <2>1. <<from, e, to>> \in {<<"binding", "listening", "listening">>, <<"binding", "error", "idle">>,
              <<"closing", "close", "closed">>}
    BY <1>7 DEF Steps, Sockets
  <2>2. e \in {"close", "error", "listening"}
    BY <2>1
  <2>3. Forwarded(k) = {"close", "error", "listening"}
    BY <1>7 DEF Forwarded, Sockets
  <2> QED
    BY <2>2, <2>3
<1> QED
  BY <1>1, <1>2, <1>4, <1>5, <1>6, <1>7 DEF AllKinds, Sockets

\* A native event is forwarded, once.
LEMMA ForwardedOnce ==
    ASSUME Types, Bound, NEW e \in Events, NativeStep(e)
    PROVE  listeners[e] = 1
<1>1. kind \in AllKinds /\ srv = "stored" /\ (e \in Flowing(kind) => flowing)
  BY KindsAssumption DEF Types, TypeOK, NativeStep
<1>2. PICK to \in Phases : <<phase, e, to>> \in Steps(kind)
  BY DEF NativeStep
<1>3. e \in Forwarded(kind) \/ (e = "data" /\ "data" \in Flowing(kind))
  BY <1>1, <1>2, StepsForwarded
<1> QED
  BY <1>1, <1>3 DEF Bound

-----------------------------------------------------------------------------
(* What a step of the server sends, and what it means.                     *)

About == {"event", "done", "connection", "socket"}
SaysEnd(ms) == \E i \in 1 .. Len(ms) : ms[i].is = "event" /\ ms[i].of \in Done(kind)

Sends(ms) ==
    /\ ms \in Seq(Message) /\ Send(ms)
    /\ \A i \in 1 .. Len(ms) :
           /\ ms[i].is \in About => srv # "none"
           /\ ms[i].is = "done" => i = 2 /\ ms[1].is = "event" /\ ms[1].of \in Done(kind)
           /\ ms[i] = Msg("success", "make") => c2s # <<>> /\ Head(c2s) = "make"
           /\ ms[i].is = "null" => c2s # <<>> /\ Head(c2s) = "make" /\ c2s' = Tail(c2s) /\ srv' = srv
           /\ ms[i].is = "event" => i = 1 /\ ms[i].of \in Events /\ produced' = Append(produced, ms[i].of)
    /\ srv = "none" /\ srv' # "none" => sUp /\ \E i \in 1 .. Len(ms) : ms[i] = Msg("success", "make")
    /\ \/ c2s' = c2s
       \/ /\ c2s # <<>> /\ c2s' = Tail(c2s)
          /\ sUp /\ Head(c2s) = "handshake" => \E i \in 1 .. Len(ms) : ms[i].is = "init"
          /\ sUp /\ Head(c2s) # "handshake" =>
                 \E i \in 1 .. Len(ms) : ms[i].is \in {"success", "null", "fail"} /\ ms[i].of = Head(c2s)
    /\ \/ produced' = produced
       \/ sUp /\ Len(ms) >= 1 /\ ms[1].is = "event" /\ produced' = Append(produced, ms[1].of)
    /\ srv' = "removed" \/ timer' =>
           \/ srv = "removed" \/ timer
           \/ c2s # <<>> /\ Head(c2s) = "dispose"
           \/ link = "down"
           \/ sUp /\ SaysEnd(ms)

LEMMA SendNothing ==
    ASSUME Types, s2c' = s2c
    PROVE  <<>> \in Seq(Message) /\ Len(<<>>) = 0 /\ Send(<<>>)
<1>1. s2c \o <<>> = s2c
  BY DEF Types, TypeOK
<1> QED
  BY <1>1 DEF Send, Deliver

LEMMA SendsNothing ==
    ASSUME Types, s2c' = s2c, c2s' = c2s, produced' = produced, srv' = srv \/ (srv # "none" /\ srv' # "none"),
           srv' = "removed" \/ timer' => srv = "removed" \/ timer \/ link = "down"
    PROVE  Sends(<<>>)
<1>1. <<>> \in Seq(Message) /\ Len(<<>>) = 0 /\ Send(<<>>)
  BY SendNothing
<1> DEFINE ms == <<>>
<1>2. ms \in Seq(Message) /\ Len(ms) = 0 /\ Send(ms)
  BY <1>1
<1> HIDE DEF ms
<1>3. \A i \in 1 .. Len(ms) : FALSE
  BY <1>2
<1>4. Sends(ms)
  BY <1>2, <1>3 DEF Sends
<1> QED
  BY <1>4 DEF ms

LEMMA ReceiveSends == ASSUME Types, ServerReceive PROVE \E ms : Sends(ms)
<1> DEFINE n == Head(c2s)
<1>0. /\ c2s # <<>> /\ c2s' = Tail(c2s)
      /\ n \in Calls \union {"handshake"}
      /\ UNCHANGED <<kind, linkVars, clientVars, sUp, conn, produced>>
      /\ \/ ~sUp /\ UNCHANGED <<s2c, serverVars>>
         \/ sUp /\ \E ms : Answers(ms, n) /\ Send(ms)
  BY ReceiveShape
<1>1. CASE ~sUp
  <2> DEFINE ms == <<>>
  <2>1. UNCHANGED <<s2c, srv, timer, produced>>
    BY <1>0, <1>1 DEF serverVars
  <2>2. ms \in Seq(Message) /\ Len(ms) = 0 /\ Send(ms)
    BY <2>1, SendNothing
  <2> HIDE DEF ms
  <2>3. \A i \in 1 .. Len(ms) : FALSE
    BY <2>2
  <2>4. Sends(ms)
    BY <1>0, <1>1, <2>1, <2>2, <2>3 DEF Sends
  <2> QED
    BY <2>4
<1>2. ASSUME sUp, NEW ms, Answers(ms, n), Send(ms),
             srv = "none" /\ srv' # "none" => ms = <<Msg("success", "make")>>,
             (\E i \in 1 .. Len(ms) : ms[i].is = "null") => srv' = srv,
             srv' = "removed" \/ timer' => srv = "removed" \/ timer \/ n = "dispose"
      PROVE  Sends(ms)
  <2> HIDE DEF n
  <2>1. /\ ms \in Seq(Message)
        /\ \A i \in 1 .. Len(ms) : ms[i].is \in {"init", "success", "null", "fail"}
    BY <1>0, <1>2, AnswersTypes
  <2>2. n = "handshake" => \E i \in 1 .. Len(ms) : ms[i].is = "init"
    BY <1>2 DEF Answers, Msg
  <2>3. n # "handshake" => \E i \in 1 .. Len(ms) : ms[i].is \in {"success", "null", "fail"} /\ ms[i].of = n
    <3>1. CASE ms = <<Msg("success", n)>> \/ ms = <<Msg("null", n)>> \/ ms = <<Msg("fail", n)>>
      <4>1. 1 \in 1 .. Len(ms) /\ ms[1] \in {Msg("success", n), Msg("null", n), Msg("fail", n)}
        BY <3>1
      <4>2. ms[1].is \in {"success", "null", "fail"} /\ ms[1].of = n
        BY <4>1 DEF Msg
      <4> QED
        BY <4>1, <4>2
    <3>2. CASE ms = <<Msg("fail", n), Msg("success", n)>>
      <4>1. 1 \in 1 .. Len(ms) /\ ms[1] = Msg("fail", n)
        BY <3>2
      <4>2. ms[1].is = "fail" /\ ms[1].of = n
        BY <4>1 DEF Msg
      <4> QED
        BY <4>1, <4>2
    <3> QED
      BY <1>2, <3>1, <3>2 DEF Answers
  <2>4. ASSUME NEW i \in 1 .. Len(ms), ms[i] = Msg("success", "make") \/ ms[i].is = "null" PROVE n = "make"
    <3>1. \/ ms[i] \in {Msg("init", "make"), Msg("success", n), Msg("fail", n)}
          \/ n = "make"
      <4>1. CASE ms = <<Msg("init", "make")>> \/ ms = <<Msg("success", n)>> \/ ms = <<Msg("fail", n)>>
        BY <4>1
      <4>2. CASE ms = <<Msg("fail", n), Msg("success", n)>>
        BY <4>2
      <4> QED
        BY <1>2, <4>1, <4>2 DEF Answers
    <3> QED
      BY <2>4, <3>1 DEF Msg
  <2>5. srv = "none" /\ srv' # "none" => \E i \in 1 .. Len(ms) : ms[i] = Msg("success", "make")
    BY <1>2
  <2>6. n = Head(c2s)
    BY DEF n
  <2> QED
    BY <1>0, <1>2, <2>1, <2>2, <2>3, <2>4, <2>5, <2>6 DEF Sends, About
<1>3. CASE sUp
  <2> HIDE DEF n
  <2>0. ServerTakes(n)
    BY <1>3 DEF n, ServerReceive, ServerDiscard
  <2>1. CASE Store(n)
    <3> DEFINE ms == <<Msg("success", "make")>>
    <3>1. n = "make" /\ Send(ms) /\ srv' = "stored" /\ timer' = timer
      BY <2>1 DEF Store
    <3>2. Answers(ms, n)
      BY <3>1 DEF Answers
    <3>3. \A i \in 1 .. Len(ms) : ms[i].is # "null"
      BY DEF Msg
    <3> HIDE DEF ms
    <3>4. srv = "none" /\ srv' # "none" => ms = <<Msg("success", "make")>>
      BY DEF ms
    <3> QED
      BY <1>2, <1>3, <3>1, <3>2, <3>3, <3>4
  <2>2. CASE Dispose(n)
    <3> DEFINE ms == <<Msg("success", n)>>
    <3>1. n = "dispose" /\ Send(ms) /\ srv = "stored"
      BY <2>2 DEF Dispose
    <3>2. Answers(ms, n)
      BY <3>1 DEF Answers
    <3>3. \A i \in 1 .. Len(ms) : ms[i].is # "null"
      BY DEF Msg
    <3> HIDE DEF ms
    <3> QED
      BY <1>2, <1>3, <3>1, <3>2, <3>3
  <2>3. CASE Handshake(n) \/ StoreNone(n) \/ Refuse(n) \/ NoProxy(n) \/ Perform(n)
    <3>1. srv' = srv /\ timer' = timer
      BY <2>3 DEF Handshake, StoreNone, Refuse, NoProxy, Perform, serverVars
    <3>2. PICK ms : Answers(ms, n) /\ Send(ms)
      BY <1>0, <1>3 DEF n
    <3> QED
      BY <1>2, <1>3, <3>1, <3>2
  <2> QED
    BY <2>0, <2>1, <2>2, <2>3 DEF ServerTakes
<1> QED
  BY <1>1, <1>3

LEMMA ReportsAt ==
    ASSUME Types, NEW e \in Events, listeners[e] = 1
    PROVE  /\ Reports(e) \in Seq(Message)
           /\ Reports(e)[1] = Msg("event", e)
           /\ \/ e \notin Done(kind) /\ Len(Reports(e)) = 1
              \/ e \in Done(kind) /\ Len(Reports(e)) = 2 /\ Reports(e)[2] = Msg("done", "make")
<1> DEFINE es == [i \in 1 .. listeners[e] |-> Msg("event", e)]
<1>1. Msg("event", e) \in Message /\ Msg("done", "make") \in Message
  BY MessageTypes
<1>2. es \in Seq(Message) /\ Len(es) = 1 /\ es[1] = Msg("event", e)
  BY <1>1
<1>3. Reports(e) = es \o (IF e \in Done(kind) THEN <<Msg("done", "make")>> ELSE <<>>)
  BY DEF Reports, Forwards, Finishes
<1> HIDE DEF es
<1>4. CASE e \in Done(kind)
  <2> DEFINE ds == <<Msg("done", "make")>>
  <2>1. Reports(e) = es \o ds /\ ds \in Seq(Message) /\ Len(ds) = 1 /\ ds[1] = Msg("done", "make")
    BY <1>1, <1>3, <1>4
  <2> HIDE DEF ds
  <2>2. /\ es \o ds \in Seq(Message) /\ Len(es \o ds) = 2
        /\ (es \o ds)[1] = es[1] /\ (es \o ds)[2] = ds[1]
    <3>1. /\ es \o ds \in Seq(Message) /\ Len(es \o ds) = Len(es) + Len(ds)
          /\ \A i \in 1 .. Len(es) : (es \o ds)[i] = es[i]
          /\ \A i \in 1 .. Len(ds) : (es \o ds)[Len(es) + i] = ds[i]
      <4>1. es \in Seq(Message) /\ ds \in Seq(Message)
        BY <1>2, <2>1
      <4> QED
        BY <4>1, JoinAt
    <3>2. 1 \in 1 .. Len(es) /\ 1 \in 1 .. Len(ds) /\ Len(es) + 1 = 2 /\ Len(es) + Len(ds) = 2
      BY <1>2, <2>1
    <3>3. (es \o ds)[Len(es) + 1] = ds[1]
      BY <3>1, <3>2
    <3>4. (es \o ds)[2] = ds[1]
      BY <3>2, <3>3
    <3> QED
      BY <3>1, <3>2, <3>4
  <2> QED
    BY <1>2, <1>4, <2>1, <2>2
<1>5. CASE e \notin Done(kind)
  <2>1. Reports(e) = es
    BY <1>2, <1>3, <1>5
  <2> QED
    BY <1>2, <1>5, <2>1
<1> QED
  BY <1>4, <1>5

LEMMA NativeSends == ASSUME Types, Sides, Bound, NEW e \in Events, NativeStep(e) PROVE Sends(Reports(e))
<1> DEFINE ms == Reports(e)
<1>1. /\ Send(ms)
      /\ produced' = Append(produced, e)
      /\ timer' = (timer \/ e \in Done(kind))
      /\ UNCHANGED <<c2s, srv>> /\ srv = "stored" /\ sUp
  BY DEF NativeStep, Sides
<1>2. /\ ms \in Seq(Message)
      /\ ms[1] = Msg("event", e)
      /\ \/ e \notin Done(kind) /\ Len(ms) = 1
         \/ e \in Done(kind) /\ Len(ms) = 2 /\ ms[2] = Msg("done", "make")
  BY ForwardedOnce, ReportsAt
<1> HIDE DEF ms
<1>3. ms[1].is = "event" /\ ms[1].of = e
  BY <1>2 DEF Msg
<1>4. \A i \in 1 .. Len(ms) : i = 1 \/ (i = 2 /\ e \in Done(kind) /\ ms[i].is = "done")
  <2>1. ms[2] = Msg("done", "make") => ms[2].is = "done"
    BY DEF Msg
  <2>2. CASE e \in Done(kind) /\ Len(ms) = 2
    <3>1. \A i \in 1 .. Len(ms) : i = 1 \/ i = 2
      BY <2>2
    <3> QED
      BY <1>2, <2>1, <2>2, <3>1
  <2>3. CASE e \notin Done(kind) /\ Len(ms) = 1
    BY <2>3
  <2> QED
    BY <1>2, <2>2, <2>3
<1>5. e \in Done(kind) => SaysEnd(ms)
  BY <1>2, <1>3 DEF SaysEnd
<1>6. \A i \in 1 .. Len(ms) : ms[i] # Msg("success", "make")
  BY <1>3, <1>4 DEF Msg
<1>7. Len(ms) >= 1
  BY <1>2
<1>8. Sends(ms)
  BY <1>1, <1>2, <1>3, <1>4, <1>5, <1>6, <1>7 DEF Sends
<1> QED
  BY <1>8 DEF ms

LEMMA ConnSends ==
    ASSUME Types, Sides, NEW s \in Conns, Connects(s) \/ ConnEnding(s) \/ ConnStep(s)
    PROVE  \E ms : Sends(ms)
<1>1. /\ UNCHANGED <<c2s, produced, srv, timer>>
      /\ Send(<<Msg("connection", s)>>) \/ Send(<<Msg("socket", s)>>) \/ Send(<<>>) \/ s2c' = s2c
  BY DEF Connects, ConnEnding, ConnStep
<1>2. srv # "none"
  BY DEF Connects, ConnEnding, ConnStep, Sides
<1>3. ASSUME NEW m \in Message, m.is \in {"connection", "socket"}, Send(<<m>>) PROVE Sends(<<m>>)
  <2> DEFINE ms == <<m>>
  <2>1. ms \in Seq(Message) /\ Len(ms) = 1 /\ ms[1] = m /\ Send(ms)
    BY <1>3
  <2> HIDE DEF ms
  <2>2. \A i \in 1 .. Len(ms) : i = 1 /\ ms[i] = m
    BY <2>1
  <2>3. m # Msg("success", "make")
    BY <1>3 DEF Msg
  <2>4. Sends(ms)
    BY <1>1, <1>2, <1>3, <2>1, <2>2, <2>3 DEF Sends
  <2> QED
    BY <2>4 DEF ms
<1>4. CASE Send(<<>>) \/ s2c' = s2c
  <2>1. s2c' = s2c
    BY <1>4 DEF Send, Deliver, Types, TypeOK
  <2> QED
    BY <1>1, <2>1, SendsNothing
<1>5. /\ Msg("connection", s) \in Message /\ Msg("connection", s).is = "connection"
      /\ Msg("socket", s) \in Message /\ Msg("socket", s).is = "socket"
  BY MessageTypes DEF Msg
<1> QED
  BY <1>1, <1>3, <1>4, <1>5

LEMMA ServerSends == ASSUME Types, Sides, Bound, ServerNext PROVE \E ms : Sends(ms)
<1>1. CASE DisposeTimer \/ ServerUp \/ ServerDown
  <2>1. UNCHANGED <<c2s, s2c, produced>>
    BY <1>1 DEF DisposeTimer, ServerUp, ServerDown, nativeVars
  <2>2. srv' = srv \/ (srv # "none" /\ srv' # "none")
    BY <1>1 DEF DisposeTimer, ServerUp, ServerDown, Sides
  <2>3. srv' = "removed" \/ timer' => srv = "removed" \/ timer \/ link = "down"
    BY <1>1 DEF DisposeTimer, ServerUp, ServerDown
  <2> QED
    BY <2>1, <2>2, <2>3, SendsNothing
<1>2. ASSUME NEW e \in Events, NativeStep(e) PROVE \E ms : Sends(ms)
  BY <1>2, NativeSends
<1> QED
  BY <1>1, <1>2, ReceiveSends, ConnSends DEF ServerNext

\* Where what is in the queue behind a server's step comes from.
LEMMA SentAt ==
    ASSUME Types, NEW ms \in Seq(Message), Send(ms)
    PROVE  /\ Len(s2c) \in Nat /\ Len(ms) \in Nat /\ Len(s2c') \in Nat /\ Len(s2c') >= Len(s2c)
           /\ \A i \in 1 .. Len(s2c) : s2c'[i] = s2c[i] /\ i \in 1 .. Len(s2c')
           /\ \A i \in 1 .. Len(s2c') :
                  \/ i \in 1 .. Len(s2c)
                  \/ /\ i > Len(s2c) /\ i - Len(s2c) \in 1 .. Len(ms)
                     /\ s2c'[i] = ms[i - Len(s2c)]
                     /\ link = "up" /\ sUp
           /\ \/ s2c' = s2c /\ ~(link = "up" /\ sUp)
              \/ /\ link = "up" /\ sUp
                 /\ s2c' = s2c \o ms
                 /\ \A k \in 1 .. Len(ms) : s2c'[Len(s2c) + k] = ms[k] /\ Len(s2c) + k \in 1 .. Len(s2c')
<1>1. s2c \in Seq(Message)
  BY DEF Types, TypeOK
<1>2. CASE s2c' = s2c /\ ~(link = "up" /\ sUp)
  BY <1>1, <1>2
<1>3. CASE link = "up" /\ sUp /\ s2c' = s2c \o ms
  <2>1. /\ Len(s2c') = Len(s2c) + Len(ms)
        /\ \A i \in 1 .. Len(s2c) : s2c'[i] = s2c[i] /\ i \in 1 .. Len(s2c')
        /\ \A i \in 1 .. Len(s2c') :
               i \in 1 .. Len(s2c) \/ (i - Len(s2c) \in 1 .. Len(ms) /\ s2c'[i] = ms[i - Len(s2c)])
        /\ \A k \in 1 .. Len(ms) : s2c'[Len(s2c) + k] = ms[k]
    BY <1>1, <1>3, JoinAt
  <2>2. Len(s2c) \in Nat /\ Len(ms) \in Nat
    BY <1>1
  <2>3. \A k \in 1 .. Len(ms) : Len(s2c) + k \in 1 .. Len(s2c')
    BY <2>1, <2>2
  <2>4. \A i \in 1 .. Len(s2c') : i - Len(s2c) \in 1 .. Len(ms) => i > Len(s2c)
    BY <2>2
  <2> QED
    BY <1>3, <2>1, <2>2, <2>3, <2>4
<1> QED
  BY <1>2, <1>3 DEF Send, Deliver

-----------------------------------------------------------------------------
(* The answer that gives the proxy comes first.                            *)

\* While the proxy is asked for, what the client takes does not give it.
LEMMA AskedTakes ==
    ASSUME Types, Sides, Waits, ClientReceive, promise' = "asked"
    PROVE  promise = "asked" /\ Head(s2c) # Msg("success", "make")
<1> DEFINE m == Head(s2c)
<1>1. promise = "asked"
  BY DEF ClientReceive, ClientTakes, ClientDiscard, Greet, Made, MadeNull, Resolved, Rejected, Fails, Unexpected, Lost, Heard,
         DoneHeard, Accepted, SocketHeard, clientVars
<1>2. cUp /\ "make" \in pending
  BY <1>1 DEF Sides, Waits
<1> HIDE DEF m
<1>3. ClientTakes(m)
  BY <1>2 DEF m, ClientReceive, ClientDiscard
<1>4. ASSUME m.is = "success", m.of = "make" PROVE FALSE
  <2>1. Made(m)
    BY <1>2, <1>3, <1>4 DEF ClientTakes, Greet, MadeNull, Resolved, Rejected, Unexpected, Lost, Heard, DoneHeard,
                            Accepted, SocketHeard
  <2> QED
    BY <2>1 DEF Made
<1>5. m # Msg("success", "make")
  BY <1>4 DEF Msg
<1> QED
  BY <1>1, <1>5 DEF m

LEMMA OrderedReceive == ASSUME Types, Sides, Waits, Ordered, ClientReceive PROVE Ordered'
<1> SUFFICES ASSUME promise' = "asked" PROVE Ordered'
  BY DEF Ordered
<1>1. promise = "asked" /\ s2c[1] # Msg("success", "make")
  BY AskedTakes, ReceiptShape, TailAt DEF Types, TypeOK
<1>2. /\ Len(s2c) \in Nat \ {0} /\ Len(s2c') = Len(s2c) - 1
      /\ \A i \in 1 .. Len(s2c') : s2c'[i] = s2c[i + 1] /\ i + 1 \in 1 .. Len(s2c)
  <2>1. s2c \in Seq(Message)
    BY DEF Types, TypeOK
  <2> QED
    BY <2>1, ReceiptShape, TailAt
<1>3. UNCHANGED <<link, srv>>
  BY ClientShape DEF ClientNext, linkVars, serverVars
<1>4. ASSUME NEW n \in 1 .. Len(s2c), Given(s2c, n) PROVE Given(s2c', n - 1)
  <2>1. PICK j \in 1 .. n : s2c[j] = Msg("success", "make")
    BY <1>4 DEF Given
  <2>2. j - 1 \in 1 .. n - 1 /\ j - 1 \in 1 .. Len(s2c') /\ (j - 1) + 1 = j
    BY <1>1, <1>2, <2>1
  <2>3. s2c'[j - 1] = Msg("success", "make")
    BY <1>2, <2>1, <2>2
  <2> QED
    BY <2>2, <2>3 DEF Given
<1>5. ASSUME NEW i \in 1 .. Len(s2c'), s2c'[i].is \in {"event", "done", "connection", "socket"}
      PROVE  Given(s2c', i - 1)
  <2>1. i + 1 \in 1 .. Len(s2c) /\ (i + 1) - 1 = i /\ i \in 1 .. Len(s2c) /\ s2c'[i] = s2c[i + 1]
    BY <1>2
  <2>2. Given(s2c, (i + 1) - 1)
    BY <1>1, <1>5, <2>1 DEF Ordered
  <2>3. Given(s2c, i)
    BY <2>1, <2>2
  <2> QED
    BY <1>4, <2>1, <2>3
<1>6. link' = "up" /\ srv' # "none" => Given(s2c', Len(s2c'))
  BY <1>1, <1>2, <1>3, <1>4 DEF Ordered
<1> QED
  BY <1>5, <1>6 DEF Ordered

LEMMA OrderedServer == ASSUME Types, Sides, Ordered, UNCHANGED <<linkVars, clientVars>>, NEW ms, Sends(ms) PROVE Ordered'
<1> SUFFICES ASSUME promise = "asked" PROVE Ordered'
  BY DEF Ordered, clientVars
<1>1. /\ Len(s2c) \in Nat /\ Len(ms) \in Nat /\ Len(s2c') \in Nat /\ Len(s2c') >= Len(s2c)
      /\ \A i \in 1 .. Len(s2c) : s2c'[i] = s2c[i] /\ i \in 1 .. Len(s2c')
      /\ \A i \in 1 .. Len(s2c') :
             \/ i \in 1 .. Len(s2c)
             \/ /\ i > Len(s2c) /\ i - Len(s2c) \in 1 .. Len(ms)
                /\ s2c'[i] = ms[i - Len(s2c)]
                /\ link = "up" /\ sUp
      /\ \/ s2c' = s2c /\ ~(link = "up" /\ sUp)
         \/ /\ link = "up" /\ sUp
            /\ s2c' = s2c \o ms
            /\ \A k \in 1 .. Len(ms) : s2c'[Len(s2c) + k] = ms[k] /\ Len(s2c) + k \in 1 .. Len(s2c')
  BY SentAt DEF Sends
<1>2. link' = link /\ promise' = promise
  BY DEF linkVars, clientVars
<1>3. ASSUME NEW n \in 0 .. Len(s2c), Given(s2c, n), NEW k \in Int, n <= k PROVE Given(s2c', k)
  BY <1>1, <1>3 DEF Given
<1>4. link = "up" /\ srv # "none" => Given(s2c, Len(s2c))
  BY DEF Ordered
<1>5. ASSUME NEW i \in 1 .. Len(s2c'), s2c'[i].is \in {"event", "done", "connection", "socket"}
      PROVE  Given(s2c', i - 1)
  <2>1. CASE i \in 1 .. Len(s2c)
    <3>1. Given(s2c, i - 1)
      BY <1>1, <1>5, <2>1 DEF Ordered
    <3> QED
      BY <1>3, <2>1, <3>1
  <2>2. CASE i \notin 1 .. Len(s2c)
    <3>1. i > Len(s2c) /\ i - Len(s2c) \in 1 .. Len(ms) /\ s2c'[i] = ms[i - Len(s2c)] /\ link = "up"
      BY <1>1, <2>2
    <3>2. srv # "none"
      BY <1>5, <3>1 DEF Sends, About
    <3>3. Given(s2c, Len(s2c)) /\ Len(s2c) \in 0 .. Len(s2c) /\ Len(s2c) <= i - 1 /\ i - 1 \in Int
      BY <1>1, <1>4, <3>1, <3>2
    <3> QED
      BY <1>3, <3>3
  <2> QED
    BY <2>1, <2>2
<1>6. ASSUME link = "up", srv' # "none" PROVE Given(s2c', Len(s2c'))
  <2>1. CASE srv # "none"
    <3>1. Given(s2c, Len(s2c)) /\ Len(s2c) \in 0 .. Len(s2c) /\ Len(s2c) <= Len(s2c') /\ Len(s2c') \in Int
      BY <1>1, <1>4, <1>6, <2>1
    <3> QED
      BY <1>3, <3>1
  <2>2. CASE srv = "none"
    <3>1. PICK k \in 1 .. Len(ms) : ms[k] = Msg("success", "make")
      BY <1>6, <2>2 DEF Sends
    <3>2. sUp
      BY <1>6, <2>2 DEF Sends
    <3>3. s2c'[Len(s2c) + k] = Msg("success", "make") /\ Len(s2c) + k \in 1 .. Len(s2c')
      BY <1>1, <1>6, <3>1, <3>2
    <3> QED
      BY <3>3 DEF Given
  <2> QED
    BY <2>1, <2>2
<1> QED
  BY <1>2, <1>5, <1>6 DEF Ordered

LEMMA OrderedNext == ASSUME Types, Sides, Waits, Bound, Ordered, [Next]_vars PROVE Ordered'
<1>0. s2c \in Seq(Message)
  BY DEF Types, TypeOK
<1>1. CASE ClientNext /\ ~ClientReceive
  <2>1. s2c' = s2c /\ UNCHANGED <<link, srv>>
    BY <1>1, QuietShape, ClientShape DEF linkVars, serverVars
  <2>2. promise' = "asked" => promise = "asked"
    BY <1>1 DEF ClientNext, UserCall, CallTimeout, Fails, SocketCallFails, ClientDown, ClientUp
  <2> QED
    BY <2>1, <2>2 DEF Ordered
<1>2. CASE ServerNext
  BY <1>2, ServerShape, ServerSends, OrderedServer
<1>3. CASE LinkUp
  BY <1>3 DEF LinkUp, Sides, Ordered, clientVars
<1>4. CASE LinkDown
  <2>1. /\ Len(s2c') \in 0 .. Len(s2c)
        /\ \A i \in 1 .. Len(s2c') : s2c'[i] = s2c[i] /\ i \in 1 .. Len(s2c)
    BY <1>0, <1>4, InCut DEF LinkDown
  <2>2. link' = "down" /\ promise' = promise
    BY <1>4 DEF LinkDown, clientVars
  <2>3. ASSUME promise = "asked", NEW i \in 1 .. Len(s2c'),
               s2c'[i].is \in {"event", "done", "connection", "socket"}
        PROVE  Given(s2c', i - 1)
    <3>1. PICK j \in 1 .. i - 1 : s2c[j] = Msg("success", "make")
      BY <2>1, <2>3 DEF Ordered, Given
    <3>2. j \in 1 .. Len(s2c')
      BY <1>0, <2>1
    <3>3. s2c'[j] = Msg("success", "make")
      BY <2>1, <3>1, <3>2
    <3> QED
      BY <3>3 DEF Given
  <2> QED
    BY <2>2, <2>3 DEF Ordered
<1>5. CASE UNCHANGED vars
  BY <1>5 DEF vars, linkVars, clientVars, serverVars, Ordered
<1> QED
  BY <1>1, <1>2, <1>3, <1>4, <1>5, OrderedReceive DEF Next

-----------------------------------------------------------------------------
(* What is picked from a whole queue.                                      *)

All(q) == Picked(q)[Len(q)]

LEMMA AllType == ASSUME NEW q, Mail(q) PROVE All(q) \in Seq(Events)
<1>1. Picks(Picked(q), q, Len(q))
  BY PickedPicks
<1>2. Len(q) \in 0 .. Len(q)
  BY DEF Mail
<1> QED
  BY <1>1, <1>2 DEF All, Picks

LEMMA AllTail ==
    ASSUME NEW q, Mail(q), q # <<>>
    PROVE  All(q) = Pick(<<>>, q[1]) \o All(Tail(q)) /\ Mail(Tail(q))
BY PickedTail DEF All

LEMMA AllCut ==
    ASSUME NEW q, Mail(q), NEW r \in Cut(q)
    PROVE  Mail(r) /\ Prefix(All(r), All(q))
<1>1. /\ q \in Seq(Message) /\ r \in Seq(Message)
      /\ Len(r) \in 0 .. Len(q)
      /\ \A i \in 1 .. Len(r) : r[i] = q[i] /\ i \in 1 .. Len(q)
  BY InCut DEF Mail
<1>2. Mail(r)
  BY <1>1 DEF Mail
<1>3. Picked(q)[Len(r)] = Picked(r)[Len(r)]
  <2>1. Len(r) \in 0 .. Len(r)
    BY <1>1
  <2> QED
    BY <1>1, <1>2, <2>1, PickedAgree
<1> QED
  BY <1>1, <1>2, <1>3, PickedPrefix DEF All

\* Of what a step of the server sends, an event can only come first.
LEMMA AllJoin ==
    ASSUME NEW q, Mail(q), NEW ms, Mail(ms), \A i \in 1 .. Len(ms) : ms[i].is = "event" => i = 1
    PROVE  /\ Mail(q \o ms)
           /\ Len(ms) = 0 => All(q \o ms) = All(q)
           /\ Len(ms) # 0 => All(q \o ms) = Pick(All(q), ms[1])
<1> DEFINE r == q \o ms
           S == {m \in 0 .. Len(ms) : m = 0 \/ Picked(r)[Len(q) + m] = Pick(All(q), ms[1])}
<1>0. /\ q \in Seq(Message) /\ ms \in Seq(Message)
      /\ Len(q) \in Nat /\ Len(ms) \in Nat
  BY DEF Mail
<1>1. /\ r \in Seq(Message) /\ Len(r) = Len(q) + Len(ms)
      /\ \A i \in 1 .. Len(q) : r[i] = q[i]
      /\ \A i \in 1 .. Len(r) :
             i \in 1 .. Len(q) \/ (i - Len(q) \in 1 .. Len(ms) /\ r[i] = ms[i - Len(q)])
      /\ \A k \in 1 .. Len(ms) : r[Len(q) + k] = ms[k]
  BY <1>0, JoinAt
<1>9. r = q \o ms
  OBVIOUS
<1> HIDE DEF r
<1>2. Mail(r)
  BY <1>0, <1>1 DEF Mail
<1>3. Picked(r)[Len(q)] = All(q)
  <2>1. Len(q) \in 0 .. Len(q) /\ Len(q) \in 0 .. Len(r)
    BY <1>0, <1>1
  <2> QED
    BY <1>1, <1>2, <2>1, PickedAgree DEF All
<1>4. Picks(Picked(r), r, Len(r))
  BY <1>2, PickedPicks
<1>5. ASSUME NEW m \in 1 .. Len(ms), m - 1 \in S PROVE m \in S
  <2>1. /\ Len(q) + m \in 1 .. Len(r) /\ (Len(q) + m) - 1 = Len(q) + (m - 1) /\ m \in 0 .. Len(ms)
        /\ r[Len(q) + m] = ms[m]
    BY <1>0, <1>1
  <2>2. Picked(r)[Len(q) + m] = Pick(Picked(r)[Len(q) + (m - 1)], ms[m])
    BY <1>4, <2>1 DEF Picks
  <2>3. CASE m = 1
    <3>1. Len(q) + (m - 1) = Len(q)
      BY <1>0, <2>3
    <3>2. Picked(r)[Len(q) + m] = Pick(All(q), ms[1])
      BY <1>3, <2>2, <2>3, <3>1
    <3> QED
      BY <2>1, <3>2
  <2>4. CASE m # 1
    <3>1. Picked(r)[Len(q) + (m - 1)] = Pick(All(q), ms[1])
      <4>1. m - 1 # 0
        BY <2>4
      <4> QED
        BY <1>5, <4>1
    <3>2. ms[m].is # "event"
      BY <2>4
    <3>3. Picked(r)[Len(q) + m] = Pick(All(q), ms[1])
      BY <2>2, <3>1, <3>2 DEF Pick
    <3> QED
      BY <2>1, <3>3
  <2> QED
    BY <2>3, <2>4
<1>6. 0 \in S
  BY <1>0
<1>7. S \in SUBSET (0 .. Len(ms))
  OBVIOUS
<1>8. Len(ms) \in S
  <2> HIDE DEF S
  <2> QED
    BY <1>0, <1>5, <1>6, <1>7, UpTo
<1>10. Len(ms) = 0 => All(r) = All(q)
  <2>1. Len(ms) = 0 => Len(r) = Len(q)
    BY <1>0, <1>1
  <2> QED
    BY <1>3, <2>1 DEF All
<1>11. Len(ms) # 0 => All(r) = Pick(All(q), ms[1])
  BY <1>1, <1>8 DEF All
<1> QED
  BY <1>2, <1>9, <1>10, <1>11

-----------------------------------------------------------------------------
(* Prefixes.                                                               *)

LEMMA PrefixTrans ==
    ASSUME NEW S, NEW r \in Seq(S), NEW s \in Seq(S), NEW t \in Seq(S), Prefix(r, s), Prefix(s, t)
    PROVE  Prefix(r, t)
BY DEF Prefix

LEMMA PrefixJoin ==
    ASSUME NEW S, NEW h \in Seq(S), NEW s \in Seq(S), NEW t \in Seq(S)
    PROVE  /\ Prefix(h, h) /\ Prefix(h, h \o s)
           /\ Prefix(s, t) => Prefix(h \o s, h \o t)
<1>1. Prefix(h, h) /\ Prefix(h, h \o s)
  BY DEF Prefix
<1>2. ASSUME Prefix(s, t) PROVE Prefix(h \o s, h \o t)
  <2>1. Len(h) \in Nat /\ Len(s) \in Nat /\ Len(t) \in Nat /\ Len(h \o s) = Len(h) + Len(s) /\ Len(h \o t) = Len(h) + Len(t)
    OBVIOUS
  <2>2. Len(s) <= Len(t) /\ \A i \in 1 .. Len(s) : s[i] = t[i]
    BY <1>2 DEF Prefix
  <2>3. ASSUME NEW i \in 1 .. Len(h \o s) PROVE (h \o s)[i] = (h \o t)[i]
    <3>1. CASE i \in 1 .. Len(h)
      BY <3>1
    <3>2. CASE i \notin 1 .. Len(h)
      <4>1. i - Len(h) \in 1 .. Len(s) /\ i - Len(h) \in 1 .. Len(t)
        BY <2>1, <2>2, <3>2
      <4>2. (h \o s)[i] = s[i - Len(h)] /\ (h \o t)[i] = t[i - Len(h)]
        BY <2>1, <3>2, <4>1
      <4> QED
        BY <2>2, <4>1, <4>2
    <3> QED
      BY <3>1, <3>2
  <2> QED
    BY <2>1, <2>2, <2>3 DEF Prefix
<1> QED
  BY <1>1, <1>2

-----------------------------------------------------------------------------
(* Every event once and in order.                                          *)

LEMMA MailOf == ASSUME Types PROVE Mail(s2c) /\ Coming = All(s2c) /\ heard \in Seq(Events) /\ produced \in Seq(Events)
BY InQueue DEF Types, TypeOK, Mail, Sound, Coming, All

\* Mail of the queue behind a step, from its types.
LEMMA MailNext == ASSUME Types' PROVE Mail(s2c') /\ Coming' = All(s2c') /\ heard' \in Seq(Events) /\ produced' \in Seq(Events)
<1>1. /\ s2c' \in Seq(Message) /\ heard' \in Seq(Events) /\ produced' \in Seq(Events)
      /\ \A m \in InFlight(s2c') : Sound(m)
  BY DEF Types, TypeOK
<1>2. Mail(s2c')
  BY <1>1, InQueue DEF Mail, Sound
<1> QED
  BY <1>1, <1>2 DEF Coming, All

LEMMA FollowedInit == Init => Followed
<1> SUFFICES ASSUME Init PROVE Followed
  OBVIOUS
<1>1. s2c = <<>> /\ heard = <<>> /\ produced = <<>>
  BY DEF Init
<1>2. Mail(s2c) /\ Len(s2c) = 0
  BY <1>1 DEF Mail
<1>3. Coming = <<>>
  BY <1>2, PickedPicks DEF Coming, Picks
<1>4. Prefix(<<>>, <<>>) /\ <<>> \o <<>> = <<>>
  BY DEF Prefix
<1> QED
  BY <1>1, <1>3, <1>4 DEF Followed

LEMMA FollowedReceive ==
    ASSUME Types, Types', Sides, Waits, Ordered, Followed, ClientReceive
    PROVE  Followed'
<1> DEFINE m == Head(s2c)
<1>0. /\ Mail(s2c) /\ Mail(s2c') /\ Coming = All(s2c) /\ Coming' = All(s2c')
      /\ heard \in Seq(Events) /\ produced \in Seq(Events)
      /\ All(s2c) \in Seq(Events) /\ All(s2c') \in Seq(Events)
  BY MailOf, MailNext, AllType
<1>1. s2c # <<>> /\ s2c' = Tail(s2c) /\ m = s2c[1] /\ 1 \in 1 .. Len(s2c) /\ m \in InFlight(s2c)
  BY ReceiptShape, TailAt, InTail DEF Types, TypeOK
<1>2. All(s2c) = Pick(<<>>, m) \o All(s2c')
  BY <1>0, <1>1, AllTail
<1>3. UNCHANGED <<link, produced>>
  BY ClientShape DEF ClientNext, linkVars, serverVars, nativeVars
<1>4. /\ Prefix(heard, produced)
      /\ promise \in {"asked", "held"} => Prefix(heard \o All(s2c), produced)
      /\ promise \in {"asked", "held"} /\ link = "up" => heard \o All(s2c) = produced
  BY <1>0 DEF Followed, First
<1> HIDE DEF m
<1>5. CASE Heard(m)
  <2>1. /\ m.is = "event" /\ promise = "held" /\ promise' = promise /\ heard' = Append(heard, m.of)
        /\ m.of \in Events
    BY <1>0, <1>1, <1>5 DEF Heard, Mail
  <2>2. All(s2c) = <<m.of>> \o All(s2c')
    BY <1>2, <2>1 DEF Pick
  <2>3. heard' \o All(s2c') = heard \o All(s2c)
    BY <1>0, <2>1, <2>2
  <2>4. Prefix(heard', heard' \o All(s2c')) /\ heard' \in Seq(Events) /\ heard \o All(s2c) \in Seq(Events)
    <3>1. heard' \in Seq(Events)
      BY <1>0, <2>1
    <3>2. Prefix(heard', heard' \o All(s2c'))
      BY <1>0, <3>1, PrefixJoin
    <3> QED
      BY <1>0, <3>1, <3>2
  <2>5. Prefix(heard', produced)
    BY <1>0, <1>4, <2>1, <2>3, <2>4, PrefixTrans
  <2> QED
    BY <1>0, <1>3, <1>4, <2>1, <2>3, <2>5 DEF Followed, First
<1>6. CASE ~Heard(m)
  <2>1. heard' = heard /\ (promise' \in {"asked", "held"} => promise \in {"asked", "held"})
    BY <1>6 DEF m, ClientReceive, ClientTakes, ClientDiscard, Greet, Made, MadeNull, Resolved, Rejected, Fails, Unexpected, Lost,
                DoneHeard, Accepted, SocketHeard, clientVars, Waits
  <2>2. ASSUME promise \in {"asked", "held"} PROVE All(s2c') = All(s2c)
    <3>1. ClientTakes(m)
      BY <2>2 DEF m, ClientReceive, ClientDiscard, Sides
    <3>2. m.is # "event"
      <4>1. SUFFICES ASSUME m.is = "event" PROVE FALSE
        OBVIOUS
      <4>2. Lost(m)
        BY <1>6, <3>1, <4>1 DEF ClientTakes, Greet, Made, MadeNull, Resolved, Rejected, Unexpected, DoneHeard, Accepted,
                                SocketHeard
      <4>3. promise = "asked"
        BY <2>2, <4>1, <4>2 DEF Lost
      <4>4. Given(s2c, 1 - 1)
        BY <1>1, <4>1, <4>3 DEF Ordered
      <4> QED
        BY <4>4 DEF Given
    <3>3. All(s2c) = <<>> \o All(s2c')
      BY <1>2, <3>2 DEF Pick
    <3> QED
      BY <1>0, <3>3
  <2> QED
    BY <1>0, <1>3, <1>4, <2>1, <2>2 DEF Followed, First
<1> QED
  BY <1>5, <1>6

LEMMA FollowedServer ==
    ASSUME Types, Types', Sides, Followed, UNCHANGED <<linkVars, clientVars>>, NEW ms, Sends(ms)
    PROVE  Followed'
<1>0. /\ Mail(s2c) /\ Coming = All(s2c) /\ Coming' = All(s2c')
      /\ heard \in Seq(Events) /\ produced \in Seq(Events)
      /\ All(s2c) \in Seq(Events)
      /\ UNCHANGED <<heard, promise, link>>
  BY MailOf, MailNext, AllType DEF linkVars, clientVars
<1>1. /\ Prefix(heard, produced)
      /\ promise \in {"asked", "held"} => Prefix(heard \o All(s2c), produced)
      /\ promise \in {"asked", "held"} /\ link = "up" => heard \o All(s2c) = produced
  BY <1>0 DEF Followed, First
<1>2. \A t \in Seq(Events), e \in Events : Prefix(t, Append(t, e)) /\ Append(t, e) \in Seq(Events)
  BY DEF Prefix
<1>3. \A t \in Seq(Events) : Prefix(t, produced) => Prefix(t, produced')
  <2>1. produced' = produced \/ \E e \in Events : produced' = Append(produced, e)
    BY DEF Sends
  <2> QED
    BY <1>0, <1>2, <2>1, PrefixTrans
<1>4. heard \o All(s2c) \in Seq(Events)
  BY <1>0
<1>5. CASE ~(link = "up" /\ sUp)
  <2>1. s2c' = s2c
    BY <1>5, SentAt DEF Sends
  <2>2. ~First
    BY <1>5 DEF First, Sides
  <2> QED
    BY <1>0, <1>1, <1>3, <1>4, <2>1, <2>2 DEF Followed, First
<1>6. CASE link = "up" /\ sUp
  <2>1. /\ s2c' = s2c \o ms
        /\ Len(ms) \in Nat
    BY <1>6, SentAt DEF Sends
  <2>2. Mail(ms) /\ \A i \in 1 .. Len(ms) : ms[i].is = "event" => i = 1
    BY DEF Mail, Sends
  <2>3. /\ Len(ms) = 0 => All(s2c') = All(s2c)
        /\ Len(ms) # 0 => All(s2c') = Pick(All(s2c), ms[1])
    BY <1>0, <2>1, <2>2, AllJoin
  <2>4. \/ produced' = produced /\ All(s2c') = All(s2c)
        \/ \E e \in Events : produced' = Append(produced, e) /\ All(s2c') = Append(All(s2c), e)
    <3>1. CASE Len(ms) = 0
      BY <2>3, <3>1 DEF Sends
    <3>2. CASE Len(ms) # 0 /\ ms[1].is = "event"
      <4>1. 1 \in 1 .. Len(ms)
        BY <2>1, <3>2
      <4>2. ms[1].of \in Events /\ produced' = Append(produced, ms[1].of)
        BY <3>2, <4>1 DEF Sends
      <4>3. All(s2c') = Append(All(s2c), ms[1].of)
        BY <2>3, <3>2 DEF Pick
      <4> QED
        BY <4>2, <4>3
    <3>3. CASE Len(ms) # 0 /\ ms[1].is # "event"
      <4>1. produced' = produced
        BY <3>3 DEF Sends
      <4>2. All(s2c') = All(s2c)
        BY <2>3, <3>3 DEF Pick
      <4> QED
        BY <4>1, <4>2
    <3> QED
      BY <3>1, <3>2, <3>3
  <2>5. ASSUME promise \in {"asked", "held"} PROVE heard \o All(s2c') = produced'
    <3>1. heard \o All(s2c) = produced
      BY <1>1, <1>6, <2>5
    <3>2. \A e \in Events : heard \o Append(All(s2c), e) = Append(heard \o All(s2c), e)
      BY <1>0
    <3> QED
      BY <2>4, <3>1, <3>2
  <2>6. produced' \in Seq(Events)
    BY MailNext
  <2>7. Prefix(produced', produced')
    BY <2>6, PrefixJoin
  <2> QED
    BY <1>0, <1>1, <1>3, <2>5, <2>7 DEF Followed, First
<1> QED
  BY <1>5, <1>6

LEMMA FollowedNext ==
    ASSUME Types, Types', Sides, Waits, Bound, Ordered, Followed, [Next]_vars
    PROVE  Followed'
<1>1. CASE ClientNext /\ ~ClientReceive
  <2>1. s2c' = s2c /\ UNCHANGED <<link, produced>>
    BY <1>1, QuietShape, ClientShape DEF linkVars, serverVars, nativeVars
  <2>2. heard' = heard /\ (promise' \in {"asked", "held"} => promise \in {"asked", "held"})
    BY <1>1 DEF ClientNext, UserCall, CallTimeout, Fails, SocketCallFails, ClientDown, ClientUp
  <2>3. Coming' = Coming
    BY <2>1 DEF Coming
  <2> QED
    BY <2>1, <2>2, <2>3 DEF Followed, First
<1>2. CASE ServerNext
  BY <1>2, ServerShape, ServerSends, FollowedServer
<1>3. CASE LinkUp
  <2>1. UNCHANGED <<heard, produced, promise, s2c>> /\ promise \notin {"asked", "held"}
    BY <1>3 DEF LinkUp, Sides, clientVars, serverVars, nativeVars
  <2> QED
    BY <2>1 DEF Followed, First
<1>4. CASE LinkDown
  <2>0. /\ Mail(s2c) /\ Coming = All(s2c) /\ Coming' = All(s2c')
        /\ heard \in Seq(Events) /\ produced \in Seq(Events)
    BY MailOf, MailNext
  <2>1. UNCHANGED <<heard, produced, promise>> /\ link' = "down" /\ s2c' \in Cut(s2c)
    BY <1>4 DEF LinkDown, clientVars, serverVars, nativeVars
  <2>2. Mail(s2c') /\ Prefix(All(s2c'), All(s2c))
    BY <2>0, <2>1, AllCut
  <2>3. All(s2c) \in Seq(Events) /\ All(s2c') \in Seq(Events)
    BY <2>0, <2>2, AllType
  <2>4. Prefix(heard \o All(s2c'), heard \o All(s2c))
    BY <2>0, <2>2, <2>3, PrefixJoin
  <2>5. heard \o All(s2c) \in Seq(Events) /\ heard \o All(s2c') \in Seq(Events)
    BY <2>0, <2>3
  <2>6. Prefix(heard \o All(s2c), produced) => Prefix(heard \o All(s2c'), produced)
    BY <2>0, <2>4, <2>5, PrefixTrans
  <2> QED
    BY <2>0, <2>1, <2>6 DEF Followed, First
<1>5. CASE UNCHANGED vars
  <2>1. UNCHANGED <<heard, produced, promise, s2c, link>>
    BY <1>5 DEF vars, linkVars, clientVars, serverVars, nativeVars
  <2> QED
    BY <2>1 DEF Followed, First, Coming
<1> QED
  BY <1>1, <1>2, <1>3, <1>4, <1>5, FollowedReceive DEF Next

-----------------------------------------------------------------------------
(* The handshake is answered first.                                        *)

\* What the client sends is neither a handshake nor a call that makes a proxy, and
\* what it takes of the server's queue is only what it receives.
LEMMA ClientSends ==
    ASSUME Types, Waits, ClientNext
    PROVE  \E ns \in Seq(Calls) :
               /\ c2s' = Deliver(c2s, ns)
               /\ \A i \in 1 .. Len(ns) :
                      /\ ns[i] # "make"
                      /\ ns[i] = "dispose" => DoneHeard(Head(s2c))
<1>0. kind \in AllKinds /\ queued \in Seq(Calls) /\ c2s \in Seq(Calls \union {"handshake"})
  BY KindsAssumption DEF Types, TypeOK
<1>1. ASSUME c2s' = c2s
      PROVE  \E ns \in Seq(Calls) :
               /\ c2s' = Deliver(c2s, ns)
               /\ \A i \in 1 .. Len(ns) : ns[i] # "make" /\ (ns[i] = "dispose" => DoneHeard(Head(s2c)))
  <2> DEFINE ns == <<>>
  <2>1. ns \in Seq(Calls) /\ Len(ns) = 0 /\ c2s \o ns = c2s
    BY <1>0
  <2> HIDE DEF ns
  <2>2. \A i \in 1 .. Len(ns) : FALSE
    BY <2>1
  <2> QED
    BY <1>1, <2>1, <2>2 DEF Deliver
<1>2. ASSUME NEW n \in Calls, UserCall(n)
      PROVE  \E ns \in Seq(Calls) :
               /\ c2s' = Deliver(c2s, ns)
               /\ \A i \in 1 .. Len(ns) : ns[i] # "make" /\ (ns[i] = "dispose" => DoneHeard(Head(s2c)))
  <2>1. c2s' = c2s \/ c2s' = Deliver(c2s, <<n>>)
    BY <1>2, CallShape
  <2>2. n # "make" /\ n # "dispose"
    BY <1>0, <1>2, CallShape, UserCallTypes
  <2> DEFINE ns == <<n>>
  <2>3. ns \in Seq(Calls) /\ \A i \in 1 .. Len(ns) : ns[i] = n
    OBVIOUS
  <2>4. c2s' = c2s \/ c2s' = Deliver(c2s, ns)
    BY <2>1
  <2> HIDE DEF ns
  <2> QED
    BY <1>1, <2>2, <2>3, <2>4
<1>3. CASE ClientReceive
  <2> DEFINE m == Head(s2c)
  <2> HIDE DEF m
  <2>1. CASE Made(m)
    <3>1. c2s' = Deliver(c2s, queued)
      BY <2>1 DEF Made
    <3> QED
      BY <1>0, <3>1 DEF Waits
  <2>2. CASE DoneHeard(m)
    <3> DEFINE ns == <<"dispose">>
    <3>0. "dispose" \in Calls
      BY DEF Calls
    <3>1. ns \in Seq(Calls) /\ (\A i \in 1 .. Len(ns) : ns[i] = "dispose") /\ c2s' = Deliver(c2s, ns)
      BY <2>2, <3>0 DEF DoneHeard
    <3> HIDE DEF ns
    <3> QED
      BY <2>2, <3>1 DEF m
  <2>3. CASE ClientDiscard \/ Greet(m) \/ MadeNull(m) \/ Resolved(m) \/ Rejected(m) \/ Unexpected(m) \/ Lost(m) \/ Heard(m)
             \/ Accepted(m) \/ SocketHeard(m)
    <3>1. c2s' = c2s
      BY <2>3 DEF ClientDiscard, Greet, MadeNull, Resolved, Rejected, Fails, Unexpected, Lost, Heard, Accepted,
                  SocketHeard
    <3> QED
      BY <1>1, <3>1
  <2> QED
    BY <1>3, <2>1, <2>2, <2>3 DEF m, ClientReceive, ClientTakes
<1>4. CASE (\E n \in Calls : CallTimeout(n)) \/ (\E s \in Conns : SocketCallFails(s)) \/ ClientDown \/ ClientUp
  <2>1. c2s' = c2s
    BY <1>4 DEF CallTimeout, Fails, SocketCallFails, ClientDown, ClientUp
  <2> QED
    BY <1>1, <2>1
<1> QED
  BY <1>2, <1>3, <1>4 DEF ClientNext

LEMMA DeliverAt ==
    ASSUME Types, NEW ns \in Seq(Calls), c2s' = Deliver(c2s, ns)
    PROVE  /\ InFlight(c2s) \subseteq InFlight(c2s')
           /\ InFlight(c2s') \subseteq InFlight(c2s) \union InFlight(ns)
           /\ link = "up" => InFlight(ns) \subseteq InFlight(c2s')
           /\ \A x \in InFlight(c2s) : Head(c2s') = Head(c2s)
<1>0. c2s \in Seq(Calls \union {"handshake"}) /\ ns \in Seq(Calls \union {"handshake"})
  BY DEF Types, TypeOK
<1>1. InFlight(c2s \o ns) = InFlight(c2s) \union InFlight(ns)
  BY <1>0, InJoin
<1>2. ASSUME NEW x \in InFlight(c2s) PROVE Head(c2s') = Head(c2s)
  <2>1. c2s # <<>>
    BY <1>0, <1>2, InQueue
  <2>2. Head(c2s \o ns) = Head(c2s)
    BY <1>0, <2>1
  <2> QED
    BY <2>2 DEF Deliver
<1> QED
  BY <1>1, <1>2 DEF Deliver

LEMMA GreetingInit == Init => Greeting
<1> SUFFICES ASSUME Init PROVE Greeting
  OBVIOUS
<1>1. promise = "asked" /\ Len(s2c) = 0 /\ Head(c2s) = "handshake"
  BY DEF Init, Greetings
<1> QED
  BY <1>1 DEF Greeting

LEMMA GreetingClient == ASSUME Types, Sides, Waits, Greeting, ClientNext PROVE Greeting'
<1> SUFFICES ASSUME downs' = 0, ~greeted' PROVE Greeting'
  BY DEF Greeting
<1>0. UNCHANGED <<kind, linkVars, serverVars>>
  BY ClientShape
<1>1. downs = 0 /\ cUp /\ link = "up"
  BY <1>0 DEF linkVars, Sides
<1>2. ~greeted
  BY <1>1 DEF ClientNext, ClientReceive, ClientTakes, ClientDiscard, Greet, Made, MadeNull, Resolved, Rejected, Fails, Unexpected,
              Lost, Heard, DoneHeard, Accepted, SocketHeard, clientVars, UserCall, CallTimeout, SocketCallFails,
              ClientDown, ClientUp
<1>3. /\ promise \in {"asked", "failed"}
      /\ \A i \in 1 .. Len(s2c) : Making(s2c[i]) => Welcome(s2c, i - 1)
      /\ "make" \in InFlight(c2s) => Head(c2s) = "handshake" \/ Welcome(s2c, Len(s2c))
  BY <1>1, <1>2 DEF Greeting
<1>4. "dispose" \notin pending
  BY <1>3 DEF Waits
<1>5. "make" \in InFlight(c2s') => "make" \in InFlight(c2s) /\ Head(c2s') = Head(c2s)
  <2>1. PICK ns \in Seq(Calls) : c2s' = Deliver(c2s, ns) /\ \A i \in 1 .. Len(ns) : ns[i] # "make"
    BY ClientSends
  <2>2. "make" \notin InFlight(ns)
    BY <2>1, InQueue
  <2> QED
    BY <2>1, <2>2, DeliverAt
<1>6. ASSUME ~ClientReceive PROVE Greeting'
  <2>1. s2c' = s2c
    BY <1>6, QuietShape
  <2>2. promise' \in {"asked", "failed"}
    BY <1>1, <1>3, <1>4, <1>6 DEF ClientNext, UserCall, CallTimeout, Fails, SocketCallFails, ClientDown, ClientUp
  <2> QED
    BY <1>3, <1>5, <2>1, <2>2 DEF Greeting
<1>7. CASE ClientReceive
  <2> DEFINE m == Head(s2c)
  <2>1. /\ m = s2c[1] /\ m \in Message /\ 1 \in 1 .. Len(s2c)
        /\ Len(s2c) \in Nat \ {0} /\ Len(s2c') = Len(s2c) - 1
        /\ \A i \in 1 .. Len(s2c') : s2c'[i] = s2c[i + 1] /\ i + 1 \in 1 .. Len(s2c)
    <3>1. s2c \in Seq(Message) /\ s2c # <<>> /\ s2c' = Tail(s2c)
      BY <1>7, ReceiptShape DEF Types, TypeOK
    <3>2. /\ Len(s2c) \in Nat \ {0} /\ Len(s2c') = Len(s2c) - 1
          /\ \A i \in 1 .. Len(s2c') : s2c'[i] = s2c[i + 1] /\ i + 1 \in 1 .. Len(s2c)
      BY <3>1, TailAt
    <3>3. 1 \in 1 .. Len(s2c) /\ m = s2c[1] /\ m \in Message
      BY <3>1, <3>2
    <3> QED
      BY <3>2, <3>3
  <2> HIDE DEF m
  <2>2. ClientTakes(m) /\ ~Greet(m)
    BY <1>1, <1>2, <1>7 DEF m, ClientReceive, ClientDiscard, Greet
  <2>3. m.is # "init"
    BY <2>2 DEF ClientTakes, Greet, Made, MadeNull, Resolved, Rejected, Unexpected, Lost, Heard, DoneHeard, Accepted, SocketHeard
  <2>4. ~Made(m) /\ ~MadeNull(m)
    <3>1. SUFFICES ASSUME Made(m) \/ MadeNull(m) PROVE FALSE
      OBVIOUS
    <3>2. Making(m)
      BY <2>1, <3>1 DEF Made, MadeNull, Making, Message, Msg
    <3>3. Welcome(s2c, 1 - 1)
      BY <1>3, <2>1, <3>2
    <3> QED
      BY <3>3 DEF Welcome
  <2>5. promise' \in {"asked", "failed"}
    BY <1>3, <1>4, <2>2, <2>4 DEF ClientTakes, Greet, Resolved, Rejected, Fails, Unexpected, Lost, Heard, DoneHeard,
                                  Accepted, SocketHeard, clientVars
  <2>6. ASSUME NEW n \in 1 .. Len(s2c), Welcome(s2c, n) PROVE Welcome(s2c', n - 1)
    <3>1. PICK j \in 1 .. n : s2c[j].is = "init"
      BY <2>6 DEF Welcome
    <3>2. j # 1 /\ j \in 1 .. Len(s2c)
      BY <2>1, <2>3, <3>1
    <3>3. j - 1 \in 1 .. n - 1 /\ j - 1 \in 1 .. Len(s2c') /\ (j - 1) + 1 = j
      BY <2>1, <3>2
    <3>4. s2c'[j - 1].is = "init"
      BY <2>1, <3>1, <3>3
    <3> QED
      BY <3>3, <3>4 DEF Welcome
  <2>7. ASSUME NEW i \in 1 .. Len(s2c'), Making(s2c'[i]) PROVE Welcome(s2c', i - 1)
    <3>1. i + 1 \in 1 .. Len(s2c) /\ (i + 1) - 1 = i /\ i \in 1 .. Len(s2c) /\ s2c'[i] = s2c[i + 1]
      BY <2>1
    <3>2. Welcome(s2c, (i + 1) - 1)
      BY <1>3, <2>7, <3>1
    <3>3. Welcome(s2c, i)
      BY <3>1, <3>2
    <3> QED
      BY <2>6, <3>1, <3>3
  <2>8. "make" \in InFlight(c2s') => Head(c2s') = "handshake" \/ Welcome(s2c', Len(s2c'))
    <3>1. Len(s2c) \in 1 .. Len(s2c)
      BY <2>1
    <3> QED
      BY <1>3, <1>5, <2>1, <2>6, <3>1
  <2> QED
    BY <2>5, <2>7, <2>8 DEF Greeting
<1> QED
  BY <1>6, <1>7

LEMMA GreetingServer ==
    ASSUME Types, Sides, Greeting, UNCHANGED <<linkVars, clientVars>>, NEW ms, Sends(ms)
    PROVE  Greeting'
<1> SUFFICES ASSUME downs = 0, ~greeted PROVE Greeting'
  BY DEF Greeting, linkVars, clientVars
<1>1. sUp /\ link = "up" /\ promise' = promise
  BY DEF Sides, clientVars
<1>2. /\ Len(s2c) \in Nat /\ Len(ms) \in Nat /\ Len(s2c') \in Nat /\ Len(s2c') >= Len(s2c)
      /\ \A i \in 1 .. Len(s2c) : s2c'[i] = s2c[i] /\ i \in 1 .. Len(s2c')
      /\ \A i \in 1 .. Len(s2c') :
             \/ i \in 1 .. Len(s2c)
             \/ i > Len(s2c) /\ i - Len(s2c) \in 1 .. Len(ms) /\ s2c'[i] = ms[i - Len(s2c)]
      /\ \A k \in 1 .. Len(ms) : s2c'[Len(s2c) + k] = ms[k] /\ Len(s2c) + k \in 1 .. Len(s2c')
  BY <1>1, SentAt DEF Sends
<1>3. /\ promise \in {"asked", "failed"}
      /\ \A i \in 1 .. Len(s2c) : Making(s2c[i]) => Welcome(s2c, i - 1)
      /\ "make" \in InFlight(c2s) => Head(c2s) = "handshake" \/ Welcome(s2c, Len(s2c))
  BY DEF Greeting
<1>4. ASSUME NEW n \in 0 .. Len(s2c), Welcome(s2c, n), NEW k \in Int, n <= k PROVE Welcome(s2c', k)
  <2>1. PICK j \in 1 .. n : s2c[j].is = "init"
    BY <1>4 DEF Welcome
  <2>2. j \in 1 .. Len(s2c) /\ j \in 1 .. k
    BY <1>2, <1>4
  <2>3. s2c'[j] = s2c[j]
    BY <1>2, <2>2
  <2> QED
    BY <2>1, <2>2, <2>3 DEF Welcome
<1>5. c2s \in Seq(Calls \union {"handshake"}) /\ Len(s2c) \in 0 .. Len(s2c)
  BY <1>2 DEF Types, TypeOK
<1>6. ASSUME NEW i \in 1 .. Len(s2c'), Making(s2c'[i]) PROVE Welcome(s2c', i - 1)
  <2>1. CASE i \in 1 .. Len(s2c)
    <3>1. Welcome(s2c, i - 1) /\ i - 1 \in 0 .. Len(s2c)
      BY <1>2, <1>3, <1>6, <2>1
    <3> QED
      BY <1>4, <3>1
  <2>2. CASE i \notin 1 .. Len(s2c)
    <3>1. i > Len(s2c) /\ i - Len(s2c) \in 1 .. Len(ms) /\ Making(ms[i - Len(s2c)])
      BY <1>2, <1>6, <2>2
    <3>2. c2s # <<>> /\ Head(c2s) = "make"
      BY <3>1 DEF Sends, Making
    <3>3. "make" \in InFlight(c2s)
      BY <1>5, <3>2, InTail
    <3>4. Welcome(s2c, Len(s2c))
      BY <1>3, <3>2, <3>3
    <3>5. Len(s2c) <= i - 1 /\ i - 1 \in Int
      BY <1>2, <3>1
    <3> QED
      BY <1>4, <1>5, <3>4, <3>5
  <2> QED
    BY <2>1, <2>2
<1>7. ASSUME "make" \in InFlight(c2s') PROVE Head(c2s') = "handshake" \/ Welcome(s2c', Len(s2c'))
  <2>1. Welcome(s2c, Len(s2c)) => Welcome(s2c', Len(s2c'))
    BY <1>2, <1>4, <1>5
  <2>2. CASE c2s' = c2s
    BY <1>3, <1>7, <2>1, <2>2
  <2>3. CASE c2s # <<>> /\ c2s' = Tail(c2s)
    <3>1. "make" \in InFlight(c2s)
      BY <1>5, <1>7, <2>3, InTail
    <3>2. CASE Head(c2s) = "handshake" /\ c2s' # c2s
      <4>1. PICK k \in 1 .. Len(ms) : ms[k].is = "init"
        BY <1>1, <3>2 DEF Sends
      <4>2. s2c'[Len(s2c) + k].is = "init" /\ Len(s2c) + k \in 1 .. Len(s2c')
        BY <1>2, <4>1
      <4> QED
        BY <4>2 DEF Welcome
    <3> QED
      BY <1>3, <2>1, <2>2, <3>1, <3>2
  <2> QED
    BY <2>2, <2>3 DEF Sends
<1> QED
  BY <1>1, <1>3, <1>6, <1>7 DEF Greeting

LEMMA GreetingNext == ASSUME Types, Sides, Waits, Bound, Greeting, [Next]_vars PROVE Greeting'
<1>1. CASE ServerNext
  BY <1>1, ServerShape, ServerSends, GreetingServer
<1>2. CASE LinkUp
  BY <1>2 DEF LinkUp, Sides, Greeting
<1>3. CASE LinkDown
  <2>1. downs' # 0
    BY <1>3 DEF LinkDown, Types, TypeOK
  <2> QED
    BY <2>1 DEF Greeting
<1>4. CASE UNCHANGED vars
  BY <1>4 DEF vars, linkVars, clientVars, Greeting
<1> QED
  BY <1>1, <1>2, <1>3, <1>4, GreetingClient DEF Next

-----------------------------------------------------------------------------
(* The proxy's making.                                                     *)

LEMMA OnceInit == Init => Once
<1> SUFFICES ASSUME Init PROVE Once
  OBVIOUS
<1>1. Len(s2c) = 0 /\ srv = "none" /\ phase = "none" /\ promise = "asked"
  BY DEF Init
<1>2. \A i, j \in 1 .. Len(c2s) : c2s[i] = "make" /\ c2s[j] = "make" => i = j
  BY DEF Init, Greetings
<1> QED
  BY <1>1, <1>2 DEF Once, NoneNull

\* The server's own steps after the proxy was made do not unmake it.
LEMMA StaysMade ==
    ASSUME Sides, ServerNext, srv' = "none"
    PROVE  srv = "none" /\ phase' = phase
<1>1. CASE ServerReceive
  BY <1>1 DEF ServerReceive, ServerDiscard, ServerTakes, Handshake, Store, StoreNone, Refuse, NoProxy, Perform, Dispose, serverVars,
              nativeVars
<1>2. CASE DisposeTimer \/ ServerDown \/ ServerUp
  BY <1>2 DEF DisposeTimer, ServerDown, ServerUp, nativeVars
<1>3. CASE \E e \in Events : NativeStep(e)
  BY <1>3 DEF NativeStep
<1>4. CASE \E s \in Conns : Connects(s) \/ ConnEnding(s) \/ ConnStep(s)
  BY <1>4 DEF Connects, ConnEnding, ConnStep
<1> QED
  BY <1>1, <1>2, <1>3, <1>4 DEF ServerNext

\* Only the step that stores the proxy says that it was made.
LEMMA UnmadeSends ==
    ASSUME Types, Sides, ServerNext, srv' = "none"
    PROVE  \E ms \in Seq(Message) : Send(ms) /\ \A i \in 1 .. Len(ms) : ms[i] # Msg("success", "make")
<1>0. srv = "none" /\ c2s \in Seq(Calls \union {"handshake"})
  BY StaysMade DEF Types, TypeOK
<1>1. ASSUME s2c' = s2c
      PROVE  \E ms \in Seq(Message) : Send(ms) /\ \A i \in 1 .. Len(ms) : ms[i] # Msg("success", "make")
  <2> DEFINE ms == <<>>
  <2>1. ms \in Seq(Message) /\ Len(ms) = 0 /\ Send(ms)
    BY <1>1, SendNothing
  <2> HIDE DEF ms
  <2>2. \A i \in 1 .. Len(ms) : FALSE
    BY <2>1
  <2> QED
    BY <2>1, <2>2
<1>2. ASSUME NEW m \in Message, m # Msg("success", "make"), Send(<<m>>)
      PROVE  \E ms \in Seq(Message) : Send(ms) /\ \A i \in 1 .. Len(ms) : ms[i] # Msg("success", "make")
  <2> DEFINE ms == <<m>>
  <2>1. ms \in Seq(Message) /\ Send(ms) /\ \A i \in 1 .. Len(ms) : ms[i] = m
    BY <1>2
  <2> HIDE DEF ms
  <2> QED
    BY <1>2, <2>1
<1>3. ASSUME ServerReceive, ~ServerDiscard
      PROVE  \E ms \in Seq(Message) : Send(ms) /\ \A i \in 1 .. Len(ms) : ms[i] # Msg("success", "make")
  <2> DEFINE n == Head(c2s)
  <2>1. ServerTakes(n) /\ n \in Calls \union {"handshake"}
    BY <1>0, <1>3, ReceiveShape DEF ServerReceive
  <2> HIDE DEF n
  <2>2. CASE Handshake(n)
    <3>1. Msg("init", "make") \in Message /\ Msg("init", "make") # Msg("success", "make")
      BY MessageTypes DEF Msg
    <3> QED
      BY <1>2, <2>2, <3>1 DEF Handshake
  <2>6. CASE StoreNone(n)
    <3>1. Msg("null", "make") \in Message /\ Msg("null", "make") # Msg("success", "make")
      BY MessageTypes DEF Msg
    <3> QED
      BY <1>2, <2>6, <3>1 DEF StoreNone
  <2>3. CASE Refuse(n)
    <3>1. Msg("fail", "make") \in Message /\ Msg("fail", "make") # Msg("success", "make")
      BY MessageTypes DEF Msg
    <3> QED
      BY <1>2, <2>3, <3>1 DEF Refuse
  <2>4. CASE NoProxy(n)
    <3> DEFINE ms == <<Msg("fail", n), Msg("success", n)>>
    <3>1. n \in Calls /\ n # "make" /\ Send(ms)
      BY <2>1, <2>4 DEF NoProxy
    <3>2. /\ Msg("fail", n) \in Message /\ Msg("success", n) \in Message
          /\ Msg("fail", n) # Msg("success", "make") /\ Msg("success", n) # Msg("success", "make")
      BY <3>1, MessageTypes DEF Msg
    <3>3. ms \in Seq(Message) /\ \A i \in 1 .. Len(ms) : ms[i] = Msg("fail", n) \/ ms[i] = Msg("success", n)
      BY <3>2
    <3> HIDE DEF ms
    <3> QED
      BY <3>1, <3>2, <3>3
  <2>5. ~(Store(n) \/ Perform(n) \/ Dispose(n))
    BY <1>0 DEF Store, Perform, Dispose
  <2> QED
    BY <2>1, <2>2, <2>3, <2>4, <2>5, <2>6 DEF ServerTakes
<1>4. CASE ServerReceive
  BY <1>1, <1>3, <1>4 DEF ServerDiscard
<1>5. CASE DisposeTimer \/ ServerDown \/ ServerUp
  BY <1>1, <1>5 DEF DisposeTimer, ServerDown, ServerUp
<1>6. ~(\E e \in Events : NativeStep(e)) /\ ~(\E s \in Conns : Connects(s) \/ ConnEnding(s) \/ ConnStep(s))
  BY <1>0 DEF NativeStep, Connects, ConnEnding, ConnStep, Sides
<1> QED
  BY <1>4, <1>5, <1>6 DEF ServerNext

LEMMA OnceClient == ASSUME Types, Sides, Waits, Once, ClientNext PROVE Once'
<1>0. /\ c2s \in Seq(Calls \union {"handshake"}) /\ s2c \in Seq(Message)
      /\ UNCHANGED <<srv, phase>>
  BY ClientShape DEF Types, TypeOK, serverVars, nativeVars
<1>1. PICK ns \in Seq(Calls) : c2s' = Deliver(c2s, ns) /\ \A i \in 1 .. Len(ns) : ns[i] # "make"
  BY ClientSends
<1>2. "make" \in InFlight(c2s') => "make" \in InFlight(c2s)
  <2>1. InFlight(c2s') \subseteq InFlight(c2s) \union InFlight(ns)
    BY <1>1, DeliverAt
  <2>2. "make" \notin InFlight(ns)
    BY <1>1, InQueue
  <2> QED
    BY <2>1, <2>2
<1>3. ASSUME NEW i \in 1 .. Len(c2s'), c2s'[i] = "make" PROVE i \in 1 .. Len(c2s) /\ c2s'[i] = c2s[i]
  <2>1. CASE c2s' = c2s
    BY <2>1
  <2>2. CASE c2s' = c2s \o ns
    <3>1. ns \in Seq(Calls \union {"handshake"})
      OBVIOUS
    <3>2. /\ i \in 1 .. Len(c2s) \/ (i - Len(c2s) \in 1 .. Len(ns) /\ c2s'[i] = ns[i - Len(c2s)])
          /\ i \in 1 .. Len(c2s) => c2s'[i] = c2s[i]
      BY <1>0, <2>2, <3>1, JoinAt
    <3> QED
      BY <1>1, <1>3, <3>2
  <2> QED
    BY <1>1, <2>1, <2>2 DEF Deliver
<1>4. ASSUME srv = "none"
      PROVE  promise' # "held" /\ \A i \in 1 .. Len(s2c') : s2c'[i] # Msg("success", "make")
  <2>1. CASE ~ClientReceive
    <3>1. s2c' = s2c
      BY <2>1, QuietShape
    <3>2. promise' = "held" => promise = "held"
      BY <2>1 DEF ClientNext, UserCall, CallTimeout, Fails, SocketCallFails, ClientDown, ClientUp
    <3> QED
      BY <1>4, <3>1, <3>2 DEF Once
  <2>2. CASE ClientReceive
    <3> DEFINE m == Head(s2c)
    <3>0. s2c # <<>> /\ s2c' = Tail(s2c)
      BY <2>2, ReceiptShape
    <3>1. m = s2c[1] /\ 1 \in 1 .. Len(s2c) /\ \A i \in 1 .. Len(s2c') : s2c'[i] = s2c[i + 1] /\ i + 1 \in 1 .. Len(s2c)
      BY <1>0, <3>0, TailAt
    <3>2. m # Msg("success", "make") /\ m \in Message
      BY <1>0, <1>4, <3>1 DEF Once
    <3> HIDE DEF m
    <3>3. ~Made(m)
      BY <3>2 DEF Made, MadeNull, Message, Msg
    <3>4. promise' = "held" => promise = "held"
      BY <2>2, <3>3 DEF m, ClientReceive, ClientTakes, ClientDiscard, Greet, MadeNull, Resolved, Rejected, Fails,
                        Unexpected, Lost, Heard, DoneHeard, Accepted, SocketHeard, clientVars
    <3> QED
      BY <1>4, <3>1, <3>4 DEF Once
  <2> QED
    BY <2>1, <2>2
<1>5. \A i, j \in 1 .. Len(c2s') : c2s'[i] = "make" /\ c2s'[j] = "make" => i = j
  BY <1>3 DEF Once
<1>6. ASSUME promise # "null", NoneNull(s2c) PROVE promise' # "null" /\ NoneNull(s2c')
  <2>1. CASE ~ClientReceive
    <3>1. s2c' = s2c
      BY <2>1, QuietShape
    <3>2. promise' # "null"
      BY <1>6, <2>1 DEF ClientNext, UserCall, CallTimeout, Fails, SocketCallFails, ClientDown, ClientUp
    <3> QED
      BY <1>6, <3>1, <3>2
  <2>2. CASE ClientReceive
    <3> DEFINE m == Head(s2c)
    <3>1. m = s2c[1] /\ 1 \in 1 .. Len(s2c) /\ \A i \in 1 .. Len(s2c') : s2c'[i] = s2c[i + 1] /\ i + 1 \in 1 .. Len(s2c)
      BY <1>0, <2>2, ReceiptShape, TailAt
    <3>2. m.is # "null"
      BY <1>6, <3>1 DEF NoneNull
    <3> HIDE DEF m
    <3>3. promise' # "null"
      BY <1>6, <2>2, <3>2 DEF m, ClientReceive, ClientTakes, ClientDiscard, Greet, Made, MadeNull, Resolved, Rejected,
                              Fails, Unexpected, Lost, Heard, DoneHeard, Accepted, SocketHeard, clientVars
    <3> QED
      BY <1>6, <3>1, <3>3 DEF NoneNull
  <2> QED
    BY <2>1, <2>2
<1> QED
  BY <1>0, <1>2, <1>4, <1>5, <1>6 DEF Once

\* A proxy is made by the step that stores it.
LEMMA MadeByStore ==
    ASSUME Sides, ServerNext, srv = "none", srv' # "none"
    PROVE  c2s # <<>> /\ Head(c2s) = "make" /\ c2s' = Tail(c2s) /\ Store("make")
<1>1. ServerReceive
  BY DEF ServerNext, DisposeTimer, NativeStep, Connects, ConnEnding, ConnStep, ServerDown, ServerUp, Sides
<1> DEFINE n == Head(c2s)
<1> HIDE DEF n
<1>2. Store(n)
  BY <1>1 DEF n, ServerReceive, ServerDiscard, ServerTakes, Handshake, StoreNone, Refuse, NoProxy, Perform, Dispose, serverVars
<1> QED
  BY <1>2 DEF n, Store, Arrives

LEMMA OnceServer == ASSUME Types, Sides, Bound, Once, ServerNext PROVE Once'
<1>0. /\ c2s \in Seq(Calls \union {"handshake"}) /\ s2c \in Seq(Message)
      /\ promise' = promise
  BY ServerShape DEF Types, TypeOK, clientVars
<1>1. c2s' = c2s \/ (c2s # <<>> /\ c2s' = Tail(c2s))
  BY ServerSends DEF Sends
<1>2. \A i, j \in 1 .. Len(c2s') : c2s'[i] = "make" /\ c2s'[j] = "make" => i = j
  <2>1. CASE c2s' = c2s
    BY <2>1 DEF Once
  <2>2. CASE c2s # <<>> /\ c2s' = Tail(c2s)
    <3>1. \A i \in 1 .. Len(c2s') : c2s'[i] = c2s[i + 1] /\ i + 1 \in 1 .. Len(c2s)
      BY <1>0, <2>2, TailAt
    <3> QED
      BY <3>1 DEF Once
  <2> QED
    BY <1>1, <2>1, <2>2
<1>3. InFlight(c2s') \subseteq InFlight(c2s)
  BY <1>0, <1>1, InTail
<1>4. ASSUME "make" \in InFlight(c2s'), srv' # "none" PROVE FALSE
  <2>1. srv = "none"
    BY <1>3, <1>4 DEF Once
  <2>2. c2s # <<>> /\ c2s' = Tail(c2s) /\ Head(c2s) = "make"
    BY <1>4, <2>1, MadeByStore
  <2>3. /\ c2s' \in Seq(Calls \union {"handshake"}) /\ c2s[1] = "make" /\ 1 \in 1 .. Len(c2s)
        /\ \A i \in 1 .. Len(c2s') : c2s'[i] = c2s[i + 1] /\ i + 1 \in 1 .. Len(c2s) /\ i + 1 # 1
    BY <1>0, <2>2, TailAt
  <2>4. PICK i \in 1 .. Len(c2s') : c2s'[i] = "make"
    BY <1>4, <2>3, InQueue
  <2> QED
    BY <2>3, <2>4 DEF Once
<1>5. ASSUME srv' = "none"
      PROVE  phase' = "none" /\ promise' # "held" /\ \A i \in 1 .. Len(s2c') : s2c'[i] # Msg("success", "make")
  <2>1. srv = "none" /\ phase' = phase
    BY <1>5, StaysMade
  <2>2. PICK ms \in Seq(Message) : Send(ms) /\ \A i \in 1 .. Len(ms) : ms[i] # Msg("success", "make")
    BY <1>5, UnmadeSends
  <2>3. \A i \in 1 .. Len(s2c') :
            \/ i \in 1 .. Len(s2c) /\ s2c'[i] = s2c[i]
            \/ i - Len(s2c) \in 1 .. Len(ms) /\ s2c'[i] = ms[i - Len(s2c)]
    BY <2>2, SentAt
  <2>4. \A i \in 1 .. Len(s2c') : s2c'[i] # Msg("success", "make")
    BY <2>1, <2>2, <2>3 DEF Once
  <2> QED
    BY <1>0, <2>1, <2>4 DEF Once
<1>6. c2s # <<>> /\ Head(c2s) = "make" => "make" \in InFlight(c2s)
  BY <1>0, InTail
<1>7. ASSUME promise # "null", NoneNull(s2c), srv' # "none" \/ "make" \in InFlight(c2s')
      PROVE  promise' # "null" /\ NoneNull(s2c')
  <2>1. PICK ms : Sends(ms)
    BY ServerSends
  <2>2. \A i \in 1 .. Len(s2c') :
            \/ i \in 1 .. Len(s2c) /\ s2c'[i] = s2c[i]
            \/ i - Len(s2c) \in 1 .. Len(ms) /\ s2c'[i] = ms[i - Len(s2c)]
    BY <2>1, SentAt DEF Sends
  <2>3. ASSUME NEW i \in 1 .. Len(ms), ms[i].is = "null" PROVE FALSE
    <3>1. c2s # <<>> /\ Head(c2s) = "make" /\ c2s' = Tail(c2s) /\ srv' = srv
      BY <2>1, <2>3 DEF Sends
    <3>2. srv = "none"
      BY <1>6, <3>1 DEF Once
    <3>3. "make" \notin InFlight(c2s')
      <4>1. /\ c2s' \in Seq(Calls \union {"handshake"}) /\ c2s[1] = "make" /\ 1 \in 1 .. Len(c2s)
            /\ \A j \in 1 .. Len(c2s') : c2s'[j] = c2s[j + 1] /\ j + 1 \in 1 .. Len(c2s) /\ j + 1 # 1
        BY <1>0, <3>1, TailAt
      <4>2. \A j \in 1 .. Len(c2s') : c2s'[j] # "make"
        BY <4>1 DEF Once
      <4> QED
        BY <4>1, <4>2, InQueue
    <3> QED
      BY <1>7, <3>1, <3>2, <3>3
  <2> QED
    BY <1>0, <1>7, <2>2, <2>3 DEF NoneNull
<1>8. srv = "none" /\ srv' # "none" => "make" \in InFlight(c2s)
  BY <1>6, MadeByStore
<1>9. srv' # "none" \/ "make" \in InFlight(c2s') => promise # "null" /\ NoneNull(s2c)
  BY <1>3, <1>8 DEF Once
<1> QED
  BY <1>2, <1>4, <1>5, <1>7, <1>9 DEF Once

LEMMA OnceNext == ASSUME Types, Sides, Waits, Bound, Once, [Next]_vars PROVE Once'
<1>0. c2s \in Seq(Calls \union {"handshake"}) /\ s2c \in Seq(Message)
  BY DEF Types, TypeOK
<1>1. CASE LinkUp
  BY <1>1 DEF LinkUp, clientVars, serverVars, nativeVars, Once, NoneNull
<1>2. CASE LinkDown
  <2>1. UNCHANGED <<srv, phase, promise>>
    BY <1>2 DEF LinkDown, clientVars, serverVars, nativeVars
  <2>2. \A i \in 1 .. Len(c2s') : c2s'[i] = c2s[i] /\ i \in 1 .. Len(c2s)
    BY <1>0, <1>2, InCut DEF LinkDown
  <2>3. \A i \in 1 .. Len(s2c') : s2c'[i] = s2c[i] /\ i \in 1 .. Len(s2c)
    BY <1>0, <1>2, InCut DEF LinkDown
  <2>4. InFlight(c2s') \subseteq InFlight(c2s)
    BY <1>0, <1>2, InCut DEF LinkDown
  <2> QED
    BY <2>1, <2>2, <2>3, <2>4 DEF Once, NoneNull
<1>3. CASE UNCHANGED vars
  BY <1>3 DEF vars, clientVars, serverVars, nativeVars, Once, NoneNull, InFlight
<1> QED
  BY <1>1, <1>2, <1>3, OnceClient, OnceServer DEF Next

-----------------------------------------------------------------------------
(* Every end is heard.                                                     *)

LEMMA EndsInit == Init => Ends
<1> SUFFICES ASSUME Init PROVE Ends
  OBVIOUS
<1>1. promise = "asked" /\ Len(s2c) = 0 /\ pending = {"make"} /\ c2s = Greetings /\ srv = "none" /\ timer = FALSE
  BY DEF Init
<1> DEFINE q == Greetings
<1>2. q \in Seq({"handshake", "make"})
  BY DEF Greetings
<1> HIDE DEF q
<1>3. InFlight(q) \subseteq {"handshake", "make"}
  BY <1>2, InQueue
<1>4. "dispose" \notin InFlight(c2s)
  BY <1>1, <1>3 DEF q
<1> QED
  BY <1>1, <1>4 DEF Ends

\* What is to show of a step that leaves the fill's kind alone.
LEMMA EndsAfter ==
    ASSUME kind' = kind,
           promise' = "gone" => told' > 0 \/ HeardEnd',
           "dispose" \in pending' \union InFlight(c2s') => HeardEnd',
           promise' \in {"asked", "held"} =>
               \A i \in 1 .. Len(s2c') : s2c'[i].is = "done" => HeardEnd' \/ EndIn(s2c', i - 1),
           srv' = "removed" \/ timer' =>
               \/ told' > 0
               \/ promise' = "failed"
               \/ HeardEnd'
               \/ promise' # "gone" /\ EndIn(s2c', Len(s2c'))
               \/ link' = "down" /\ cUp'
    PROVE  Ends'
BY DEF Ends, Due, EndIn

\* A fill that a drop has reached heard of it, or is due to.
LEMMA DownDue ==
    ASSUME Types, Sides, Ends, promise # "null"
    PROVE  ~cUp => told > 0 \/ promise = "failed" \/ HeardEnd
BY DEF Types, TypeOK, Sides, Ends

LEMMA HeardStays ==
    ASSUME kind' = kind, heard \in Seq(Events), heard' = heard \/ \E e \in Events : heard' = Append(heard, e)
    PROVE  HeardEnd => HeardEnd'
<1> SUFFICES ASSUME HeardEnd PROVE HeardEnd'
  OBVIOUS
<1>1. PICK i \in 1 .. Len(heard) : heard[i] \in Done(kind)
  BY DEF HeardEnd
<1>2. i \in 1 .. Len(heard') /\ heard'[i] = heard[i]
  BY <1>1
<1>3. heard'[i] \in Done(kind)
  BY <1>1, <1>2
<1> QED
  BY <1>2, <1>3 DEF HeardEnd

LEMMA DoneEnds ==
    ASSUME Types, Ends, DoneHeard(Head(s2c))
    PROVE  HeardEnd
<1>1. s2c # <<>> /\ Head(s2c).is = "done" /\ promise = "held"
  BY DEF DoneHeard, Takes
<1>2. Head(s2c) = s2c[1] /\ 1 \in 1 .. Len(s2c)
  BY <1>1 DEF Types, TypeOK
<1>3. HeardEnd \/ EndIn(s2c, 1 - 1)
  BY <1>1, <1>2 DEF Ends
<1> QED
  BY <1>3 DEF EndIn

\* dispose() is called only when the end was heard.
LEMMA DisposeEnds ==
    ASSUME Types, Waits, Ends, ClientNext, HeardEnd => HeardEnd'
    PROVE  "dispose" \in pending' \union InFlight(c2s') => HeardEnd'
<1>0. kind \in AllKinds /\ queued \in Seq(Calls)
  BY KindsAssumption DEF Types, TypeOK
<1>1. ASSUME "dispose" \in InFlight(c2s') PROVE HeardEnd
  <2>1. PICK ns \in Seq(Calls) :
            c2s' = Deliver(c2s, ns) /\ \A i \in 1 .. Len(ns) : ns[i] = "dispose" => DoneHeard(Head(s2c))
    BY ClientSends
  <2>2. "dispose" \in InFlight(c2s) \/ "dispose" \in InFlight(ns)
    BY <1>1, <2>1, DeliverAt
  <2>3. CASE "dispose" \in InFlight(ns)
    <3>1. PICK i \in 1 .. Len(ns) : ns[i] = "dispose"
      BY <2>3, InQueue
    <3> QED
      BY <2>1, <3>1, DoneEnds
  <2> QED
    BY <2>2, <2>3 DEF Ends
<1>2. ASSUME "dispose" \in pending' PROVE HeardEnd
  <2>1. CASE "dispose" \in pending
    BY <2>1 DEF Ends
  <2>2. CASE ClientReceive
    <3> DEFINE m == Head(s2c)
    <3> HIDE DEF m
    <3>1. CASE Made(m)
      <4>1. pending' = (pending \ {"make"}) \union InFlight(queued) /\ "dispose" \notin InFlight(queued)
        BY <1>0, <3>1, InQueue DEF Made, MadeNull, Waits
      <4> QED
        BY <1>2, <2>1, <4>1
    <3>2. CASE DoneHeard(m)
      BY <3>2, DoneEnds DEF m
    <3>3. CASE ClientDiscard \/ Greet(m) \/ MadeNull(m) \/ Resolved(m) \/ Rejected(m) \/ Unexpected(m) \/ Lost(m) \/ Heard(m)
               \/ Accepted(m) \/ SocketHeard(m)
      <4>1. pending' \subseteq pending
        BY <3>3 DEF ClientDiscard, Greet, MadeNull, Resolved, Rejected, Fails, Unexpected, Lost, Heard, Accepted,
                    SocketHeard, clientVars
      <4> QED
        BY <1>2, <2>1, <4>1
    <3> QED
      BY <2>2, <3>1, <3>2, <3>3 DEF m, ClientReceive, ClientTakes
  <2>3. ASSUME NEW n \in Calls, UserCall(n) PROVE HeardEnd
    <3>1. n # "dispose" /\ (pending' = pending \/ pending' = pending \union {n})
      BY <1>0, <2>3, CallShape, UserCallTypes
    <3> QED
      BY <1>2, <2>1, <3>1
  <2>4. CASE (\E n \in Calls : CallTimeout(n)) \/ (\E s \in Conns : SocketCallFails(s)) \/ ClientDown \/ ClientUp
    <3>1. pending' \subseteq pending
      BY <2>4 DEF CallTimeout, Fails, SocketCallFails, ClientDown, CallsLeft, ClientUp
    <3> QED
      BY <1>2, <2>1, <3>1
  <2> QED
    BY <2>2, <2>3, <2>4 DEF ClientNext
<1> QED
  BY <1>1, <1>2

LEMMA EndsReceive == ASSUME Types, Sides, Waits, Ordered, Once, Ends, ClientReceive PROVE Ends'
<1> DEFINE m == Head(s2c)
<1>0. /\ kind' = kind /\ UNCHANGED <<link, srv, timer>> /\ heard \in Seq(Events)
      /\ promise \in {"asked", "held", "null", "failed", "gone"}
  BY ClientShape DEF ClientNext, linkVars, serverVars, Types, TypeOK
<1>1. /\ Len(s2c) \in Nat \ {0} /\ Len(s2c') = Len(s2c) - 1 /\ m = s2c[1] /\ 1 \in 1 .. Len(s2c)
      /\ \A i \in 1 .. Len(s2c') : s2c'[i] = s2c[i + 1] /\ i + 1 \in 1 .. Len(s2c)
  <2>1. s2c \in Seq(Message) /\ s2c # <<>> /\ s2c' = Tail(s2c)
    BY ReceiptShape DEF Types, TypeOK
  <2>2. /\ Len(s2c) \in Nat \ {0} /\ Len(s2c') = Len(s2c) - 1 /\ 1 \in 1 .. Len(s2c)
        /\ \A i \in 1 .. Len(s2c') : s2c'[i] = s2c[i + 1] /\ i + 1 \in 1 .. Len(s2c)
    BY <2>1, TailAt
  <2> QED
    BY <2>1, <2>2
<1>2. m \in InFlight(s2c) /\ Sound(m)
  <2>1. s2c \in Seq(Message)
    BY DEF Types, TypeOK
  <2> QED
    BY <1>1, <2>1, InQueue DEF Types
<1> HIDE DEF m
<1>3. ClientDiscard \/ ClientTakes(m)
  BY DEF m, ClientReceive
<1>4. heard' = heard \/ \E e \in Events : heard' = Append(heard, e)
  <2>1. CASE Heard(m)
    BY <1>2, <2>1 DEF Heard, Sound
  <2> QED
    BY <1>3, <2>1 DEF ClientTakes, ClientDiscard, Greet, Made, MadeNull, Resolved, Rejected, Fails, Unexpected, Lost, DoneHeard,
                      Accepted, SocketHeard, clientVars
<1>5. HeardEnd => HeardEnd'
  BY <1>0, <1>4, HeardStays
<1>6. /\ promise' \in {"asked", "held"} => promise \in {"asked", "held"}
      /\ promise = "failed" => promise' = "failed"
      /\ promise' = "gone" => promise = "gone" \/ "dispose" \in pending
      /\ promise = "gone" => promise' = "gone"
      /\ told' = told /\ cUp' = cUp
  <2>1. CASE Made(m)
    BY <2>1 DEF Made, MadeNull, Waits
  <2>2. CASE Resolved(m)
    BY <2>2 DEF Resolved, Waits
  <2>3. CASE Rejected(m)
    BY <2>3 DEF Rejected, Fails, Waits
  <2>4. CASE MadeNull(m)
    BY <2>4 DEF MadeNull, Waits
  <2> QED
    BY <1>3, <2>1, <2>2, <2>3, <2>4 DEF ClientTakes, ClientDiscard, Greet, Unexpected, Lost, Heard, DoneHeard,
                                        Accepted, SocketHeard, clientVars
<1>7. ASSUME promise \in {"asked", "held"}, m.is = "event", m.of \in Done(kind) PROVE HeardEnd'
  <2>1. promise # "asked"
    <3>1. ASSUME promise = "asked" PROVE FALSE
      <4>1. Given(s2c, 1 - 1)
        BY <1>1, <1>7, <3>1 DEF Ordered
      <4> QED
        BY <4>1 DEF Given
    <3> QED
      BY <3>1
  <2>2. promise = "held" /\ cUp
    BY <1>7, <2>1 DEF Sides
  <2>3. Heard(m)
    BY <1>3, <1>7, <2>2 DEF ClientTakes, ClientDiscard, Greet, Made, MadeNull, Resolved, Rejected, Unexpected, Lost, DoneHeard,
                            Accepted, SocketHeard
  <2>4. heard' = Append(heard, m.of)
    BY <2>3 DEF Heard
  <2>5. Len(heard') \in 1 .. Len(heard') /\ heard'[Len(heard')] = m.of
    BY <1>0, <2>4
  <2>6. heard'[Len(heard')] \in Done(kind)'
    BY <1>0, <1>7, <2>5
  <2> QED
    BY <2>5, <2>6 DEF HeardEnd
<1>8. ASSUME promise \in {"asked", "held"}, NEW n \in 1 .. Len(s2c), EndIn(s2c, n)
      PROVE  HeardEnd' \/ EndIn(s2c', n - 1)
  <2>1. PICK j \in 1 .. n : s2c[j].is = "event" /\ s2c[j].of \in Done(kind)
    BY <1>8 DEF EndIn
  <2>2. CASE j = 1
    BY <1>1, <1>7, <1>8, <2>1, <2>2
  <2>3. CASE j # 1
    <3>1. j - 1 \in 1 .. n - 1 /\ j - 1 \in 1 .. Len(s2c') /\ (j - 1) + 1 = j
      BY <1>1, <2>1, <2>3
    <3>2. s2c'[j - 1] = s2c[j]
      BY <1>1, <3>1
    <3> QED
      BY <2>1, <3>1, <3>2 DEF EndIn
  <2> QED
    BY <2>2, <2>3
<1>9. promise' = "gone" => told' > 0 \/ HeardEnd'
  BY <1>5, <1>6 DEF Ends
<1>10. "dispose" \in pending' \union InFlight(c2s') => HeardEnd'
  BY <1>5, DisposeEnds DEF ClientNext
<1>11. ASSUME promise' \in {"asked", "held"}, NEW i \in 1 .. Len(s2c'), s2c'[i].is = "done"
       PROVE  HeardEnd' \/ EndIn(s2c', i - 1)
  <2>1. i + 1 \in 1 .. Len(s2c) /\ (i + 1) - 1 = i /\ i \in 1 .. Len(s2c) /\ s2c'[i] = s2c[i + 1]
    BY <1>1
  <2>2. HeardEnd \/ EndIn(s2c, (i + 1) - 1)
    BY <1>6, <1>11, <2>1 DEF Ends
  <2>3. HeardEnd \/ EndIn(s2c, i)
    BY <2>1, <2>2
  <2> QED
    BY <1>5, <1>6, <1>8, <1>11, <2>1, <2>3
<1>12. ASSUME srv' = "removed" \/ timer'
       PROVE  \/ told' > 0
              \/ promise' = "failed"
              \/ HeardEnd'
              \/ promise' # "gone" /\ EndIn(s2c', Len(s2c'))
              \/ link' = "down" /\ cUp'
  <2>1. Due /\ promise # "null"
    BY <1>0, <1>12 DEF Ends, Once, Sides
  <2>2. CASE promise # "gone" /\ promise # "failed" /\ EndIn(s2c, Len(s2c))
    <3>1. promise \in {"asked", "held"} /\ Len(s2c) \in 1 .. Len(s2c)
      BY <1>0, <1>1, <2>1, <2>2
    <3>2. HeardEnd' \/ EndIn(s2c', Len(s2c'))
      BY <1>1, <1>8, <2>2, <3>1
    <3> QED
      BY <1>9, <3>2
  <2> QED
    BY <1>0, <1>5, <1>6, <2>1, <2>2 DEF Due
<1> QED
  BY <1>0, <1>9, <1>10, <1>11, <1>12, EndsAfter

LEMMA EndsQuiet == ASSUME Types, Sides, Waits, Once, Ends, ClientNext, ~ClientReceive PROVE Ends'
<1>0. /\ kind' = kind /\ UNCHANGED <<link, srv, timer>> /\ s2c' = s2c /\ heard' = heard /\ heard \in Seq(Events)
      /\ promise \in {"asked", "held", "null", "failed", "gone"} /\ told \in Nat
  BY ClientShape, QuietShape DEF ClientNext, UserCall, CallTimeout, Fails, SocketCallFails, ClientDown, ClientUp,
                                 linkVars, serverVars, Types, TypeOK
<1>1. HeardEnd' <=> HeardEnd
  BY <1>0 DEF HeardEnd
<1>2. /\ promise' \in {"asked", "held"} => promise \in {"asked", "held"}
      /\ promise = "failed" => promise' = "failed"
      /\ promise' = "gone" => promise = "gone" \/ "dispose" \in pending \/ told' > 0
      /\ told > 0 => told' > 0
      /\ link = "down" /\ cUp => cUp' \/ promise' \in {"null", "failed", "gone"}
      /\ promise' = "null" => promise = "null"
  <2>1. CASE \E n \in Calls : UserCall(n)
    BY <2>1 DEF UserCall
  <2>2. CASE \E n \in Calls : CallTimeout(n)
    BY <2>2 DEF CallTimeout, Fails, Waits
  <2>3. CASE ClientDown
    BY <1>0, <2>3 DEF ClientDown, Attached
  <2>4. CASE (\E s \in Conns : SocketCallFails(s)) \/ ClientUp
    BY <2>4 DEF SocketCallFails, ClientUp
  <2> QED
    BY <2>1, <2>2, <2>3, <2>4 DEF ClientNext
<1>3. promise' = "gone" => told' > 0 \/ HeardEnd'
  BY <1>1, <1>2 DEF Ends
<1>4. "dispose" \in pending' \union InFlight(c2s') => HeardEnd'
  BY <1>1, DisposeEnds
<1>5. promise' \in {"asked", "held"} =>
          \A i \in 1 .. Len(s2c') : s2c'[i].is = "done" => HeardEnd' \/ EndIn(s2c', i - 1)
  BY <1>0, <1>1, <1>2 DEF Ends
<1>6. srv' = "removed" \/ timer' =>
          \/ told' > 0
          \/ promise' = "failed"
          \/ HeardEnd'
          \/ promise' # "gone" /\ EndIn(s2c', Len(s2c'))
          \/ link' = "down" /\ cUp'
  BY <1>0, <1>1, <1>2, <1>3 DEF Ends, Due, Once, Sides
<1> QED
  BY <1>0, <1>3, <1>4, <1>5, <1>6, EndsAfter

LEMMA EndsServer ==
    ASSUME Types, Sides, Ends, UNCHANGED <<kind, linkVars, clientVars>>, NEW ms, Sends(ms), Once', Sides'
    PROVE  Ends'
<1>0. /\ kind' = kind /\ UNCHANGED <<link, cUp, promise, told, heard, pending>>
      /\ promise \in {"asked", "held", "null", "failed", "gone"}
      /\ c2s \in Seq(Calls \union {"handshake"})
  BY DEF linkVars, clientVars, Types, TypeOK
<1>1. /\ Len(s2c) \in Nat /\ Len(ms) \in Nat /\ Len(s2c') \in Nat /\ Len(s2c') >= Len(s2c)
      /\ \A i \in 1 .. Len(s2c) : s2c'[i] = s2c[i] /\ i \in 1 .. Len(s2c')
      /\ \A i \in 1 .. Len(s2c') :
             \/ i \in 1 .. Len(s2c)
             \/ i > Len(s2c) /\ i - Len(s2c) \in 1 .. Len(ms) /\ s2c'[i] = ms[i - Len(s2c)]
      /\ link = "up" /\ sUp =>
             \A k \in 1 .. Len(ms) : s2c'[Len(s2c) + k] = ms[k] /\ Len(s2c) + k \in 1 .. Len(s2c')
  <2>1. ms \in Seq(Message) /\ Send(ms)
    BY DEF Sends
  <2> QED
    BY <2>1, SentAt
<1>2. HeardEnd' <=> HeardEnd
  BY <1>0 DEF HeardEnd
<1>3. ASSUME NEW n \in 0 .. Len(s2c), EndIn(s2c, n) PROVE EndIn(s2c', n)
  <2>1. PICK j \in 1 .. n : s2c[j].is = "event" /\ s2c[j].of \in Done(kind)
    BY <1>3 DEF EndIn
  <2>2. s2c'[j] = s2c[j]
    BY <1>1, <2>1
  <2> QED
    BY <2>1, <2>2 DEF EndIn
<1>4. promise' = "gone" => told' > 0 \/ HeardEnd'
  BY <1>0, <1>2 DEF Ends
<1>5. "dispose" \in pending' \union InFlight(c2s') => HeardEnd'
  <2>1. InFlight(c2s') \subseteq InFlight(c2s)
    BY <1>0, InTail DEF Sends
  <2> QED
    BY <1>0, <1>2, <2>1 DEF Ends
<1>6. ASSUME promise' \in {"asked", "held"}, NEW i \in 1 .. Len(s2c'), s2c'[i].is = "done"
      PROVE  HeardEnd' \/ EndIn(s2c', i - 1)
  <2>1. CASE i \in 1 .. Len(s2c)
    <3>1. HeardEnd \/ EndIn(s2c, i - 1)
      BY <1>0, <1>1, <1>6, <2>1 DEF Ends
    <3>2. i - 1 \in 0 .. Len(s2c)
      BY <1>1, <2>1
    <3> QED
      BY <1>2, <1>3, <3>1, <3>2
  <2>2. CASE i \notin 1 .. Len(s2c)
    <3> DEFINE k == i - Len(s2c)
    <3>1. i > Len(s2c) /\ k \in 1 .. Len(ms) /\ s2c'[i] = ms[k] /\ i = Len(s2c) + k
      BY <1>1, <2>2
    <3> HIDE DEF k
    <3>2. k = 2 /\ ms[1].is = "event" /\ ms[1].of \in Done(kind)
      BY <1>6, <3>1 DEF Sends
    <3>3. i - 1 = Len(s2c) + 1 /\ i - 1 \in 1 .. Len(s2c') /\ i - 1 \in 1 .. i - 1 /\ (i - 1) - Len(s2c) = 1
          /\ i - 1 \notin 1 .. Len(s2c)
      BY <1>1, <3>1, <3>2
    <3>4. s2c'[i - 1] = ms[1]
      BY <1>1, <3>3
    <3> QED
      BY <3>2, <3>3, <3>4 DEF EndIn
  <2> QED
    BY <2>1, <2>2
<1>7. ASSUME srv' = "removed" \/ timer'
      PROVE  \/ told' > 0
             \/ promise' = "failed"
             \/ HeardEnd'
             \/ promise' # "gone" /\ EndIn(s2c', Len(s2c'))
             \/ link' = "down" /\ cUp'
  <2>1. EndIn(s2c, Len(s2c)) => EndIn(s2c', Len(s2c'))
    <3>1. ASSUME EndIn(s2c, Len(s2c)) PROVE EndIn(s2c', Len(s2c'))
      <4>1. Len(s2c) \in 0 .. Len(s2c) /\ EndIn(s2c', Len(s2c))
        BY <1>1, <1>3, <3>1
      <4> QED
        BY <1>1, <4>1 DEF EndIn
    <3> QED
      BY <3>1
  <2>2. CASE srv = "removed" \/ timer
    <3>1. Due
      BY <2>2 DEF Ends
    <3> QED
      BY <1>0, <1>2, <2>1, <3>1 DEF Due
  <2>3. CASE c2s # <<>> /\ Head(c2s) = "dispose"
    <3>1. "dispose" \in InFlight(c2s)
      BY <1>0, <2>3, InTail
    <3> QED
      BY <1>2, <3>1 DEF Ends
  <2>4. CASE link = "down"
    <3>1. promise # "null"
      BY <1>0, <1>7 DEF Once, Sides
    <3>2. cUp \/ told > 0 \/ promise = "failed" \/ HeardEnd
      BY <3>1, DownDue
    <3>3. told' = told
      BY DEF clientVars
    <3> QED
      BY <1>0, <1>2, <2>4, <3>2, <3>3
  <2>5. CASE link = "up" /\ sUp /\ SaysEnd(ms)
    <3>1. PICK k \in 1 .. Len(ms) : ms[k].is = "event" /\ ms[k].of \in Done(kind)
      BY <2>5 DEF SaysEnd
    <3>2. s2c'[Len(s2c) + k] = ms[k] /\ Len(s2c) + k \in 1 .. Len(s2c')
      BY <1>1, <2>5
    <3>3. EndIn(s2c', Len(s2c'))
      BY <3>1, <3>2 DEF EndIn
    <3> QED
      BY <1>0, <1>4, <3>3
  <2>6. link \in {"up", "down"}
    BY DEF Types, TypeOK
  <2>7. \/ srv = "removed" \/ timer
        \/ c2s # <<>> /\ Head(c2s) = "dispose"
        \/ link = "down"
        \/ sUp /\ SaysEnd(ms)
    BY <1>7 DEF Sends
  <2> QED
    BY <2>2, <2>3, <2>4, <2>5, <2>6, <2>7
<1> QED
  BY <1>0, <1>4, <1>5, <1>6, <1>7, EndsAfter

LEMMA EndsLink == ASSUME Types, Sides, Once, Ends, LinkUp \/ LinkDown PROVE Ends'
<1>0. /\ UNCHANGED <<kind, cUp, promise, told, heard, pending, srv, timer>>
      /\ promise \in {"asked", "held", "null", "failed", "gone"}
      /\ c2s \in Seq(Calls \union {"handshake"}) /\ s2c \in Seq(Message)
      /\ link = "up" \/ (s2c' = s2c /\ ~cUp)
  BY DEF LinkUp, LinkDown, clientVars, serverVars, Types, TypeOK
<1>1. HeardEnd' <=> HeardEnd
  BY <1>0 DEF HeardEnd
<1>2. promise' = "gone" => told' > 0 \/ HeardEnd'
  BY <1>0, <1>1 DEF Ends
<1>3. "dispose" \in pending' \union InFlight(c2s') => HeardEnd'
  <2>1. InFlight(c2s') \subseteq InFlight(c2s)
    BY <1>0, InCut DEF LinkUp, LinkDown
  <2> QED
    BY <1>0, <1>1, <2>1 DEF Ends
<1>4. /\ Len(s2c) \in Nat /\ Len(s2c') \in 0 .. Len(s2c)
      /\ \A i \in 1 .. Len(s2c') : s2c'[i] = s2c[i] /\ i \in 1 .. Len(s2c)
  <2>1. CASE s2c' = s2c
    BY <1>0, <2>1
  <2>2. CASE s2c' \in Cut(s2c)
    BY <1>0, <2>2, InCut
  <2> QED
    BY <2>1, <2>2 DEF LinkUp, LinkDown
<1>5. ASSUME promise' \in {"asked", "held"}, NEW i \in 1 .. Len(s2c'), s2c'[i].is = "done"
      PROVE  HeardEnd' \/ EndIn(s2c', i - 1)
  <2>1. HeardEnd \/ EndIn(s2c, i - 1)
    BY <1>0, <1>4, <1>5 DEF Ends
  <2>2. ASSUME EndIn(s2c, i - 1) PROVE EndIn(s2c', i - 1)
    <3>1. PICK j \in 1 .. i - 1 : s2c[j].is = "event" /\ s2c[j].of \in Done(kind)
      BY <2>2 DEF EndIn
    <3>2. j \in 1 .. Len(s2c')
      BY <1>4, <3>1
    <3>3. s2c'[j] = s2c[j]
      BY <1>4, <3>2
    <3> QED
      BY <3>1, <3>3 DEF EndIn
  <2> QED
    BY <1>1, <2>1, <2>2
<1>6. ASSUME srv' = "removed" \/ timer'
      PROVE  \/ told' > 0
             \/ promise' = "failed"
             \/ HeardEnd'
             \/ promise' # "gone" /\ EndIn(s2c', Len(s2c'))
             \/ link' = "down" /\ cUp'
  <2>1. CASE cUp
    BY <1>0, <2>1 DEF LinkUp, LinkDown
  <2>2. CASE ~cUp
    <3>1. promise # "null"
      BY <1>0, <1>6 DEF Once, Sides
    <3> QED
      BY <1>0, <1>1, <2>2, <3>1, DownDue
  <2> QED
    BY <2>1, <2>2
<1> QED
  BY <1>0, <1>2, <1>3, <1>5, <1>6, EndsAfter

LEMMA EndsNext == ASSUME Types, Sides, Waits, Bound, Ordered, Once, Ends, [Next]_vars, Once', Sides' PROVE Ends'
<1>1. CASE ServerNext
  BY <1>1, ServerShape, ServerSends, EndsServer
<1>2. CASE UNCHANGED vars
  <2>1. UNCHANGED <<kind, link, s2c, c2s, cUp, promise, told, heard, pending, srv, timer>>
    BY <1>2 DEF vars, linkVars, clientVars, serverVars
  <2>2. HeardEnd' <=> HeardEnd
    BY <2>1 DEF HeardEnd
  <2>3. promise' \in {"asked", "held"} =>
            \A i \in 1 .. Len(s2c') : s2c'[i].is = "done" => HeardEnd' \/ EndIn(s2c', i - 1)
    BY <2>1, <2>2 DEF Ends
  <2>4. srv' = "removed" \/ timer' =>
            \/ told' > 0
            \/ promise' = "failed"
            \/ HeardEnd'
            \/ promise' # "gone" /\ EndIn(s2c', Len(s2c'))
            \/ link' = "down" /\ cUp'
    BY <2>1, <2>2 DEF Ends, Due
  <2>5. /\ promise' = "gone" => told' > 0 \/ HeardEnd'
        /\ "dispose" \in pending' \union InFlight(c2s') => HeardEnd'
    BY <2>1, <2>2 DEF Ends
  <2> QED
    BY <2>1, <2>3, <2>4, <2>5, EndsAfter
<1> QED
  BY <1>1, <1>2, EndsReceive, EndsQuiet, EndsLink DEF Next

-----------------------------------------------------------------------------
(* Every call is answered.                                                 *)

LEMMA AnsweredInit == Init => Answered
<1> SUFFICES ASSUME Init PROVE Answered
  OBVIOUS
<1>1. pending = {"make"} /\ c2s = Greetings
  BY DEF Init
<1> DEFINE q == Greetings
<1>2. q \in Seq({"handshake", "make"}) /\ Len(q) = 2 /\ q[2] = "make"
  BY DEF Greetings
<1> HIDE DEF q
<1>3. q[2] \in InFlight(q)
  BY <1>2, InQueue
<1>4. "make" \in InFlight(c2s)
  BY <1>1, <1>2, <1>3 DEF q
<1> QED
  BY <1>1, <1>4 DEF Answered

\* What the client starts to wait for goes out.
LEMMA AskedGoesOut ==
    ASSUME Types, Waits, ClientNext, link = "up", NEW n \in pending'
    PROVE  n \in pending \/ n \in InFlight(c2s')
<1>0. kind \in AllKinds /\ queued \in Seq(Calls) /\ c2s \in Seq(Calls \union {"handshake"})
  BY KindsAssumption DEF Types, TypeOK
<1>1. ASSUME NEW ns \in Seq(Calls), c2s' = Deliver(c2s, ns) PROVE InFlight(ns) \subseteq InFlight(c2s')
  BY <1>1, DeliverAt
<1>2. ASSUME NEW k \in Calls, c2s' = Deliver(c2s, <<k>>) PROVE k \in InFlight(c2s')
  <2> DEFINE ns == <<k>>
  <2>1. ns \in Seq(Calls) /\ 1 \in 1 .. Len(ns) /\ ns[1] = k /\ c2s' = Deliver(c2s, ns)
    BY <1>2
  <2> HIDE DEF ns
  <2>2. ns[1] \in InFlight(ns)
    BY <2>1, InQueue
  <2> QED
    BY <1>1, <2>1, <2>2
<1>3. CASE ClientReceive
  <2> DEFINE m == Head(s2c)
  <2> HIDE DEF m
  <2>1. CASE Made(m)
    <3>1. c2s' = Deliver(c2s, queued) /\ pending' = (pending \ {"make"}) \union InFlight(queued)
      BY <2>1 DEF Made
    <3> QED
      BY <1>0, <1>1, <3>1
  <2>2. CASE DoneHeard(m)
    <3>1. c2s' = Deliver(c2s, <<"dispose">>) /\ pending' = pending \union {"dispose"} /\ "dispose" \in Calls
      BY <2>2 DEF DoneHeard, Calls
    <3> QED
      BY <1>2, <3>1
  <2>3. CASE ClientDiscard \/ Greet(m) \/ MadeNull(m) \/ Resolved(m) \/ Rejected(m) \/ Unexpected(m) \/ Lost(m) \/ Heard(m)
             \/ Accepted(m) \/ SocketHeard(m)
    BY <2>3 DEF ClientDiscard, Greet, MadeNull, Resolved, Rejected, Fails, Unexpected, Lost, Heard, Accepted,
                SocketHeard, clientVars
  <2> QED
    BY <1>3, <2>1, <2>2, <2>3 DEF m, ClientReceive, ClientTakes
<1>4. ASSUME NEW k \in Calls, UserCall(k) PROVE n \in pending \/ n \in InFlight(c2s')
  <2>1. CASE pending' = pending
    BY <2>1
  <2>2. CASE Forward(k)
    <3>1. c2s' = Deliver(c2s, <<k>>) /\ pending' = pending \union {k}
      BY <2>2 DEF Forward
    <3> QED
      BY <1>2, <3>1
  <2> QED
    BY <1>4, <2>1, <2>2 DEF UserCall, Queue, Skip, Reject
<1>5. CASE (\E k \in Calls : CallTimeout(k)) \/ (\E s \in Conns : SocketCallFails(s)) \/ ClientDown \/ ClientUp
  BY <1>5 DEF CallTimeout, Fails, SocketCallFails, ClientDown, CallsLeft, ClientUp
<1> QED
  BY <1>3, <1>4, <1>5 DEF ClientNext

\* An answer that the client takes ends the wait for it.
LEMMA AnswerEndsWait ==
    ASSUME Types, Waits, cUp, ClientReceive, Head(s2c).is \in {"success", "null", "fail"}
    PROVE  Head(s2c).of \notin pending'
<1> DEFINE m == Head(s2c)
<1>0. queued \in Seq(Calls)
  BY DEF Types, TypeOK
<1> HIDE DEF m
<1>1. ClientTakes(m) /\ m.is \in {"success", "null", "fail"}
  BY DEF m, ClientReceive, ClientDiscard
<1>2. CASE Made(m)
  <2>1. m.of = "make" /\ pending' = (pending \ {"make"}) \union InFlight(queued)
    BY <1>2 DEF Made
  <2>2. "make" \notin InFlight(queued)
    BY <1>0, InQueue DEF Waits
  <2> QED
    BY <2>1, <2>2 DEF m
<1>3. CASE Resolved(m) \/ Rejected(m) \/ Unexpected(m)
  BY <1>3 DEF m, Resolved, Rejected, Fails, Unexpected, clientVars
<1>4. CASE MadeNull(m)
  <2>1. m.is = "null" /\ pending' = pending \ {"make"}
    BY <1>4 DEF MadeNull
  <2>2. Sound(m)
    BY ReceiptShape, TakesTypes DEF m
  <2> QED
    BY <2>1, <2>2 DEF m, Sound
<1> QED
  BY <1>1, <1>2, <1>3, <1>4 DEF ClientTakes, Greet, Lost, Heard, DoneHeard, Accepted, SocketHeard

LEMMA AnsweredClient == ASSUME Types, Sides, Waits, Answered, ClientNext PROVE Answered'
<1> SUFFICES ASSUME downs' = 0, NEW n \in pending' PROVE n \in InFlight(c2s') \/ Answer(s2c', n)
  BY DEF Answered, Answer
<1>1. link = "up" /\ cUp /\ downs = 0
  BY ClientShape DEF linkVars, Sides
<1>2. InFlight(c2s) \subseteq InFlight(c2s')
  <2>1. PICK ns \in Seq(Calls) : c2s' = Deliver(c2s, ns)
    BY ClientSends
  <2> QED
    BY <2>1, DeliverAt
<1>3. CASE n \notin pending
  BY <1>1, <1>3, AskedGoesOut
<1>4. CASE n \in pending /\ Answer(s2c, n)
  <2>1. CASE ~ClientReceive
    BY <1>4, <2>1, QuietShape
  <2>2. CASE ClientReceive
    <3>1. /\ Len(s2c) \in Nat \ {0} /\ Len(s2c') = Len(s2c) - 1 /\ Head(s2c) = s2c[1]
          /\ \A i \in 1 .. Len(s2c') : s2c'[i] = s2c[i + 1]
      <4>1. s2c \in Seq(Message) /\ s2c # <<>> /\ s2c' = Tail(s2c)
        BY <2>2, ReceiptShape DEF Types, TypeOK
      <4>2. /\ Len(s2c) \in Nat \ {0} /\ Len(s2c') = Len(s2c) - 1 /\ Head(s2c) = s2c[1]
            /\ \A i \in 1 .. Len(s2c') : s2c'[i] = s2c[i + 1]
        BY <4>1, TailAt
      <4> QED
        BY <4>2
    <3>2. PICK i \in 1 .. Len(s2c) : s2c[i].is \in {"success", "null", "fail"} /\ s2c[i].of = n
      BY <1>4 DEF Answer
    <3>3. i # 1
      BY <1>1, <2>2, <3>1, <3>2, AnswerEndsWait
    <3>4. i - 1 \in 1 .. Len(s2c') /\ (i - 1) + 1 = i
      BY <3>1, <3>2, <3>3
    <3>5. s2c'[i - 1] = s2c[i]
      BY <3>1, <3>4
    <3> QED
      BY <3>2, <3>4, <3>5 DEF Answer
  <2> QED
    BY <2>1, <2>2
<1> QED
  BY <1>1, <1>2, <1>3, <1>4 DEF Answered

LEMMA AnsweredServer ==
    ASSUME Types, Sides, Answered, UNCHANGED <<linkVars, clientVars>>, NEW ms, Sends(ms)
    PROVE  Answered'
<1> SUFFICES ASSUME downs = 0, NEW n \in pending PROVE n \in InFlight(c2s') \/ Answer(s2c', n)
  BY DEF Answered, Answer, linkVars, clientVars
<1>0. /\ sUp /\ link = "up"
      /\ c2s \in Seq(Calls \union {"handshake"}) /\ n # "handshake"
  <2>1. "handshake" \notin Calls
    BY UserCallTypes DEF Calls
  <2> QED
    BY <2>1 DEF Sides, Types, TypeOK
<1>1. /\ Len(s2c) \in Nat /\ Len(ms) \in Nat /\ Len(s2c') \in Nat
      /\ \A i \in 1 .. Len(s2c) : s2c'[i] = s2c[i] /\ i \in 1 .. Len(s2c')
      /\ \A k \in 1 .. Len(ms) : s2c'[Len(s2c) + k] = ms[k] /\ Len(s2c) + k \in 1 .. Len(s2c')
  <2>1. ms \in Seq(Message) /\ Send(ms)
    BY DEF Sends
  <2> QED
    BY <1>0, <2>1, SentAt
<1>2. CASE Answer(s2c, n)
  <2>1. PICK i \in 1 .. Len(s2c) : s2c[i].is \in {"success", "null", "fail"} /\ s2c[i].of = n
    BY <1>2 DEF Answer
  <2>2. s2c'[i] = s2c[i] /\ i \in 1 .. Len(s2c')
    BY <1>1
  <2> QED
    BY <2>1, <2>2 DEF Answer
<1>3. CASE n \in InFlight(c2s) /\ n \notin InFlight(c2s')
  <2>1. c2s # <<>> /\ c2s' = Tail(c2s)
    BY <1>3 DEF Sends
  <2>2. n = Head(c2s)
    BY <1>0, <1>3, <2>1, InTail
  <2>3. c2s' # c2s
    BY <1>3
  <2>4. PICK k \in 1 .. Len(ms) : ms[k].is \in {"success", "null", "fail"} /\ ms[k].of = n
    BY <1>0, <2>2, <2>3 DEF Sends
  <2>5. s2c'[Len(s2c) + k] = ms[k] /\ Len(s2c) + k \in 1 .. Len(s2c')
    BY <1>1
  <2> QED
    BY <2>4, <2>5 DEF Answer
<1> QED
  BY <1>2, <1>3 DEF Answered

LEMMA AnsweredNext == ASSUME Types, Sides, Waits, Bound, Answered, [Next]_vars PROVE Answered'
<1>1. CASE ServerNext
  BY <1>1, ServerShape, ServerSends, AnsweredServer
<1>2. CASE LinkUp
  BY <1>2 DEF LinkUp, Sides, Answered
<1>3. CASE LinkDown
  <2>1. downs' # 0
    BY <1>3 DEF LinkDown, Types, TypeOK
  <2> QED
    BY <2>1 DEF Answered
<1>4. CASE UNCHANGED vars
  BY <1>4 DEF vars, linkVars, clientVars, Answered, Answer
<1> QED
  BY <1>1, <1>2, <1>3, <1>4, AnsweredClient DEF Next

-----------------------------------------------------------------------------
(* The theorems.                                                           *)

IInv == Types /\ Sides /\ Waits /\ Bound /\ Ordered /\ Followed /\ Greeting /\ Once /\ Ends /\ Answered

LEMMA DeliveryInit == Init => IInv
<1> SUFFICES ASSUME Init PROVE IInv
  OBVIOUS
<1>1. Bound
  BY DEF Init, Bound
<1>2. Ordered
  <2>1. Len(s2c) = 0 /\ srv = "none"
    BY DEF Init
  <2> QED
    BY <2>1 DEF Ordered
<1> QED
  BY <1>1, <1>2, TypesInit, FirstInit, FollowedInit, GreetingInit, OnceInit, EndsInit, AnsweredInit DEF IInv

LEMMA DeliveryNext == IInv /\ [Next]_vars => IInv'
<1> SUFFICES ASSUME IInv, [Next]_vars PROVE IInv'
  OBVIOUS
<1>1. Types /\ Sides /\ Waits /\ Bound /\ Ordered /\ Followed /\ Greeting /\ Once /\ Ends /\ Answered
  BY DEF IInv
<1>2. Types'
  BY <1>1, TypesNext
<1>3. Sides' /\ Waits' /\ Bound'
  BY <1>1, SidesNext, WaitsNext, BoundNext
<1>4. Ordered'
  BY <1>1, OrderedNext
<1>5. Followed'
  BY <1>1, <1>2, FollowedNext
<1>6. Greeting'
  BY <1>1, GreetingNext
<1>7. Once'
  BY <1>1, OnceNext
<1>8. Ends'
  BY <1>1, <1>3, <1>7, EndsNext
<1>9. Answered'
  BY <1>1, AnsweredNext
<1> QED
  BY <1>2, <1>3, <1>4, <1>5, <1>6, <1>7, <1>8, <1>9 DEF IInv

\* In every reachable state the ten parts hold together; a step keeps a part with the
\* help of those before it (Fill.tla, all its actions).
THEOREM Delivery == Spec => []IInv
<1> QED
  BY DeliveryInit, DeliveryNext, PTL DEF Spec

\* What a fill emits (the handlers of client/*.ts that forward a proxy's events) is a
\* prefix of what its native object emitted, each event once and in order; until a
\* drop, and while the proxy is asked for or held, the rest is on its way
\* (proxy.ts:237: all events are sent from the start).
THEOREM FillsFaithful == Spec => []Faithful
<1>1. ASSUME IInv PROVE Faithful
  <2>0. heard \in Seq(Events) /\ produced \in Seq(Events) /\ downs \in Nat
    BY <1>1 DEF IInv, Types, TypeOK
  <2>1. Prefix(heard, produced)
    BY <1>1 DEF IInv, Followed
  <2>2. Len(heard) <= Len(produced) /\ heard = SubSeq(produced, 1, Len(heard))
    <3>1. Len(heard) \in 0 .. Len(produced) /\ Len(heard) \in Nat
      BY <2>0, <2>1 DEF Prefix
    <3> DEFINE front == SubSeq(produced, 1, Len(heard))
    <3>2. front \in Seq(Events) /\ Len(front) = Len(heard) /\ \A i \in 1 .. Len(heard) : front[i] = produced[i]
      BY <2>0, <3>1, FrontAt
    <3> HIDE DEF front
    <3>3. \A i \in 1 .. Len(heard) : front[i] = heard[i]
      BY <2>1, <3>2 DEF Prefix
    <3>4. heard = front
      BY <2>0, <3>2, <3>3
    <3> QED
      BY <3>1, <3>4 DEF front
  <2>3. downs = 0 /\ promise \in {"asked", "held"} => heard \o Coming = produced
    BY <1>1 DEF IInv, Sides, First, Followed
  <2> QED
    BY <2>2, <2>3 DEF Faithful
<1> QED
  BY <1>1, Delivery, PTL

\* The fills that read the init data without waiting for it (client/os.ts) find it
\* once a proxy is held: until a drop, the server answers the handshake first.
THEOREM FillsGreetedFirst == Spec => []GreetedFirst
<1>1. IInv => GreetedFirst
  BY DEF IInv, Greeting, GreetedFirst
<1> QED
  BY <1>1, Delivery, PTL

\* Whatever removes a proxy (dispose(), its timeout, handleDisconnect) and whatever
\* a drop loses, its fill heard of an end or is due to hear of one (client.ts:154).
THEOREM FillsEndHeard == Spec => []EndHeard
<1>1. ASSUME IInv PROVE EndHeard
  <2>0. s2c \in Seq(Message)
    BY <1>1 DEF IInv, Types, TypeOK
  <2>1. ASSUME srv = "removed" PROVE Due
    BY <1>1, <2>1 DEF IInv, Ends
  <2>2. ASSUME HeardEnd PROVE \E i \in DOMAIN heard : heard[i] \in Done(kind)
    <3>1. DOMAIN heard = 1 .. Len(heard)
      BY <1>1 DEF IInv, Types, TypeOK
    <3> QED
      BY <2>2, <3>1 DEF HeardEnd
  <2>3. ASSUME EndIn(s2c, Len(s2c)) PROVE \E m \in InFlight(s2c) : m.is = "event" /\ m.of \in Done(kind)
    <3>1. PICK j \in 1 .. Len(s2c) : s2c[j].is = "event" /\ s2c[j].of \in Done(kind)
      BY <2>3 DEF EndIn
    <3>2. s2c[j] \in InFlight(s2c)
      BY <2>0, InQueue
    <3> QED
      BY <3>1, <3>2
  <2> QED
    BY <2>1, <2>2, <2>3 DEF EndHeard, Due
<1> QED
  BY <1>1, Delivery, PTL

\* unpromisify (proxy.ts:25) holds a call only for a promise that will settle, and
\* until a drop a call that waits is on its way, or its answer is.
THEOREM FillsNoCallStranded == Spec => []NoCallStranded
<1>1. ASSUME IInv PROVE NoCallStranded
  <2>0. s2c \in Seq(Message)
    BY <1>1 DEF IInv, Types, TypeOK
  <2>1. queued # <<>> => promise = "asked" /\ "make" \in pending
    BY <1>1 DEF IInv, Waits
  <2>2. ASSUME downs = 0, NEW n \in pending
        PROVE  n \in InFlight(c2s) \/ \E m \in InFlight(s2c) : m.is \in {"success", "null", "fail"} /\ m.of = n
    <3>1. n \in InFlight(c2s) \/ Answer(s2c, n)
      BY <1>1, <2>2 DEF IInv, Answered
    <3>2. ASSUME Answer(s2c, n) PROVE \E m \in InFlight(s2c) : m.is \in {"success", "null", "fail"} /\ m.of = n
      <4>1. PICK i \in 1 .. Len(s2c) : s2c[i].is \in {"success", "null", "fail"} /\ s2c[i].of = n
        BY <3>2 DEF Answer
      <4>2. s2c[i] \in InFlight(s2c)
        BY <2>0, InQueue
      <4> QED
        BY <4>1, <4>2
    <3> QED
      BY <3>1, <3>2
  <2> QED
    BY <2>1, <2>2 DEF NoCallStranded
<1> QED
  BY <1>1, Delivery, PTL

-----------------------------------------------------------------------------
(* Fills implements Watched.                                               *)

LEMMA WatchedInit == Init => Seen!Init
<1> SUFFICES ASSUME Init PROVE Seen!Init
  OBVIOUS
<1>1. Done(kind) \subseteq Events
  BY KindsAssumption, EventTypes DEF Init
<1> QED
  BY <1>1 DEF Init, Seen!Init

\* What the client shows is the next of what happened: it is so afterwards.
LEMMA HeardShows ==
    ASSUME IInv, IInv', NEW m, Heard(m)
    PROVE  Seen!Show
<1>1. /\ heard \in Seq(Events) /\ produced \in Seq(Events)
      /\ heard' = Append(heard, m.of) /\ heard' \in Seq(Events)
      /\ UNCHANGED <<kind, produced, promise, told>> /\ promise = "held"
  BY DEF IInv, Types, TypeOK, Heard, serverVars, nativeVars
<1>2. Prefix(heard', produced)
  BY <1>1 DEF IInv, Followed
<1> DEFINE n == Len(heard) + 1
<1>3. Len(heard') = n /\ heard'[n] = m.of /\ n \in 1 .. Len(heard')
  BY <1>1
<1>4. n <= Len(produced) /\ produced[n] = m.of
  BY <1>2, <1>3 DEF Prefix
<1>5. Len(heard) < Len(produced)
  BY <1>1, <1>4
<1> QED
  BY <1>1, <1>4, <1>5 DEF Seen!Show

\* A call that settles lets go of the fill only when it is dispose(), which is called
\* only once an end was heard; and it fails the fill only when it was to make it.
LEMMA AnswerSettles ==
    ASSUME IInv, UNCHANGED <<kind, produced, heard, told>>,
           \/ promise' = promise
           \/ "make" \in pending /\ promise' \in {"held", "null", "failed"}
           \/ "dispose" \in pending /\ promise' = "gone"
    PROVE  [Seen!Next]_Seen!watchedVars
<1>1. CASE promise' = promise
  BY <1>1 DEF Seen!watchedVars
<1>2. CASE "make" \in pending /\ promise' \in {"held", "null", "failed"}
  <2>1. promise = "asked"
    BY <1>2 DEF IInv, Waits
  <2>2. Seen!Settle(promise')
    BY <2>1 DEF Seen!Settle
  <2> QED
    BY <1>2, <2>2 DEF Seen!Next
<1>3. CASE "dispose" \in pending /\ promise' = "gone"
  <2>1. promise \in {"held", "gone"}
    BY <1>3 DEF IInv, Waits
  <2>2. \E i \in DOMAIN heard : heard[i] \in Done(kind)
    <3>1. HeardEnd
      BY <1>3 DEF IInv, Ends
    <3>2. DOMAIN heard = 1 .. Len(heard)
      BY DEF IInv, Types, TypeOK
    <3> QED
      BY <3>1, <3>2 DEF HeardEnd
  <2>3. CASE promise = "held"
    BY <1>3, <2>2, <2>3 DEF Seen!LetGo, Seen!Next
  <2>4. CASE promise = "gone"
    BY <1>3, <2>4 DEF Seen!watchedVars
  <2> QED
    BY <2>1, <2>3, <2>4
<1> QED
  BY <1>1, <1>2, <1>3

LEMMA WatchedReceive ==
    ASSUME IInv, IInv', ClientReceive
    PROVE  [Seen!Next]_Seen!watchedVars
<1> DEFINE m == Head(s2c)
<1> HIDE DEF m
<1>1. CASE Heard(m)
  BY <1>1, HeardShows DEF Seen!Next
<1>2. CASE Made(m) \/ MadeNull(m)
  BY <1>2, AnswerSettles DEF Made, MadeNull, serverVars, nativeVars
<1>3. CASE Resolved(m)
  BY <1>3, AnswerSettles DEF Resolved, serverVars, nativeVars
<1>4. CASE Rejected(m)
  BY <1>4, AnswerSettles DEF Rejected, Fails, serverVars, nativeVars
<1>5. CASE ClientDiscard \/ Greet(m) \/ Unexpected(m) \/ Lost(m) \/ DoneHeard(m) \/ Accepted(m) \/ SocketHeard(m)
  BY <1>5, AnswerSettles DEF ClientDiscard, Greet, Unexpected, Lost, DoneHeard, Accepted, SocketHeard,
                             clientVars, serverVars, nativeVars
<1> QED
  BY <1>1, <1>2, <1>3, <1>4, <1>5 DEF ClientReceive, ClientTakes, m

LEMMA WatchedClient ==
    ASSUME IInv, IInv', ClientNext
    PROVE  [Seen!Next]_Seen!watchedVars
<1>1. ASSUME NEW n \in Calls, UserCall(n) PROVE [Seen!Next]_Seen!watchedVars
  BY <1>1, AnswerSettles DEF UserCall, serverVars, nativeVars
<1>2. ASSUME NEW n \in Calls, CallTimeout(n) PROVE [Seen!Next]_Seen!watchedVars
  BY <1>2, AnswerSettles DEF CallTimeout, Fails, serverVars, nativeVars
<1>3. CASE ClientUp \/ \E s \in Conns : SocketCallFails(s)
  BY <1>3, AnswerSettles DEF ClientUp, SocketCallFails, serverVars, nativeVars
<1>4. CASE ClientDown
  <2>1. UNCHANGED <<kind, produced, heard>>
    BY <1>4 DEF ClientDown, serverVars, nativeVars
  <2>2. CASE promise = "asked"
    <3>1. promise' = "failed" /\ told' = told
      BY <1>4, <2>2 DEF ClientDown, Attached
    <3> QED
      BY <2>1, <2>2, <3>1 DEF Seen!Settle, Seen!Next
  <2>3. CASE promise = "held"
    <3>1. promise' = "gone" /\ told' = told + 1
      BY <1>4, <2>3 DEF ClientDown, Attached
    <3> QED
      BY <2>1, <2>3, <3>1 DEF Seen!Lose, Seen!Next
  <2>4. CASE promise \notin {"asked", "held"}
    <3>1. promise' = promise /\ told' = told
      BY <1>4, <2>4 DEF ClientDown, Attached
    <3> QED
      BY <2>1, <3>1 DEF Seen!watchedVars
  <2> QED
    BY <2>2, <2>3, <2>4
<1> QED
  BY <1>1, <1>2, <1>3, <1>4, WatchedReceive DEF ClientNext

LEMMA WatchedServer ==
    ASSUME IInv, ServerNext
    PROVE  [Seen!Next]_Seen!watchedVars
<1>1. UNCHANGED <<kind, promise, heard, told>>
  BY ServerShape DEF clientVars
<1>2. ASSUME NEW e \in Events, NativeStep(e) PROVE [Seen!Next]_Seen!watchedVars
  <2>1. produced' = Append(produced, e)
    BY <1>2 DEF NativeStep
  <2>2. Seen!Happen(e)
    BY <1>1, <2>1 DEF Seen!Happen
  <2> QED
    BY <2>2 DEF Seen!Next
<1>3. CASE ServerReceive \/ DisposeTimer \/ ServerDown \/ ServerUp \/ \E s \in Conns : Connects(s) \/ ConnEnding(s) \/ ConnStep(s)
  <2>1. produced' = produced
    BY <1>3, ReceiveShape DEF DisposeTimer, ServerDown, ServerUp, Connects, ConnEnding, ConnStep, nativeVars, IInv
  <2> QED
    BY <1>1, <2>1 DEF Seen!watchedVars
<1> QED
  BY <1>2, <1>3 DEF ServerNext

\* What a program sees through a fill is what Watched promises: each event of the
\* native object once and in order while it is held, an end or a "disconnected" before
\* it is let go of, and nothing after (unpromisify in proxy.ts, createProxy and
\* handleDisconnect in client.ts, storeProxy in server.ts).
THEOREM FillsWatched == Spec => WatchedFromAfar
<1>1. IInv /\ IInv' /\ [Next]_vars => [Seen!Next]_Seen!watchedVars
  <2> SUFFICES ASSUME IInv, IInv', [Next]_vars PROVE [Seen!Next]_Seen!watchedVars
    OBVIOUS
  <2>1. CASE LinkUp \/ LinkDown \/ UNCHANGED vars
    <3>1. UNCHANGED <<kind, produced, heard, promise, told>>
      BY <2>1 DEF LinkUp, LinkDown, vars, clientVars, serverVars, nativeVars
    <3> QED
      BY <3>1 DEF Seen!watchedVars
  <2> QED
    BY <2>1, WatchedClient, WatchedServer DEF Next
<1> QED
  BY <1>1, WatchedInit, Delivery, PTL DEF Spec, WatchedFromAfar, Seen!Spec

=============================================================================
