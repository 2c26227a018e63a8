-------------------------- MODULE ConnectionProofs --------------------------
(***************************************************************************)
(* Proofs about the connections that a net.Server counts, against those    *)
(* its native server has; for every set of connections and every bound.    *)
(***************************************************************************)
EXTENDS DeliveryProofs

-----------------------------------------------------------------------------
(* The inductive invariant, beside that of DeliveryProofs.                 *)

\* A server has the callback for its connections before it listens.
Registers ==
    kind = "server" =>
        /\ promise = "asked" => Len(queued) >= 2 /\ queued[1] = "bind" /\ queued[2] = "onConnection"
        /\ downs = 0 =>
               /\ promise \notin {"held", "gone"} => "listen()" \notin InFlight(c2s)
               /\ promise \in {"held", "gone"} =>
                      registered \/ srv = "removed" \/ "onConnection" \in InFlight(c2s)
               /\ \A i \in 1 .. Len(c2s) : c2s[i] = "listen()" =>
                      registered \/ srv = "removed" \/ \E j \in 1 .. i - 1 : c2s[j] = "onConnection"
               /\ phase \in {"binding", "listening"} => registered
               /\ \A s \in Conns : conn[s] # "none" => registered

\* Connection s ends for the client within the first n messages of q, when it counts
\* the connections ss.
At(q, i, is, s) == q[i].is = is /\ q[i].of = s
SocketIn(q, s, i, n) == \E j \in i + 1 .. n : At(q, j, "socket", s)
Ended(q, ss, s, n) ==
    /\ s \in ss => SocketIn(q, s, 0, n)
    /\ \A k \in 1 .. n : At(q, k, "connection", s) => SocketIn(q, s, k, n)

\* Until a drop the client counts the connections there are, but for what is on its
\* way and for sockets that failed; the end of one comes after its beginning.  When it
\* knows of a drop it counts none, and holds nothing.
Connecting ==
    /\ \A s \in Conns : conn[s] # "none" => kind = "server"
    /\ \A s \in Conns : conn[s] = "none" =>
           /\ s \notin sockets \union unheeded
           /\ \A i \in 1 .. Len(s2c) : ~At(s2c, i, "connection", s) /\ ~At(s2c, i, "socket", s)
    /\ \A s \in Conns : \A j \in 1 .. Len(s2c) : At(s2c, j, "socket", s) =>
           /\ conn[s] \in {"erred", "closed"}
           /\ \A i \in 1 .. Len(s2c) : At(s2c, i, "connection", s) => i < j
    /\ downs = 0 => \A s \in Conns :
           /\ s \in Lasting /\ promise \in {"asked", "held", "gone"} =>
                  s \in sockets \union unheeded \/ \E i \in 1 .. Len(s2c) : At(s2c, i, "connection", s)
           /\ s \notin Lasting => Ended(s2c, sockets, s, Len(s2c))
    /\ downs = 0 \/ (link = "down" /\ cUp) \/ (sockets = {} /\ promise \notin {"asked", "held"})

\* A server that is done accepts nothing more, and lets its proxy go after that.
Unconnected == \A i \in 1 .. Len(s2c) : s2c[i].is # "connection"
Closing ==
    kind = "server" =>
        /\ \A i \in 1 .. Len(s2c) : s2c[i].is = "done" =>
               phase = "closed" /\ \A j \in i + 1 .. Len(s2c) : s2c[j].is # "connection"
        /\ "dispose" \in pending \/ (downs = 0 /\ promise = "gone") => phase = "closed" /\ Unconnected

-----------------------------------------------------------------------------
(* The session.                                                            *)

\* Until a drop nothing is down, and there was none before.
LEMMA StillUp ==
    ASSUME Types, Sides, [Next]_vars, downs' = 0
    PROVE  downs = 0 /\ sUp /\ cUp /\ link = "up" /\ link' = "up"
<1>1. downs \in Nat
  BY DownsAssumption DEF Types, TypeOK
<1>2. CASE ClientNext
  BY <1>2, ClientShape DEF linkVars, Sides
<1>3. CASE ServerNext
  BY <1>3, ServerShape DEF linkVars, Sides
<1>4. CASE LinkUp \/ LinkDown \/ UNCHANGED vars
  BY <1>1, <1>4 DEF LinkUp, LinkDown, vars, linkVars, Sides
<1> QED
  BY <1>2, <1>3, <1>4 DEF Next

-----------------------------------------------------------------------------
(* A server's phases, and its callback.                                    *)

LEMMA ServerSteps ==
    ASSUME NEW p, NEW e, NEW q, <<p, e, q>> \in Steps("server")
    PROVE  \/ p = "binding" /\ e = "listening" /\ q = "listening"
           \/ p = "binding" /\ e = "error" /\ q = "idle"
           \/ p = "closing" /\ e = "close" /\ q = "closed"
<1>1. Steps("server") = {<<"binding", "listening", "listening">>, <<"binding", "error", "idle">>,
                         <<"closing", "close", "closed">>}
  BY DEF Steps, Sockets
<1> QED
  BY <1>1

\* A server listens when it is told to, and stays closed.
LEMMA ServerPhases ==
    ASSUME Types, Sides, Once, kind = "server", ServerNext
    PROVE  /\ phase = "closed" => phase' = "closed"
           /\ phase' \in {"binding", "listening"} =>
                  \/ phase \in {"binding", "listening"}
                  \/ c2s # <<>> /\ Head(c2s) = "listen()" /\ srv = "stored"
<1>0. c2s \in Seq(Calls \union {"handshake"})
  BY DEF Types, TypeOK
<1>1. CASE phase' = phase
  BY <1>1
<1>2. CASE ServerReceive
  <2> DEFINE n == Head(c2s)
  <2>0. c2s # <<>> /\ (ServerDiscard \/ ServerTakes(n))
    BY <1>2, ReceiveShape DEF ServerReceive
  <2>1. c2s # <<>> => n \in InFlight(c2s)
    BY <1>0, InTail
  <2> HIDE DEF n
  <2>2. CASE Store(n)
    <3>1. n = "make" /\ phase' = "idle"
      BY <2>2 DEF Store, Start
    <3>2. phase = "none"
      BY <2>0, <2>1, <3>1 DEF Once
    <3> QED
      BY <3>1, <3>2
  <2>3. CASE Perform(n)
    <3>1. phase' = Moved("server", phase, n) /\ srv = "stored"
      BY <2>3 DEF Perform
    <3>2. /\ phase = "closed" => phase' = "closed"
          /\ phase' \in {"binding", "listening"} => phase \in {"binding", "listening"} \/ n = "listen()"
      BY <3>1 DEF Moved
    <3> QED
      BY <2>0, <3>1, <3>2 DEF n
  <2>4. CASE ServerDiscard \/ Handshake(n) \/ StoreNone(n) \/ Refuse(n) \/ NoProxy(n) \/ Dispose(n)
    <3>1. phase' = phase
      BY <2>4 DEF ServerDiscard, Handshake, StoreNone, Refuse, NoProxy, Dispose, serverVars, nativeVars
    <3> QED
      BY <1>1, <3>1
  <2> QED
    BY <2>0, <2>2, <2>3, <2>4 DEF ServerTakes
<1>3. ASSUME NEW e \in Events, NativeStep(e)
      PROVE  /\ phase = "closed" => phase' = "closed"
             /\ phase' \in {"binding", "listening"} => phase \in {"binding", "listening"}
  <2>1. <<phase, e, phase'>> \in Steps("server")
    BY <1>3 DEF NativeStep
  <2> QED
    BY <2>1, ServerSteps
<1>4. CASE DisposeTimer \/ ServerDown \/ ServerUp \/ \E s \in Conns : Connects(s) \/ ConnEnding(s) \/ ConnStep(s)
  <2>1. phase' = phase
    BY <1>4 DEF DisposeTimer, ServerDown, ServerUp, Connects, ConnEnding, ConnStep, nativeVars
  <2> QED
    BY <1>1, <2>1
<1> QED
  BY <1>2, <1>3, <1>4 DEF ServerNext

\* A connection is there once it connected.
LEMMA ConnKept ==
    ASSUME ServerNext, NEW s \in Conns, conn \in [Conns -> {"none", "open", "ending", "erred", "closed"}]
    PROVE  /\ conn'[s] # "none" => conn[s] # "none" \/ (Connects(s) /\ phase = "listening" /\ kind = "server")
           /\ conn[s] # "none" => conn'[s] # "none"
           /\ s \in Lasting' => s \in Lasting \/ Connects(s)
<1>1. CASE ServerReceive
  BY <1>1 DEF ServerReceive, ServerDiscard, ServerTakes, Handshake, Store, StoreNone, Refuse, NoProxy, Perform, Dispose, serverVars,
              nativeVars, Lasting
<1>2. CASE DisposeTimer \/ ServerUp \/ \E e \in Events : NativeStep(e)
  BY <1>2 DEF DisposeTimer, ServerUp, NativeStep, nativeVars, Lasting
<1>3. CASE ServerDown
  BY <1>3 DEF ServerDown, Lasting
<1>4. ASSUME NEW r \in Conns, Connects(r)
      PROVE  /\ conn'[s] # "none" => conn[s] # "none" \/ (Connects(s) /\ phase = "listening" /\ kind = "server")
             /\ conn[s] # "none" => conn'[s] # "none"
             /\ s \in Lasting' => s \in Lasting \/ Connects(s)
  <2>1. conn' = [conn EXCEPT ![r] = "open"] /\ phase = "listening" /\ kind = "server"
    BY <1>4 DEF Connects
  <2>2. CASE s = r
    BY <1>4, <2>1, <2>2
  <2>3. CASE s # r
    BY <2>1, <2>3 DEF Lasting
  <2> QED
    BY <2>2, <2>3
<1>5. ASSUME NEW r \in Conns, ConnEnding(r) \/ ConnStep(r)
      PROVE  (conn'[s] # "none" <=> conn[s] # "none") /\ (s \in Lasting' => s \in Lasting)
  <2>1. /\ conn[r] \in {"open", "ending", "erred"}
        /\ \/ conn[r] = "open" /\ conn' = [conn EXCEPT ![r] = "ending"]
           \/ conn' = [conn EXCEPT ![r] = "erred"] \/ conn' = [conn EXCEPT ![r] = "closed"]
    BY <1>5 DEF ConnEnding, ConnStep
  <2> QED
    BY <2>1 DEF Lasting
<1> QED
  BY <1>1, <1>2, <1>3, <1>4, <1>5 DEF ServerNext

\* What the server did of the calls it took, and what it did not undo.
LEMMA CallbackKept ==
    ASSUME Types, Sides, Once, ServerNext, srv # "none"
    PROVE  /\ registered => registered'
           /\ srv = "removed" => srv' = "removed"
           /\ \/ c2s' = c2s
              \/ /\ c2s # <<>> /\ c2s' = Tail(c2s)
                 /\ sUp /\ Head(c2s) = "onConnection" => registered' \/ srv' = "removed"
<1>0. c2s \in Seq(Calls \union {"handshake"}) /\ srv \in {"stored", "removed"}
  BY DEF Types, TypeOK
<1>1. CASE ServerReceive
  <2> DEFINE n == Head(c2s)
  <2>0. c2s # <<>> /\ (ServerDiscard \/ ServerTakes(n)) /\ n \in InFlight(c2s) /\ c2s' = Tail(c2s)
    BY <1>0, <1>1, ReceiveShape, InTail DEF ServerReceive
  <2> HIDE DEF n
  <2>1. ~Store(n)
    BY <2>0 DEF Store, Once
  <2>2. /\ registered => registered'
        /\ srv = "removed" => srv' = "removed"
        /\ sUp /\ n = "onConnection" => registered' \/ srv' = "removed"
    <3>1. CASE Perform(n)
      BY <3>1 DEF Perform
    <3>2. CASE ServerDiscard \/ Handshake(n) \/ StoreNone(n) \/ Refuse(n) \/ Dispose(n)
      BY <3>2 DEF ServerDiscard, Handshake, StoreNone, Refuse, Dispose, Arrives, serverVars, nativeVars
    <3>3. CASE NoProxy(n)
      BY <1>0, <3>3 DEF NoProxy, serverVars, nativeVars
    <3> QED
      BY <2>0, <2>1, <3>1, <3>2, <3>3 DEF ServerTakes
  <2> QED
    BY <2>0, <2>2 DEF n
<1>2. CASE DisposeTimer \/ ServerDown \/ ServerUp
  BY <1>0, <1>2 DEF DisposeTimer, ServerDown, ServerUp, nativeVars
<1>3. CASE (\E e \in Events : NativeStep(e)) \/ \E s \in Conns : Connects(s) \/ ConnEnding(s) \/ ConnStep(s)
  <2>1. UNCHANGED <<registered, srv, c2s>>
    BY <1>3 DEF NativeStep, Connects, ConnEnding, ConnStep
  <2> QED
    BY <2>1
<1> QED
  BY <1>1, <1>2, <1>3 DEF ServerNext

LEMMA RegistersInit == Init => Registers
<1> SUFFICES ASSUME Init, kind = "server" PROVE Registers
  BY DEF Registers
<1>1. queued = <<"bind", "onConnection">>
  BY DEF Init, Constructor
<1>2. Len(queued) >= 2 /\ queued[1] = "bind" /\ queued[2] = "onConnection"
  BY <1>1
<1>3. /\ promise = "asked" /\ phase = "none" /\ c2s = <<"handshake", "make">>
      /\ \A s \in Conns : conn[s] = "none"
  BY DEF Init, Greetings
<1>4. \A i \in 1 .. Len(c2s) : c2s[i] # "listen()"
  BY <1>3
<1>5. "listen()" \notin InFlight(c2s)
  <2> DEFINE q == <<"handshake", "make">>
  <2>1. q \in Seq({"handshake", "make"}) /\ c2s = q
    BY <1>3
  <2> HIDE DEF q
  <2>2. InFlight(q) \subseteq {"handshake", "make"}
    BY <2>1, InQueue
  <2> QED
    BY <2>1, <2>2
<1> QED
  BY <1>2, <1>3, <1>4, <1>5 DEF Registers

\* What a client's step sends, by the promise it had.
LEMMA SentWhile ==
    ASSUME Types, Waits, ClientNext
    PROVE  \/ c2s' = c2s /\ promise' = promise
           \/ c2s' = c2s /\ promise \in {"held", "gone"} /\ promise' = "gone"
           \/ c2s' = c2s /\ promise = "asked" /\ promise' \in {"failed", "null"}
           \/ promise = "asked" /\ promise' = "held" /\ c2s' = Deliver(c2s, queued)
           \/ \E n \in Calls : promise \in {"held", "gone"} /\ promise' = promise /\ c2s' = Deliver(c2s, <<n>>)
<1>1. ASSUME NEW n, Fails(n)
      PROVE  /\ c2s' = c2s
             /\ \/ promise' = promise
                \/ promise \in {"held", "gone"} /\ promise' = "gone"
                \/ promise = "asked" /\ promise' = "failed"
  BY <1>1 DEF Fails, Waits
<1>2. CASE ClientReceive
  <2> DEFINE m == Head(s2c)
  <2> HIDE DEF m
  <2>1. CASE Made(m)
    BY <2>1 DEF Made, Waits
  <2>2. CASE Resolved(m)
    BY <2>2 DEF Resolved, Waits
  <2>3. CASE Rejected(m)
    BY <1>1, <2>3 DEF Rejected
  <2>4. CASE DoneHeard(m)
    BY <2>4 DEF DoneHeard, Calls
  <2>6. CASE MadeNull(m)
    BY <2>6 DEF MadeNull, Waits
  <2>5. CASE ClientDiscard \/ Greet(m) \/ Unexpected(m) \/ Lost(m) \/ Heard(m) \/ Accepted(m) \/ SocketHeard(m)
    BY <2>5 DEF ClientDiscard, Greet, Unexpected, Lost, Heard, Accepted, SocketHeard, clientVars
  <2> QED
    BY <1>2, <2>1, <2>2, <2>3, <2>4, <2>5, <2>6 DEF m, ClientReceive, ClientTakes
<1>3. ASSUME NEW n \in Calls, UserCall(n)
      PROVE  \/ c2s' = c2s /\ promise' = promise
             \/ promise \in {"held", "gone"} /\ promise' = promise /\ c2s' = Deliver(c2s, <<n>>)
  BY <1>3 DEF UserCall, Queue, Forward, Skip, Reject
<1>4. CASE (\E n \in Calls : CallTimeout(n)) \/ (\E s \in Conns : SocketCallFails(s)) \/ ClientUp
  BY <1>1, <1>4 DEF CallTimeout, SocketCallFails, ClientUp
<1>5. CASE ClientDown
  BY <1>5 DEF ClientDown
<1> QED
  BY <1>2, <1>3, <1>4, <1>5 DEF ClientNext

LEMMA RegistersClient == ASSUME Types, Sides, Waits, Registers, ClientNext, kind = "server" PROVE Registers'
<1>0. /\ c2s \in Seq(Calls \union {"handshake"}) /\ queued \in Seq(Calls) /\ [Next]_vars
      /\ UNCHANGED <<kind, srv, phase, registered, conn>>
  BY ClientShape DEF Types, TypeOK, serverVars, nativeVars, Next
<1>1. promise' = "asked" => Len(queued') >= 2 /\ queued'[1] = "bind" /\ queued'[2] = "onConnection"
  <2>1. ASSUME promise' = "asked"
        PROVE  promise = "asked" /\ (queued' = queued \/ \E n \in Calls : queued' = Append(queued, n))
    <3>1. CASE ClientReceive
      BY <2>1, <3>1 DEF ClientReceive, ClientTakes, ClientDiscard, Greet, Made, MadeNull, Resolved, Rejected, Fails, QueueAfter,
                        Unexpected, Lost, Heard, DoneHeard, Accepted, SocketHeard, clientVars
    <3>2. CASE ~ClientReceive
      BY <2>1, <3>2 DEF ClientNext, UserCall, Queue, Forward, Skip, Reject, CallTimeout, Fails, QueueAfter,
                        SocketCallFails, ClientDown, ClientUp
    <3> QED
      BY <3>1, <3>2
  <2>2. ASSUME promise' = "asked" PROVE Len(queued') >= 2 /\ queued'[1] = "bind" /\ queued'[2] = "onConnection"
    <3>1. Len(queued) >= 2 /\ queued[1] = "bind" /\ queued[2] = "onConnection"
      BY <2>1, <2>2 DEF Registers
    <3>2. ASSUME NEW n \in Calls, queued' = Append(queued, n)
          PROVE  Len(queued') >= 2 /\ queued'[1] = queued[1] /\ queued'[2] = queued[2]
      BY <1>0, <3>1, <3>2
    <3> QED
      BY <2>1, <2>2, <3>1, <3>2
  <2> QED
    BY <2>2
<1> SUFFICES ASSUME downs' = 0
             PROVE  /\ promise' \notin {"held", "gone"} => "listen()" \notin InFlight(c2s')
                    /\ promise' \in {"held", "gone"} =>
                           registered \/ srv = "removed" \/ "onConnection" \in InFlight(c2s')
                    /\ \A i \in 1 .. Len(c2s') : c2s'[i] = "listen()" =>
                           registered \/ srv = "removed" \/ \E j \in 1 .. i - 1 : c2s'[j] = "onConnection"
                    /\ phase \in {"binding", "listening"} => registered
                    /\ \A s \in Conns : conn[s] # "none" => registered
  BY <1>0, <1>1 DEF Registers, InFlight
<1>2. /\ downs = 0 /\ link = "up"
      /\ promise \notin {"held", "gone"} => "listen()" \notin InFlight(c2s)
      /\ promise \in {"held", "gone"} => registered \/ srv = "removed" \/ "onConnection" \in InFlight(c2s)
      /\ \A i \in 1 .. Len(c2s) : c2s[i] = "listen()" =>
             registered \/ srv = "removed" \/ \E j \in 1 .. i - 1 : c2s[j] = "onConnection"
      /\ phase \in {"binding", "listening"} => registered
      /\ \A s \in Conns : conn[s] # "none" => registered
  BY <1>0, StillUp DEF Registers
<1>3. CASE c2s' = c2s /\ promise' = promise
  BY <1>2, <1>3
<1>7. CASE \/ c2s' = c2s /\ promise \in {"held", "gone"} /\ promise' = "gone"
           \/ c2s' = c2s /\ promise = "asked" /\ promise' \in {"failed", "null"}
  BY <1>2, <1>7
<1>4. ASSUME promise' \in {"held", "gone"}, NEW q \in Seq(Calls \union {"handshake"}), c2s' = c2s \o q,
             registered \/ srv = "removed" \/ "onConnection" \in InFlight(c2s)
                 \/ \E j \in 1 .. Len(q) : q[j] = "onConnection" /\ \A i \in 1 .. Len(q) : q[i] = "listen()" => j < i
      PROVE  /\ registered \/ srv = "removed" \/ "onConnection" \in InFlight(c2s')
             /\ \A i \in 1 .. Len(c2s') : c2s'[i] = "listen()" =>
                    registered \/ srv = "removed" \/ \E j \in 1 .. i - 1 : c2s'[j] = "onConnection"
  <2>1. /\ Len(c2s) \in Nat /\ Len(q) \in Nat /\ Len(c2s') = Len(c2s) + Len(q)
        /\ c2s' \in Seq(Calls \union {"handshake"})
        /\ \A i \in 1 .. Len(c2s) : c2s'[i] = c2s[i] /\ i \in 1 .. Len(c2s')
        /\ \A i \in 1 .. Len(c2s') :
               i \in 1 .. Len(c2s) \/ (i - Len(c2s) \in 1 .. Len(q) /\ c2s'[i] = q[i - Len(c2s)])
        /\ \A k \in 1 .. Len(q) : c2s'[Len(c2s) + k] = q[k]
    BY <1>0, <1>4, JoinAt
  <2>2. \A i \in 1 .. Len(c2s') : c2s'[i] \in InFlight(c2s')
    <3>1. c2s' \in Seq(Calls \union {"handshake"})
      BY <2>1
    <3> QED
      BY <3>1, InQueue
  <2>3. CASE registered \/ srv = "removed"
    BY <2>3
  <2>4. CASE "onConnection" \in InFlight(c2s)
    <3>1. PICK j \in 1 .. Len(c2s) : c2s[j] = "onConnection"
      BY <1>0, <2>4, InQueue
    <3>2. c2s'[j] = "onConnection" /\ j \in 1 .. Len(c2s')
      BY <2>1, <3>1
    <3>3. "onConnection" \in InFlight(c2s')
      BY <2>2, <3>2
    <3>4. ASSUME NEW i \in 1 .. Len(c2s'), c2s'[i] = "listen()"
          PROVE  registered \/ srv = "removed" \/ \E k \in 1 .. i - 1 : c2s'[k] = "onConnection"
      <4>1. CASE i \in 1 .. Len(c2s)
        <5>1. registered \/ srv = "removed" \/ \E k \in 1 .. i - 1 : c2s[k] = "onConnection"
          BY <1>2, <2>1, <3>4, <4>1
        <5>2. ASSUME NEW k \in 1 .. i - 1 PROVE c2s'[k] = c2s[k]
          <6>1. k \in 1 .. Len(c2s)
            BY <2>1, <4>1
          <6> QED
            BY <2>1, <6>1
        <5> QED
          BY <5>1, <5>2
      <4>2. CASE i \notin 1 .. Len(c2s)
        <5>1. j \in 1 .. i - 1
          BY <2>1, <3>1, <4>2
        <5> QED
          BY <3>2, <5>1
      <4> QED
        BY <4>1, <4>2
    <3> QED
      BY <3>3, <3>4
  <2>5. ASSUME NEW j \in 1 .. Len(q), q[j] = "onConnection", \A i \in 1 .. Len(q) : q[i] = "listen()" => j < i
        PROVE  /\ "onConnection" \in InFlight(c2s')
               /\ \A i \in 1 .. Len(c2s') : c2s'[i] = "listen()" =>
                      registered \/ srv = "removed" \/ \E k \in 1 .. i - 1 : c2s'[k] = "onConnection"
    <3>1. c2s'[Len(c2s) + j] = "onConnection" /\ Len(c2s) + j \in 1 .. Len(c2s')
      BY <2>1, <2>5
    <3>2. "onConnection" \in InFlight(c2s')
      BY <2>2, <3>1
    <3>3. ASSUME NEW i \in 1 .. Len(c2s'), c2s'[i] = "listen()"
          PROVE  registered \/ srv = "removed" \/ \E k \in 1 .. i - 1 : c2s'[k] = "onConnection"
      <4>1. CASE i \in 1 .. Len(c2s)
        <5>1. registered \/ srv = "removed" \/ \E k \in 1 .. i - 1 : c2s[k] = "onConnection"
          BY <1>2, <2>1, <3>3, <4>1
        <5>2. ASSUME NEW k \in 1 .. i - 1 PROVE c2s'[k] = c2s[k]
          <6>1. k \in 1 .. Len(c2s)
            BY <2>1, <4>1
          <6> QED
            BY <2>1, <6>1
        <5> QED
          BY <5>1, <5>2
      <4>2. CASE i \notin 1 .. Len(c2s)
        <5>1. i - Len(c2s) \in 1 .. Len(q) /\ q[i - Len(c2s)] = "listen()"
          BY <2>1, <3>3, <4>2
        <5>2. j < i - Len(c2s)
          BY <2>5, <5>1
        <5>3. Len(c2s) + j \in 1 .. i - 1
          BY <2>1, <5>1, <5>2
        <5> QED
          BY <3>1, <5>3
      <4> QED
        BY <4>1, <4>2
    <3> QED
      BY <3>2, <3>3
  <2> QED
    BY <1>4, <2>3, <2>4, <2>5
<1>5. CASE promise = "asked" /\ promise' = "held" /\ c2s' = Deliver(c2s, queued)
  <2>1. c2s' = c2s \o queued /\ queued \in Seq(Calls \union {"handshake"})
    BY <1>0, <1>2, <1>5 DEF Deliver
  <2>2. Len(queued) >= 2 /\ queued[1] = "bind" /\ queued[2] = "onConnection" /\ Len(queued) \in Nat
    BY <1>0, <1>5 DEF Registers
  <2>3. 2 \in 1 .. Len(queued) /\ \A i \in 1 .. Len(queued) : queued[i] = "listen()" => 2 < i
    BY <2>2
  <2>4. \E j \in 1 .. Len(queued) :
            queued[j] = "onConnection" /\ \A i \in 1 .. Len(queued) : queued[i] = "listen()" => j < i
    BY <2>2, <2>3
  <2> QED
    BY <1>2, <1>4, <1>5, <2>1, <2>4
<1>6. ASSUME NEW n \in Calls, promise \in {"held", "gone"}, promise' = promise, c2s' = Deliver(c2s, <<n>>)
      PROVE  /\ promise' \in {"held", "gone"}
             /\ registered \/ srv = "removed" \/ "onConnection" \in InFlight(c2s')
             /\ \A i \in 1 .. Len(c2s') : c2s'[i] = "listen()" =>
                    registered \/ srv = "removed" \/ \E j \in 1 .. i - 1 : c2s'[j] = "onConnection"
  <2> DEFINE q == <<n>>
  <2>1. c2s' = c2s \o q /\ q \in Seq(Calls \union {"handshake"}) /\ promise' \in {"held", "gone"}
    BY <1>2, <1>6 DEF Deliver
  <2> HIDE DEF q
  <2> QED
    BY <1>2, <1>4, <1>6, <2>1
<1> QED
  BY <1>2, <1>3, <1>5, <1>6, <1>7, SentWhile

LEMMA RegistersServer ==
    ASSUME Types, Sides, Waits, Bound, Once, Registers, Closing, ServerNext, kind = "server"
    PROVE  Registers'
<1>0. /\ c2s \in Seq(Calls \union {"handshake"}) /\ [Next]_vars
      /\ conn \in [Conns -> {"none", "open", "ending", "erred", "closed"}]
      /\ UNCHANGED <<kind, promise, queued, link>>
  BY ServerShape DEF Types, TypeOK, linkVars, clientVars, Next
<1> SUFFICES ASSUME downs' = 0
             PROVE  /\ promise \notin {"held", "gone"} => "listen()" \notin InFlight(c2s')
                    /\ promise \in {"held", "gone"} =>
                           registered' \/ srv' = "removed" \/ "onConnection" \in InFlight(c2s')
                    /\ \A i \in 1 .. Len(c2s') : c2s'[i] = "listen()" =>
                           registered' \/ srv' = "removed" \/ \E j \in 1 .. i - 1 : c2s'[j] = "onConnection"
                    /\ phase' \in {"binding", "listening"} => registered'
                    /\ \A s \in Conns : conn'[s] # "none" => registered'
  BY <1>0 DEF Registers, InFlight
<1>1. /\ downs = 0 /\ sUp
      /\ promise \notin {"held", "gone"} => "listen()" \notin InFlight(c2s)
      /\ promise \in {"held", "gone"} => registered \/ srv = "removed" \/ "onConnection" \in InFlight(c2s)
      /\ \A i \in 1 .. Len(c2s) : c2s[i] = "listen()" =>
             registered \/ srv = "removed" \/ \E j \in 1 .. i - 1 : c2s[j] = "onConnection"
      /\ phase \in {"binding", "listening"} => registered
      /\ \A s \in Conns : conn[s] # "none" => registered
  BY <1>0, StillUp DEF Registers
<1>2. c2s' = c2s \/ (c2s # <<>> /\ c2s' = Tail(c2s))
  BY ServerSends DEF Sends
<1>3. c2s' \in Seq(Calls \union {"handshake"}) /\ InFlight(c2s') \subseteq InFlight(c2s)
  BY <1>0, <1>2, InTail
<1>4. /\ phase' \in {"binding", "listening"} =>
             \/ phase \in {"binding", "listening"}
             \/ c2s # <<>> /\ Head(c2s) = "listen()" /\ srv = "stored"
      /\ \A s \in Conns : conn'[s] # "none" => conn[s] # "none" \/ phase = "listening"
  BY <1>0, ServerPhases, ConnKept
<1>5. CASE srv = "none"
  <2>1. promise \notin {"held", "gone"} /\ phase = "none" /\ \A s \in Conns : conn[s] = "none"
    BY <1>1, <1>5 DEF Once, Sides, Closing
  <2>2. "listen()" \notin InFlight(c2s')
    BY <1>1, <1>3, <2>1
  <2>3. \A i \in 1 .. Len(c2s') : c2s'[i] # "listen()"
    BY <1>3, <2>2, InQueue
  <2> QED
    BY <1>4, <1>5, <2>1, <2>2, <2>3
<1>6. CASE srv # "none"
  <2>1. /\ registered => registered'
        /\ srv = "removed" => srv' = "removed"
        /\ \/ c2s' = c2s
           \/ /\ c2s # <<>> /\ c2s' = Tail(c2s)
              /\ Head(c2s) = "onConnection" => registered' \/ srv' = "removed"
    BY <1>1, <1>6, CallbackKept
  <2>2. phase' \in {"binding", "listening"} => registered'
    <3>1. ASSUME c2s # <<>>, Head(c2s) = "listen()", srv = "stored" PROVE registered
      <4>1. Head(c2s) = c2s[1] /\ 1 \in 1 .. Len(c2s)
        BY <1>0, <3>1, TailAt
      <4>2. registered \/ srv = "removed" \/ \E j \in 1 .. 1 - 1 : c2s[j] = "onConnection"
        BY <1>1, <3>1, <4>1
      <4> QED
        BY <3>1, <4>2
    <3> QED
      BY <1>1, <1>4, <2>1, <3>1
  <2>3. \A s \in Conns : conn'[s] # "none" => registered'
    BY <1>1, <1>4, <2>1
  <2>4. CASE c2s' = c2s
    BY <1>1, <2>1, <2>2, <2>3, <2>4
  <2>5. CASE c2s # <<>> /\ c2s' = Tail(c2s) /\ (Head(c2s) = "onConnection" => registered' \/ srv' = "removed")
    <3>1. /\ Head(c2s) = c2s[1] /\ Len(c2s) \in Nat /\ Len(c2s') = Len(c2s) - 1
          /\ \A i \in 1 .. Len(c2s') : c2s'[i] = c2s[i + 1] /\ i + 1 \in 1 .. Len(c2s)
      BY <1>0, <2>5, TailAt
    <3>2. promise \in {"held", "gone"} => registered' \/ srv' = "removed" \/ "onConnection" \in InFlight(c2s')
      <4>1. InFlight(c2s) \subseteq InFlight(c2s') \union {Head(c2s)}
        BY <1>0, <2>5, InTail
      <4> QED
        BY <1>1, <2>1, <2>5, <4>1
    <3>3. ASSUME NEW i \in 1 .. Len(c2s'), c2s'[i] = "listen()"
          PROVE  registered' \/ srv' = "removed" \/ \E j \in 1 .. i - 1 : c2s'[j] = "onConnection"
      <4>1. i + 1 \in 1 .. Len(c2s) /\ c2s[i + 1] = "listen()" /\ (i + 1) - 1 = i
        BY <3>1, <3>3
      <4>2. registered \/ srv = "removed" \/ \E j \in 1 .. (i + 1) - 1 : c2s[j] = "onConnection"
        BY <1>1, <4>1
      <4>3. ASSUME NEW j \in 1 .. (i + 1) - 1, c2s[j] = "onConnection"
            PROVE  registered' \/ srv' = "removed" \/ \E k \in 1 .. i - 1 : c2s'[k] = "onConnection"
        <5>1. CASE j = 1
          BY <2>5, <3>1, <4>3, <5>1
        <5>2. CASE j # 1
          <6>1. j - 1 \in 1 .. i - 1 /\ j - 1 \in 1 .. Len(c2s') /\ (j - 1) + 1 = j
            BY <3>1, <4>1, <5>2
          <6>2. c2s'[j - 1] = c2s[j]
            BY <3>1, <6>1
          <6> QED
            BY <4>3, <6>1, <6>2
        <5> QED
          BY <5>1, <5>2
      <4> QED
        BY <2>1, <4>2, <4>3
    <3> QED
      BY <1>1, <1>3, <2>2, <2>3, <3>2, <3>3
  <2> QED
    BY <2>1, <2>4, <2>5
<1> QED
  BY <1>5, <1>6

LEMMA RegistersNext == ASSUME Types, Sides, Waits, Bound, Once, Registers, Closing, [Next]_vars PROVE Registers'
<1>0. kind' = kind
  BY ClientShape, ServerShape DEF Next, LinkUp, LinkDown, vars
<1>1. CASE kind # "server"
  BY <1>0, <1>1 DEF Registers
<1>2. CASE kind = "server" /\ ClientNext
  BY <1>2, RegistersClient
<1>3. CASE kind = "server" /\ ServerNext
  BY <1>3, RegistersServer
<1>4. CASE LinkUp \/ LinkDown
  <2>1. downs' # 0
    BY <1>4, StillUp DEF Next, LinkUp, LinkDown
  <2>2. UNCHANGED <<promise, queued>>
    BY <1>4 DEF LinkUp, LinkDown, clientVars
  <2> QED
    BY <1>0, <2>1, <2>2 DEF Registers
<1>5. CASE UNCHANGED vars
  BY <1>5 DEF vars, linkVars, clientVars, serverVars, nativeVars, Registers, InFlight
<1> QED
  BY <1>1, <1>2, <1>3, <1>4, <1>5 DEF Next

-----------------------------------------------------------------------------
(* Connections that end.                                                   *)

LEMMA EndedAgree ==
    ASSUME NEW q, NEW r, NEW ss, NEW s, NEW n \in Nat, \A i \in 1 .. n : q[i] = r[i], Ended(q, ss, s, n)
    PROVE  Ended(r, ss, s, n)
BY DEF Ended, SocketIn, At

LEMMA EndedWider ==
    ASSUME NEW q, NEW ss, NEW s, NEW n \in Nat, NEW k \in Nat, n <= k, Ended(q, ss, s, n),
           \A i \in n + 1 .. k : ~At(q, i, "connection", s)
    PROVE  Ended(q, ss, s, k)
<1>1. ASSUME NEW i \in Nat, SocketIn(q, s, i, n) PROVE SocketIn(q, s, i, k)
  BY <1>1 DEF SocketIn
<1>2. s \in ss => SocketIn(q, s, 0, k)
  BY <1>1 DEF Ended
<1>3. ASSUME NEW i \in 1 .. k, At(q, i, "connection", s) PROVE SocketIn(q, s, i, k)
  <2>1. i \in 1 .. n
    BY <1>3
  <2> QED
    BY <1>1, <1>3, <2>1 DEF Ended
<1> QED
  BY <1>2, <1>3 DEF Ended

\* A connection has ended once its end is the last to come.
LEMMA EndedLast ==
    ASSUME NEW q, NEW ss, NEW s, NEW n \in Nat \ {0}, At(q, n, "socket", s)
    PROVE  Ended(q, ss, s, n)
<1>1. ~At(q, n, "connection", s)
  BY DEF At
<1>2. ASSUME NEW i \in 0 .. n - 1 PROVE SocketIn(q, s, i, n)
  BY DEF SocketIn
<1>3. s \in ss => SocketIn(q, s, 0, n)
  BY <1>2
<1>4. ASSUME NEW k \in 1 .. n, At(q, k, "connection", s) PROVE SocketIn(q, s, k, n)
  <2>1. k \in 0 .. n - 1
    BY <1>1, <1>4
  <2> QED
    BY <1>2, <2>1
<1> QED
  BY <1>3, <1>4 DEF Ended

\* The client takes the first message: it counts what it says.
LEMMA EndedTail ==
    ASSUME NEW S, NEW q \in Seq(S), q # <<>>, NEW ss, NEW tt, NEW s, NEW n \in 1 .. Len(q), Ended(q, ss, s, n),
           s \in tt => (s \in ss /\ ~At(q, 1, "socket", s)) \/ At(q, 1, "connection", s)
    PROVE  Ended(Tail(q), tt, s, n - 1)
<1> DEFINE r == Tail(q)
<1>1. /\ Len(r) = Len(q) - 1 /\ Len(q) \in Nat
      /\ \A i \in 1 .. Len(r) : r[i] = q[i + 1]
  BY TailAt
<1> HIDE DEF r
<1>2. ASSUME NEW i \in 1 .. n, SocketIn(q, s, i, n) PROVE SocketIn(r, s, i - 1, n - 1)
  <2>1. PICK j \in i + 1 .. n : At(q, j, "socket", s)
    BY <1>2 DEF SocketIn
  <2>2. j - 1 \in (i - 1) + 1 .. n - 1 /\ j - 1 \in 1 .. Len(r) /\ (j - 1) + 1 = j
    BY <1>1, <2>1
  <2>3. r[j - 1] = q[j]
    BY <1>1, <2>2
  <2>4. At(r, j - 1, "socket", s)
    BY <2>1, <2>3 DEF At
  <2> QED
    BY <2>2, <2>4 DEF SocketIn
<1>3. ASSUME s \in tt PROVE SocketIn(r, s, 0, n - 1)
  <2>1. CASE At(q, 1, "connection", s)
    <3>1. SocketIn(q, s, 1, n) /\ 1 \in 1 .. n
      BY <2>1 DEF Ended
    <3>2. SocketIn(r, s, 1 - 1, n - 1)
      BY <1>2, <3>1
    <3> QED
      BY <3>2
  <2>2. CASE s \in ss /\ ~At(q, 1, "socket", s)
    <3>1. PICK j \in 0 + 1 .. n : At(q, j, "socket", s)
      BY <2>2 DEF Ended, SocketIn
    <3>2. j \in 1 + 1 .. n
      BY <2>2, <3>1
    <3>3. SocketIn(q, s, 1, n) /\ 1 \in 1 .. n
      BY <3>1, <3>2 DEF SocketIn
    <3>4. SocketIn(r, s, 1 - 1, n - 1)
      BY <1>2, <3>3
    <3> QED
      BY <3>4
  <2> QED
    BY <1>3, <2>1, <2>2
<1>4. ASSUME NEW k \in 1 .. n - 1, At(r, k, "connection", s) PROVE SocketIn(r, s, k, n - 1)
  <2>1. k \in 1 .. Len(r) /\ k + 1 \in 1 .. n /\ (k + 1) - 1 = k
    BY <1>1
  <2>2. At(q, k + 1, "connection", s)
    BY <1>1, <1>4, <2>1 DEF At
  <2>3. SocketIn(q, s, k + 1, n)
    BY <2>1, <2>2 DEF Ended
  <2>4. SocketIn(r, s, (k + 1) - 1, n - 1)
    BY <1>2, <2>1, <2>3
  <2> QED
    BY <2>1, <2>4
<1> QED
  BY <1>3, <1>4 DEF Ended, r

\* What the client counts, by the message m that it takes.
Counts(m) ==
    /\ unheeded' = unheeded
    /\ \/ sockets' = sockets
       \/ promise = "held" /\ m.is = "connection" /\ sockets' = sockets \union {m.of}
       \/ m.is = "socket" /\ sockets' = sockets \ {m.of}
    /\ cUp /\ promise = "held" /\ m.is = "connection" => sockets' = sockets \union {m.of}
    /\ cUp /\ m.is = "socket" => sockets' = sockets \ {m.of}

LEMMA ReceiveCounts == ASSUME Types, ClientReceive PROVE Counts(Head(s2c))
<1> DEFINE m == Head(s2c)
<1> SUFFICES Counts(m)
  OBVIOUS
<1> HIDE DEF m
<1>0. ClientDiscard \/ ClientTakes(m)
  BY DEF m, ClientReceive
<1>1. CASE ClientDiscard
  BY <1>1 DEF ClientDiscard, clientVars, Counts
<1>2. CASE Accepted(m)
  BY <1>2 DEF Accepted, Counts
<1>3. CASE SocketHeard(m)
  BY <1>3 DEF SocketHeard, Uncounted, Counts
<1>4. CASE Lost(m)
  BY <1>4 DEF Lost, clientVars, Counts
<1>5. CASE Greet(m) \/ MadeNull(m) \/ Made(m) \/ Resolved(m) \/ Rejected(m) \/ Unexpected(m) \/ Heard(m) \/ DoneHeard(m)
  <2>1. m.is \in {"init", "success", "null", "fail", "event", "done"} /\ UNCHANGED <<sockets, unheeded>>
    BY <1>5 DEF Greet, Made, MadeNull, Resolved, Rejected, Fails, Unexpected, Heard, DoneHeard, clientVars
  <2> QED
    BY <2>1 DEF Counts
<1> QED
  BY <1>0, <1>1, <1>2, <1>3, <1>4, <1>5 DEF m, ClientTakes

\* What the client awaits of its proxy it awaited before.
LEMMA Awaits ==
    ASSUME Waits, ClientNext
    PROVE  /\ promise' \in {"asked", "held", "gone"} => promise \in {"asked", "held", "gone"}
           /\ promise' \in {"asked", "held"} => promise \in {"asked", "held"}
<1>1. ASSUME NEW n, Fails(n) PROVE promise' = promise \/ (promise' = "gone" /\ promise \in {"held", "gone"}) \/ promise' = "failed"
  BY <1>1 DEF Fails, Waits
<1>2. CASE ClientReceive
  <2> DEFINE m == Head(s2c)
  <2>0. ClientDiscard \/ ClientTakes(m)
    BY <1>2 DEF ClientReceive
  <2> HIDE DEF m
  <2>1. CASE Made(m) \/ MadeNull(m) \/ Resolved(m)
    BY <2>1 DEF Made, MadeNull, Resolved, Waits
  <2>2. CASE Rejected(m)
    BY <1>1, <2>2 DEF Rejected
  <2>3. CASE ClientDiscard \/ Greet(m) \/ Unexpected(m) \/ Lost(m) \/ Heard(m) \/ DoneHeard(m) \/ Accepted(m)
             \/ SocketHeard(m)
    BY <2>3 DEF ClientDiscard, Greet, Unexpected, Lost, Heard, DoneHeard, Accepted, SocketHeard, clientVars
  <2> QED
    BY <2>0, <2>1, <2>2, <2>3 DEF ClientTakes
<1>3. CASE (\E n \in Calls : UserCall(n)) \/ (\E s \in Conns : SocketCallFails(s)) \/ ClientUp \/ ClientDown
  BY <1>3 DEF UserCall, SocketCallFails, ClientUp, ClientDown
<1>4. CASE \E n \in Calls : CallTimeout(n)
  BY <1>1, <1>4 DEF CallTimeout
<1> QED
  BY <1>2, <1>3, <1>4 DEF ClientNext

LEMMA ConnectingInit == Init => Connecting
<1> SUFFICES ASSUME Init PROVE Connecting
  OBVIOUS
<1>1. /\ \A s \in Conns : conn[s] = "none"
      /\ Len(s2c) = 0 /\ sockets = {} /\ unheeded = {} /\ downs = 0
  BY DEF Init
<1>2. \A s \in Conns : Ended(s2c, sockets, s, Len(s2c))
  BY <1>1 DEF Ended
<1> QED
  BY <1>1, <1>2 DEF Connecting, Lasting

LEMMA ConnectingReceive ==
    ASSUME Types, Sides, Waits, Ordered, Connecting, Closing, ClientReceive
    PROVE  Connecting'
<1> DEFINE m == Head(s2c)
<1>0. UNCHANGED <<kind, conn, linkVars>> /\ s2c \in Seq(Message) /\ [Next]_vars
  BY ClientShape DEF ClientNext, serverVars, nativeVars, Types, TypeOK, Next
<1>9. ClientNext
  BY DEF ClientNext
<1>1. /\ s2c # <<>> /\ s2c' = Tail(s2c)
      /\ Len(s2c) \in Nat \ {0} /\ Len(s2c') = Len(s2c) - 1 /\ m = s2c[1] /\ 1 \in 1 .. Len(s2c)
      /\ \A i \in 1 .. Len(s2c') : s2c'[i] = s2c[i + 1] /\ i + 1 \in 1 .. Len(s2c)
  <2>1. s2c # <<>> /\ s2c' = Tail(s2c)
    BY ReceiptShape
  <2>2. /\ Len(s2c) \in Nat \ {0} /\ Len(s2c') = Len(s2c) - 1 /\ m = s2c[1] /\ 1 \in 1 .. Len(s2c)
        /\ \A i \in 1 .. Len(s2c') : s2c'[i] = s2c[i + 1] /\ i + 1 \in 1 .. Len(s2c)
    BY <1>0, <2>1, TailAt
  <2> QED
    BY <2>1, <2>2
<1>2. Counts(m)
  BY ReceiveCounts
<1> HIDE DEF m
<1>3. ASSUME NEW s, NEW is, NEW i \in 1 .. Len(s2c'), At(s2c', i, is, s)
      PROVE  At(s2c, i + 1, is, s) /\ i + 1 \in 1 .. Len(s2c)
  BY <1>1, <1>3 DEF At
<1>4. ASSUME NEW s \in Conns, conn[s] = "none"
      PROVE  /\ s \notin sockets' \union unheeded'
             /\ \A i \in 1 .. Len(s2c') : ~At(s2c', i, "connection", s) /\ ~At(s2c', i, "socket", s)
  <2>1. /\ s \notin sockets \union unheeded
        /\ \A i \in 1 .. Len(s2c) : ~At(s2c, i, "connection", s) /\ ~At(s2c, i, "socket", s)
    BY <1>4 DEF Connecting
  <2>2. ~(m.is = "connection" /\ m.of = s)
    BY <1>1, <2>1 DEF At
  <2>3. s \notin sockets' \union unheeded'
    BY <1>2, <2>1, <2>2 DEF Counts
  <2> QED
    BY <1>3, <2>1, <2>3
<1>5. ASSUME NEW s \in Conns, NEW j \in 1 .. Len(s2c'), At(s2c', j, "socket", s)
      PROVE  conn[s] \in {"erred", "closed"} /\ \A i \in 1 .. Len(s2c') : At(s2c', i, "connection", s) => i < j
  <2>1. At(s2c, j + 1, "socket", s) /\ j + 1 \in 1 .. Len(s2c)
    BY <1>3, <1>5
  <2>2. conn[s] \in {"erred", "closed"} /\ \A i \in 1 .. Len(s2c) : At(s2c, i, "connection", s) => i < j + 1
    BY <2>1 DEF Connecting
  <2>3. ASSUME NEW i \in 1 .. Len(s2c'), At(s2c', i, "connection", s) PROVE i < j
    <3>1. i + 1 < j + 1
      BY <1>3, <2>2, <2>3
    <3> QED
      BY <3>1
  <2> QED
    BY <2>2, <2>3
<1>6. ASSUME downs' = 0, NEW s \in Conns
      PROVE  /\ s \in Lasting /\ promise' \in {"asked", "held", "gone"} =>
                    s \in sockets' \union unheeded' \/ \E i \in 1 .. Len(s2c') : At(s2c', i, "connection", s)
             /\ s \notin Lasting => Ended(s2c', sockets', s, Len(s2c'))
  <2>1. downs = 0 /\ cUp
    BY <1>0, <1>6, StillUp
  <2>2. CASE s \in Lasting /\ promise' \in {"asked", "held", "gone"}
    <3>0. promise \in {"asked", "held", "gone"}
      BY <1>9, <2>2, Awaits
    <3>1. s \in sockets \union unheeded \/ \E i \in 1 .. Len(s2c) : At(s2c, i, "connection", s)
      BY <2>1, <2>2, <3>0 DEF Connecting
    <3>2. ~(m.is = "socket" /\ m.of = s)
      <4>1. ~At(s2c, 1, "socket", s)
        BY <1>1, <2>2 DEF Connecting, Lasting
      <4> QED
        BY <1>1, <4>1 DEF At
    <3>3. s \in sockets \union unheeded => s \in sockets' \union unheeded'
      BY <1>2, <3>2 DEF Counts
    <3>4. m.is = "connection" => promise = "held"
      <4>1. ASSUME m.is = "connection", promise = "asked" PROVE FALSE
        <5>1. Given(s2c, 1 - 1)
          BY <1>1, <4>1 DEF Ordered
        <5> QED
          BY <5>1 DEF Given
      <4>2. ASSUME m.is = "connection", promise = "gone" PROVE FALSE
        <5>1. kind = "server"
          BY <2>2 DEF Connecting, Lasting
        <5> QED
          BY <1>1, <2>1, <4>2, <5>1 DEF Closing, Unconnected
      <4> QED
        BY <3>0, <4>1, <4>2
    <3>5. ASSUME NEW i \in 1 .. Len(s2c), At(s2c, i, "connection", s)
          PROVE  s \in sockets' \/ \E k \in 1 .. Len(s2c') : At(s2c', k, "connection", s)
      <4>1. CASE i = 1
        <5>1. m.is = "connection" /\ m.of = s
          BY <1>1, <3>5, <4>1 DEF At
        <5>2. sockets' = sockets \union {m.of}
          BY <1>2, <2>1, <3>4, <5>1 DEF Counts
        <5> QED
          BY <5>1, <5>2
      <4>2. CASE i # 1
        <5>1. i - 1 \in 1 .. Len(s2c') /\ (i - 1) + 1 = i
          BY <1>1, <4>2
        <5>2. At(s2c', i - 1, "connection", s)
          BY <1>1, <3>5, <5>1 DEF At
        <5> QED
          BY <5>1, <5>2
      <4> QED
        BY <4>1, <4>2
    <3> QED
      BY <2>2, <3>1, <3>3, <3>5
  <2>3. CASE s \notin Lasting
    <3>1. Ended(s2c, sockets, s, Len(s2c)) /\ Len(s2c) \in 1 .. Len(s2c)
      BY <1>1, <2>1, <2>3 DEF Connecting
    <3>2. s \in sockets' => (s \in sockets /\ ~At(s2c, 1, "socket", s)) \/ At(s2c, 1, "connection", s)
      BY <1>1, <1>2, <2>1 DEF Counts, At
    <3>3. Ended(Tail(s2c), sockets', s, Len(s2c) - 1)
      BY <1>0, <1>1, <3>1, <3>2, EndedTail
    <3> QED
      BY <1>1, <2>3, <3>3
  <2> QED
    BY <2>2, <2>3
<1>7. \A s \in Conns : conn[s] # "none" => kind = "server"
  BY DEF Connecting
<1>8. downs' = 0 \/ (link' = "down" /\ cUp') \/ (sockets' = {} /\ promise' \notin {"asked", "held"})
  <2>1. cUp' = cUp
    BY DEF ClientReceive, ClientTakes, ClientDiscard, Greet, Made, MadeNull, Resolved, Rejected, Fails, Unexpected,
           Lost, Heard, DoneHeard, Accepted, SocketHeard, clientVars
  <2>2. ASSUME sockets = {}, promise \notin {"asked", "held"} PROVE sockets' = {} /\ promise' \notin {"asked", "held"}
    <3>1. sockets' = {}
      BY <1>2, <2>2 DEF Counts
    <3> QED
      BY <1>9, <2>2, <3>1, Awaits
  <2> QED
    BY <1>0, <2>1, <2>2 DEF Connecting, linkVars
<1> QED
  BY <1>0, <1>4, <1>5, <1>6, <1>7, <1>8 DEF Connecting, Ended, SocketIn, At, Lasting

LEMMA ConnectingQuiet ==
    ASSUME Types, Sides, Waits, Connecting, ClientNext, ~ClientReceive
    PROVE  Connecting'
<1>0. UNCHANGED <<kind, conn, linkVars, s2c>> /\ [Next]_vars /\ sockets \subseteq Conns
  BY ClientShape, QuietShape DEF serverVars, nativeVars, Next, Types, TypeOK
<1>1. /\ sockets' \subseteq sockets
      /\ unheeded' \subseteq unheeded \union sockets
      /\ downs' = 0 => sockets \union unheeded \subseteq sockets' \union unheeded'
  <2>1. CASE (\E n \in Calls : UserCall(n) \/ CallTimeout(n)) \/ ClientUp
    BY <2>1 DEF UserCall, CallTimeout, Fails, ClientUp
  <2>2. CASE \E s \in Conns : SocketCallFails(s)
    BY <2>2 DEF SocketCallFails
  <2>3. CASE ClientDown
    BY <1>0, <2>3, StillUp DEF ClientDown
  <2> QED
    BY <2>1, <2>2, <2>3 DEF ClientNext
<1>2. ASSUME NEW s \in Conns, conn[s] = "none" PROVE s \notin sockets' \union unheeded'
  BY <1>1, <1>2 DEF Connecting
<1>3. ASSUME downs' = 0, NEW s \in Conns
      PROVE  /\ s \in Lasting /\ promise' \in {"asked", "held", "gone"} =>
                    s \in sockets' \union unheeded' \/ \E i \in 1 .. Len(s2c) : At(s2c, i, "connection", s)
             /\ s \notin Lasting => Ended(s2c, sockets', s, Len(s2c))
  <2>1. downs = 0
    BY <1>0, <1>3, StillUp
  <2>2. s \notin Lasting => Ended(s2c, sockets, s, Len(s2c))
    BY <2>1 DEF Connecting
  <2>3. s \notin Lasting => Ended(s2c, sockets', s, Len(s2c))
    BY <1>1, <2>2 DEF Ended
  <2>4. promise' \in {"asked", "held", "gone"} => promise \in {"asked", "held", "gone"}
    BY Awaits
  <2> QED
    BY <1>1, <1>3, <2>1, <2>3, <2>4 DEF Connecting
<1>4. downs' = 0 \/ (link' = "down" /\ cUp') \/ (sockets' = {} /\ promise' \notin {"asked", "held"})
  <2>1. CASE ClientDown
    BY <2>1 DEF ClientDown
  <2>2. CASE ~ClientDown
    <3>1. cUp => cUp'
      BY <2>2 DEF ClientNext, UserCall, CallTimeout, Fails, SocketCallFails, ClientUp
    <3>2. promise' \in {"asked", "held"} => promise \in {"asked", "held"}
      BY Awaits
    <3> QED
      BY <1>0, <1>1, <3>1, <3>2 DEF Connecting, linkVars
  <2> QED
    BY <2>1, <2>2
<1> QED
  BY <1>0, <1>2, <1>3, <1>4 DEF Connecting, Ended, SocketIn, At, Lasting

\* What the server sends when it answers, and between: neither events nor news of
\* connections.
LEMMA QuietSpeaks ==
    ASSUME Types, ServerReceive \/ DisposeTimer \/ ServerUp
    PROVE  /\ conn' = conn
           /\ \E ms \in Seq(Message) :
                  Send(ms) /\ \A i \in 1 .. Len(ms) : ms[i].is \notin {"connection", "socket", "done"}
<1>1. ASSUME s2c' = s2c
      PROVE  \E ms \in Seq(Message) :
                 Send(ms) /\ \A i \in 1 .. Len(ms) : ms[i].is \notin {"connection", "socket", "done"}
  <2> DEFINE ms == <<>>
  <2>1. ms \in Seq(Message) /\ Len(ms) = 0 /\ Send(ms)
    BY <1>1, SendNothing
  <2> HIDE DEF ms
  <2>2. \A i \in 1 .. Len(ms) : FALSE
    BY <2>1
  <2> QED
    BY <2>1, <2>2
<1>2. CASE ServerReceive
  <2>1. /\ conn' = conn
        /\ Head(c2s) \in Calls \union {"handshake"}
        /\ s2c' = s2c \/ \E ms : Answers(ms, Head(c2s)) /\ Send(ms)
    BY <1>2, ReceiveShape
  <2>2. CASE s2c' = s2c
    BY <1>1, <2>1, <2>2
  <2>3. ASSUME NEW ms, Answers(ms, Head(c2s)), Send(ms)
        PROVE  ms \in Seq(Message) /\ \A i \in 1 .. Len(ms) : ms[i].is \notin {"connection", "socket", "done"}
    <3>1. ms \in Seq(Message) /\ \A i \in 1 .. Len(ms) : ms[i].is \in {"init", "success", "null", "fail"}
      BY <2>1, <2>3, AnswersTypes
    <3> QED
      BY <3>1
  <2> QED
    BY <2>1, <2>2, <2>3
<1>3. CASE DisposeTimer \/ ServerUp
  <2>1. s2c' = s2c /\ conn' = conn
    BY <1>3 DEF DisposeTimer, ServerUp, nativeVars
  <2> QED
    BY <1>1, <2>1
<1> QED
  BY <1>2, <1>3

\* What the server sends of a native event: the event, and "done" behind it.
LEMMA NativeSpeaks ==
    ASSUME Types, Sides, Bound, NEW e \in Events, NativeStep(e)
    PROVE  /\ conn' = conn
           /\ \E ms \in Seq(Message) :
                  /\ Send(ms) /\ Len(ms) \in {1, 2}
                  /\ \A i \in 1 .. Len(ms) :
                         \/ i = 1 /\ ms[i].is = "event"
                         \/ i = 2 /\ ms[i].is = "done" /\ e \in Done(kind)
<1> DEFINE ms == Reports(e)
<1>1. Send(ms) /\ conn' = conn /\ listeners[e] = 1
  BY ForwardedOnce DEF NativeStep
<1>2. /\ ms \in Seq(Message) /\ ms[1] = Msg("event", e)
      /\ Len(ms) = 1 \/ (e \in Done(kind) /\ Len(ms) = 2 /\ ms[2] = Msg("done", "make"))
  BY <1>1, ReportsAt
<1> HIDE DEF ms
<1>3. ms[1].is = "event" /\ (ms[2] = Msg("done", "make") => ms[2].is = "done")
  BY <1>2 DEF Msg
<1>4. CASE Len(ms) = 1
  <2>1. \A i \in 1 .. Len(ms) : i = 1
    BY <1>4
  <2> QED
    BY <1>1, <1>2, <1>3, <1>4, <2>1
<1>5. CASE e \in Done(kind) /\ Len(ms) = 2 /\ ms[2] = Msg("done", "make")
  <2>1. \A i \in 1 .. Len(ms) : i = 1 \/ i = 2
    BY <1>5
  <2> QED
    BY <1>1, <1>2, <1>3, <1>5, <2>1
<1> QED
  BY <1>2, <1>4, <1>5

\* What the server sends beside what it says of connections.
LEMMA ServerSpeaks ==
    ASSUME Types, Sides, Bound, ServerReceive \/ DisposeTimer \/ ServerUp \/ \E e \in Events : NativeStep(e)
    PROVE  /\ conn' = conn
           /\ \E ms \in Seq(Message) :
                  Send(ms) /\ \A i \in 1 .. Len(ms) : ms[i].is \notin {"connection", "socket"}
<1>1. CASE ServerReceive \/ DisposeTimer \/ ServerUp
  BY <1>1, QuietSpeaks
<1>2. ASSUME NEW e \in Events, NativeStep(e)
      PROVE  /\ conn' = conn
             /\ \E ms \in Seq(Message) :
                    Send(ms) /\ \A i \in 1 .. Len(ms) : ms[i].is \notin {"connection", "socket"}
  <2>1. PICK ms \in Seq(Message) :
            Send(ms) /\ \A i \in 1 .. Len(ms) : ms[i].is \in {"event", "done"}
    BY <1>2, NativeSpeaks
  <2>2. conn' = conn
    BY <1>2 DEF NativeStep
  <2> QED
    BY <2>1, <2>2
<1> QED
  BY <1>1, <1>2

\* What the server says of a connection that begins, or ends.
LEMMA SocketSends ==
    ASSUME Types, NEW r \in Conns, NEW is \in {"connection", "socket"},
           Send(IF registered THEN <<Msg(is, r)>> ELSE <<>>)
    PROVE  \E ms \in Seq(Message) :
               /\ Send(ms)
               /\ registered => Len(ms) = 1
               /\ \A i \in 1 .. Len(ms) : ms[i].is = is /\ ms[i].of = r
<1>1. CASE registered
  <2> DEFINE ms == <<Msg(is, r)>>
  <2>1. Msg(is, r) \in Message
    BY MessageTypes
  <2>2. ms \in Seq(Message) /\ Len(ms) = 1 /\ Send(ms) /\ \A i \in 1 .. Len(ms) : ms[i] = Msg(is, r)
    BY <1>1, <2>1
  <2> HIDE DEF ms
  <2> QED
    BY <2>2 DEF Msg
<1>2. CASE ~registered
  <2> DEFINE ms == <<>>
  <2>1. ms \in Seq(Message)
    OBVIOUS
  <2>2. Len(ms) = 0 /\ Send(ms)
    BY <1>2
  <2> HIDE DEF ms
  <2>3. \A i \in 1 .. Len(ms) : FALSE
    BY <2>2
  <2> QED
    BY <1>2, <2>1, <2>2, <2>3
<1> QED
  BY <1>1, <1>2

\* Where what a queue says of connections comes from.
LEMMA SaidOf ==
    ASSUME Types, NEW ms \in Seq(Message), Send(ms)
    PROVE  /\ Len(s2c) \in Nat /\ Len(ms) \in Nat /\ Len(s2c') \in Nat /\ Len(s2c) <= Len(s2c')
           /\ \A i \in 1 .. Len(s2c) : s2c'[i] = s2c[i] /\ i \in 1 .. Len(s2c')
           /\ \A i \in 1 .. Len(s2c') : \A is, s : At(s2c', i, is, s) =>
                  \/ i \in 1 .. Len(s2c) /\ At(s2c, i, is, s)
                  \/ i > Len(s2c) /\ i - Len(s2c) \in 1 .. Len(ms) /\ At(ms, i - Len(s2c), is, s)
           /\ link = "up" /\ sUp /\ Len(ms) = 1 => Len(s2c') = Len(s2c) + 1 /\ s2c'[Len(s2c')] = ms[1]
<1>1. /\ Len(s2c) \in Nat /\ Len(ms) \in Nat /\ Len(s2c') \in Nat /\ Len(s2c) <= Len(s2c')
      /\ \A i \in 1 .. Len(s2c) : s2c'[i] = s2c[i] /\ i \in 1 .. Len(s2c')
      /\ \A i \in 1 .. Len(s2c') :
             \/ i \in 1 .. Len(s2c)
             \/ i > Len(s2c) /\ i - Len(s2c) \in 1 .. Len(ms) /\ s2c'[i] = ms[i - Len(s2c)]
      /\ link = "up" /\ sUp =>
             \A k \in 1 .. Len(ms) : s2c'[Len(s2c) + k] = ms[k] /\ Len(s2c) + k \in 1 .. Len(s2c')
  BY SentAt
<1>2. \A i \in 1 .. Len(s2c') : \A is, s : At(s2c', i, is, s) =>
          \/ i \in 1 .. Len(s2c) /\ At(s2c, i, is, s)
          \/ i > Len(s2c) /\ i - Len(s2c) \in 1 .. Len(ms) /\ At(ms, i - Len(s2c), is, s)
  BY <1>1 DEF At
<1>3. ASSUME link = "up", sUp, Len(ms) = 1
      PROVE  Len(s2c') = Len(s2c) + 1 /\ s2c'[Len(s2c')] = ms[1]
  <2>1. s2c'[Len(s2c) + 1] = ms[1] /\ Len(s2c) + 1 \in 1 .. Len(s2c') /\ Len(s2c') \in 1 .. Len(s2c')
    BY <1>1, <1>3
  <2>2. Len(s2c') - Len(s2c) \in 1 .. Len(ms) \/ Len(s2c') \in 1 .. Len(s2c)
    BY <1>1, <2>1
  <2>3. Len(s2c') = Len(s2c) + 1
    BY <1>1, <1>3, <2>1, <2>2
  <2> QED
    BY <2>1, <2>3
<1> QED
  BY <1>1, <1>2, <1>3

\* A connection that has ended stays so, when nothing more is said of its beginning.
LEMMA EndedStays ==
    ASSUME Types, NEW ms \in Seq(Message), Send(ms), NEW s, NEW ss, NEW n \in 0 .. Len(s2c), NEW k \in n .. Len(s2c'),
           \A i \in n + 1 .. k : ~At(s2c', i, "connection", s), Ended(s2c, ss, s, n)
    PROVE  Ended(s2c', ss, s, k)
<1>1. /\ n \in Nat /\ k \in Nat /\ n <= k
      /\ \A i \in 1 .. n : s2c[i] = s2c'[i]
  BY SaidOf
<1>2. Ended(s2c', ss, s, n)
  BY <1>1, EndedAgree
<1> QED
  BY <1>1, <1>2, EndedWider

LEMMA ConnectingSpeaks ==
    ASSUME Types, Connecting, UNCHANGED <<kind, sockets, unheeded, conn, cUp, promise, linkVars>>,
           NEW ms \in Seq(Message), Send(ms), \A i \in 1 .. Len(ms) : ms[i].is \notin {"connection", "socket"}
    PROVE  Connecting'
<1>0. /\ Len(s2c) \in Nat /\ Len(s2c') \in Nat /\ Len(s2c) <= Len(s2c')
      /\ \A i \in 1 .. Len(s2c) : s2c'[i] = s2c[i] /\ i \in 1 .. Len(s2c')
      /\ \A i \in 1 .. Len(s2c') : \A is, s : At(s2c', i, is, s) =>
             \/ i \in 1 .. Len(s2c) /\ At(s2c, i, is, s)
             \/ i > Len(s2c) /\ i - Len(s2c) \in 1 .. Len(ms) /\ At(ms, i - Len(s2c), is, s)
  BY SaidOf
<1>1. \A i \in 1 .. Len(s2c'), is \in {"connection", "socket"} : \A s : At(s2c', i, is, s) =>
          i \in 1 .. Len(s2c) /\ At(s2c, i, is, s)
  BY <1>0 DEF At
<1>2. ASSUME NEW s, NEW i \in 1 .. Len(s2c), NEW is, At(s2c, i, is, s) PROVE At(s2c', i, is, s) /\ i \in 1 .. Len(s2c')
  BY <1>0, <1>2 DEF At
<1>3. ASSUME NEW s \in Conns, Ended(s2c, sockets, s, Len(s2c)) PROVE Ended(s2c', sockets, s, Len(s2c'))
  <2>1. \A i \in Len(s2c) + 1 .. Len(s2c') : ~At(s2c', i, "connection", s)
    BY <1>0, <1>1
  <2> QED
    BY <1>0, <1>3, <2>1, EndedStays
<1>4. ASSUME NEW s \in Conns, conn[s] = "none"
      PROVE  s \notin sockets \union unheeded
             /\ \A i \in 1 .. Len(s2c') : ~At(s2c', i, "connection", s) /\ ~At(s2c', i, "socket", s)
  BY <1>1, <1>4 DEF Connecting
<1>5. ASSUME NEW s \in Conns, NEW j \in 1 .. Len(s2c'), At(s2c', j, "socket", s)
      PROVE  conn[s] \in {"erred", "closed"} /\ \A i \in 1 .. Len(s2c') : At(s2c', i, "connection", s) => i < j
  BY <1>1, <1>5 DEF Connecting
<1>6. ASSUME downs = 0, NEW s \in Conns
      PROVE  /\ s \in Lasting /\ promise \in {"asked", "held", "gone"} =>
                    s \in sockets \union unheeded \/ \E i \in 1 .. Len(s2c') : At(s2c', i, "connection", s)
             /\ s \notin Lasting => Ended(s2c', sockets, s, Len(s2c'))
  BY <1>2, <1>3, <1>6 DEF Connecting
<1> QED
  BY <1>4, <1>5, <1>6 DEF Connecting, Ended, SocketIn, At, Lasting, linkVars

LEMMA ConnectingConnects ==
    ASSUME Types, Sides, Waits, Registers, Connecting, ServerNext, NEW r \in Conns, Connects(r)
    PROVE  Connecting'
<1>0. /\ kind = "server" /\ conn[r] = "none" /\ phase = "listening" /\ conn' = [conn EXCEPT ![r] = "open"]
      /\ conn \in [Conns -> {"none", "open", "ending", "erred", "closed"}]
      /\ UNCHANGED <<kind, promise, linkVars, cUp, sockets, unheeded>> /\ [Next]_vars
  BY DEF Connects, clientVars, Types, TypeOK, Next
<1>1. conn'[r] = "open" /\ \A s \in Conns : s # r => conn'[s] = conn[s]
  BY <1>0
<1>2. PICK ms \in Seq(Message) : /\ Send(ms)
                                 /\ registered => Len(ms) = 1
                                 /\ \A i \in 1 .. Len(ms) : ms[i].is = "connection" /\ ms[i].of = r
  <2>1. Send(IF registered THEN <<Msg("connection", r)>> ELSE <<>>)
    BY DEF Connects
  <2> QED
    BY <2>1, SocketSends
<1>3. downs = 0 => link = "up" /\ sUp /\ registered
  BY <1>0 DEF Registers, Sides
<1>4. /\ Len(s2c) \in Nat /\ Len(s2c') \in Nat /\ Len(s2c) <= Len(s2c')
      /\ \A i \in 1 .. Len(s2c) : s2c'[i] = s2c[i] /\ i \in 1 .. Len(s2c')
      /\ \A i \in 1 .. Len(s2c') : \A is, s : At(s2c', i, is, s) =>
             \/ i \in 1 .. Len(s2c) /\ At(s2c, i, is, s)
             \/ i > Len(s2c) /\ i - Len(s2c) \in 1 .. Len(ms) /\ At(ms, i - Len(s2c), is, s)
      /\ link = "up" /\ sUp /\ Len(ms) = 1 => Len(s2c') = Len(s2c) + 1 /\ s2c'[Len(s2c')] = ms[1]
  BY <1>2, SaidOf
<1>5. \A i \in 1 .. Len(s2c') : \A is, s : At(s2c', i, is, s) =>
          (i \in 1 .. Len(s2c) /\ At(s2c, i, is, s)) \/ (is = "connection" /\ s = r)
  BY <1>2, <1>4, SMTT(20) DEF At
<1>6. ASSUME NEW s \in Conns, conn'[s] = "none"
      PROVE  s \notin sockets \union unheeded
             /\ \A i \in 1 .. Len(s2c') : ~At(s2c', i, "connection", s) /\ ~At(s2c', i, "socket", s)
  BY <1>1, <1>5, <1>6 DEF Connecting
<1>7. ASSUME NEW s \in Conns, NEW j \in 1 .. Len(s2c'), At(s2c', j, "socket", s)
      PROVE  conn'[s] \in {"erred", "closed"} /\ \A i \in 1 .. Len(s2c') : At(s2c', i, "connection", s) => i < j
  <2>1. At(s2c, j, "socket", s) /\ j \in 1 .. Len(s2c)
    BY <1>5, <1>7
  <2>2. conn[s] \in {"erred", "closed"} /\ \A i \in 1 .. Len(s2c) : At(s2c, i, "connection", s) => i < j
    BY <2>1 DEF Connecting
  <2>3. s # r
    BY <1>0, <2>2
  <2> QED
    BY <1>1, <1>5, <2>2, <2>3
<1>8. ASSUME downs = 0, NEW s \in Conns
      PROVE  /\ conn'[s] \in {"open", "ending"} /\ promise \in {"asked", "held", "gone"} =>
                    s \in sockets \union unheeded \/ \E i \in 1 .. Len(s2c') : At(s2c', i, "connection", s)
             /\ conn'[s] \notin {"open", "ending"} => Ended(s2c', sockets, s, Len(s2c'))
  <2>1. CASE s = r
    <3>1. Len(ms) = 1 /\ link = "up" /\ sUp
      BY <1>2, <1>3, <1>8
    <3>2. 1 \in 1 .. Len(ms) /\ s2c'[Len(s2c')] = ms[1] /\ Len(s2c') \in 1 .. Len(s2c')
      BY <1>4, <3>1
    <3>3. At(s2c', Len(s2c'), "connection", s)
      BY <1>2, <2>1, <3>2 DEF At
    <3> QED
      BY <1>1, <2>1, <3>2, <3>3
  <2>2. CASE s # r
    <3>1. /\ conn[s] \in {"open", "ending"} /\ promise \in {"asked", "held", "gone"} =>
                 s \in sockets \union unheeded \/ \E i \in 1 .. Len(s2c) : At(s2c, i, "connection", s)
          /\ conn[s] \notin {"open", "ending"} => Ended(s2c, sockets, s, Len(s2c))
      BY <1>8 DEF Connecting, Lasting
    <3>2. \A i \in 1 .. Len(s2c) : At(s2c, i, "connection", s) => At(s2c', i, "connection", s) /\ i \in 1 .. Len(s2c')
      BY <1>4 DEF At
    <3>3. \A i \in Len(s2c) + 1 .. Len(s2c') : ~At(s2c', i, "connection", s)
      BY <1>4, <1>5, <2>2
    <3>4. Ended(s2c, sockets, s, Len(s2c)) => Ended(s2c', sockets, s, Len(s2c'))
      BY <1>2, <1>4, <3>3, EndedStays
    <3> QED
      BY <1>1, <2>2, <3>1, <3>2, <3>4
  <2> QED
    BY <2>1, <2>2
<1> QED
  BY <1>0, <1>6, <1>7, <1>8 DEF Connecting, Ended, SocketIn, At, Lasting, linkVars

\* A connection that is ending is as lasting as before.
LEMMA ConnectingConnEnding ==
    ASSUME Types, Connecting, NEW r \in Conns, ConnEnding(r)
    PROVE  Connecting'
<1>1. /\ conn[r] = "open" /\ conn' = [conn EXCEPT ![r] = "ending"]
      /\ conn \in [Conns -> {"none", "open", "ending", "erred", "closed"}]
      /\ UNCHANGED <<kind, linkVars, s2c, cUp, promise, sockets, unheeded>>
  BY DEF ConnEnding, clientVars, Types, TypeOK
<1>2. \A s \in Conns :
          /\ conn'[s] = "none" <=> conn[s] = "none"
          /\ conn'[s] \in {"open", "ending"} <=> conn[s] \in {"open", "ending"}
          /\ conn'[s] \in {"erred", "closed"} <=> conn[s] \in {"erred", "closed"}
  BY <1>1
<1> QED
  BY <1>1, <1>2 DEF Connecting, Ended, SocketIn, At, Lasting, linkVars

LEMMA ConnectingConnStep ==
    ASSUME Types, Sides, Waits, Registers, Connecting, ServerNext, NEW r \in Conns, ConnStep(r)
    PROVE  Connecting'
<1>0. /\ conn[r] \in {"open", "ending", "erred"}
      /\ conn' = [conn EXCEPT ![r] = "erred"] \/ conn' = [conn EXCEPT ![r] = "closed"]
      /\ conn \in [Conns -> {"none", "open", "ending", "erred", "closed"}]
      /\ UNCHANGED <<kind, promise, linkVars, cUp, sockets, unheeded>> /\ [Next]_vars
  BY DEF ConnStep, clientVars, Types, TypeOK, Next
<1>1. conn'[r] \in {"erred", "closed"} /\ \A s \in Conns : s # r => conn'[s] = conn[s]
  BY <1>0
<1>2. PICK ms \in Seq(Message) : /\ Send(ms)
                                 /\ registered => Len(ms) = 1
                                 /\ \A i \in 1 .. Len(ms) : ms[i].is = "socket" /\ ms[i].of = r
  <2>1. Send(IF registered THEN <<Msg("socket", r)>> ELSE <<>>)
    BY DEF ConnStep
  <2> QED
    BY <2>1, SocketSends
<1>3. kind = "server"
  BY <1>0 DEF Connecting
<1>4. downs = 0 => link = "up" /\ sUp /\ registered
  BY <1>0, <1>3 DEF Registers, Sides
<1>5. /\ Len(s2c) \in Nat /\ Len(s2c') \in Nat /\ Len(s2c) <= Len(s2c')
      /\ \A i \in 1 .. Len(s2c) : s2c'[i] = s2c[i] /\ i \in 1 .. Len(s2c')
      /\ \A i \in 1 .. Len(s2c') : \A is, s : At(s2c', i, is, s) =>
             \/ i \in 1 .. Len(s2c) /\ At(s2c, i, is, s)
             \/ i > Len(s2c) /\ i - Len(s2c) \in 1 .. Len(ms) /\ At(ms, i - Len(s2c), is, s)
      /\ link = "up" /\ sUp /\ Len(ms) = 1 => Len(s2c') = Len(s2c) + 1 /\ s2c'[Len(s2c')] = ms[1]
  BY <1>2, SaidOf
<1>6. \A i \in 1 .. Len(s2c') : \A is, s : At(s2c', i, is, s) =>
          (i \in 1 .. Len(s2c) /\ At(s2c, i, is, s)) \/ (is = "socket" /\ s = r /\ i > Len(s2c))
  BY <1>2, <1>5, SMTT(20) DEF At
<1>7. ASSUME NEW s \in Conns, conn'[s] = "none"
      PROVE  s \notin sockets \union unheeded
             /\ \A i \in 1 .. Len(s2c') : ~At(s2c', i, "connection", s) /\ ~At(s2c', i, "socket", s)
  BY <1>1, <1>6, <1>7 DEF Connecting
<1>8. ASSUME NEW s \in Conns, NEW j \in 1 .. Len(s2c'), At(s2c', j, "socket", s)
      PROVE  conn'[s] \in {"erred", "closed"} /\ \A i \in 1 .. Len(s2c') : At(s2c', i, "connection", s) => i < j
  <2>1. CASE At(s2c, j, "socket", s) /\ j \in 1 .. Len(s2c)
    <3>1. conn[s] \in {"erred", "closed"} /\ \A i \in 1 .. Len(s2c) : At(s2c, i, "connection", s) => i < j
      BY <2>1 DEF Connecting
    <3>2. conn'[s] \in {"erred", "closed"}
      BY <1>1, <3>1
    <3> QED
      BY <1>6, <3>1, <3>2
  <2>2. CASE s = r /\ j > Len(s2c)
    <3>1. \A i \in 1 .. Len(s2c') : At(s2c', i, "connection", s) => i \in 1 .. Len(s2c)
      BY <1>6
    <3> QED
      BY <1>1, <1>5, <2>2, <3>1
  <2> QED
    BY <1>6, <1>8, <2>1, <2>2
<1>9. ASSUME downs = 0, NEW s \in Conns
      PROVE  /\ conn'[s] \in {"open", "ending"} /\ promise \in {"asked", "held", "gone"} =>
                    s \in sockets \union unheeded \/ \E i \in 1 .. Len(s2c') : At(s2c', i, "connection", s)
             /\ conn'[s] \notin {"open", "ending"} => Ended(s2c', sockets, s, Len(s2c'))
  <2>1. CASE s = r
    <3>1. Len(ms) = 1 /\ link = "up" /\ sUp
      BY <1>2, <1>4, <1>9
    <3>2. 1 \in 1 .. Len(ms) /\ s2c'[Len(s2c')] = ms[1] /\ Len(s2c') \in Nat \ {0}
      BY <1>5, <3>1
    <3>3. At(s2c', Len(s2c'), "socket", s)
      BY <1>2, <2>1, <3>2 DEF At
    <3>4. Ended(s2c', sockets, s, Len(s2c'))
      BY <3>2, <3>3, EndedLast
    <3> QED
      BY <1>1, <2>1, <3>4
  <2>2. CASE s # r
    <3>1. /\ conn[s] \in {"open", "ending"} /\ promise \in {"asked", "held", "gone"} =>
                 s \in sockets \union unheeded \/ \E i \in 1 .. Len(s2c) : At(s2c, i, "connection", s)
          /\ conn[s] \notin {"open", "ending"} => Ended(s2c, sockets, s, Len(s2c))
      BY <1>9 DEF Connecting, Lasting
    <3>2. \A i \in 1 .. Len(s2c) : At(s2c, i, "connection", s) => At(s2c', i, "connection", s) /\ i \in 1 .. Len(s2c')
      BY <1>5 DEF At
    <3>3. \A i \in Len(s2c) + 1 .. Len(s2c') : ~At(s2c', i, "connection", s)
      BY <1>5, <1>6
    <3>4. Ended(s2c, sockets, s, Len(s2c)) => Ended(s2c', sockets, s, Len(s2c'))
      BY <1>2, <1>5, <3>3, EndedStays
    <3> QED
      BY <1>1, <2>2, <3>1, <3>2, <3>4
  <2> QED
    BY <2>1, <2>2
<1>10. \A s \in Conns : conn'[s] # "none" => kind = "server"
  BY <1>3
<1> QED
  BY <1>0, <1>7, <1>8, <1>9, <1>10 DEF Connecting, Ended, SocketIn, At, Lasting, linkVars

LEMMA ConnectingDown == ASSUME Types, Sides, Connecting, ServerDown PROVE Connecting'
<1>0. /\ UNCHANGED <<kind, linkVars, s2c, cUp, promise, sockets, unheeded>> /\ downs # 0
      /\ conn' = [s \in Conns |-> IF conn[s] = "none" THEN "none" ELSE "closed"]
  BY DEF ServerDown, clientVars, Sides
<1>1. \A s \in Conns : (conn[s] = "none" => conn'[s] = "none") /\ (conn[s] # "none" => conn'[s] = "closed")
  BY <1>0
<1> QED
  BY <1>0, <1>1 DEF Connecting, At, linkVars

LEMMA ConnectingLink == ASSUME Types, Sides, Connecting, LinkUp \/ LinkDown PROVE Connecting'
<1>0. /\ UNCHANGED <<kind, conn, cUp, promise, sockets, unheeded>> /\ downs' # 0
      /\ s2c' = s2c \/ s2c' \in Cut(s2c)
      /\ s2c \in Seq(Message)
  BY StillUp DEF LinkUp, LinkDown, clientVars, serverVars, nativeVars, Types, TypeOK, Next
<1>1. \A i \in 1 .. Len(s2c') : s2c'[i] = s2c[i] /\ i \in 1 .. Len(s2c)
  BY <1>0, InCut
<1>2. (link' = "down" /\ cUp) \/ (sockets = {} /\ promise \notin {"asked", "held"})
  BY DEF LinkUp, LinkDown, Connecting, Sides
<1> QED
  BY <1>0, <1>1, <1>2 DEF Connecting, At

LEMMA ConnectingNext ==
    ASSUME Types, Sides, Waits, Bound, Ordered, Registers, Connecting, Closing, [Next]_vars
    PROVE  Connecting'
<1>1. CASE ServerReceive \/ DisposeTimer \/ ServerUp \/ \E e \in Events : NativeStep(e)
  <2>1. ServerNext
    BY <1>1 DEF ServerNext
  <2>2. UNCHANGED <<kind, sockets, unheeded, cUp, promise, linkVars>>
    BY <2>1, ServerShape DEF clientVars
  <2> QED
    BY <1>1, <2>2, ServerSpeaks, ConnectingSpeaks
<1>2. CASE \E s \in Conns : Connects(s) \/ ConnEnding(s) \/ ConnStep(s)
  <2>1. ServerNext
    BY <1>2 DEF ServerNext
  <2> QED
    BY <1>2, <2>1, ConnectingConnects, ConnectingConnEnding, ConnectingConnStep
<1>3. CASE ServerNext
  BY <1>1, <1>2, <1>3, ConnectingDown DEF ServerNext
<1>4. CASE UNCHANGED vars
  BY <1>4 DEF vars, linkVars, clientVars, serverVars, nativeVars, Connecting, Lasting, Ended, SocketIn, At
<1> QED
  BY <1>3, <1>4, ConnectingReceive, ConnectingQuiet, ConnectingLink DEF Next

-----------------------------------------------------------------------------
(* The end of a server.                                                    *)

LEMMA ClosingInit == Init => Closing
<1> SUFFICES ASSUME Init PROVE Closing
  OBVIOUS
<1>1. /\ Len(s2c) = 0 /\ pending = {"make"} /\ promise = "asked"
  BY DEF Init
<1>2. \A i \in 1 .. Len(s2c) : FALSE
  BY <1>1
<1> QED
  BY <1>1, <1>2 DEF Closing

\* The client calls dispose() only when it takes a "done".
LEMMA DisposeAsked ==
    ASSUME Types, Waits, ClientNext, "dispose" \in pending'
    PROVE  "dispose" \in pending \/ DoneHeard(Head(s2c))
<1>0. kind \in AllKinds /\ queued \in Seq(Calls)
  BY KindsAssumption DEF Types, TypeOK
<1>1. CASE ClientReceive
  <2> DEFINE m == Head(s2c)
  <2>0. ClientDiscard \/ ClientTakes(m)
    BY <1>1 DEF ClientReceive
  <2>1. DoneHeard(m) => DoneHeard(Head(s2c))
    OBVIOUS
  <2> HIDE DEF m
  <2>2. CASE Made(m)
    <3>1. pending' = (pending \ {"make"}) \union InFlight(queued) /\ "dispose" \notin InFlight(queued)
      BY <1>0, <2>2, InQueue DEF Made, Waits
    <3> QED
      BY <3>1
  <2>3. CASE ClientDiscard \/ Greet(m) \/ MadeNull(m) \/ Resolved(m) \/ Rejected(m) \/ Unexpected(m) \/ Lost(m) \/ Heard(m)
             \/ Accepted(m) \/ SocketHeard(m)
    <3>1. pending' \subseteq pending
      BY <2>3 DEF ClientDiscard, Greet, MadeNull, Resolved, Rejected, Fails, Unexpected, Lost, Heard, Accepted, SocketHeard,
                  clientVars
    <3> QED
      BY <3>1
  <2> QED
    BY <2>0, <2>1, <2>2, <2>3 DEF ClientTakes
<1>2. ASSUME NEW n \in Calls, UserCall(n) PROVE "dispose" \in pending
  <2>1. n # "dispose" /\ (pending' = pending \/ pending' = pending \union {n})
    BY <1>0, <1>2, CallShape, UserCallTypes
  <2> QED
    BY <2>1
<1>3. CASE (\E n \in Calls : CallTimeout(n)) \/ (\E s \in Conns : SocketCallFails(s)) \/ ClientDown \/ ClientUp
  <2>1. pending' \subseteq pending
    BY <1>3 DEF CallTimeout, Fails, SocketCallFails, ClientDown, CallsLeft, ClientUp
  <2> QED
    BY <2>1
<1> QED
  BY <1>1, <1>2, <1>3 DEF ClientNext

\* The proxy is let go of by the answer of dispose(), or by a drop.
LEMMA LetGoBy ==
    ASSUME Waits, ClientNext, promise' = "gone"
    PROVE  promise = "gone" \/ "dispose" \in pending \/ ClientDown
<1>1. ASSUME NEW n, Fails(n) PROVE promise = "gone" \/ "dispose" \in pending
  BY <1>1 DEF Fails
<1>2. CASE ClientReceive
  <2> DEFINE m == Head(s2c)
  <2>0. ClientDiscard \/ ClientTakes(m)
    BY <1>2 DEF ClientReceive
  <2> HIDE DEF m
  <2>1. CASE Made(m)
    BY <2>1 DEF Made
  <2>2. CASE Resolved(m)
    BY <2>2 DEF Resolved
  <2>3. CASE Rejected(m)
    BY <1>1, <2>3 DEF Rejected
  <2>4. CASE ClientDiscard \/ Greet(m) \/ MadeNull(m) \/ Unexpected(m) \/ Lost(m) \/ Heard(m) \/ DoneHeard(m) \/ Accepted(m)
             \/ SocketHeard(m)
    BY <2>4 DEF ClientDiscard, Greet, MadeNull, Unexpected, Lost, Heard, DoneHeard, Accepted, SocketHeard, clientVars
  <2> QED
    BY <2>0, <2>1, <2>2, <2>3, <2>4 DEF ClientTakes
<1>3. CASE \E n \in Calls : UserCall(n)
  BY <1>3 DEF UserCall
<1>4. CASE \E n \in Calls : CallTimeout(n)
  BY <1>1, <1>4 DEF CallTimeout
<1>5. CASE (\E s \in Conns : SocketCallFails(s)) \/ ClientUp
  BY <1>5 DEF SocketCallFails, ClientUp
<1> QED
  BY <1>2, <1>3, <1>4, <1>5 DEF ClientNext

\* The client's steps: what it takes, it takes in order.
LEMMA ClosingClient ==
    ASSUME Types, Sides, Waits, Closing, ClientNext, kind = "server"
    PROVE  Closing'
<1>0. UNCHANGED <<kind, phase, linkVars>> /\ s2c \in Seq(Message)
  BY ClientShape DEF serverVars, nativeVars, Types, TypeOK
<1>1. \/ s2c' = s2c
      \/ /\ s2c # <<>> /\ s2c' = Tail(s2c)
         /\ Len(s2c) \in Nat /\ Len(s2c') = Len(s2c) - 1 /\ Head(s2c) = s2c[1]
         /\ \A i \in 1 .. Len(s2c') : s2c'[i] = s2c[i + 1] /\ i + 1 \in 1 .. Len(s2c)
  <2>1. s2c' = s2c \/ (s2c # <<>> /\ s2c' = Tail(s2c))
    BY ReceiptShape, QuietShape
  <2> QED
    BY <1>0, <2>1, TailAt
<1>2. ASSUME NEW i \in 1 .. Len(s2c'), s2c'[i].is = "done"
      PROVE  phase = "closed" /\ \A j \in i + 1 .. Len(s2c') : s2c'[j].is # "connection"
  <2>1. CASE s2c' = s2c
    BY <1>2, <2>1 DEF Closing
  <2>2. CASE s2c' # s2c
    <3>1. s2c[i + 1].is = "done" /\ i + 1 \in 1 .. Len(s2c)
      BY <1>1, <1>2, <2>2
    <3>2. phase = "closed" /\ \A j \in (i + 1) + 1 .. Len(s2c) : s2c[j].is # "connection"
      BY <3>1 DEF Closing
    <3>3. ASSUME NEW j \in i + 1 .. Len(s2c') PROVE s2c'[j].is # "connection"
      <4>1. j \in 1 .. Len(s2c') /\ j + 1 \in (i + 1) + 1 .. Len(s2c)
        BY <1>1, <2>2
      <4> QED
        BY <1>1, <2>2, <3>2, <4>1
    <3> QED
      BY <3>2, <3>3
  <2> QED
    BY <2>1, <2>2
<1>3. ASSUME Unconnected PROVE Unconnected'
  BY <1>1, <1>3 DEF Unconnected
<1>4. ASSUME DoneHeard(Head(s2c)) PROVE phase = "closed" /\ Unconnected'
  <2>1. /\ s2c # <<>> /\ s2c' = Tail(s2c) /\ Head(s2c).is = "done"
    BY <1>4 DEF DoneHeard, Takes
  <2>2. /\ 1 \in 1 .. Len(s2c) /\ s2c[1].is = "done" /\ Len(s2c) \in Nat /\ Len(s2c') = Len(s2c) - 1
        /\ \A i \in 1 .. Len(s2c') : s2c'[i] = s2c[i + 1] /\ i + 1 \in 1 .. Len(s2c)
    BY <1>0, <2>1, TailAt
  <2>3. phase = "closed" /\ \A j \in 1 + 1 .. Len(s2c) : s2c[j].is # "connection"
    BY <2>2 DEF Closing
  <2>4. ASSUME NEW i \in 1 .. Len(s2c') PROVE s2c'[i].is # "connection"
    <3>1. i + 1 \in 1 + 1 .. Len(s2c)
      BY <2>2
    <3> QED
      BY <2>2, <2>3, <3>1
  <2> QED
    BY <2>3, <2>4 DEF Unconnected
<1>5. "dispose" \in pending' \/ (downs' = 0 /\ promise' = "gone") => phase = "closed" /\ Unconnected'
  <2>1. CASE "dispose" \in pending \/ (downs = 0 /\ promise = "gone")
    BY <1>3, <2>1 DEF Closing
  <2>2. CASE "dispose" \notin pending /\ "dispose" \in pending'
    BY <1>4, <2>2, DisposeAsked
  <2>3. CASE "dispose" \notin pending /\ downs = 0 /\ promise # "gone"
    BY <2>2, <2>3, LetGoBy DEF ClientDown, Sides
  <2> QED
    BY <1>0, <2>1, <2>2, <2>3 DEF linkVars
<1> QED
  BY <1>0, <1>2, <1>5 DEF Closing, Unconnected

\* What the server says: a "done" only when it is closed, and then of no connection.
LEMMA ClosingSpeaks ==
    ASSUME Types, Closing, kind = "server", phase = "closed" => phase' = "closed",
           UNCHANGED <<kind, promise, pending, downs>>,
           NEW ms \in Seq(Message), Send(ms),
           phase = "closed" => \A i \in 1 .. Len(ms) : ms[i].is # "connection",
           \A i \in 1 .. Len(ms) : ms[i].is = "done" =>
               phase' = "closed" /\ \A j \in i + 1 .. Len(ms) : ms[j].is # "connection"
    PROVE  Closing'
<1>0. /\ Len(s2c) \in Nat /\ Len(ms) \in Nat /\ Len(s2c') \in Nat /\ Len(s2c) <= Len(s2c')
      /\ \A i \in 1 .. Len(s2c) : s2c'[i] = s2c[i] /\ i \in 1 .. Len(s2c')
      /\ \A i \in 1 .. Len(s2c') :
             \/ i \in 1 .. Len(s2c)
             \/ i > Len(s2c) /\ i - Len(s2c) \in 1 .. Len(ms) /\ s2c'[i] = ms[i - Len(s2c)]
  BY SentAt
<1>1. ASSUME NEW i \in 1 .. Len(s2c'), s2c'[i].is = "done"
      PROVE  phase' = "closed" /\ \A j \in i + 1 .. Len(s2c') : s2c'[j].is # "connection"
  <2>1. CASE i \in 1 .. Len(s2c)
    <3>1. phase = "closed" /\ \A j \in i + 1 .. Len(s2c) : s2c[j].is # "connection"
      BY <1>0, <1>1, <2>1 DEF Closing
    <3>2. ASSUME NEW j \in i + 1 .. Len(s2c') PROVE s2c'[j].is # "connection"
      <4>1. j \in 1 .. Len(s2c') /\ (j \in 1 .. Len(s2c) => j \in i + 1 .. Len(s2c))
        BY <1>0, <2>1
      <4> QED
        BY <1>0, <3>1, <4>1
    <3> QED
      BY <3>1, <3>2
  <2>2. CASE i \notin 1 .. Len(s2c)
    <3>1. i - Len(s2c) \in 1 .. Len(ms) /\ ms[i - Len(s2c)].is = "done"
      BY <1>0, <1>1, <2>2
    <3>2. phase' = "closed" /\ \A j \in (i - Len(s2c)) + 1 .. Len(ms) : ms[j].is # "connection"
      BY <3>1
    <3>3. ASSUME NEW j \in i + 1 .. Len(s2c') PROVE s2c'[j].is # "connection"
      <4>1. j \in 1 .. Len(s2c') /\ j \notin 1 .. Len(s2c)
        BY <1>0, <2>2
      <4>2. j - Len(s2c) \in 1 .. Len(ms) /\ s2c'[j] = ms[j - Len(s2c)]
        BY <1>0, <4>1
      <4>3. j - Len(s2c) \in (i - Len(s2c)) + 1 .. Len(ms)
        BY <1>0, <3>1, <4>2
      <4> QED
        BY <3>2, <4>2, <4>3
    <3> QED
      BY <3>2, <3>3
  <2> QED
    BY <2>1, <2>2
<1>2. ASSUME phase = "closed", Unconnected PROVE Unconnected'
  BY <1>0, <1>2 DEF Unconnected
<1> QED
  BY <1>1, <1>2 DEF Closing, Unconnected

LEMMA ClosingServer ==
    ASSUME Types, Sides, Waits, Bound, Once, Closing, kind = "server", ServerNext
    PROVE  Closing'
<1>0. UNCHANGED <<kind, promise, pending, downs>>
  BY ServerShape DEF clientVars, linkVars
<1>1. phase = "closed" => phase' = "closed"
  BY ServerPhases
<1>2. CASE ServerReceive \/ DisposeTimer \/ ServerUp
  <2>1. PICK ms \in Seq(Message) :
            Send(ms) /\ \A i \in 1 .. Len(ms) : ms[i].is \notin {"connection", "socket", "done"}
    BY <1>2, QuietSpeaks
  <2> QED
    BY <1>0, <1>1, <2>1, ClosingSpeaks
<1>3. ASSUME NEW r \in Conns, Connects(r) PROVE Closing'
  <2>1. phase = "listening" /\ Send(IF registered THEN <<Msg("connection", r)>> ELSE <<>>)
    BY <1>3 DEF Connects
  <2>2. PICK ms \in Seq(Message) : /\ Send(ms)
                                   /\ registered => Len(ms) = 1
                                   /\ \A i \in 1 .. Len(ms) : ms[i].is = "connection" /\ ms[i].of = r
    BY <2>1, SocketSends
  <2> QED
    BY <1>0, <1>1, <2>1, <2>2, ClosingSpeaks
<1>4. ASSUME NEW r \in Conns, ConnStep(r) PROVE Closing'
  <2>1. Send(IF registered THEN <<Msg("socket", r)>> ELSE <<>>)
    BY <1>4 DEF ConnStep
  <2>2. PICK ms \in Seq(Message) : /\ Send(ms)
                                   /\ registered => Len(ms) = 1
                                   /\ \A i \in 1 .. Len(ms) : ms[i].is = "socket" /\ ms[i].of = r
    BY <2>1, SocketSends
  <2> QED
    BY <1>0, <1>1, <2>2, ClosingSpeaks
<1>5. CASE ServerDown \/ \E r \in Conns : ConnEnding(r)
  <2>1. phase' = phase /\ s2c' = s2c
    BY <1>5 DEF ServerDown, ConnEnding
  <2> QED
    BY <1>0, <2>1 DEF Closing, Unconnected
<1>6. ASSUME NEW e \in Events, NativeStep(e) PROVE Closing'
  <2>1. PICK ms \in Seq(Message) :
            /\ Send(ms) /\ Len(ms) \in {1, 2}
            /\ \A i \in 1 .. Len(ms) : \/ i = 1 /\ ms[i].is = "event"
                                       \/ i = 2 /\ ms[i].is = "done" /\ e \in Done(kind)
    BY <1>6, NativeSpeaks
  <2>2. e \in Done(kind) => phase' = "closed"
    <3>1. e \in Done(kind) => e = "close"
      BY DEF Done
    <3>2. <<phase, e, phase'>> \in Steps("server")
      BY <1>6 DEF NativeStep
    <3> QED
      BY <3>1, <3>2, ServerSteps
  <2>3. \A i \in 1 .. Len(ms) : ms[i].is # "connection" /\ (ms[i].is = "done" => phase' = "closed")
    BY <2>1, <2>2
  <2> QED
    BY <1>0, <1>1, <2>1, <2>3, ClosingSpeaks
<1> QED
  BY <1>2, <1>3, <1>4, <1>5, <1>6 DEF ServerNext

LEMMA ClosingNext ==
    ASSUME Types, Sides, Waits, Bound, Once, Closing, [Next]_vars
    PROVE  Closing'
<1>0. kind' = kind
  BY ClientShape, ServerShape DEF Next, LinkUp, LinkDown, vars
<1>1. CASE kind # "server"
  BY <1>0, <1>1 DEF Closing
<1>2. CASE kind = "server" /\ (LinkUp \/ LinkDown)
  <2>1. /\ UNCHANGED <<phase, promise, pending>> /\ (downs' = 0 => downs = 0)
        /\ s2c' = s2c \/ s2c' \in Cut(s2c)
        /\ s2c \in Seq(Message)
    BY <1>2, StillUp DEF LinkUp, LinkDown, clientVars, serverVars, nativeVars, Types, TypeOK, Next
  <2>2. /\ \A i \in 1 .. Len(s2c') : s2c'[i] = s2c[i] /\ i \in 1 .. Len(s2c)
        /\ Len(s2c') \in Nat /\ Len(s2c) \in Nat /\ Len(s2c') <= Len(s2c)
    BY <2>1, InCut
  <2>3. ASSUME NEW i \in 1 .. Len(s2c'), s2c'[i].is = "done"
        PROVE  phase = "closed" /\ \A j \in i + 1 .. Len(s2c') : s2c'[j].is # "connection"
    <3>1. phase = "closed" /\ \A j \in i + 1 .. Len(s2c) : s2c[j].is # "connection"
      BY <1>2, <2>2, <2>3 DEF Closing
    <3>2. \A j \in i + 1 .. Len(s2c') : j \in 1 .. Len(s2c') /\ j \in i + 1 .. Len(s2c)
      BY <2>2
    <3> QED
      BY <2>2, <3>1, <3>2
  <2>4. Unconnected => Unconnected'
    BY <2>2 DEF Unconnected
  <2> QED
    BY <1>0, <1>2, <2>1, <2>3, <2>4 DEF Closing, Unconnected
<1>3. CASE UNCHANGED vars
  BY <1>3 DEF vars, linkVars, clientVars, serverVars, nativeVars, Closing, Unconnected
<1> QED
  BY <1>1, <1>2, <1>3, ClosingClient, ClosingServer DEF Next

-----------------------------------------------------------------------------
(* The theorem.                                                            *)

CInv == IInv /\ Registers /\ Connecting /\ Closing

LEMMA CountingInit == Init => CInv
BY DeliveryInit, RegistersInit, ConnectingInit, ClosingInit DEF CInv

LEMMA CountingNext == CInv /\ [Next]_vars => CInv'
<1> SUFFICES ASSUME CInv, [Next]_vars PROVE CInv'
  OBVIOUS
<1>0. /\ Types /\ Sides /\ Waits /\ Bound /\ Ordered /\ Once /\ IInv
      /\ Registers /\ Connecting /\ Closing
  BY DEF CInv, IInv
<1>1. IInv'
  BY <1>0, DeliveryNext
<1>2. Registers' /\ Connecting' /\ Closing'
  BY <1>0, RegistersNext, ConnectingNext, ClosingNext
<1> QED
  BY <1>1, <1>2 DEF CInv

\* The inductive invariant: with that of DeliveryProofs, a server's callback is
\* registered before it listens, the sockets a client counts are the server's
\* connections but for what is on its way, and a server accepts nothing more once it
\* is done.
THEOREM Counting == Spec => []CInv
<1> QED
  BY CountingInit, CountingNext, PTL DEF Spec

\* What net.ts keeps for connections and getConnections(): until a drop, while its
\* proxy is held and after it was let go of, a connection that has emitted no end is
\* counted, or its Socket failed, or it is on its way; and ever, one that is counted
\* is such a connection, or its end is on its way, or the client is about to learn of
\* a drop.
THEOREM FillsConnectionsAgree == Spec => []ConnectionsAgree
<1>1. ASSUME CInv PROVE ConnectionsAgree
  <2>0. Connecting /\ s2c \in Seq(Message) /\ sockets \subseteq Conns
    BY <1>1 DEF CInv, IInv, Types, TypeOK
  <2>1. ASSUME NEW i \in 1 .. Len(s2c), NEW is, NEW s, At(s2c, i, is, s) PROVE On(is, s)
    <3>1. s2c[i] \in InFlight(s2c)
      BY <2>0, InQueue
    <3> QED
      BY <2>1, <3>1 DEF At, On
  <2>2. ASSUME downs = 0, promise \in {"held", "gone"}, NEW s \in Lasting
        PROVE  s \in sockets \union unheeded \/ On("connection", s)
    <3>1. s \in Conns
      BY DEF Lasting
    <3>2. s \in sockets \union unheeded \/ \E i \in 1 .. Len(s2c) : At(s2c, i, "connection", s)
      BY <2>0, <2>2, <3>1 DEF Connecting
    <3> QED
      BY <2>1, <3>2
  <2>3. ASSUME NEW s \in sockets PROVE s \in Lasting \/ On("socket", s) \/ (link = "down" /\ cUp)
    <3>1. CASE downs = 0 /\ s \notin Lasting
      <4>1. Ended(s2c, sockets, s, Len(s2c))
        BY <2>0, <2>3, <3>1 DEF Connecting
      <4>2. PICK j \in 0 + 1 .. Len(s2c) : At(s2c, j, "socket", s)
        BY <2>3, <4>1 DEF Ended, SocketIn
      <4> QED
        BY <2>1, <4>2
    <3>2. CASE downs # 0
      BY <2>0, <2>3, <3>2 DEF Connecting
    <3> QED
      BY <3>1, <3>2
  <2> QED
    BY <2>2, <2>3 DEF ConnectionsAgree
<1> QED
  BY <1>1, Counting, PTL

=============================================================================
