-------------------------- MODULE NodeBrowserProofs --------------------------
(***************************************************************************)
(* Proofs about NodeBrowser.tla, for every set of clients and every bound. *)
(***************************************************************************)
EXTENDS NodeBrowser, FiniteSetTheorems, TLAPS

-----------------------------------------------------------------------------
(* Queues.                                                                 *)

\* What a receive leaves is what was behind the head.
LEMMA TailOfQueue ==
    ASSUME NEW S, NEW q \in Seq(S), q # <<>>
    PROVE  /\ Tail(q) \in Seq(S)
           /\ Head(q) \in S
           /\ Head(q) \in InFlight(q)
           /\ InFlight(Tail(q)) \subseteq InFlight(q)
  <1>1. Len(q) \in Nat \ {0} /\ Tail(q) \in Seq(S) /\ Len(Tail(q)) = Len(q) - 1
    OBVIOUS
  <1>2. \A i \in 1 .. Len(q) - 1 : Tail(q)[i] = q[i + 1]
    OBVIOUS
  <1>3. Head(q) = q[1] /\ 1 \in 1 .. Len(q) /\ q[1] \in S
    BY <1>1
  <1> QED
    BY <1>1, <1>2, <1>3 DEF InFlight

\* What a send puts in a queue is what was there and what was sent.
LEMMA DeliverToQueue ==
    ASSUME NEW S, NEW q \in Seq(S), NEW ms \in Seq(S)
    PROVE  /\ Deliver(q, ms) \in Seq(S)
           /\ InFlight(Deliver(q, ms)) \subseteq InFlight(q) \union InFlight(ms)
  <1>1. q \o ms \in Seq(S) /\ Len(q \o ms) = Len(q) + Len(ms)
    OBVIOUS
  <1>2. ASSUME NEW i \in 1 .. Len(q \o ms)
        PROVE  (q \o ms)[i] \in InFlight(q) \union InFlight(ms)
    <2>1. CASE i <= Len(q)
      BY <1>1, <2>1 DEF InFlight
    <2>2. CASE i > Len(q)
      <3>1. i - Len(q) \in 1 .. Len(ms) /\ (q \o ms)[i] = ms[i - Len(q)]
        BY <1>1, <2>2
      <3> QED
        BY <3>1 DEF InFlight
    <2> QED
      BY <1>1, <2>1, <2>2
  <1>3. InFlight(q \o ms) \subseteq InFlight(q) \union InFlight(ms)
    BY <1>2 DEF InFlight
  <1> QED
    BY <1>1, <1>3 DEF Deliver

\* A drop only takes messages away.
LEMMA CutOfQueue ==
    ASSUME NEW S, NEW q \in Seq(S), NEW r \in Cut(q)
    PROVE  r \in Seq(S) /\ InFlight(r) \subseteq InFlight(q)
  <1>1. PICK n \in 0 .. Len(q) : r = SubSeq(q, 1, n)
    BY DEF Cut
  <1>2. r \in Seq(S) /\ Len(r) = n /\ \A i \in 1 .. n : r[i] = q[i]
    BY <1>1
  <1> QED
    BY <1>2 DEF InFlight

-----------------------------------------------------------------------------
(* The inductive invariant, in one part per group of variables.            *)

Message == Reply \union Notice

\* The proxies the server stores.  Beside types and Lifecycle: only a proxy that
\* is done has a timeout armed, so a timeout never starts a disposal that waits;
\* what is bound is stored; what waits, and only that, is being disposed.
StoreInv ==
    /\ nextProxy \in 0 .. MaxProxies
    /\ owner \in [ProxyId -> Maker \union {Nobody}]
    /\ kind \in [ProxyId -> {"none", "stream", "process"}]
    /\ store \in [ProxyId -> {"unborn", "stored", "disposing", "removed"}]
    /\ {bound, gone, waiting, done} \subseteq SUBSET ProxyId
    /\ timers \in [ProxyId -> Nat]
    /\ native \in [ProxyId -> {"none", "live", "exited", "closed"}]
    /\ \A p \in ProxyId : timers[p] > 0 => p \in done
    /\ \A p \in waiting : store[p] = "disposing"
    /\ DoneHandlerSafe
    /\ DisposalCompletes
    /\ Lifecycle

\* The messages in flight: a "done" and a dispose() are of proxies that are done.
QueueInv ==
    /\ c2s \in Seq(Call)
    /\ s2c \in [Clients -> Seq(Message)]
    /\ \A c \in Clients : \A m \in InFlight(s2c[c]) :
           m.type = "event" /\ m.event = "done" => m.proxy \in done
    /\ \A m \in InFlight(c2s) : m.method = "dispose" => m.proxy \in done

RunInv ==
    /\ sStatus \in Status
    /\ tied \in BOOLEAN
    /\ {runs, stale} \subseteq SUBSET Call
    /\ leaked \subseteq Maker

LinkInv == link \in {"up", "down", "closed"} /\ downs \in 0 .. MaxDowns

Inv == StoreInv /\ QueueInv /\ RunInv /\ LinkInv /\ ClientTypeOK

\* The invariants that the runs check follow from its parts.
THEOREM InvImplies == Inv => TypeOK /\ DoneChain /\ Lifecycle /\ DoneHandlerSafe /\ DisposalCompletes
  BY DEF Inv, StoreInv, QueueInv, RunInv, LinkInv, TypeOK, LinkTypeOK, ServerTypeOK, DoneChain, Message

\* The invariant holds at the start: nothing is stored and nothing is in flight.
LEMMA InvInit == Init => Inv
  <1> SUFFICES ASSUME Init PROVE Inv
    OBVIOUS
  <1> USE DEF Init, LinkInit, ServerInit, ClientInit
  <1>1. StoreInv
    BY ProxiesAssumption DEF StoreInv, DoneHandlerSafe, DisposalCompletes, Lifecycle, ProxyId
  <1>2. QueueInv
    BY DEF QueueInv, InFlight
  <1>3. RunInv
    BY DEF RunInv, Status
  <1>4. LinkInv
    BY DownsAssumption DEF LinkInv
  <1>5. ClientTypeOK
    BY DEF ClientTypeOK, Status
  <1> QED
    BY <1>1, <1>2, <1>3, <1>4, <1>5 DEF Inv

-----------------------------------------------------------------------------
(* Steps that leave a part alone, or touch the queues alone.               *)

\* A step that leaves the proxies alone keeps what holds of them.
LEMMA StoreUnchanged ==
    ASSUME StoreInv, UNCHANGED <<nextProxy, storeVars>>
    PROVE  StoreInv'
  BY DEF StoreInv, storeVars, DoneHandlerSafe, DisposalCompletes, Lifecycle

\* A step that leaves the methods and the server's status alone keeps their types.
LEMMA RunUnchanged ==
    ASSUME RunInv, UNCHANGED <<sStatus, tied, runVars, leaked>>
    PROVE  RunInv'
  BY DEF RunInv, runVars

\* A step of the server or of the link keeps the clients' types.
LEMMA ClientUnchanged ==
    ASSUME ClientTypeOK, UNCHANGED clientVars
    PROVE  ClientTypeOK'
  BY DEF ClientTypeOK, clientVars

\* Sending and receiving keep QueueInv when what is sent keeps it.
LEMMA ServerSends ==
    ASSUME QueueInv, done \subseteq done', NEW ms \in Seq(Message), Send(ms),
           \A m \in InFlight(ms) : m.type = "event" /\ m.event = "done" => m.proxy \in done',
           UNCHANGED c2s \/ Take
    PROVE  QueueInv'
  <1> USE DEF QueueInv
  <1>1. c2s' \in Seq(Call) /\ InFlight(c2s') \subseteq InFlight(c2s)
    <2>1. CASE UNCHANGED c2s
      BY <2>1
    <2>2. CASE Take
      BY <2>2, TailOfQueue DEF Take
    <2> QED
      BY <2>1, <2>2
  <1>2. ASSUME NEW c \in Clients
        PROVE  s2c'[c] \in Seq(Message) /\ InFlight(s2c'[c]) \subseteq InFlight(s2c[c]) \union InFlight(ms)
    BY DeliverToQueue DEF Send
  <1>3. s2c' \in [Clients -> Seq(Message)]
    BY <1>2, DeliverToQueue DEF Send
  <1> QED
    BY <1>1, <1>2, <1>3

\* A receive that sends nothing only shortens the server's queue.
LEMMA ServerReceivesOnly ==
    ASSUME QueueInv, done \subseteq done', UNCHANGED s2c, UNCHANGED c2s \/ Take
    PROVE  QueueInv'
  <1> USE DEF QueueInv
  <1>1. c2s' \in Seq(Call) /\ InFlight(c2s') \subseteq InFlight(c2s)
    <2>1. CASE UNCHANGED c2s
      BY <2>1
    <2>2. CASE Take
      BY <2>2, TailOfQueue DEF Take
    <2> QED
      BY <2>1, <2>2
  <1> QED
    BY <1>1

\* A client that receives shortens its own queue, and keeps QueueInv when it sends
\* no dispose() but of proxies that are done.
LEMMA ClientTakes ==
    ASSUME QueueInv, UNCHANGED done, NEW c \in Clients, TakeReply(c),
           c2s' \in Seq(Call),
           \A m \in InFlight(c2s') : m.method = "dispose" => m.proxy \in done
    PROVE  QueueInv'
  <1> USE DEF QueueInv
  <1>1. s2c' = [s2c EXCEPT ![c] = Tail(@)] /\ s2c[c] # <<>>
    BY DEF TakeReply
  <1>2. ASSUME NEW d \in Clients
        PROVE  s2c'[d] \in Seq(Message) /\ InFlight(s2c'[d]) \subseteq InFlight(s2c[d])
    BY <1>1, TailOfQueue
  <1>3. s2c' \in [Clients -> Seq(Message)]
    BY <1>1, <1>2
  <1> QED
    BY <1>2, <1>3

-----------------------------------------------------------------------------
(* Steps of the store.                                                     *)

\* What Remove does to types, whoever calls it.
LEMMA RemoveTypes ==
    ASSUME StoreInv, NEW P \in SUBSET ProxyId, NEW disconnect \in BOOLEAN,
           NEW armed \in [ProxyId -> Nat], Remove(P, disconnect, armed)
    PROVE  /\ store' \in [ProxyId -> {"unborn", "stored", "disposing", "removed"}]
           /\ {bound', gone', waiting', done'} \subseteq SUBSET ProxyId
           /\ timers' \in [ProxyId -> Nat]
           /\ native' \in [ProxyId -> {"none", "live", "exited", "closed"}]
           /\ UNCHANGED <<owner, kind, done>>
           /\ \A p \in ProxyId : timers'[p] <= armed[p]
  <1> USE DEF StoreInv, Remove
  <1>1. store' \in [ProxyId -> {"unborn", "stored", "disposing", "removed"}]
    OBVIOUS
  <1>2. {bound', gone', waiting', done'} \subseteq SUBSET ProxyId
    BY DEF Silenced, Unlistened, Ended, Reaped, Starting
  <1>3. timers' \in [ProxyId -> Nat] /\ \A p \in ProxyId : timers'[p] <= armed[p]
    OBVIOUS
  <1>4. native' \in [ProxyId -> {"none", "live", "exited", "closed"}]
    OBVIOUS
  <1> QED
    BY <1>1, <1>2, <1>3, <1>4

\* Removing proxies that are done, without a disconnect, waits for none of them.
LEMMA RemoveDone ==
    ASSUME StoreInv, NEW P \in SUBSET ProxyId, P \subseteq done, UNCHANGED nextProxy,
           NEW armed \in [ProxyId -> Nat], \A p \in ProxyId : armed[p] > 0 => p \in done,
           Remove(P, FALSE, armed)
    PROVE  StoreInv' /\ UNCHANGED done
  <1>1. Reaped(P) = {} /\ Ended(P) = {p \in P : store[p] = "stored"}
    BY DEF Reaped, Ended, Starting
  <1>2. Silenced(P, FALSE) = {} /\ Unlistened(P, FALSE) = {}
    BY DEF Silenced, Unlistened
  <1>3. /\ store' = [p \in ProxyId |-> IF p \in P /\ store[p] = "stored" THEN "removed" ELSE store[p]]
        /\ gone' = gone /\ waiting' = waiting
        /\ bound' = bound \ {p \in P : store[p] = "stored"}
    BY <1>1, <1>2 DEF Remove, StoreInv
  <1>4. \A p \in ProxyId : timers'[p] > 0 => p \in done'
    <2>1. /\ timers' \in [ProxyId -> Nat] /\ UNCHANGED done
          /\ \A p \in ProxyId : timers'[p] <= armed[p]
      BY RemoveTypes
    <2> QED
      BY <2>1
  <1>5. DoneHandlerSafe' /\ DisposalCompletes' /\ \A p \in waiting' : store'[p] = "disposing"
    BY <1>3 DEF StoreInv, DoneHandlerSafe, DisposalCompletes
  <1>6. Lifecycle'
    BY <1>3, RemoveTypes DEF StoreInv, Lifecycle
  <1> QED
    BY <1>4, <1>5, <1>6, RemoveTypes DEF StoreInv

\* A disconnect silences everything that is bound, and gives every process it has
\* to wait for its listener; those that already wait keep theirs.
LEMMA RemoveAll ==
    ASSUME StoreInv, UNCHANGED nextProxy, Remove(ProxyId, TRUE, timers)
    PROVE  StoreInv' /\ UNCHANGED done
  <1>1. Silenced(ProxyId, TRUE) = {p \in ProxyId : store[p] \in {"stored", "disposing"}} \ gone
    BY DEF Silenced
  <1>2. Unlistened(ProxyId, TRUE) = Silenced(ProxyId, TRUE)
    BY DEF Unlistened
  <1>3. \A p \in ProxyId : store'[p] = "disposing" => p \in waiting' /\ p \in gone'
    BY <1>1, <1>2 DEF Remove, StoreInv, DisposalCompletes, Lifecycle, Reaped, Ended, Starting
  <1>4. bound' = {}
    BY <1>1, <1>2 DEF Remove, StoreInv, DoneHandlerSafe, Lifecycle
  <1>5. \A p \in gone' : store'[p] \in {"disposing", "removed"}
    BY <1>1 DEF Remove, StoreInv, Lifecycle, Reaped, Ended, Starting
  <1>6. \A p \in ProxyId : store'[p] = "unborn" <=> store[p] = "unborn"
    BY DEF Remove, StoreInv, Reaped, Ended, Starting
  <1>7. \A p \in ProxyId : timers'[p] > 0 => p \in done'
    <2>1. timers \in [ProxyId -> Nat] /\ \A p \in ProxyId : timers[p] > 0 => p \in done
      BY DEF StoreInv
    <2>2. /\ timers' \in [ProxyId -> Nat] /\ UNCHANGED done
          /\ \A p \in ProxyId : timers'[p] <= timers[p]
      BY <2>1, RemoveTypes
    <2> QED
      BY <2>1, <2>2
  <1>8. Lifecycle'
    BY <1>3, <1>4, <1>5, <1>6, RemoveTypes DEF StoreInv, Lifecycle
  <1>9. DoneHandlerSafe' /\ DisposalCompletes'
    BY <1>3, <1>4 DEF DoneHandlerSafe, DisposalCompletes
  <1>10. \A p \in waiting' : store'[p] = "disposing"
    BY <1>1, <1>2 DEF Remove, StoreInv, Reaped, Ended, Starting
  <1> QED
    BY <1>7, <1>8, <1>9, <1>10, RemoveTypes DEF StoreInv

\* A done event ends the wait of a disposal, and arms a timeout only for a proxy
\* that is now done.
LEMMA DoneFiresKeeps ==
    ASSUME StoreInv, QueueInv, NEW p \in ProxyId, NEW e \in EndEvents, DoneFires(p, e),
           native' \in [ProxyId -> {"none", "live", "exited", "closed"}]
    PROVE  StoreInv' /\ QueueInv'
  <1> USE DEF DoneFires
  <1>1. done' = done \union {p} /\ done \subseteq done'
    BY DEF Ends
  <1>2. StoreInv'
    <2>1. /\ timers' \in [ProxyId -> Nat]
          /\ \A q \in ProxyId : timers'[q] > 0 => q \in done'
      BY <1>1 DEF StoreInv, Armed
    <2>2. /\ store' \in [ProxyId -> {"unborn", "stored", "disposing", "removed"}]
          /\ {bound', gone', waiting', done'} \subseteq SUBSET ProxyId
          /\ UNCHANGED <<nextProxy, owner, kind, gone>>
      BY <1>1 DEF StoreInv
    <2>3. /\ DoneHandlerSafe' /\ DisposalCompletes'
          /\ \A q \in waiting' : store'[q] = "disposing"
      BY DEF StoreInv, DoneHandlerSafe, DisposalCompletes
    <2>4. CASE p \notin waiting
      <3>1. UNCHANGED <<store, bound>>
        BY <2>4
      <3> QED
        BY <2>1, <2>2, <2>3, <3>1 DEF StoreInv, Lifecycle
    <2>5. CASE p \in waiting
      <3>1. store' = [store EXCEPT ![p] = "removed"] /\ bound' = bound \ {p}
        BY <2>5
      <3>2. store[p] = "disposing"
        BY <2>5 DEF StoreInv
      <3> QED
        BY <2>1, <2>2, <2>3, <3>1, <3>2 DEF StoreInv, Lifecycle
    <2> QED
      BY <2>4, <2>5
  <1>3. QueueInv'
    <2> DEFINE ms == DoneMessages(p, e)
    <2>1. CASE p \notin bound
      <3>1. ms = <<>>
        BY <2>1 DEF DoneMessages
      <3>2. ms \in Seq(Message) /\ InFlight(ms) = {}
        BY <3>1 DEF InFlight
      <3> QED
        BY <1>1, <3>2, ServerSends
    <2>2. CASE p \in bound
      <3>1. owner[p].client \in Clients
        BY <2>2 DEF StoreInv, DoneHandlerSafe, Lifecycle, Maker
      <3>2. /\ Event(owner[p].client, p, e) \in Message
            /\ Event(owner[p].client, p, "done") \in Message
        BY <3>1 DEF Event, Message, Notice, Events, EndEvents
      <3>3. ms \in Seq(Message)
        BY <2>2, <3>2 DEF DoneMessages
      <3>4. \A m \in InFlight(ms) : m.type = "event" => m.proxy = p
        BY <2>2 DEF DoneMessages, InFlight, Event
      <3> QED
        BY <1>1, <3>3, <3>4, ServerSends
    <2> QED
      BY <2>1, <2>2
  <1> QED
    BY <1>2, <1>3

\* Proxies take the numbers that come next, which nothing has used yet.
LEMMA StoreMadeKeeps ==
    ASSUME StoreInv, NEW m \in Call, NEW size \in {1, 2}, Made(size) \subseteq ProxyId,
           StoreMade(m, Made(size))
    PROVE  StoreInv' /\ UNCHANGED done
  <1> DEFINE new == Made(size)
  <1>1. nextProxy \in Nat /\ new = nextProxy .. nextProxy + size - 1
    BY ProxiesAssumption DEF StoreInv, Made
  <1>2. Cardinality(new) = size
    <2> DEFINE last == nextProxy + size - 1
    <2>1. nextProxy \in Int /\ last \in Int /\ ~(nextProxy > last) /\ last - nextProxy + 1 = size
      BY <1>1
    <2>2. Cardinality(nextProxy .. last) = last - nextProxy + 1
      <3> HIDE DEF last
      <3> QED
        BY <2>1, FS_Interval
    <2> QED
      BY <1>1, <2>1, <2>2
  <1>3. nextProxy' = nextProxy + size
    BY <1>2 DEF StoreMade, Numbered
  <1>4. nextProxy' \in 0 .. MaxProxies
    <2>1. nextProxy + size - 1 \in new
      BY <1>1
    <2> QED
      BY <1>1, <1>3, <2>1, ProxiesAssumption DEF ProxyId
  <1>5. \A p \in new : store[p] = "unborn" /\ p \notin gone /\ p \notin waiting
    BY <1>1 DEF StoreInv, Lifecycle
  <1>6. /\ owner' \in [ProxyId -> Maker \union {Nobody}]
        /\ kind' \in [ProxyId -> {"none", "stream", "process"}]
        /\ store' = [p \in ProxyId |-> IF p \in new THEN "stored" ELSE store[p]]
        /\ native' \in [ProxyId -> {"none", "live", "exited", "closed"}]
        /\ bound' = bound \union new
        /\ UNCHANGED <<gone, waiting, timers, done>>
    BY DEF StoreInv, StoreMade, KindOf, Maker, Call
  <1>7. \A p \in ProxyId : store'[p] = "unborn" <=> p >= nextProxy'
    BY <1>1, <1>3, <1>6 DEF StoreInv, Lifecycle, ProxyId
  <1>8. \A p \in ProxyId : store'[p] # "unborn" => owner'[p] \in Maker
    BY <1>6 DEF StoreInv, Lifecycle, StoreMade, Maker, Call
  <1>9. Lifecycle'
    BY <1>5, <1>6, <1>7, <1>8 DEF StoreInv, Lifecycle
  <1>10. /\ DoneHandlerSafe' /\ DisposalCompletes'
         /\ \A p \in waiting' : store'[p] = "disposing"
    BY <1>5, <1>6 DEF StoreInv, DoneHandlerSafe, DisposalCompletes
  <1> QED
    BY <1>4, <1>6, <1>9, <1>10 DEF StoreInv

-----------------------------------------------------------------------------
(* Steps of the server.                                                    *)

\* Answers are messages, and none of them is an event.
LEMMA AnswersAreMessages ==
    ASSUME NEW m \in Call
    PROVE  /\ <<>> \in Seq(Reply)
           /\ <<Fail(m.client, m.id)>> \in Seq(Reply)
           /\ <<Success(m.client, m.id, {})>> \in Seq(Reply)
           /\ <<Fail(m.client, m.id), Success(m.client, m.id, {})>> \in Seq(Reply)
           /\ \A made \in SUBSET ProxyId : <<Success(m.client, m.id, made)>> \in Seq(Reply)
  <1>1. m.client \in Clients /\ m.id \in Nat
    BY DEF Call
  <1>2. Fail(m.client, m.id) \in Reply
    BY <1>1 DEF Fail, Reply
  <1>3. ASSUME NEW made \in SUBSET ProxyId PROVE Success(m.client, m.id, made) \in Reply
    BY <1>1 DEF Success, Reply
  <1>4. Success(m.client, m.id, {}) \in Reply
    BY <1>3
  <1> QED
    BY <1>2, <1>3, <1>4

\* A step that takes a call or none, and answers or not, keeps QueueInv.
LEMMA ServerAnswers ==
    ASSUME QueueInv, done \subseteq done', NEW ms \in Seq(Reply), Send(ms), UNCHANGED c2s \/ Take
    PROVE  QueueInv'
  <1>1. ms \in Seq(Message)
    BY DEF Message
  <1>2. ASSUME NEW m \in InFlight(ms) PROVE m.type # "event"
    <2>1. m \in Reply
      BY DEF InFlight
    <2> QED
      BY <2>1 DEF Reply
  <1> QED
    BY <1>1, <1>2, ServerSends

\* handleMessage and runMethod, one step per way a call can go, keep the invariant.
LEMMA ServerReceivesKeeps ==
    ASSUME Inv, c2s # <<>>, NEW m \in Call, m = Head(c2s), ServerReceives(m)
    PROVE  StoreInv' /\ QueueInv' /\ RunInv' /\ LinkInv'
  <1> USE DEF Inv, Runs, Arrives
  <1>1. CASE ArgumentFails(m)
    <2>1. Take /\ UNCHANGED <<s2c, link, downs, serverVars>>
      BY <1>1 DEF ArgumentFails
    <2> QED
      BY <2>1, StoreUnchanged, RunUnchanged, ServerReceivesOnly DEF serverVars, storeVars, LinkInv
  <1>2. CASE Refuse(m)
    <2>1. Take /\ UNCHANGED <<link, downs, serverVars>>
      BY <1>2 DEF Refuse
    <2>2. PICK ms \in Seq(Reply) : Send(ms)
      BY <1>2, AnswersAreMessages DEF Refuse
    <2>3. QueueInv'
      BY <2>1, <2>2, ServerAnswers DEF serverVars, storeVars
    <2> QED
      BY <2>1, <2>3, StoreUnchanged, RunUnchanged DEF serverVars, LinkInv
  <1>3. CASE DisposeCall(m)
    <2>1. /\ Take /\ m.method = "dispose" /\ m.proxy \in ProxyId
          /\ UNCHANGED <<link, downs, sStatus, tied, nextProxy, leaked>>
          /\ Remove({m.proxy}, FALSE, timers)
      BY <1>3 DEF DisposeCall
    <2>2. m.proxy \in done
      BY <2>1, TailOfQueue DEF QueueInv
    <2>3. timers \in [ProxyId -> Nat] /\ \A p \in ProxyId : timers[p] > 0 => p \in done
      BY DEF StoreInv
    <2>4. StoreInv' /\ UNCHANGED done
      BY <2>1, <2>2, <2>3, RemoveDone
    <2>5. CASE m.proxy \in Ended({m.proxy})
      <3>1. UNCHANGED runVars
        BY <1>3, <2>5 DEF DisposeCall
      <3>2. PICK ms \in Seq(Reply) : Send(ms)
        BY <1>3, <2>5, AnswersAreMessages DEF DisposeCall, Answer
      <3>3. QueueInv'
        BY <2>1, <2>4, <3>2, ServerAnswers
      <3> QED
        BY <2>1, <2>4, <3>1, <3>3, RunUnchanged DEF LinkInv
    <2>6. CASE m.proxy \notin Ended({m.proxy})
      <3>1. UNCHANGED s2c /\ RunInv'
        BY <1>3, <2>1, <2>6 DEF DisposeCall, RunInv
      <3>2. QueueInv'
        BY <2>1, <2>4, <3>1, ServerReceivesOnly
      <3> QED
        BY <2>1, <2>4, <3>1, <3>2 DEF LinkInv
    <2> QED
      BY <2>5, <2>6
  <1>4. CASE RunAtOnce(m)
    <2>1. Take /\ UNCHANGED <<link, downs, serverVars>>
      BY <1>4 DEF RunAtOnce
    <2>2. PICK ms \in Seq(Reply) : Send(ms)
      BY <1>4, AnswersAreMessages DEF RunAtOnce, Answer
    <2>3. QueueInv'
      BY <2>1, <2>2, ServerAnswers DEF serverVars, storeVars
    <2> QED
      BY <2>1, <2>3, StoreUnchanged, RunUnchanged DEF serverVars, LinkInv
  <1>5. CASE RunLong(m)
    <2>1. Take /\ UNCHANGED <<link, downs, s2c, sStatus, tied, nextProxy, storeVars, leaked>>
      BY <1>5 DEF RunLong
    <2>2. RunInv'
      BY <1>5 DEF RunLong, RunInv
    <2>3. QueueInv'
      BY <2>1, ServerReceivesOnly DEF storeVars
    <2> QED
      BY <2>1, <2>2, <2>3, StoreUnchanged DEF LinkInv
  <1>6. CASE RunMaking(m)
    <2>1. PICK size \in {1, 2} :
              /\ Made(size) \subseteq ProxyId
              /\ StoreMade(m, Made(size))
              /\ Send(<<Success(m.client, m.id, Made(size))>>)
      BY <1>6 DEF RunMaking, Sizes
    <2>2. Take /\ UNCHANGED <<link, downs, sStatus, tied, runVars, leaked>>
      BY <1>6 DEF RunMaking
    <2>3. StoreInv' /\ UNCHANGED done
      BY <2>1, StoreMadeKeeps
    <2>4. QueueInv'
      <3>1. <<Success(m.client, m.id, Made(size))>> \in Seq(Reply)
        BY <2>1, AnswersAreMessages
      <3> QED
        BY <2>1, <2>2, <2>3, <3>1, ServerAnswers
    <2> QED
      BY <2>2, <2>3, <2>4, RunUnchanged DEF LinkInv
  <1>7. CASE RunMakingDiscarded(m)
    <2>1. Take /\ UNCHANGED <<link, downs, s2c, sStatus, tied, nextProxy, storeVars, runVars>>
      BY <1>7 DEF RunMakingDiscarded
    <2>2. RunInv'
      BY <1>7 DEF RunMakingDiscarded, RunInv, runVars, Maker, Call
    <2>3. QueueInv'
      BY <2>1, ServerReceivesOnly DEF storeVars
    <2> QED
      BY <2>1, <2>2, <2>3, StoreUnchanged DEF LinkInv
  <1>8. CASE RunRejects(m)
    <2>1. Take /\ UNCHANGED <<link, downs, serverVars>>
      BY <1>8 DEF RunRejects
    <2>2. PICK ms \in Seq(Reply) : Send(ms)
      BY <1>8, AnswersAreMessages DEF RunRejects, Answer
    <2>3. QueueInv'
      BY <2>1, <2>2, ServerAnswers DEF serverVars, storeVars
    <2> QED
      BY <2>1, <2>3, StoreUnchanged, RunUnchanged DEF serverVars, LinkInv
  <1> QED
    BY <1>1, <1>2, <1>3, <1>4, <1>5, <1>6, <1>7, <1>8 DEF ServerReceives

\* What native objects do keeps the invariant: the done handler arms a timeout and
\* completes the dispose() that waits.
LEMMA NativeStepKeeps ==
    ASSUME Inv, NativeStep
    PROVE  StoreInv' /\ QueueInv' /\ RunInv' /\ LinkInv'
  <1> USE DEF Inv
  <1>1. PICK p \in ProxyId : NativeEnds(p) \/ NativeError(p) \/ NativeCloses(p)
    BY DEF NativeStep
  <1>2. ASSUME NEW e \in EndEvents, DoneFires(p, e),
               native' \in [ProxyId -> {"none", "live", "exited", "closed"}]
        PROVE  StoreInv' /\ QueueInv' /\ RunInv' /\ LinkInv'
    <2>1. StoreInv' /\ QueueInv'
      BY <1>2, DoneFiresKeeps
    <2>2. UNCHANGED <<link, downs, sStatus, tied, runVars, leaked>>
      BY <1>2 DEF DoneFires
    <2> QED
      BY <2>1, <2>2, RunUnchanged DEF LinkInv
  <1>3. CASE NativeEnds(p)
    BY <1>2, <1>3 DEF NativeEnds, StoreInv, EndEvents
  <1>4. CASE NativeError(p)
    BY <1>2, <1>4 DEF NativeError, StoreInv, EndEvents
  <1>5. CASE NativeCloses(p)
    <2>1. UNCHANGED <<link, downs, c2s, sStatus, tied, nextProxy, owner, kind, store, bound,
                      gone, waiting, timers, done, runVars, leaked>>
      BY <1>5 DEF NativeCloses
    <2>2. StoreInv'
      BY <1>5, <2>1 DEF StoreInv, NativeCloses, DoneHandlerSafe, DisposalCompletes, Lifecycle
    <2>3. QueueInv'
      <3> DEFINE ms == IF p \in bound THEN <<Event(owner[p].client, p, "close")>> ELSE <<>>
      <3>1. p \in bound => owner[p].client \in Clients
        BY DEF StoreInv, DoneHandlerSafe, Lifecycle, Maker
      <3>2. p \in bound => Event(owner[p].client, p, "close") \in Message
        BY <3>1 DEF Event, Message, Notice, Events, EndEvents
      <3>3. ms \in Seq(Message)
        BY <3>2
      <3>4. \A m \in InFlight(ms) : m.type = "event" => m.event # "done"
        BY DEF InFlight, Event
      <3> QED
        BY <1>5, <2>1, <3>3, <3>4, ServerSends DEF NativeCloses
    <2> QED
      BY <2>1, <2>2, <2>3, RunUnchanged DEF LinkInv
  <1> QED
    BY <1>1, <1>3, <1>4, <1>5

\* Every step of the server keeps the invariant.
LEMMA ServerKeeps ==
    ASSUME Inv, ServerNext
    PROVE  StoreInv' /\ QueueInv' /\ RunInv' /\ LinkInv'
  <1> USE DEF Inv
  <1>1. CASE Discard
    <2>1. Take /\ UNCHANGED <<link, downs, s2c, serverVars>>
      BY <1>1 DEF Discard
    <2> QED
      BY <2>1, StoreUnchanged, RunUnchanged, ServerReceivesOnly DEF serverVars, storeVars, LinkInv
  <1>2. CASE c2s # <<>> /\ ServerReceives(Head(c2s))
    <2>1. Head(c2s) \in Call
      BY <1>2, TailOfQueue DEF QueueInv
    <2> QED
      BY <1>2, <2>1, ServerReceivesKeeps
  <1>3. ASSUME NEW m \in runs, RunSettles(m)
        PROVE  StoreInv' /\ QueueInv' /\ RunInv' /\ LinkInv'
    <2>1. m \in Call
      BY DEF RunInv
    <2>2. UNCHANGED <<link, downs, c2s, sStatus, tied, nextProxy, storeVars, leaked>>
      BY <1>3 DEF RunSettles
    <2>3. RunInv'
      BY <1>3, <2>2 DEF RunInv, RunSettles
    <2>4. PICK ms \in Seq(Reply) : Send(ms)
      BY <1>3, <2>1, AnswersAreMessages DEF RunSettles
    <2>5. QueueInv'
      BY <2>2, <2>4, ServerAnswers DEF storeVars
    <2> QED
      BY <2>2, <2>3, <2>5, StoreUnchanged DEF LinkInv
  <1>4. ASSUME NEW p \in ProxyId, DisposeTimer(p)
        PROVE  StoreInv' /\ QueueInv' /\ RunInv' /\ LinkInv'
    <2> DEFINE armed == [timers EXCEPT ![p] = @ - 1]
    <2>1. /\ timers[p] > 0
          /\ Remove({p}, FALSE, armed)
          /\ UNCHANGED <<link, downs, c2s, s2c, sStatus, tied, nextProxy, runVars, leaked>>
      BY <1>4 DEF DisposeTimer
    <2>2. armed \in [ProxyId -> Nat] /\ \A q \in ProxyId : armed[q] > 0 => q \in done
      BY <2>1 DEF StoreInv
    <2>3. {p} \subseteq done /\ {p} \in SUBSET ProxyId
      BY <2>1 DEF StoreInv
    <2>4. StoreInv' /\ UNCHANGED done
      <3> HIDE DEF armed
      <3> QED
        BY <2>1, <2>2, <2>3, RemoveDone
    <2> QED
      BY <2>1, <2>4, ServerReceivesOnly, RunUnchanged DEF LinkInv
  <1>5. CASE NativeStep
    BY <1>5, NativeStepKeeps
  <1>6. ASSUME NEW status \in Status, Disconnect(status)
        PROVE  StoreInv' /\ QueueInv' /\ RunInv' /\ LinkInv'
    <2>1. UNCHANGED <<linkVars, nextProxy, runs, leaked>> /\ Remove(ProxyId, TRUE, timers)
      BY <1>6 DEF Disconnect
    <2>2. StoreInv' /\ UNCHANGED done
      BY <2>1, RemoveAll
    <2>3. RunInv'
      BY <1>6, <2>1 DEF RunInv, Disconnect
    <2> QED
      BY <2>1, <2>2, <2>3, ServerReceivesOnly DEF linkVars, LinkInv
  <1>7. CASE ServerDown
    BY <1>6, <1>7 DEF ServerDown, Status
  <1>8. CASE ServerClose
    BY <1>6, <1>8 DEF ServerClose, Status
  <1>9. CASE ServerUp \/ Tick
    <2>1. UNCHANGED <<linkVars, nextProxy, storeVars, runVars, leaked>>
      BY <1>9 DEF ServerUp, Tick
    <2>2. RunInv'
      BY <1>9, <2>1 DEF RunInv, runVars, ServerUp, Tick, Status
    <2> QED
      BY <2>1, <2>2, StoreUnchanged, ServerReceivesOnly DEF linkVars, storeVars, LinkInv
  <1> QED
    BY <1>1, <1>2, <1>3, <1>4, <1>5, <1>7, <1>8, <1>9 DEF ServerNext, ServerReceive

-----------------------------------------------------------------------------
(* Steps of a client.                                                      *)

\* A call is sent with the client's next id, and a dispose() of done proxies only.
LEMMA RemoteCallKeeps ==
    ASSUME QueueInv, ClientTypeOK, NEW c \in Clients, NEW method \in Methods,
           NEW p \in Target, NEW dest \in Target, method = "dispose" => p \in done,
           RemoteCall(c, method, p, dest)
    PROVE  /\ c2s' \in Seq(Call)
           /\ \A m \in InFlight(c2s') : m.method = "dispose" => m.proxy \in done
           /\ nextMsg' \in [Clients -> Nat]
           /\ calls' \in [Clients -> SUBSET Pending]
  <1> DEFINE id == nextMsg[c]
             m == [client |-> c, id |-> id, method |-> method, proxy |-> p, dest |-> dest]
  <1>1. id \in Nat
    BY DEF ClientTypeOK
  <1>2. m \in Call /\ <<m>> \in Seq(Call) /\ InFlight(<<m>>) = {m}
    BY <1>1 DEF Call, InFlight
  <1>3. c2s' = Deliver(c2s, <<m>>)
    BY DEF RemoteCall
  <1>4. c2s' \in Seq(Call) /\ InFlight(c2s') \subseteq InFlight(c2s) \union {m}
    <2> HIDE DEF m
    <2> QED
      BY <1>2, <1>3, DeliverToQueue DEF QueueInv
  <1>5. nextMsg' \in [Clients -> Nat] /\ calls' \in [Clients -> SUBSET Pending]
    BY <1>1 DEF RemoteCall, ClientTypeOK, Pending
  <1> QED
    BY <1>4, <1>5 DEF QueueInv

\* Settling calls keeps the types of what records them.
LEMMA SettleTypes ==
    ASSUME ClientTypeOK, NEW c \in Clients, NEW ks \in SUBSET calls[c], NEW how \in Outcomes,
           Settle(c, ks, how)
    PROVE  /\ calls' \in [Clients -> SUBSET Pending]
           /\ settled' \in [Clients -> SUBSET Settled]
  BY DEF ClientTypeOK, Settle, Settled, Pending

\* handleMessage on the client keeps the invariant: a "done" event is the only one
\* that makes it send.
LEMMA ClientReceivesKeeps ==
    ASSUME Inv, NEW c \in Clients, s2c[c] # <<>>, NEW m \in Message, m = Head(s2c[c]),
           ClientReceives(c, m), UNCHANGED serverVars
    PROVE  QueueInv' /\ LinkInv' /\ ClientTypeOK'
  <1> USE DEF Inv, Mine
  <1>1. UNCHANGED done
    BY DEF serverVars, storeVars
  <1>2. \A id : Answered(c, id) \in SUBSET calls[c]
    BY DEF Answered
  <1>3. CASE ReceiveSuccess(c, m)
    <2> DEFINE ks == Answered(c, m.id)
    <2>1. TakeReply(c) /\ UNCHANGED <<link, downs, c2s, cStatus, nextMsg, heard>> /\ m.type = "success"
      BY <1>3 DEF ReceiveSuccess
    <2>2. calls' \in [Clients -> SUBSET Pending] /\ settled' \in [Clients -> SUBSET Settled]
      BY <1>2, <1>3, SettleTypes DEF ReceiveSuccess, Outcomes
    <2>3. Created(ks, m) \in SUBSET ProxyId
      BY <2>1 DEF Created, Message, Reply, Notice
    <2>4. cProxies' \in [Clients -> SUBSET ProxyId] /\ born' \in [Clients -> SUBSET ProxyId]
      BY <1>3, <2>3 DEF ReceiveSuccess, ClientTypeOK
    <2> QED
      BY <1>1, <2>1, <2>2, <2>4, ClientTakes DEF ClientTypeOK, QueueInv, LinkInv
  <1>4. CASE ReceiveFail(c, m)
    <2>1. TakeReply(c) /\ UNCHANGED <<link, downs, c2s, cStatus, nextMsg, born, heard>>
      BY <1>4 DEF ReceiveFail
    <2>2. calls' \in [Clients -> SUBSET Pending] /\ settled' \in [Clients -> SUBSET Settled]
      BY <1>2, <1>4, SettleTypes DEF ReceiveFail, Outcomes
    <2>3. cProxies' \in [Clients -> SUBSET ProxyId]
      BY <1>4 DEF ReceiveFail, ClientTypeOK
    <2> QED
      BY <1>1, <2>1, <2>2, <2>3, ClientTakes DEF ClientTypeOK, QueueInv, LinkInv
  <1>5. CASE EventLost(c, m)
    <2>1. TakeReply(c) /\ UNCHANGED <<link, downs, c2s, clientVars>>
      BY <1>5 DEF EventLost
    <2> QED
      BY <1>1, <2>1, ClientTakes, ClientUnchanged DEF QueueInv, LinkInv
  <1>6. CASE EventHeard(c, m)
    <2>1. /\ TakeReply(c)
          /\ UNCHANGED <<link, downs, c2s, cStatus, nextMsg, calls, settled, cProxies, born>>
      BY <1>6 DEF EventHeard
    <2>2. heard' \in [Clients -> SUBSET ProxyId]
      BY <1>6 DEF EventHeard, ClientTypeOK
    <2> QED
      BY <1>1, <2>1, <2>2, ClientTakes DEF ClientTypeOK, QueueInv, LinkInv
  <1>7. CASE EventDone(c, m)
    <2>1. /\ TakeReply(c) /\ m.type = "event" /\ m.event = "done"
          /\ RemoteCall(c, "dispose", m.proxy, Module)
          /\ UNCHANGED <<link, downs, cStatus, settled, cProxies, born, heard>>
      BY <1>7 DEF EventDone
    <2>2. m.proxy \in done
      <3>1. m \in InFlight(s2c[c])
        BY TailOfQueue DEF QueueInv
      <3> QED
        BY <2>1, <3>1 DEF QueueInv
    <2>3. m.proxy \in Target /\ Module \in Target /\ "dispose" \in Methods
      BY <2>2 DEF Target, Methods, StoreInv
    <2>4. /\ c2s' \in Seq(Call)
          /\ \A k \in InFlight(c2s') : k.method = "dispose" => k.proxy \in done
          /\ nextMsg' \in [Clients -> Nat]
          /\ calls' \in [Clients -> SUBSET Pending]
      BY <2>1, <2>2, <2>3, RemoteCallKeeps
    <2> QED
      BY <1>1, <2>1, <2>4, ClientTakes DEF ClientTypeOK, LinkInv
  <1> QED
    BY <1>3, <1>4, <1>5, <1>6, <1>7 DEF ClientReceives

\* Every step of a client keeps the invariant.
LEMMA ClientKeeps ==
    ASSUME Inv, NEW c \in Clients, ClientNext(c), UNCHANGED serverVars
    PROVE  QueueInv' /\ LinkInv' /\ ClientTypeOK'
  <1> USE DEF Inv
  <1>1. UNCHANGED done
    BY DEF serverVars, storeVars
  <1>2. CASE UserCalls(c)
    <2>1. PICK method \in UserMethods, p \in Target, dest \in Target : UserCall(c, method, p, dest)
      BY <1>2 DEF UserCalls
    <2>2. method \in Methods /\ method # "dispose"
      BY UserMethodsAssumption
    <2>3. /\ RemoteCall(c, method, p, dest)
          /\ UNCHANGED <<link, downs, s2c, cStatus, settled, cProxies, born, heard>>
      BY <2>1 DEF UserCall
    <2>4. /\ c2s' \in Seq(Call)
          /\ \A k \in InFlight(c2s') : k.method = "dispose" => k.proxy \in done
          /\ nextMsg' \in [Clients -> Nat]
          /\ calls' \in [Clients -> SUBSET Pending]
      BY <2>2, <2>3, RemoteCallKeeps
    <2> QED
      BY <1>1, <2>3, <2>4 DEF ClientTypeOK, QueueInv, LinkInv
  <1>3. CASE ClientDiscard(c)
    <2>1. TakeReply(c) /\ UNCHANGED <<link, downs, c2s, clientVars>>
      BY <1>3 DEF ClientDiscard
    <2> QED
      BY <1>1, <2>1, ClientTakes, ClientUnchanged DEF QueueInv, LinkInv
  <1>4. CASE s2c[c] # <<>> /\ ClientReceives(c, Head(s2c[c]))
    <2>1. Head(s2c[c]) \in Message
      BY <1>4, TailOfQueue DEF QueueInv
    <2> QED
      BY <1>4, <2>1, ClientReceivesKeeps
  <1>5. ASSUME NEW k \in calls[c], CallTimeout(c, k)
        PROVE  QueueInv' /\ LinkInv' /\ ClientTypeOK'
    <2>1. UNCHANGED <<linkVars, cStatus, nextMsg, born, heard>> /\ Settle(c, {k}, "timed out")
      BY <1>5 DEF CallTimeout
    <2>2. calls' \in [Clients -> SUBSET Pending] /\ settled' \in [Clients -> SUBSET Settled]
      BY <2>1, SettleTypes DEF Outcomes
    <2>3. cProxies' \in [Clients -> SUBSET ProxyId]
      BY <1>5 DEF CallTimeout, ClientTypeOK
    <2> QED
      BY <1>1, <2>1, <2>2, <2>3 DEF ClientTypeOK, QueueInv, LinkInv, linkVars
  <1>6. ASSUME NEW status \in Status, ClientDisconnect(c, status)
        PROVE  QueueInv' /\ LinkInv' /\ ClientTypeOK'
    <2>1. UNCHANGED <<linkVars, nextMsg, born>> /\ Settle(c, calls[c], "disconnected")
      BY <1>6 DEF ClientDisconnect
    <2>2. calls' \in [Clients -> SUBSET Pending] /\ settled' \in [Clients -> SUBSET Settled]
      BY <2>1, SettleTypes DEF Outcomes
    <2>3. ToldBeforeDone(cProxies[c]) \in SUBSET ProxyId
      BY DEF ToldBeforeDone, ClientTypeOK
    <2>4. /\ cStatus' \in [Clients -> Status]
          /\ cProxies' \in [Clients -> SUBSET ProxyId]
          /\ heard' \in [Clients -> SUBSET ProxyId]
      BY <1>6, <2>3 DEF ClientDisconnect, ClientTypeOK
    <2> QED
      BY <1>1, <2>1, <2>2, <2>4 DEF ClientTypeOK, QueueInv, LinkInv, linkVars
  <1>7. CASE ClientDown(c) \/ ClientClose(c)
    BY <1>6, <1>7 DEF ClientDown, ClientClose, Status
  <1>8. CASE ClientUp(c)
    BY <1>1, <1>8 DEF ClientUp, ClientTypeOK, QueueInv, LinkInv, linkVars, Status
  <1>9. CASE UserCallThrows(c)
    <2>1. /\ nextMsg' = [nextMsg EXCEPT ![c] = @ + 1]
          /\ settled' = [settled EXCEPT ![c] = @ \union {[id |-> nextMsg[c], how |-> "thrown"]}]
          /\ UNCHANGED <<linkVars, cStatus, calls, cProxies, born, heard>>
      BY <1>9 DEF UserCallThrows
    <2>2. [id |-> nextMsg[c], how |-> "thrown"] \in Settled
      BY DEF ClientTypeOK, Settled, Outcomes
    <2>3. nextMsg' \in [Clients -> Nat] /\ settled' \in [Clients -> SUBSET Settled]
      BY <2>1, <2>2 DEF ClientTypeOK
    <2> QED
      BY <1>1, <2>1, <2>3 DEF ClientTypeOK, QueueInv, LinkInv, linkVars
  <1> QED
    BY <1>2, <1>3, <1>4, <1>5, <1>7, <1>8, <1>9 DEF ClientNext, ClientReceive

-----------------------------------------------------------------------------
(* Steps of the connection.                                                *)

\* Drops, returns and the close of the connection keep the invariant.
LEMMA LinkKeeps ==
    ASSUME Inv, LinkNext, UNCHANGED serverVars
    PROVE  QueueInv' /\ LinkInv'
  <1> USE DEF Inv
  <1>1. UNCHANGED done
    BY DEF serverVars, storeVars
  <1>2. CASE LinkDown
    <2>1. c2s' \in Seq(Call) /\ InFlight(c2s') \subseteq InFlight(c2s)
      BY <1>2, CutOfQueue DEF LinkDown, QueueInv
    <2>2. ASSUME NEW c \in Clients
          PROVE  s2c'[c] \in Seq(Message) /\ InFlight(s2c'[c]) \subseteq InFlight(s2c[c])
      BY <1>2, CutOfQueue DEF LinkDown, QueueInv
    <2>3. s2c' \in [Clients -> Seq(Message)]
      BY <1>2, <2>2 DEF LinkDown
    <2>4. LinkInv'
      BY <1>2, DownsAssumption DEF LinkDown, LinkInv
    <2> QED
      BY <1>1, <2>1, <2>2, <2>3, <2>4 DEF QueueInv
  <1>3. CASE LinkUp \/ LinkClose
    BY <1>1, <1>3 DEF LinkUp, LinkClose, QueueInv, LinkInv
  <1> QED
    BY <1>2, <1>3 DEF LinkNext

-----------------------------------------------------------------------------
(* The theorems.                                                           *)

\* Every step keeps the invariant.
LEMMA InvNext == Inv /\ [Next]_vars => Inv'
  <1> SUFFICES ASSUME Inv, [Next]_vars PROVE Inv'
    OBVIOUS
  <1>1. CASE LinkNext /\ UNCHANGED <<serverVars, clientVars>>
    BY <1>1, LinkKeeps, StoreUnchanged, RunUnchanged, ClientUnchanged DEF Inv, serverVars
  <1>2. CASE ServerNext /\ UNCHANGED clientVars
    BY <1>2, ServerKeeps, ClientUnchanged DEF Inv
  <1>3. ASSUME NEW c \in Clients, ClientNext(c), UNCHANGED serverVars
        PROVE  Inv'
    BY <1>3, ClientKeeps, StoreUnchanged, RunUnchanged DEF Inv, serverVars
  <1>4. CASE UNCHANGED vars
    <2>1. UNCHANGED <<linkVars, serverVars, clientVars>>
      BY <1>4 DEF vars
    <2> QED
      BY <2>1, StoreUnchanged, RunUnchanged, ClientUnchanged, ServerReceivesOnly
         DEF Inv, serverVars, storeVars, linkVars, LinkInv
  <1> QED
    BY <1>1, <1>2, <1>3, <1>4 DEF Next

\* The invariant holds of every behaviour.
THEOREM Invariance == Spec => []Inv
  BY InvInit, InvNext, PTL DEF Spec

\* Every variable keeps its type.
THEOREM TypeCorrect == Spec => []TypeOK
  BY Invariance, InvImplies, PTL

\* A disposal under way always has the done event it waits for to come: no
\* sequence of disposals, timeouts and disconnects takes its listener away.
THEOREM DisposalsComplete == Spec => []DisposalCompletes
  BY Invariance, InvImplies, PTL

\* The server's done handler never meets a proxy that is gone or being disposed.
THEOREM DoneHandlersSafe == Spec => []DoneHandlerSafe
  BY Invariance, InvImplies, PTL

\* Without a disconnect, only proxies that are done are ever disposed.
THEOREM DoneChains == Spec => []DoneChain
  BY Invariance, InvImplies, PTL

\* Numbers are used once, and only a disconnect makes a disposal wait.
THEOREM Lifecycles == Spec => []Lifecycle
  BY Invariance, InvImplies, PTL

-----------------------------------------------------------------------------
(* Silence after a disconnect.                                             *)

\* Sending messages none of which is an event of p sends no event of p.
LEMMA SilentSend ==
    ASSUME QueueInv, NEW p, NEW ms \in Seq(Message), Send(ms),
           \A m \in InFlight(ms) : m.type = "event" => m.proxy # p
    PROVE  Silent(p)
  <1>1. ASSUME NEW c \in Clients
        PROVE  InFlight(s2c'[c]) \subseteq InFlight(s2c[c]) \union InFlight(ms)
    BY DeliverToQueue DEF Send, QueueInv
  <1> QED
    BY <1>1 DEF Silent, EventsOf

\* Answers are no events.
LEMMA SilentAnswer ==
    ASSUME QueueInv, NEW p, NEW ms \in Seq(Reply), Send(ms)
    PROVE  Silent(p)
  <1>1. ms \in Seq(Message)
    BY DEF Message
  <1>2. ASSUME NEW m \in InFlight(ms) PROVE m.type # "event"
    <2>1. m \in Reply
      BY DEF InFlight
    <2> QED
      BY <2>1 DEF Reply
  <1> QED
    BY <1>1, <1>2, SilentSend

\* A step after which no queue holds more sends nothing.
LEMMA SilentLess ==
    ASSUME \A c \in Clients : InFlight(s2c'[c]) \subseteq InFlight(s2c[c]), NEW p
    PROVE  Silent(p)
  BY DEF Silent, EventsOf

\* No step of the server sends an event of a disconnected proxy: such a proxy is
\* not bound, and only what is bound is forwarded.
LEMMA SilentServer ==
    ASSUME Inv, ServerNext, NEW p \in gone
    PROVE  Silent(p)
  <1> USE DEF Inv
  <1>1. p \notin bound
    BY DEF StoreInv, Lifecycle
  <1>2. ASSUME UNCHANGED s2c PROVE Silent(p)
    BY <1>2, SilentLess
  <1>3. ASSUME NEW ms \in Seq(Reply), Send(ms) PROVE Silent(p)
    BY <1>3, SilentAnswer
  <1>4. ASSUME NEW q \in ProxyId, NEW e \in EndEvents, Send(DoneMessages(q, e)) PROVE Silent(p)
    <2>1. CASE q \notin bound
      <3>1. DoneMessages(q, e) = <<>>
        BY <2>1 DEF DoneMessages
      <3>2. <<>> \in Seq(Reply)
        OBVIOUS
      <3>3. Send(<<>>)
        BY <1>4, <3>1
      <3> QED
        BY <1>3, <3>2, <3>3
    <2>2. CASE q \in bound
      <3>1. owner[q].client \in Clients
        BY <2>2 DEF StoreInv, DoneHandlerSafe, Lifecycle, Maker
      <3>2. /\ Event(owner[q].client, q, e) \in Message
            /\ Event(owner[q].client, q, "done") \in Message
        BY <3>1 DEF Event, Message, Notice, Events, EndEvents
      <3>3. DoneMessages(q, e) \in Seq(Message)
        BY <2>2, <3>2 DEF DoneMessages
      <3>4. \A m \in InFlight(DoneMessages(q, e)) : m.proxy = q
        BY <2>2 DEF DoneMessages, InFlight, Event
      <3> QED
        BY <1>1, <1>4, <2>2, <3>3, <3>4, SilentSend
    <2> QED
      BY <2>1, <2>2
  <1>5. ASSUME NEW q \in ProxyId, NativeCloses(q) PROVE Silent(p)
    <2>1. CASE q \notin bound
      <3>1. <<>> \in Seq(Reply)
        OBVIOUS
      <3>2. Send(<<>>)
        BY <1>5, <2>1 DEF NativeCloses
      <3> QED
        BY <1>3, <3>1, <3>2
    <2>2. CASE q \in bound
      <3> DEFINE m == Event(owner[q].client, q, "close")
      <3>1. owner[q].client \in Clients
        BY <2>2 DEF StoreInv, DoneHandlerSafe, Lifecycle, Maker
      <3>2. m \in Message /\ m.proxy = q
        BY <3>1 DEF Event, Message, Notice, Events, EndEvents
      <3>3. Send(<<m>>)
        BY <1>5, <2>2 DEF NativeCloses
      <3> HIDE DEF m
      <3>4. <<m>> \in Seq(Message) /\ InFlight(<<m>>) = {m}
        BY <3>2 DEF InFlight
      <3> QED
        BY <1>1, <2>2, <3>2, <3>3, <3>4, SilentSend
    <2> QED
      BY <2>1, <2>2
  <1>6. CASE NativeStep
    BY <1>4, <1>5, <1>6 DEF NativeStep, NativeEnds, NativeError, DoneFires, EndEvents
  <1>7. CASE c2s # <<>> /\ ServerReceives(Head(c2s))
    <2> DEFINE m == Head(c2s)
    <2>1. m \in Call
      BY <1>7, TailOfQueue DEF QueueInv
    <2>2. CASE ArgumentFails(m) \/ RunLong(m) \/ RunMakingDiscarded(m)
      BY <1>2, <2>2 DEF ArgumentFails, RunLong, RunMakingDiscarded
    <2>3. CASE Refuse(m) \/ RunAtOnce(m) \/ RunRejects(m)
      <3>1. PICK ms \in Seq(Reply) : Send(ms)
        <4> HIDE DEF m
        <4> QED
          BY <2>1, <2>3, AnswersAreMessages DEF Refuse, RunAtOnce, RunRejects, Answer
      <3> QED
        BY <1>3, <3>1
    <2>4. CASE DisposeCall(m)
      <3>1. UNCHANGED s2c \/ \E ms \in Seq(Reply) : Send(ms)
        <4> HIDE DEF m
        <4> QED
          BY <2>1, <2>4, AnswersAreMessages DEF DisposeCall, Answer
      <3> QED
        BY <1>2, <1>3, <3>1
    <2>5. CASE RunMaking(m)
      <3>1. PICK ms \in Seq(Reply) : Send(ms)
        <4> HIDE DEF m
        <4> QED
          BY <2>1, <2>5, AnswersAreMessages DEF RunMaking
      <3> QED
        BY <1>3, <3>1
    <2> QED
      BY <1>7, <2>2, <2>3, <2>4, <2>5 DEF ServerReceives
  <1>8. ASSUME NEW m \in runs, RunSettles(m) PROVE Silent(p)
    <2>1. m \in Call
      BY DEF RunInv
    <2>2. PICK ms \in Seq(Reply) : Send(ms)
      BY <1>8, <2>1, AnswersAreMessages DEF RunSettles
    <2> QED
      BY <1>3, <2>2
  <1>9. CASE \/ Discard \/ ServerDown \/ ServerClose \/ ServerUp \/ Tick
             \/ \E q \in ProxyId : DisposeTimer(q)
    BY <1>2, <1>9 DEF Discard, ServerDown, ServerClose, Disconnect, ServerUp, Tick,
                      DisposeTimer, linkVars
  <1> QED
    BY <1>6, <1>7, <1>8, <1>9 DEF ServerNext, ServerReceive

\* Clients send no events.
LEMMA SilentClient ==
    ASSUME Inv, NEW c \in Clients, ClientNext(c), NEW p
    PROVE  Silent(p)
  <1>1. CASE UNCHANGED s2c
    BY <1>1, SilentLess
  <1>2. CASE TakeReply(c)
    <2>1. s2c' = [s2c EXCEPT ![c] = Tail(@)] /\ s2c[c] # <<>> /\ s2c \in [Clients -> Seq(Message)]
      BY <1>2 DEF TakeReply, Inv, QueueInv
    <2>2. ASSUME NEW d \in Clients PROVE InFlight(s2c'[d]) \subseteq InFlight(s2c[d])
      BY <2>1, TailOfQueue
    <2> QED
      BY <2>2, SilentLess
  <1>3. UNCHANGED s2c \/ TakeReply(c)
    <2>1. CASE ClientReceive(c)
      BY <2>1 DEF ClientReceive, ClientDiscard, ClientReceives, ReceiveSuccess, ReceiveFail,
                  EventLost, EventHeard, EventDone, Mine
    <2>2. CASE UserCalls(c) \/ UserCallThrows(c)
      BY <2>2 DEF UserCalls, UserCall, UserCallThrows, linkVars
    <2>3. CASE \E k \in calls[c] : CallTimeout(c, k)
      BY <2>3 DEF CallTimeout, linkVars
    <2>4. CASE ClientDown(c) \/ ClientClose(c) \/ ClientUp(c)
      BY <2>4 DEF ClientDown, ClientClose, ClientUp, ClientDisconnect, linkVars
    <2> QED
      BY <2>1, <2>2, <2>3, <2>4 DEF ClientNext
  <1> QED
    BY <1>1, <1>2, <1>3

\* The connection makes up no events.
LEMMA SilentLink ==
    ASSUME Inv, LinkNext, NEW p
    PROVE  Silent(p)
  <1>1. CASE LinkDown
    <2>1. ASSUME NEW c \in Clients PROVE InFlight(s2c'[c]) \subseteq InFlight(s2c[c])
      BY <1>1, CutOfQueue DEF LinkDown, Inv, QueueInv
    <2> QED
      BY <2>1, SilentLess
  <1>2. CASE LinkUp \/ LinkClose
    BY <1>2, SilentLess DEF LinkUp, LinkClose
  <1> QED
    BY <1>1, <1>2 DEF LinkNext

\* "If disconnected we don't want to send any more events": no step of any
\* behaviour sends an event of a proxy that was disconnected before it.
THEOREM SilentAfterDisconnect == Spec => SilentOnceGone
  <1>1. Inv /\ [Next]_vars => [\A p \in gone : Silent(p)]_vars
    <2> SUFFICES ASSUME Inv, Next, NEW p \in gone PROVE Silent(p)
      OBVIOUS
    <2> QED
      BY SilentServer, SilentClient, SilentLink DEF Next
  <1> QED
    BY <1>1, Invariance, PTL DEF Spec, SilentOnceGone

-----------------------------------------------------------------------------
(* Nothing of a session outlives it on the client.                         *)

\* handleDisconnect empties calls and proxies, and a client that is not connected
\* neither makes a call nor takes a message.
LEMMA SettlesAllNext ==
    ASSUME ClientTypeOK, DisconnectSettlesAll, [Next]_vars
    PROVE  DisconnectSettlesAll'
  <1>1. CASE UNCHANGED clientVars
    BY <1>1 DEF DisconnectSettlesAll, clientVars
  <1>2. ASSUME NEW c \in Clients, ClientNext(c)
        PROVE  DisconnectSettlesAll'
    <2> USE DEF DisconnectSettlesAll, ClientTypeOK
    <2>1. CASE UserCalls(c) \/ UserCallThrows(c)
      BY <1>2, <2>1 DEF UserCalls, UserCall, UserCallThrows, RemoteCall
    <2>2. CASE ClientDiscard(c)
      BY <2>2, <1>1 DEF ClientDiscard
    <2>3. CASE s2c[c] # <<>> /\ ClientReceives(c, Head(s2c[c]))
      <3> DEFINE m == Head(s2c[c])
      <3>1. cStatus[c] = "Connected" /\ UNCHANGED cStatus
        BY <2>3 DEF ClientReceives, ReceiveSuccess, ReceiveFail, EventLost, EventHeard, EventDone,
                    Mine, clientVars
      <3>2. \A d \in Clients \ {c} : calls'[d] = calls[d] /\ cProxies'[d] = cProxies[d]
        BY <2>3 DEF ClientReceives, ReceiveSuccess, ReceiveFail, EventLost, EventHeard, EventDone,
                    Settle, RemoteCall, clientVars
      <3> QED
        BY <3>1, <3>2
    <2>4. ASSUME NEW k \in calls[c], CallTimeout(c, k) PROVE DisconnectSettlesAll'
      BY <2>4 DEF CallTimeout, Settle, linkVars
    <2>5. ASSUME NEW status, ClientDisconnect(c, status) PROVE DisconnectSettlesAll'
      BY <2>5 DEF ClientDisconnect, Settle
    <2>6. CASE ClientDown(c) \/ ClientClose(c)
      BY <2>5, <2>6 DEF ClientDown, ClientClose
    <2>7. CASE ClientUp(c)
      BY <2>7 DEF ClientUp
    <2> QED
      BY <1>2, <2>1, <2>2, <2>3, <2>4, <2>6, <2>7 DEF ClientNext, ClientReceive
  <1>3. CASE UNCHANGED vars
    BY <1>1, <1>3 DEF vars
  <1> QED
    BY <1>1, <1>2, <1>3 DEF Next

\* A client that is not connected waits for no call and holds no numbered proxy,
\* in every behaviour.
THEOREM DisconnectsSettleAll == Spec => []DisconnectSettlesAll
  <1>1. Init => DisconnectSettlesAll
    BY DEF Init, ClientInit, DisconnectSettlesAll
  <1>2. Inv /\ DisconnectSettlesAll /\ [Next]_vars => DisconnectSettlesAll'
    BY SettlesAllNext DEF Inv
  <1> QED
    BY <1>1, <1>2, Invariance, PTL DEF Spec

-----------------------------------------------------------------------------
(* Every call ends once: CallAccounting is inductive, and with it each     *)
(* step of a client is a step of Calls.tla.                                *)

\* A call takes the next number, which no other call has.
LEMMA RemoteCallAsks ==
    ASSUME ClientTypeOK, CallAccounting, NEW c \in Clients, NEW method, NEW p, NEW dest,
           RemoteCall(c, method, p, dest), UNCHANGED settled
    PROVE  CallAccounting' /\ Remote!Ask(c)
  <1> DEFINE id == nextMsg[c]
             k == [id |-> id, method |-> method, proxy |-> p]
  <1>1. /\ id \in Nat
        /\ nextMsg' = [nextMsg EXCEPT ![c] = id + 1]
        /\ calls' = [calls EXCEPT ![c] = @ \union {k}]
        /\ nextMsg \in [Clients -> Nat]
        /\ calls \in [Clients -> SUBSET Pending]
    BY DEF RemoteCall, ClientTypeOK
  <1>2. /\ nextMsg'[c] = id + 1
        /\ calls'[c] = calls[c] \union {k}
        /\ \A d \in Clients \ {c} : nextMsg'[d] = nextMsg[d] /\ calls'[d] = calls[d]
    BY <1>1
  <1>3. WaitingIds(c)' = WaitingIds(c) \union {id}
    <2>1. k.id = id
      OBVIOUS
    <2> HIDE DEF k, id
    <2> QED
      BY <1>2, <2>1 DEF WaitingIds
  <1>4. 0 .. (id + 1) - 1 = (0 .. id - 1) \union {id} /\ id \notin 0 .. id - 1
    BY <1>1
  <1>5. id \notin WaitingIds(c) /\ id \notin SettledIds(c) /\ SettledIds(c)' = SettledIds(c)
    BY <1>4 DEF CallAccounting, SettledIds
  <1>6. \A j \in calls[c] : j.id # k.id
    BY <1>5 DEF WaitingIds
  <1>7. /\ WaitingIds(c)' \intersect SettledIds(c)' = {}
        /\ WaitingIds(c)' \union SettledIds(c)' = 0 .. nextMsg'[c] - 1
    BY <1>2, <1>3, <1>4, <1>5 DEF CallAccounting
  <1>8. \A d \in Clients \ {c} : WaitingIds(d)' = WaitingIds(d) /\ SettledIds(d)' = SettledIds(d)
    BY <1>2 DEF WaitingIds, SettledIds
  <1>9. \A j, l \in calls'[c] : j.id = l.id => j = l
    BY <1>2, <1>6 DEF CallAccounting
  <1>10. CallAccounting'
    <2> SUFFICES ASSUME NEW d \in Clients
                 PROVE  /\ WaitingIds(d)' \intersect SettledIds(d)' = {}
                        /\ WaitingIds(d)' \union SettledIds(d)' = 0 .. nextMsg'[d] - 1
                        /\ \A j, l \in calls'[d] : j.id = l.id => j = l
                        /\ \A t, u \in settled'[d] : t.id = u.id => t = u
      BY DEF CallAccounting
    <2>1. CASE d = c
      BY <1>7, <1>9, <2>1 DEF CallAccounting
    <2>2. CASE d # c
      BY <1>2, <1>8, <2>2 DEF CallAccounting
    <2> QED
      BY <2>1, <2>2
  <1>11. [d \in Clients |-> WaitingIds(d)]' =
         [[d \in Clients |-> WaitingIds(d)] EXCEPT ![c] = @ \union {id}]
    BY <1>3, <1>8
  <1> QED
    BY <1>1, <1>10, <1>11 DEF Remote!Ask

\* The calls that end leave the ones that wait and join the ones that ended.
LEMMA SettleEnds ==
    ASSUME ClientTypeOK, CallAccounting, NEW c \in Clients, NEW ks \in SUBSET calls[c], NEW how,
           Settle(c, ks, how), UNCHANGED nextMsg
    PROVE  /\ CallAccounting'
           /\ [d \in Clients |-> WaitingIds(d)]' =
              [[d \in Clients |-> WaitingIds(d)] EXCEPT ![c] = @ \ {k.id : k \in ks}]
  <1> DEFINE ids == {k.id : k \in ks}
             new == {[id |-> k.id, how |-> how] : k \in ks}
  <1>1. /\ calls' = [calls EXCEPT ![c] = @ \ ks]
        /\ settled' = [settled EXCEPT ![c] = @ \union new]
        /\ calls \in [Clients -> SUBSET Pending]
        /\ settled \in [Clients -> SUBSET Settled]
    BY DEF Settle, ClientTypeOK
  <1>2. /\ calls'[c] = calls[c] \ ks
        /\ settled'[c] = settled[c] \union new
        /\ \A d \in Clients \ {c} : calls'[d] = calls[d] /\ settled'[d] = settled[d]
    BY <1>1
  <1>3. ids \subseteq WaitingIds(c)
    BY DEF WaitingIds
  <1>4. WaitingIds(c)' = WaitingIds(c) \ ids
    <2>1. ASSUME NEW k \in calls[c], NEW j \in ks, k.id = j.id PROVE k \in ks
      BY <2>1 DEF CallAccounting
    <2> QED
      BY <1>2, <2>1 DEF WaitingIds
  <1>5. SettledIds(c)' = SettledIds(c) \union ids
    <2>1. {s.id : s \in new} = ids
      <3>1. \A s \in new : s.id \in ids
        OBVIOUS
      <3>2. \A k \in ks : [id |-> k.id, how |-> how] \in new /\ [id |-> k.id, how |-> how].id = k.id
        OBVIOUS
      <3> HIDE DEF new
      <3>3. \A k \in ks : k.id \in {s.id : s \in new}
        BY <3>2
      <3> QED
        BY <3>1, <3>3
    <2> HIDE DEF new, ids
    <2> QED
      BY <1>2, <2>1 DEF SettledIds
  <1>6. \A d \in Clients \ {c} : WaitingIds(d)' = WaitingIds(d) /\ SettledIds(d)' = SettledIds(d)
    BY <1>2 DEF WaitingIds, SettledIds
  <1>7. /\ WaitingIds(c)' \intersect SettledIds(c)' = {}
        /\ WaitingIds(c)' \union SettledIds(c)' = WaitingIds(c) \union SettledIds(c)
    BY <1>3, <1>4, <1>5 DEF CallAccounting
  <1>8. \A t, u \in settled'[c] : t.id = u.id => t = u
    <2>1. \A t \in settled[c] : t.id \in SettledIds(c)
      BY DEF SettledIds
    <2>2. \A t \in new : t.id \in WaitingIds(c) /\ t = [id |-> t.id, how |-> how]
      BY <1>3
    <2>3. WaitingIds(c) \intersect SettledIds(c) = {}
      BY DEF CallAccounting
    <2>4. \A t, u \in settled[c] : t.id = u.id => t = u
      BY DEF CallAccounting
    <2> HIDE DEF new
    <2>5. \A t, u \in new : t.id = u.id => t = u
      BY <2>2
    <2>6. \A t \in settled[c], u \in new : t.id # u.id
      BY <2>1, <2>2, <2>3
    <2> QED
      BY <1>2, <2>4, <2>5, <2>6
  <1>9. CallAccounting'
    <2> SUFFICES ASSUME NEW d \in Clients
                 PROVE  /\ WaitingIds(d)' \intersect SettledIds(d)' = {}
                        /\ WaitingIds(d)' \union SettledIds(d)' = 0 .. nextMsg'[d] - 1
                        /\ \A j, l \in calls'[d] : j.id = l.id => j = l
                        /\ \A t, u \in settled'[d] : t.id = u.id => t = u
      BY DEF CallAccounting
    <2>1. CASE d = c
      BY <1>2, <1>7, <1>8, <2>1 DEF CallAccounting
    <2>2. CASE d # c
      BY <1>2, <1>6, <2>2 DEF CallAccounting
    <2> QED
      BY <2>1, <2>2
  <1> QED
    BY <1>4, <1>6, <1>9

\* A step that leaves the calls alone is a stutter of Calls.tla.
LEMMA CallsUnchanged ==
    ASSUME CallAccounting, UNCHANGED <<nextMsg, calls, settled>>
    PROVE  CallAccounting' /\ UNCHANGED Remote!callVars
  BY DEF CallAccounting, WaitingIds, SettledIds, Remote!callVars

\* At most one call has an id: an answer or a timeout ends it alone, or nothing.
LEMMA SettlesOne ==
    ASSUME ClientTypeOK, CallAccounting, NEW c \in Clients, NEW ks \in SUBSET calls[c],
           NEW how \in Remote!Alone, \A j, k \in ks : j = k,
           Settle(c, ks, how), UNCHANGED nextMsg
    PROVE  CallAccounting' /\ [Remote!Next]_Remote!callVars
  <1>1. CASE ks = {}
    <2>1. calls' = calls /\ settled' = settled
      BY <1>1 DEF Settle, ClientTypeOK
    <2> QED
      BY <2>1, CallsUnchanged
  <1>2. CASE ks # {}
    <2>1. PICK k \in ks : ks = {k}
      BY <1>2
    <2>2. k.id \in WaitingIds(c) /\ {j.id : j \in ks} = {k.id}
      BY <2>1 DEF WaitingIds
    <2>3. {[id |-> j.id, how |-> how] : j \in ks} = {[id |-> k.id, how |-> how]}
      BY <2>1
    <2> DEFINE P == [d \in Clients |-> WaitingIds(d)]
    <2>4. CallAccounting' /\ P' = [P EXCEPT ![c] = @ \ {j.id : j \in ks}]
      BY SettleEnds
    <2>5. P' = [P EXCEPT ![c] = @ \ {k.id}] /\ k.id \in P[c]
      BY <2>2, <2>4
    <2>6. settled' = [settled EXCEPT ![c] = @ \union {[id |-> k.id, how |-> how]}]
      BY <2>3 DEF Settle
    <2>7. Remote!EndOne(c, k.id, how)
      BY <2>5, <2>6 DEF Remote!EndOne
    <2> QED
      BY <2>4, <2>5, <2>7 DEF Remote!Next
  <1> QED
    BY <1>1, <1>2

\* A disconnect ends all the calls that wait.
LEMMA SettlesAll ==
    ASSUME ClientTypeOK, CallAccounting, NEW c \in Clients,
           Settle(c, calls[c], "disconnected"), UNCHANGED nextMsg
    PROVE  CallAccounting' /\ Remote!EndAll(c)
  <1> DEFINE P == [d \in Clients |-> WaitingIds(d)]
  <1>1. {k.id : k \in calls[c]} = P[c]
    BY DEF WaitingIds
  <1>2. CallAccounting' /\ P' = [P EXCEPT ![c] = @ \ P[c]]
    BY <1>1, SettleEnds
  <1>3. P' = [P EXCEPT ![c] = {}]
    BY <1>2
  <1>4. {[id |-> k.id, how |-> "disconnected"] : k \in calls[c]} =
        {[id |-> i, how |-> "disconnected"] : i \in P[c]}
    BY DEF WaitingIds
  <1> QED
    BY <1>2, <1>3, <1>4 DEF Remote!EndAll, Settle

\* A call that throws takes a fresh number, which does not wait.
LEMMA ThrowEnds ==
    ASSUME ClientTypeOK, CallAccounting, NEW c \in Clients, UserCallThrows(c)
    PROVE  CallAccounting' /\ Remote!Throw(c)
  <1> DEFINE id == nextMsg[c]
             new == [id |-> id, how |-> "thrown"]
  <1>1. /\ nextMsg' = [nextMsg EXCEPT ![c] = id + 1]
        /\ settled' = [settled EXCEPT ![c] = @ \union {new}]
        /\ calls' = calls
        /\ nextMsg \in [Clients -> Nat]
        /\ settled \in [Clients -> SUBSET Settled]
    BY DEF UserCallThrows, ClientTypeOK
  <1>2. /\ id \in Nat /\ nextMsg'[c] = id + 1 /\ settled'[c] = settled[c] \union {new}
        /\ \A d \in Clients \ {c} : nextMsg'[d] = nextMsg[d] /\ settled'[d] = settled[d]
    BY <1>1
  <1>3. \A d \in Clients : WaitingIds(d)' = WaitingIds(d)
    BY <1>1 DEF WaitingIds
  <1>4. SettledIds(c)' = SettledIds(c) \union {id}
    <2>1. new.id = id
      OBVIOUS
    <2> HIDE DEF new
    <2>2. {s.id : s \in settled[c] \union {new}} = {s.id : s \in settled[c]} \union {id}
      BY <2>1
    <2> QED
      BY <1>2, <2>2 DEF SettledIds
  <1>5. \A d \in Clients \ {c} : SettledIds(d)' = SettledIds(d)
    BY <1>2 DEF SettledIds
  <1>6. id \notin WaitingIds(c) /\ \A s \in settled[c] : s.id # id
    <2>1. id \notin 0 .. id - 1
      BY <1>2
    <2> QED
      BY <2>1 DEF CallAccounting, SettledIds
  <1>7. 0 .. (id + 1) - 1 = (0 .. id - 1) \union {id}
    BY <1>2
  <1>8. CallAccounting'
    <2> SUFFICES ASSUME NEW d \in Clients
                 PROVE  /\ WaitingIds(d)' \intersect SettledIds(d)' = {}
                        /\ WaitingIds(d)' \union SettledIds(d)' = 0 .. nextMsg'[d] - 1
                        /\ \A j, l \in calls'[d] : j.id = l.id => j = l
                        /\ \A t, u \in settled'[d] : t.id = u.id => t = u
      BY DEF CallAccounting
    <2>1. CASE d = c
      <3>1. /\ WaitingIds(c) \intersect SettledIds(c) = {}
            /\ WaitingIds(c) \union SettledIds(c) = 0 .. id - 1
            /\ \A j, l \in calls[c] : j.id = l.id => j = l
            /\ \A t, u \in settled[c] : t.id = u.id => t = u
        BY DEF CallAccounting
      <3>2. \A t, u \in settled'[c] : t.id = u.id => t = u
        BY <1>2, <1>6, <3>1
      <3>3. nextMsg'[c] - 1 = (id + 1) - 1
        BY <1>2
      <3> HIDE DEF id, new
      <3>4. WaitingIds(c)' \union SettledIds(c)' = 0 .. nextMsg'[c] - 1
        BY <1>3, <1>4, <1>7, <3>1, <3>3
      <3> QED
        BY <1>1, <1>3, <1>4, <1>6, <2>1, <3>1, <3>2, <3>4
    <2>2. CASE d # c
      BY <1>1, <1>2, <1>3, <1>5, <2>2 DEF CallAccounting
    <2> QED
      BY <2>1, <2>2
  <1>9. [d \in Clients |-> WaitingIds(d)]' = [d \in Clients |-> WaitingIds(d)]
    BY <1>3
  <1> QED
    BY <1>1, <1>8, <1>9 DEF Remote!Throw

\* Every step of a client makes a call, ends one, ends all, or leaves them alone.
LEMMA ClientCalls ==
    ASSUME ClientTypeOK, CallAccounting, NEW c \in Clients, ClientNext(c)
    PROVE  CallAccounting' /\ [Remote!Next]_Remote!callVars
  <1>1. ASSUME NEW method, NEW p, NEW dest, RemoteCall(c, method, p, dest), UNCHANGED settled
        PROVE  CallAccounting' /\ Remote!Next
    BY <1>1, RemoteCallAsks DEF Remote!Next
  <1>2. CASE UNCHANGED <<nextMsg, calls, settled>>
    BY <1>2, CallsUnchanged
  <1>3. CASE UserCalls(c)
    BY <1>1, <1>3 DEF UserCalls, UserCall
  <1>8. CASE UserCallThrows(c)
    BY <1>8, ThrowEnds DEF Remote!Next
  <1>4. CASE s2c[c] # <<>> /\ ClientReceives(c, Head(s2c[c]))
    <2> DEFINE m == Head(s2c[c])
               ks == Answered(c, m.id)
    <2>1. ks \in SUBSET calls[c] /\ \A j, k \in ks : j = k
      BY DEF Answered, CallAccounting
    <2>2. CASE ReceiveSuccess(c, m)
      <3>1. Settle(c, ks, "resolved") /\ UNCHANGED nextMsg /\ "resolved" \in Remote!Alone
        BY <2>2 DEF ReceiveSuccess, Remote!Alone
      <3> HIDE DEF ks, m
      <3> QED
        BY <2>1, <3>1, SettlesOne
    <2>3. CASE ReceiveFail(c, m)
      <3>1. Settle(c, ks, "rejected") /\ UNCHANGED nextMsg /\ "rejected" \in Remote!Alone
        BY <2>3 DEF ReceiveFail, Remote!Alone
      <3> HIDE DEF ks, m
      <3> QED
        BY <2>1, <3>1, SettlesOne
    <2>4. CASE EventDone(c, m)
      BY <1>1, <2>4 DEF EventDone
    <2>5. CASE EventLost(c, m) \/ EventHeard(c, m)
      BY <1>2, <2>5 DEF EventLost, EventHeard, clientVars
    <2> QED
      BY <1>4, <2>2, <2>3, <2>4, <2>5 DEF ClientReceives
  <1>5. ASSUME NEW k \in calls[c], CallTimeout(c, k)
        PROVE  CallAccounting' /\ [Remote!Next]_Remote!callVars
    <2> DEFINE ks == {k}
    <2>1. Settle(c, ks, "timed out") /\ UNCHANGED nextMsg /\ "timed out" \in Remote!Alone
      BY <1>5 DEF CallTimeout, Remote!Alone
    <2>2. ks \in SUBSET calls[c] /\ \A i, j \in ks : i = j
      OBVIOUS
    <2> HIDE DEF ks
    <2> QED
      BY <2>1, <2>2, SettlesOne
  <1>6. CASE ClientDown(c) \/ ClientClose(c)
    <2>1. Settle(c, calls[c], "disconnected") /\ UNCHANGED nextMsg
      BY <1>6 DEF ClientDown, ClientClose, ClientDisconnect
    <2> QED
      BY <2>1, SettlesAll DEF Remote!Next
  <1>7. CASE ClientUp(c) \/ ClientDiscard(c)
    BY <1>2, <1>7 DEF ClientUp, ClientDiscard, clientVars
  <1> QED
    BY <1>3, <1>4, <1>5, <1>6, <1>7, <1>8 DEF ClientNext, ClientReceive

\* Only a client's steps touch its calls.
LEMMA CallsNext ==
    ASSUME ClientTypeOK, CallAccounting, [Next]_vars
    PROVE  CallAccounting' /\ [Remote!Next]_Remote!callVars
  <1>1. CASE UNCHANGED clientVars
    BY <1>1, CallsUnchanged DEF clientVars
  <1>2. CASE \E c \in Clients : ClientNext(c)
    BY <1>2, ClientCalls
  <1> QED
    BY <1>1, <1>2 DEF Next, vars

LEMMA CallsInit == Init => CallAccounting /\ Remote!Init
  <1> SUFFICES ASSUME Init PROVE CallAccounting /\ Remote!Init
    OBVIOUS
  <1>1. \A c \in Clients : nextMsg[c] = 0 /\ calls[c] = {} /\ settled[c] = {}
    BY DEF Init, ClientInit
  <1>2. \A c \in Clients : WaitingIds(c) = {} /\ SettledIds(c) = {}
    BY <1>1 DEF WaitingIds, SettledIds
  <1>3. 0 .. 0 - 1 = {}
    OBVIOUS
  <1> QED
    BY <1>1, <1>2, <1>3 DEF CallAccounting, Remote!Init, Init, ClientInit

\* Every messageId a client used waits or was settled, once and in one way.
THEOREM CallsAccounted == Spec => []CallAccounting
  <1>1. Inv /\ CallAccounting /\ [Next]_vars => CallAccounting'
    BY CallsNext DEF Inv
  <1> QED
    BY <1>1, CallsInit, Invariance, PTL DEF Spec

\* The remote calls of the system implement Calls.tla: whatever interleaves, a step
\* makes one under a fresh number, throws, ends one, or ends all of a client's at once.
THEOREM CallsRefined == Spec => CallsImplemented
  <1>1. Inv /\ CallAccounting /\ [Next]_vars => [Remote!Next]_Remote!callVars
    BY CallsNext DEF Inv
  <1> QED
    BY <1>1, CallsInit, CallsAccounted, Invariance, PTL DEF Spec, CallsImplemented, Remote!Spec

=============================================================================
