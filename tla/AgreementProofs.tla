-------------------------- MODULE AgreementProofs --------------------------
(***************************************************************************)
(* Proofs about how the clients and the server stay in agreement on the    *)
(* proxies: who has them, in which order the messages about them come, and *)
(* that what a client lets go of was told, and is dead.                    *)
(***************************************************************************)
EXTENDS NodeBrowserProofs, QueueLemmas

-----------------------------------------------------------------------------
(* The inductive invariant, in one part per concern.                       *)

\* Messages, calls and makers of proxies are about the same call.
Same(m, n) == m.client = n.client /\ m.id = n.id

\* The calls that are not answered yet: on their way to the server, or running.
LiveCalls == InFlight(c2s) \union runs

\* How a call ends that its client took no answer for.
Unanswered == {"timed out", "disconnected"}

\* The calls that c made, and took no answer for.
Open(c) ==
    {i \in 0 .. nextMsg[c] - 1 :
        \A s \in settled[c] : s.id = i => s.how \in Unanswered}

\* A call is in one place: on its way, running, answered, or the maker of proxies;
\* its caller has no answer before it leaves the first two.
AskedOnce ==
    /\ \A i, j \in 1 .. Len(c2s) : Same(c2s[i], c2s[j]) => i = j
    /\ \A m \in InFlight(c2s), r \in runs : ~Same(m, r)
    /\ \A m, r \in runs : Same(m, r) => m = r
    /\ \A m \in LiveCalls :
           /\ m.id \in Open(m.client)
           /\ \A r \in InFlight(s2c[m.client]) : r.type # "event" => ~Same(m, r)
           /\ \A p \in ProxyId : store[p] # "unborn" => ~Same(m, owner[p])
    /\ \A c \in Clients : \A r \in InFlight(s2c[c]) :
           r.type # "event" /\ r.client = c => r.id \in 0 .. nextMsg[c] - 1
    /\ \A p \in ProxyId : store[p] # "unborn" => owner[p].id \in 0 .. nextMsg[owner[p].client] - 1

\* m gives client c the proxy p.
Gives(m, c, p) == m.type = "success" /\ m.client = c /\ p \in m.made

\* A proxy is given by the only answer to the call it was made for, to a caller who
\* took none.
GivenOnce ==
    \A c \in Clients : \A i \in 1 .. Len(s2c[c]), p \in ProxyId :
        Gives(s2c[c][i], c, p) =>
            /\ store[p] # "unborn"
            /\ Same(s2c[c][i], owner[p])
            /\ s2c[c][i].id \in Open(c)
            /\ \A j \in 1 .. Len(s2c[c]) :
                   s2c[c][j].type # "event" /\ Same(s2c[c][j], s2c[c][i]) => j = i

\* OwnedByCaller, of proxies that exist.
HeldByCaller ==
    /\ OwnedByCaller
    /\ \A c \in Clients : cProxies[c] \subseteq born[c]
    /\ \A c \in Clients : \A p \in born[c] : store[p] # "unborn"

\* Client c had p, or gave up on the call p was made for; or the answer that gives
\* it is among the first n messages on their way to c.
Excused(c) ==
    {p \in ProxyId :
        \/ p \in born[c]
        \/ \E s \in settled[c] : s.id = owner[p].id /\ s.how \in Unanswered}
GivenIn(c, n) == {p \in ProxyId : \E j \in 1 .. n : Gives(s2c[c][j], c, p)}

\* An event comes after the answer that gives its proxy; what the server keeps in a
\* session it has announced in it, and it keeps nothing between sessions.
InOrder ==
    /\ \A c \in Clients : \A i \in 1 .. Len(s2c[c]) :
           LET m == s2c[c][i]
           IN  m.type = "event" /\ m.client = c =>
                   /\ store[m.proxy] # "unborn"
                   /\ owner[m.proxy].client = c
                   /\ m.proxy \in Excused(c) \/ m.proxy \in GivenIn(c, i - 1)
    /\ \A c \in Clients, p \in ProxyId :
           owner[p].client = c /\ store[p] = "stored" /\ link = "up" /\ sStatus = "Connected" =>
               p \in Excused(c) \/ p \in GivenIn(c, Len(s2c[c]))
    /\ sStatus # "Connected" => \A p \in ProxyId : store[p] # "stored"

\* A "done" follows the event that ends its proxy, and a dispose() waits only for a
\* proxy whose end was heard.
EndThenDone ==
    /\ \A c \in Clients : \A i \in 1 .. Len(s2c[c]) :
           LET m == s2c[c][i]
               l == s2c[c][i - 1]
           IN  m.type = "event" /\ m.client = c /\ m.event = "done" =>
                   /\ i = 1 /\ m.proxy \in cProxies[c] => m.proxy \in heard[c]
                   /\ i # 1 => /\ l.type = "event" /\ l.event \in EndEvents
                               /\ l.client = c /\ l.proxy = m.proxy
    /\ \A c \in Clients : \A k \in calls[c] :
           k.method = "dispose" => k.proxy \in heard[c] /\ k.proxy \in done
    /\ FillHearsEnd

\* What a client let go of is done, or being disposed of or removed, unless both
\* it and the transport are between two sessions; and a process is removed only
\* when it is done.
LetGoDead ==
    /\ \A c \in Clients : \A p \in born[c] \ cProxies[c] :
           \/ p \in done
           \/ store[p] \in {"disposing", "removed"}
           \/ link # "up" /\ cStatus[c] # "Connected"
    /\ \A p \in ProxyId : store[p] = "removed" /\ kind[p] = "process" => p \in done

Agree == AskedOnce /\ GivenOnce /\ HeldByCaller /\ InOrder /\ EndThenDone /\ LetGoDead

-----------------------------------------------------------------------------
(* What a drop leaves of a queue.                                          *)

LEMMA CutAt ==
    ASSUME NEW S, NEW q \in Seq(S), NEW r \in Cut(q)
    PROVE  /\ r \in Seq(S)
           /\ Len(r) \in 0 .. Len(q)
           /\ \A i \in 1 .. Len(r) : r[i] = q[i] /\ i \in 1 .. Len(q)
BY FrontAt DEF Cut

-----------------------------------------------------------------------------
(* Steps of the server.                                                    *)

\* What a step of the server does to the proxies there are.
Ages ==
    /\ done \subseteq done'
    /\ \A p \in ProxyId : store[p] # "unborn" =>
           /\ owner'[p] = owner[p] /\ kind'[p] = kind[p]
           /\ store'[p] # "unborn"
           /\ store'[p] = "stored" => store[p] = "stored"
           /\ store[p] \in {"disposing", "removed"} => store'[p] \in {"disposing", "removed"}
           /\ store'[p] = "removed" /\ kind[p] = "process" => store[p] = "removed" \/ p \in done'

\* The proxies it makes are stored for a call that was live and is not any more, and
\* given in what it sends to the caller.
Makes ==
    \A p \in ProxyId : store[p] = "unborn" /\ store'[p] # "unborn" =>
        /\ store'[p] = "stored" /\ sStatus' = "Connected"
        /\ \E m \in LiveCalls : Same(m, owner'[p])
        /\ \A m \in LiveCalls' : ~Same(m, owner'[p])
        /\ \A c \in Clients : owner'[p].client = c /\ link' = "up" => p \in GivenIn(c, Len(s2c[c]))'

LEMMA RemoveAges ==
    ASSUME StoreInv, NEW P \in SUBSET ProxyId, NEW disconnect, NEW armed, Remove(P, disconnect, armed)
    PROVE  Ages /\ Makes
BY DEF Ages, Makes, Remove, Ended, Reaped, Starting, StoreInv

LEMMA DoneFiresAges ==
    ASSUME StoreInv, NEW p \in ProxyId, NEW e, DoneFires(p, e)
    PROVE  Ages /\ Makes
BY DEF Ages, Makes, DoneFires, Ends, StoreInv

\* The messages ms are answers to calls that were live and are not any more, the only
\* ones to their calls where they give proxies, which are the new ones of the call...
Answers(ms) ==
    \A i \in 1 .. Len(ms) : ms[i].type # "event" =>
        /\ \E m \in LiveCalls : Same(m, ms[i])
        /\ \A m \in LiveCalls' : ~Same(m, ms[i])
        /\ \A p \in ms[i].made :
               /\ store[p] = "unborn" /\ store'[p] # "unborn"
               /\ Same(ms[i], owner'[p])
               /\ \A j \in 1 .. Len(ms) : ms[j].type # "event" /\ Same(ms[j], ms[i]) => j = i

\* ...and events of stored proxies to their owners, with each "done" behind the event
\* it is about.
Reports(ms) ==
    \A i \in 1 .. Len(ms) : ms[i].type = "event" =>
        /\ store[ms[i].proxy] = "stored"
        /\ owner[ms[i].proxy].client = ms[i].client
        /\ ms[i].event = "done" =>
               /\ i > 1
               /\ ms[i - 1].type = "event"
               /\ ms[i - 1].client = ms[i].client
               /\ ms[i - 1].proxy = ms[i].proxy
               /\ ms[i - 1].event \in EndEvents

\* The queues grow by ms, or stay.
Grows(ms) ==
    \A c \in Clients :
        \/ s2c'[c] = s2c[c]
        \/ link = "up" /\ sStatus = "Connected" /\ s2c'[c] = s2c[c] \o ms

LEMMA SendGrows == ASSUME QueueInv, NEW ms \in Seq(Message), Send(ms) PROVE Grows(ms)
BY DEF Send, Deliver, Grows, QueueInv

\* Where a message of a queue that grew comes from.
LEMMA GrownAt ==
    ASSUME QueueInv, NEW ms \in Seq(Message), Grows(ms), NEW c \in Clients
    PROVE  /\ Len(s2c[c]) \in Nat /\ Len(ms) \in Nat
           /\ Len(s2c'[c]) \in Nat /\ Len(s2c'[c]) >= Len(s2c[c])
           /\ \A i \in 1 .. Len(s2c[c]) : s2c'[c][i] = s2c[c][i]
           /\ \A i \in 1 .. Len(s2c'[c]) :
                  \/ i \in 1 .. Len(s2c[c])
                  \/ /\ link = "up" /\ sStatus = "Connected"
                     /\ i > Len(s2c[c]) /\ i - Len(s2c[c]) \in 1 .. Len(ms)
                     /\ Len(s2c'[c]) = Len(s2c[c]) + Len(ms)
                     /\ s2c'[c][i] = ms[i - Len(s2c[c])]
                     /\ \A k \in 1 .. Len(ms) : s2c'[c][Len(s2c[c]) + k] = ms[k]
<1>1. s2c[c] \in Seq(Message)
  BY DEF QueueInv
<1>2. CASE s2c'[c] = s2c[c]
  BY <1>1, <1>2
<1>3. CASE link = "up" /\ sStatus = "Connected" /\ s2c'[c] = s2c[c] \o ms
  <2>1. /\ Len(s2c'[c]) = Len(s2c[c]) + Len(ms)
        /\ \A i \in 1 .. Len(s2c[c]) : s2c'[c][i] = s2c[c][i]
        /\ \A i \in 1 .. Len(s2c'[c]) :
               i \in 1 .. Len(s2c[c]) \/ (i - Len(s2c[c]) \in 1 .. Len(ms) /\ s2c'[c][i] = ms[i - Len(s2c[c])])
        /\ \A k \in 1 .. Len(ms) : s2c'[c][Len(s2c[c]) + k] = ms[k]
    BY <1>1, <1>3, JoinAt
  <2>2. Len(s2c[c]) \in Nat /\ Len(ms) \in Nat
    BY <1>1
  <2> QED
    BY <1>3, <2>1, <2>2, SMTT(20)
<1> QED
  BY <1>2, <1>3 DEF Grows

LEMMA LiveAreCalls ==
    ASSUME Inv
    PROVE  /\ LiveCalls \subseteq Call
           /\ \A m \in LiveCalls : m.client \in Clients /\ m.id \in Nat
<1>1. c2s \in Seq(Call) /\ runs \in SUBSET Call
  BY DEF Inv, QueueInv, RunInv
<1>2. InFlight(c2s) \subseteq Call
  BY <1>1 DEF InFlight
<1>3. \A m \in Call : m.client \in Clients /\ m.id \in Nat
  BY DEF Call
<1> QED
  BY <1>1, <1>2, <1>3 DEF LiveCalls

\* Taking the head of the server's queue, or nothing.
LEMMA Taken ==
    ASSUME AskedOnce, c2s \in Seq(Call), UNCHANGED c2s \/ Take
    PROVE  /\ \A i, j \in 1 .. Len(c2s') : Same(c2s'[i], c2s'[j]) => i = j
           /\ InFlight(c2s') \subseteq InFlight(c2s)
           /\ Take => \A m \in InFlight(c2s') : ~Same(m, Head(c2s)) /\ ~Same(Head(c2s), m)
<1>1. CASE UNCHANGED c2s /\ ~Take
  BY <1>1 DEF AskedOnce
<1>2. CASE Take
  <2> DEFINE q == Tail(c2s)
  <2>1. /\ Head(c2s) = c2s[1]
        /\ \A i \in 1 .. Len(q) : q[i] = c2s[i + 1] /\ i + 1 \in 1 .. Len(c2s) /\ i + 1 # 1
        /\ 1 \in 1 .. Len(c2s)
        /\ q \in Seq(Call)
        /\ c2s' = q
    BY <1>2, TailAt DEF Take
  <2> HIDE DEF q
  <2>2. \A i, j \in 1 .. Len(c2s) : Same(c2s[i], c2s[j]) => i = j
    BY DEF AskedOnce
  <2>3. ASSUME NEW i \in 1 .. Len(q), NEW j \in 1 .. Len(q), Same(q[i], q[j]) PROVE i = j
    <3>1. i + 1 = j + 1
      BY <2>1, <2>2, <2>3
    <3>2. i \in Int /\ j \in Int
      OBVIOUS
    <3> QED
      BY <3>1, <3>2
  <2>4. ASSUME NEW i \in 1 .. Len(q)
        PROVE  ~Same(q[i], c2s[1]) /\ ~Same(c2s[1], q[i]) /\ q[i] \in InFlight(c2s)
    BY <2>1, <2>2 DEF InFlight
  <2>5. \A m \in InFlight(q) : ~Same(m, c2s[1]) /\ ~Same(c2s[1], m) /\ m \in InFlight(c2s)
    BY <2>4 DEF InFlight
  <2> QED
    BY <2>1, <2>3, <2>5
<1> QED
  BY <1>1, <1>2

\* A step of the server that answers only calls that it ends keeps AskedOnce.
LEMMA AskedServer ==
    ASSUME Inv, Agree, UNCHANGED clientVars, Ages, Makes,
           UNCHANGED c2s \/ Take,
           runs' \subseteq runs \/ (Take /\ runs' \subseteq runs \union {Head(c2s)}),
           NEW ms \in Seq(Message), Grows(ms), Answers(ms)
    PROVE  AskedOnce'
<1> USE DEF Agree
<1>1. c2s \in Seq(Call) /\ QueueInv
  BY DEF Inv, QueueInv
<1>2. /\ \A i, j \in 1 .. Len(c2s') : Same(c2s'[i], c2s'[j]) => i = j
      /\ InFlight(c2s') \subseteq InFlight(c2s)
      /\ Take => \A m \in InFlight(c2s') : ~Same(m, Head(c2s)) /\ ~Same(Head(c2s), m)
  BY <1>1, Taken
<1>3. Take => Head(c2s) \in InFlight(c2s)
  BY <1>1, TailOfQueue DEF Take
<1>4. LiveCalls' \subseteq LiveCalls
  BY <1>2, <1>3 DEF LiveCalls
<1>5. \A m \in InFlight(c2s'), r \in runs' : ~Same(m, r)
  BY <1>2 DEF AskedOnce
<1>6. \A m, r \in runs' : Same(m, r) => m = r
  BY <1>3 DEF AskedOnce, Same
<1>7. \A m \in LiveCalls' : (m.id \in Open(m.client))' /\ m.client \in Clients
  <2>1. \A m \in LiveCalls : m.client \in Clients
    BY LiveAreCalls
  <2> QED
    BY <1>4, <2>1 DEF AskedOnce, Open, clientVars
<1>8. ASSUME NEW c \in Clients, NEW r \in InFlight(s2c'[c]), r.type # "event"
      PROVE  /\ \A m \in LiveCalls' : m.client = c => ~Same(m, r)
             /\ r.client = c => r.id \in 0 .. nextMsg'[c] - 1
  <2>1. PICK i \in 1 .. Len(s2c'[c]) : r = s2c'[c][i]
    BY DEF InFlight
  <2>2. CASE i \in 1 .. Len(s2c[c])
    <3>1. r \in InFlight(s2c[c])
      BY <1>1, <2>1, <2>2, GrownAt DEF InFlight
    <3> QED
      BY <1>4, <1>8, <3>1 DEF AskedOnce, clientVars
  <2>3. CASE i \notin 1 .. Len(s2c[c])
    <3>1. PICK k \in 1 .. Len(ms) : r = ms[k]
      <4>1. i - Len(s2c[c]) \in 1 .. Len(ms) /\ s2c'[c][i] = ms[i - Len(s2c[c])]
        BY <1>1, <2>3, GrownAt
      <4> QED
        BY <2>1, <4>1
    <3>2. PICK m \in LiveCalls : Same(m, r)
      BY <1>8, <3>1 DEF Answers
    <3>3. \A n \in LiveCalls' : ~Same(n, r)
      BY <1>8, <3>1 DEF Answers
    <3> QED
      BY <3>2, <3>3 DEF AskedOnce, Open, Same, clientVars
  <2> QED
    BY <2>2, <2>3
<1>9. ASSUME NEW p \in ProxyId, store'[p] # "unborn"
      PROVE  /\ \A m \in LiveCalls' : ~Same(m, owner'[p])
             /\ owner'[p].id \in 0 .. nextMsg'[owner'[p].client] - 1
  <2>1. CASE store[p] # "unborn"
    BY <1>4, <2>1 DEF AskedOnce, Ages, clientVars
  <2>2. CASE store[p] = "unborn"
    BY <1>9, <2>2 DEF Makes, AskedOnce, Open, Same, clientVars
  <2> QED
    BY <2>1, <2>2
<1> QED
  BY <1>2, <1>5, <1>6, <1>7, <1>8, <1>9 DEF AskedOnce

LEMMA GivenServer ==
    ASSUME Inv, Agree, UNCHANGED clientVars, Ages,
           NEW ms \in Seq(Message), Grows(ms), Answers(ms)
    PROVE  GivenOnce'
<1> USE DEF Agree
<1>0. QueueInv
  BY DEF Inv
<1>1. ASSUME NEW c \in Clients, NEW i \in 1 .. Len(s2c'[c]), NEW p \in ProxyId,
             NEW r, r = s2c'[c][i], Gives(r, c, p)
      PROVE  /\ store'[p] # "unborn"
             /\ Same(r, owner'[p])
             /\ r.id \in Open(c)'
             /\ \A j \in 1 .. Len(s2c'[c]) :
                    s2c'[c][j].type # "event" /\ Same(s2c'[c][j], r) => j = i
  <2>1. r.type # "event" /\ r.client = c
    BY <1>1 DEF Gives
  <2>2. CASE i \in 1 .. Len(s2c[c])
    <3>1. r = s2c[c][i]
      BY <1>0, <1>1, <2>2, GrownAt
    <3>2. /\ store[p] # "unborn"
          /\ Same(r, owner[p])
          /\ r.id \in Open(c)
          /\ \A j \in 1 .. Len(s2c[c]) :
                 s2c[c][j].type # "event" /\ Same(s2c[c][j], r) => j = i
      BY <1>1, <2>2, <3>1 DEF GivenOnce
    <3>3. store'[p] # "unborn" /\ owner'[p] = owner[p]
      BY <3>2 DEF Ages
    <3>4. r.id \in Open(c)'
      BY <3>2 DEF Open, clientVars
    <3>5. ASSUME NEW j \in 1 .. Len(s2c'[c]), s2c'[c][j].type # "event", Same(s2c'[c][j], r)
          PROVE  j = i
      <4>1. CASE j \in 1 .. Len(s2c[c])
        BY <1>0, <3>2, <3>5, <4>1, GrownAt
      <4>2. CASE j \notin 1 .. Len(s2c[c])
        <5>1. PICK k \in 1 .. Len(ms) : s2c'[c][j] = ms[k]
          BY <1>0, <4>2, GrownAt
        <5>2. PICK m \in LiveCalls : Same(m, s2c'[c][j])
          BY <3>5, <5>1 DEF Answers
        <5>3. m.client = c /\ Same(m, r)
          BY <2>1, <3>5, <5>2 DEF Same
        <5>4. r \in InFlight(s2c[c])
          BY <2>2, <3>1 DEF InFlight
        <5> QED
          BY <2>1, <5>3, <5>4 DEF AskedOnce
      <4> QED
        BY <4>1, <4>2
    <3> QED
      BY <3>2, <3>3, <3>4, <3>5
  <2>3. CASE i \notin 1 .. Len(s2c[c])
    <3> DEFINE k == i - Len(s2c[c])
    <3>1. k \in 1 .. Len(ms) /\ r = ms[k] /\ i > Len(s2c[c]) /\ i \in Int /\ Len(s2c[c]) \in Int
      BY <1>0, <1>1, <2>3, GrownAt, SMTT(20)
    <3> HIDE DEF k
    <3>2. p \in r.made
      BY <1>1 DEF Gives
    <3>3. /\ store'[p] # "unborn"
          /\ Same(r, owner'[p])
          /\ \A x \in 1 .. Len(ms) : ms[x].type # "event" /\ Same(ms[x], r) => x = k
      BY <2>1, <3>1, <3>2 DEF Answers
    <3>4. PICK m \in LiveCalls : Same(m, r)
      BY <2>1, <3>1 DEF Answers
    <3>5. m.client = c /\ m.id = r.id /\ m.id \in Open(m.client)
      BY <2>1, <3>4 DEF Same, AskedOnce
    <3>6. r.id \in Open(c)'
      BY <3>5 DEF Open, clientVars
    <3>7. ASSUME NEW j \in 1 .. Len(s2c'[c]), s2c'[c][j].type # "event", Same(s2c'[c][j], r)
          PROVE  j = i
      <4>1. CASE j \in 1 .. Len(s2c[c])
        <5>1. s2c[c][j] \in InFlight(s2c[c]) /\ s2c'[c][j] = s2c[c][j]
          BY <1>0, <4>1, GrownAt DEF InFlight
        <5>2. Same(m, s2c[c][j])
          BY <3>4, <3>7, <5>1 DEF Same
        <5> QED
          BY <3>5, <3>7, <5>1, <5>2 DEF AskedOnce
      <4>2. CASE j \notin 1 .. Len(s2c[c])
        <5> DEFINE x == j - Len(s2c[c])
        <5>1. x \in 1 .. Len(ms) /\ s2c'[c][j] = ms[x] /\ j \in Int
          BY <1>0, <4>2, GrownAt
        <5>2. x = k
          <6> HIDE DEF x
          <6> QED
            BY <3>3, <3>7, <5>1
        <5> QED
          BY <3>1, <5>1, <5>2 DEF k
      <4> QED
        BY <4>1, <4>2
    <3> QED
      BY <3>3, <3>6, <3>7
  <2> QED
    BY <2>2, <2>3
<1> QED
  BY <1>1 DEF GivenOnce, Gives, Same

LEMMA HeldServer ==
    ASSUME Agree, ClientTypeOK, UNCHANGED clientVars,
           \A p \in ProxyId : store[p] # "unborn" => owner'[p] = owner[p] /\ store'[p] # "unborn"
    PROVE  HeldByCaller'
<1>1. \A c \in Clients : born[c] \subseteq ProxyId
  BY DEF ClientTypeOK
<1> QED
  BY <1>1 DEF Agree, HeldByCaller, OwnedByCaller, clientVars

LEMMA ExcusedServer ==
    ASSUME UNCHANGED clientVars, NEW c, NEW p, owner'[p] = owner[p], p \in Excused(c)
    PROVE  p \in Excused(c)'
BY DEF Excused, clientVars

\* What is given in a queue is given in the longer queue.
LEMMA GivenGrows ==
    ASSUME QueueInv, NEW ms \in Seq(Message), Grows(ms), NEW c \in Clients, NEW p,
           NEW n \in 0 .. Len(s2c[c]), p \in GivenIn(c, n), NEW k \in Nat, k >= n
    PROVE  p \in GivenIn(c, k)'
<1>1. PICK j \in 1 .. n : Gives(s2c[c][j], c, p)
  BY DEF GivenIn
<1>2. Len(s2c[c]) \in Nat
  BY GrownAt
<1>3. j \in 1 .. Len(s2c[c]) /\ j \in 1 .. k
  BY <1>2
<1>4. s2c'[c][j] = s2c[c][j]
  BY <1>3, GrownAt
<1> QED
  BY <1>1, <1>3, <1>4 DEF GivenIn

LEMMA OrderServer ==
    ASSUME Inv, Agree, UNCHANGED <<clientVars, link>>, Ages, Makes,
           sStatus' = sStatus \/ \A p \in ProxyId : store'[p] # "stored",
           NEW ms \in Seq(Message), Grows(ms), Reports(ms)
    PROVE  InOrder'
<1> USE DEF Agree
<1>0. QueueInv /\ StoreInv
  BY DEF Inv
<1>1. ASSUME NEW c \in Clients, NEW i \in 1 .. Len(s2c'[c]), NEW m, m = s2c'[c][i],
             m.type = "event", m.client = c
      PROVE  /\ store'[m.proxy] # "unborn"
             /\ owner'[m.proxy].client = c
             /\ m.proxy \in Excused(c)' \/ m.proxy \in GivenIn(c, i - 1)'
  <2> DEFINE n == Len(s2c[c])
  <2>0. n \in Nat /\ i - 1 \in Nat /\ i \in Nat
    BY <1>0, GrownAt
  <2>1. m.proxy \in ProxyId
    <3>1. s2c'[c] \in Seq(Message)
      <4>1. s2c[c] \in Seq(Message)
        BY <1>0 DEF QueueInv
      <4> QED
        <5>1. s2c[c] \o ms \in Seq(Message)
          BY <4>1
        <5> QED
          BY <4>1, <5>1 DEF Grows
    <3>2. m \in Message
      BY <1>1, <3>1
    <3> QED
      BY <1>1, <3>2 DEF Message, Reply, Notice
  <2>2. CASE i \in 1 .. n
    <3>1. m = s2c[c][i]
      BY <1>0, <1>1, <2>2, GrownAt
    <3>2. /\ store[m.proxy] # "unborn"
          /\ owner[m.proxy].client = c
          /\ m.proxy \in Excused(c) \/ m.proxy \in GivenIn(c, i - 1)
      BY <1>1, <2>2, <3>1 DEF InOrder
    <3>3. store'[m.proxy] # "unborn" /\ owner'[m.proxy] = owner[m.proxy]
      BY <2>1, <3>2 DEF Ages
    <3>4. CASE m.proxy \in Excused(c)
      BY <3>2, <3>3, <3>4, ExcusedServer
    <3>5. CASE m.proxy \in GivenIn(c, i - 1)
      <4>1. i - 1 \in 0 .. Len(s2c[c])
        BY <2>0, <2>2
      <4>2. m.proxy \in GivenIn(c, i - 1)'
        BY <1>0, <2>0, <3>5, <4>1, GivenGrows
      <4> QED
        BY <3>2, <3>3, <4>2
    <3> QED
      BY <3>2, <3>4, <3>5
  <2>3. CASE i \notin 1 .. n
    <3>1. PICK k \in 1 .. Len(ms) : m = ms[k] /\ link = "up" /\ sStatus = "Connected" /\ i > n
      BY <1>0, <1>1, <2>0, <2>3, GrownAt
    <3>2. store[m.proxy] = "stored" /\ owner[m.proxy].client = c
      BY <1>1, <3>1 DEF Reports
    <3>3. m.proxy \in Excused(c) \/ m.proxy \in GivenIn(c, n)
      BY <2>1, <3>1, <3>2 DEF InOrder
    <3>4. store'[m.proxy] # "unborn" /\ owner'[m.proxy] = owner[m.proxy]
      BY <2>1, <3>2 DEF Ages
    <3>5. CASE m.proxy \in Excused(c)
      BY <3>2, <3>4, <3>5, ExcusedServer
    <3>6. CASE m.proxy \in GivenIn(c, n)
      <4>1. n \in 0 .. Len(s2c[c]) /\ i - 1 >= n
        BY <2>0, <3>1
      <4>2. m.proxy \in GivenIn(c, i - 1)'
        BY <1>0, <2>0, <3>6, <4>1, GivenGrows
      <4> QED
        BY <3>2, <3>4, <4>2
    <3> QED
      BY <3>3, <3>5, <3>6
  <2> QED
    BY <2>2, <2>3
<1>2. ASSUME NEW c \in Clients, NEW p \in ProxyId, owner'[p].client = c,
             store'[p] = "stored", link' = "up", sStatus' = "Connected"
      PROVE  p \in Excused(c)' \/ p \in GivenIn(c, Len(s2c[c]))'
  <2>0. CASE store[p] = "unborn"
    BY <1>2, <2>0 DEF Makes
  <2> SUFFICES ASSUME store[p] # "unborn"
               PROVE  p \in Excused(c)' \/ p \in GivenIn(c, Len(s2c[c]))'
    BY <2>0
  <2>1. store[p] = "stored" /\ owner'[p] = owner[p] /\ sStatus = "Connected" /\ link = "up"
    BY <1>2 DEF Ages
  <2>2. p \in Excused(c) \/ p \in GivenIn(c, Len(s2c[c]))
    BY <1>2, <2>1 DEF InOrder
  <2>3. CASE p \in Excused(c)
    BY <2>1, <2>3, ExcusedServer
  <2>4. CASE p \in GivenIn(c, Len(s2c[c]))
    <3>1. /\ Len(s2c[c]) \in 0 .. Len(s2c[c])
          /\ Len(s2c'[c]) \in Nat
          /\ Len(s2c'[c]) >= Len(s2c[c])
      BY <1>0, GrownAt
    <3>2. ASSUME NEW k \in Nat, k >= Len(s2c[c]) PROVE p \in GivenIn(c, k)'
      BY <1>0, <2>4, <3>1, <3>2, GivenGrows
    <3>3. p \in GivenIn(c, Len(s2c[c]))'
      BY <3>1, <3>2 DEF GivenIn
    <3> QED
      BY <3>3
  <2> QED
    BY <2>2, <2>3, <2>4
<1>3. sStatus' # "Connected" => \A p \in ProxyId : store'[p] # "stored"
  BY DEF InOrder, Ages, Makes
<1> QED
  BY <1>1, <1>2, <1>3 DEF InOrder

LEMMA EndServer ==
    ASSUME Inv, Agree, UNCHANGED clientVars, Ages,
           NEW ms \in Seq(Message), Grows(ms), Reports(ms)
    PROVE  EndThenDone'
<1> USE DEF Agree
<1>0. QueueInv
  BY DEF Inv
<1>1. ASSUME NEW c \in Clients, NEW i \in 1 .. Len(s2c'[c]), NEW m, m = s2c'[c][i],
             NEW l, l = s2c'[c][i - 1], m.type = "event", m.client = c, m.event = "done"
      PROVE  /\ i = 1 /\ m.proxy \in cProxies'[c] => m.proxy \in heard'[c]
             /\ i # 1 => l.type = "event" /\ l.event \in EndEvents /\ l.client = c /\ l.proxy = m.proxy
  <2> DEFINE n == Len(s2c[c])
  <2>0. n \in Nat /\ i \in Nat
    BY <1>0, GrownAt
  <2>1. CASE i \in 1 .. n
    <3>1. m = s2c[c][i]
      BY <1>0, <1>1, <2>1, GrownAt
    <3>2. CASE i = 1
      BY <1>1, <2>1, <3>1, <3>2 DEF EndThenDone, clientVars
    <3>3. CASE i # 1
      <4>1. i - 1 \in 1 .. n
        BY <2>0, <2>1, <3>3
      <4>2. l = s2c[c][i - 1]
        BY <1>0, <1>1, <4>1, GrownAt
      <4> QED
        BY <1>1, <2>1, <3>1, <3>3, <4>2 DEF EndThenDone
    <3> QED
      BY <3>2, <3>3
  <2>2. CASE i \notin 1 .. n
    <3> DEFINE k == i - n
    <3>1. /\ k \in 1 .. Len(ms) /\ m = ms[k] /\ i > n
          /\ \A x \in 1 .. Len(ms) : s2c'[c][n + x] = ms[x]
      BY <1>0, <1>1, <2>2, GrownAt
    <3>2. /\ k > 1
          /\ ms[k - 1].type = "event"
          /\ ms[k - 1].client = m.client
          /\ ms[k - 1].proxy = m.proxy
          /\ ms[k - 1].event \in EndEvents
      <4> HIDE DEF k
      <4> QED
        BY <1>1, <3>1 DEF Reports
    <3>3. k - 1 \in 1 .. Len(ms) /\ n + (k - 1) = i - 1 /\ i # 1
      BY <2>0, <3>1, <3>2, SMTT(20)
    <3>4. l = ms[k - 1]
      <4> HIDE DEF k
      <4> QED
        BY <1>1, <3>1, <3>3
    <3> QED
      BY <1>1, <3>2, <3>3, <3>4
  <2> QED
    BY <2>1, <2>2
<1>2. \A c \in Clients : \A k \in calls'[c] :
          k.method = "dispose" => k.proxy \in heard'[c] /\ k.proxy \in done'
  BY DEF EndThenDone, Ages, clientVars
<1>3. FillHearsEnd'
  BY DEF EndThenDone, FillHearsEnd, clientVars
<1> QED
  BY <1>1, <1>2, <1>3 DEF EndThenDone

LEMMA LetGoServer ==
    ASSUME Inv, Agree, UNCHANGED <<clientVars, link>>, Ages, Makes
    PROVE  LetGoDead'
<1> USE DEF Agree
<1>1. \A c \in Clients : born[c] \subseteq ProxyId
  BY DEF Inv, ClientTypeOK
<1>2. ASSUME NEW c \in Clients, NEW p \in born'[c] \ cProxies'[c]
      PROVE  \/ p \in done'
             \/ store'[p] \in {"disposing", "removed"}
             \/ link' # "up" /\ cStatus'[c] # "Connected"
  BY <1>1, <1>2 DEF LetGoDead, HeldByCaller, Ages, clientVars
<1>3. \A p \in ProxyId : store'[p] = "removed" /\ kind'[p] = "process" => p \in done'
  BY DEF LetGoDead, Ages, Makes
<1> QED
  BY <1>2, <1>3 DEF LetGoDead

\* A step of the server that answers only calls that it ends, gives what it makes,
\* and reports only on proxies that it stores, keeps the agreement.
LEMMA ServerAgrees ==
    ASSUME Inv, Agree, UNCHANGED <<clientVars, link>>, Ages, Makes,
           sStatus' = sStatus \/ \A p \in ProxyId : store'[p] # "stored",
           UNCHANGED c2s \/ Take,
           runs' \subseteq runs \/ (Take /\ runs' \subseteq runs \union {Head(c2s)}),
           NEW ms \in Seq(Message), Grows(ms), Answers(ms), Reports(ms)
    PROVE  Agree'
<1>1. AskedOnce'
  BY AskedServer
<1>2. GivenOnce'
  BY GivenServer
<1>3. HeldByCaller'
  BY HeldServer DEF Ages, Inv
<1>4. InOrder'
  BY OrderServer
<1>5. EndThenDone'
  BY EndServer
<1>6. LetGoDead'
  BY LetGoServer
<1> QED
  BY <1>1, <1>2, <1>3, <1>4, <1>5, <1>6 DEF Agree

\* A step that sends nothing grows no queue.
LEMMA SendsNothing ==
    ASSUME UNCHANGED s2c \/ Send(<<>>), QueueInv
    PROVE  Grows(<<>>) /\ Answers(<<>>) /\ Reports(<<>>) /\ <<>> \in Seq(Message)
<1>1. <<>> \in Seq(Message) /\ Len(<<>>) = 0 /\ 1 .. 0 = {}
  OBVIOUS
<1>2. Grows(<<>>)
  BY <1>1, SendGrows DEF Grows
<1> QED
  BY <1>1, <1>2 DEF Answers, Reports

\* The answers to a call, with and without its second one.
AnswersTo(m) ==
    {<<>>, <<Fail(m.client, m.id)>>, <<Success(m.client, m.id, {})>>,
     <<Fail(m.client, m.id), Success(m.client, m.id, {})>>}

LEMMA AnswersEnd ==
    ASSUME NEW m \in Call, m \in LiveCalls, \A n \in LiveCalls' : ~Same(n, m), NEW ms \in AnswersTo(m)
    PROVE  ms \in Seq(Message) /\ Answers(ms) /\ Reports(ms)
<1>1. ms \in Seq(Message)
  <2>1. ms \in Seq(Reply)
    BY AnswersAreMessages DEF AnswersTo
  <2> QED
    BY <2>1 DEF Message
<1>2. ASSUME NEW i \in 1 .. Len(ms)
      PROVE  ms[i].type # "event" /\ ms[i].made = {} /\ Same(ms[i], m)
  <2>1. ms[i] \in {Fail(m.client, m.id), Success(m.client, m.id, {})}
    BY DEF AnswersTo
  <2> HIDE DEF AnswersTo
  <2> QED
    BY <2>1 DEF Fail, Success, Same
<1>3. \A i \in 1 .. Len(ms) : \A n : Same(n, ms[i]) <=> Same(n, m)
  BY <1>2 DEF Same
<1>4. Answers(ms)
  BY <1>2, <1>3 DEF Answers, Same
<1> QED
  BY <1>1, <1>2, <1>4 DEF Reports

\* A call that is taken and not kept is live no more.
LEMMA TakenEnds ==
    ASSUME Inv, Agree, Take, NEW m, m = Head(c2s), runs' \subseteq runs
    PROVE  m \in Call /\ m \in LiveCalls /\ \A n \in LiveCalls' : ~Same(n, m)
<1>1. c2s \in Seq(Call) /\ AskedOnce /\ runs \in SUBSET Call
  BY DEF Inv, QueueInv, RunInv, Agree
<1>2. m \in Call /\ m \in InFlight(c2s)
  BY <1>1, TailOfQueue DEF Take
<1>3. \A n \in InFlight(c2s') : ~Same(n, m)
  BY <1>1, Taken
<1>4. \A n \in runs : ~Same(n, m)
  BY <1>1, <1>2 DEF AskedOnce, Same
<1> QED
  BY <1>2, <1>3, <1>4 DEF LiveCalls

\* A step that leaves the store alone ages it.
LEMMA StillAges ==
    ASSUME UNCHANGED storeVars
    PROVE  Ages /\ Makes
BY DEF Ages, Makes, storeVars

\* Steps that take a call and answer it at once, or never.
LEMMA AgreeAnswered ==
    ASSUME Inv, Agree, UNCHANGED <<clientVars, link, sStatus>>, Ages, Makes, Take,
           NEW m, m = Head(c2s), runs' \subseteq runs, NEW ms \in AnswersTo(m), Send(ms)
    PROVE  Agree'
<1>1. ms \in Seq(Message) /\ Answers(ms) /\ Reports(ms)
  BY TakenEnds, AnswersEnd
<1>2. Grows(ms)
  BY <1>1, SendGrows DEF Inv
<1> QED
  BY <1>1, <1>2, ServerAgrees

\* Steps that send nothing.
LEMMA AgreeQuiet ==
    ASSUME Inv, Agree, UNCHANGED <<clientVars, link, s2c>>, Ages, Makes,
           sStatus' = sStatus \/ \A p \in ProxyId : store'[p] # "stored",
           UNCHANGED c2s \/ Take,
           runs' \subseteq runs \/ (Take /\ runs' \subseteq runs \union {Head(c2s)})
    PROVE  Agree'
<1>1. Grows(<<>>) /\ Answers(<<>>) /\ Reports(<<>>) /\ <<>> \in Seq(Message)
  BY SendsNothing DEF Inv
<1> QED
  BY <1>1, ServerAgrees

\* handleMessage, where nothing is made.
LEMMA AgreeReceives ==
    ASSUME Inv, Agree, UNCHANGED clientVars, NEW m, m = Head(c2s),
           \/ ArgumentFails(m) \/ Refuse(m) \/ DisposeCall(m) \/ RunAtOnce(m)
           \/ RunLong(m) \/ RunMakingDiscarded(m) \/ RunRejects(m)
    PROVE  Agree'
<1>1. Take /\ UNCHANGED <<link, sStatus>>
  BY DEF ArgumentFails, Refuse, DisposeCall, RunAtOnce, RunLong, RunMakingDiscarded, RunRejects,
         Runs, Arrives, serverVars
<1>2. CASE ArgumentFails(m) \/ RunMakingDiscarded(m) \/ RunLong(m)
  <2>1. UNCHANGED <<s2c, storeVars>>
    BY <1>2 DEF ArgumentFails, RunMakingDiscarded, RunLong, serverVars
  <2>2. runs' \subseteq runs \union {m}
    BY <1>2 DEF ArgumentFails, RunMakingDiscarded, RunLong, serverVars, runVars
  <2> QED
    BY <1>1, <2>1, <2>2, StillAges, AgreeQuiet
<1>3. CASE Refuse(m) \/ RunAtOnce(m) \/ RunRejects(m)
  <2>1. UNCHANGED storeVars /\ runs' \subseteq runs
    BY <1>3 DEF Refuse, RunAtOnce, RunRejects, serverVars, runVars
  <2>2. PICK ms \in AnswersTo(m) : Send(ms)
    BY <1>3 DEF Refuse, RunAtOnce, RunRejects, Answer, AnswersTo
  <2> QED
    BY <1>1, <2>1, <2>2, StillAges, AgreeAnswered
<1>4. CASE DisposeCall(m)
  <2>1. Ages /\ Makes
    BY <1>4, RemoveAges DEF DisposeCall, Inv
  <2>2. CASE m.proxy \in Ended({m.proxy})
    <3>1. runs' \subseteq runs
      BY <1>4, <2>2 DEF DisposeCall, runVars
    <3>2. PICK ms \in AnswersTo(m) : Send(ms)
      BY <1>4, <2>2 DEF DisposeCall, Answer, AnswersTo
    <3> QED
      BY <1>1, <2>1, <3>1, <3>2, AgreeAnswered
  <2>3. CASE m.proxy \notin Ended({m.proxy})
    BY <1>1, <1>4, <2>1, <2>3, AgreeQuiet DEF DisposeCall
  <2> QED
    BY <2>2, <2>3
<1> QED
  BY <1>2, <1>3, <1>4

\* A method that settles ends its call.
LEMMA AgreeSettles ==
    ASSUME Inv, Agree, UNCHANGED clientVars, NEW m \in runs, RunSettles(m)
    PROVE  Agree'
<1>1. m \in Call /\ AskedOnce /\ m \in LiveCalls
  BY DEF Inv, RunInv, Agree, LiveCalls
<1>2. UNCHANGED <<link, c2s, sStatus, storeVars>> /\ runs' = runs \ {m}
  BY DEF RunSettles
<1>3. \A n \in LiveCalls' : ~Same(n, m)
  BY <1>1, <1>2 DEF LiveCalls, AskedOnce
<1>4. PICK ms \in AnswersTo(m) : Send(ms)
  BY DEF RunSettles, AnswersTo
<1>5. ms \in Seq(Message) /\ Answers(ms) /\ Reports(ms)
  BY <1>1, <1>3, AnswersEnd
<1>6. Grows(ms)
  BY <1>4, <1>5, SendGrows DEF Inv
<1> QED
  BY <1>2, <1>5, <1>6, StillAges, ServerAgrees

\* An event of a bound proxy, and with it the "done" it ends in, is of a stored one.
LEMMA EventsReport ==
    ASSUME Inv, NEW p \in bound, NEW e \in EndEvents
    PROVE  /\ <<Event(owner[p].client, p, e)>> \in Seq(Message)
           /\ Answers(<<Event(owner[p].client, p, e)>>)
           /\ Reports(<<Event(owner[p].client, p, e)>>)
           /\ DoneMessages(p, e) \in Seq(Message)
           /\ Answers(DoneMessages(p, e))
           /\ Reports(DoneMessages(p, e))
<1> DEFINE c == owner[p].client
           a == Event(c, p, e)
           b == Event(c, p, "done")
<1>1. store[p] = "stored" /\ p \in ProxyId /\ c \in Clients
  BY DEF Inv, StoreInv, DoneHandlerSafe, Lifecycle, Maker
<1>2. a \in Message /\ b \in Message
  BY <1>1 DEF Event, Message, Notice, Events, EndEvents
<1>3. /\ a.type = "event" /\ a.client = c /\ a.proxy = p /\ a.event = e /\ e # "done"
      /\ b.type = "event" /\ b.client = c /\ b.proxy = p /\ b.event = "done"
  BY DEF Event, EndEvents
<1>4. DoneMessages(p, e) = <<a>> \o <<b>>
  BY <1>1 DEF DoneMessages, Usable
<1> HIDE DEF a, b
<1> DEFINE q == DoneMessages(p, e)
<1>5. q \in Seq(Message) /\ Len(q) = 2 /\ q[1] = a /\ q[2] = b
  <2>1. <<a>> \in Seq(Message) /\ <<b>> \in Seq(Message)
    BY <1>2
  <2>2. <<a>> \o <<b>> \in Seq(Message) /\ Len(<<a>> \o <<b>>) = 2
        /\ (<<a>> \o <<b>>)[1] = a /\ (<<a>> \o <<b>>)[2] = b
    BY <2>1
  <2> QED
    BY <1>4, <2>2
<1>6. <<a>> \in Seq(Message) /\ Answers(<<a>>) /\ Reports(<<a>>)
  BY <1>1, <1>2, <1>3 DEF Answers, Reports
<1> HIDE DEF q, c
<1>7. Answers(q)
  BY <1>3, <1>5 DEF Answers
<1>8. Reports(q)
  <2> SUFFICES ASSUME NEW i \in 1 .. 2
               PROVE  /\ store[q[i].proxy] = "stored"
                      /\ owner[q[i].proxy].client = q[i].client
                      /\ q[i].event = "done" =>
                             i > 1 /\ q[i - 1].type = "event" /\ q[i - 1].client = q[i].client
                             /\ q[i - 1].proxy = q[i].proxy /\ q[i - 1].event \in EndEvents
    BY <1>5 DEF Reports
  <2>1. CASE i = 1
    BY <1>1, <1>3, <1>5, <2>1 DEF c
  <2>2. CASE i = 2
    <3>1. q[i - 1] = a
      BY <1>5, <2>2
    <3> QED
      BY <1>1, <1>3, <1>5, <2>2, <3>1 DEF c
  <2> QED
    BY <2>1, <2>2
<1> QED
  BY <1>5, <1>6, <1>7, <1>8 DEF a, c, q

LEMMA AgreeNative ==
    ASSUME Inv, Agree, UNCHANGED clientVars, NativeStep
    PROVE  Agree'
<1>1. PICK p \in ProxyId : NativeEnds(p) \/ NativeError(p) \/ NativeCloses(p)
  BY DEF NativeStep
<1>2. ASSUME NEW e \in EndEvents, DoneFires(p, e) PROVE Agree'
  <2>1. UNCHANGED <<link, c2s, sStatus, runs>> /\ Send(DoneMessages(p, e))
    BY <1>2 DEF DoneFires, runVars
  <2>2. Ages /\ Makes
    BY <1>2, DoneFiresAges DEF Inv
  <2>3. CASE p \in bound
    <3>1. /\ DoneMessages(p, e) \in Seq(Message)
          /\ Answers(DoneMessages(p, e)) /\ Reports(DoneMessages(p, e))
      BY <2>3, EventsReport
    <3>2. Grows(DoneMessages(p, e))
      BY <2>1, <3>1, SendGrows DEF Inv
    <3> QED
      BY <2>1, <2>2, <3>1, <3>2, ServerAgrees
  <2>4. CASE p \notin bound
    <3>1. DoneMessages(p, e) = <<>>
      BY <2>4 DEF DoneMessages
    <3>2. Grows(<<>>) /\ Answers(<<>>) /\ Reports(<<>>) /\ <<>> \in Seq(Message)
      BY <2>1, <3>1, SendsNothing DEF Inv
    <3> QED
      BY <2>1, <2>2, <3>2, ServerAgrees
  <2> QED
    BY <2>3, <2>4
<1>3. CASE NativeEnds(p) \/ NativeError(p)
  BY <1>2, <1>3 DEF NativeEnds, NativeError, EndEvents
<1>4. CASE NativeCloses(p)
  <2>1. /\ UNCHANGED <<link, c2s, sStatus, runs, owner, kind, store, done>>
        /\ Send(IF p \in bound THEN <<Event(owner[p].client, p, "close")>> ELSE <<>>)
    BY <1>4 DEF NativeCloses, runVars
  <2>2. Ages /\ Makes
    BY <2>1 DEF Ages, Makes
  <2>3. CASE p \in bound
    <3> DEFINE ms == <<Event(owner[p].client, p, "close")>>
    <3>1. ms \in Seq(Message) /\ Answers(ms) /\ Reports(ms)
      BY <2>3, EventsReport DEF EndEvents
    <3>2. Send(ms)
      BY <2>1, <2>3
    <3> HIDE DEF ms
    <3>3. Grows(ms)
      BY <3>1, <3>2, SendGrows DEF Inv
    <3> QED
      BY <2>1, <2>2, <3>1, <3>3, ServerAgrees
  <2>4. CASE p \notin bound
    <3>1. Grows(<<>>) /\ Answers(<<>>) /\ Reports(<<>>) /\ <<>> \in Seq(Message)
      BY <2>1, <2>4, SendsNothing DEF Inv
    <3> QED
      BY <2>1, <2>2, <3>1, ServerAgrees
  <2> QED
    BY <2>3, <2>4
<1> QED
  BY <1>1, <1>3, <1>4

\* Making proxies: the one answer to the call that makes them gives them all.
LEMMA AgreeMaking ==
    ASSUME Inv, Agree, UNCHANGED clientVars, NEW m, m = Head(c2s), RunMaking(m)
    PROVE  Agree'
<1>1. PICK size \in Sizes(m.method) :
          /\ Made(size) \subseteq ProxyId
          /\ StoreMade(m, Made(size))
          /\ Send(<<Success(m.client, m.id, Made(size))>>)
  BY DEF RunMaking
<1> DEFINE new == Made(size)
           a == Success(m.client, m.id, new)
           ms == <<a>>
<1>2. /\ Take /\ UNCHANGED <<link, sStatus, runs>> /\ sStatus = "Connected"
  BY DEF RunMaking, Runs, Arrives, runVars
<1>3. m \in Call /\ m \in LiveCalls /\ \A n \in LiveCalls' : ~Same(n, m)
  BY <1>2, TakenEnds
<1>4. /\ a.type = "success" /\ a.client = m.client /\ a.id = m.id /\ a.made = new
      /\ ms \in Seq(Message)
  <2>1. ms \in Seq(Reply)
    BY <1>1, <1>3, AnswersAreMessages
  <2> QED
    BY <2>1 DEF Success, Message
<1>5. \A p \in new : store[p] = "unborn"
  BY <1>1 DEF Made, Inv, StoreInv, Lifecycle, ProxyId
<1>6. /\ \A p \in new : store'[p] = "stored" /\ owner'[p] = [client |-> m.client, id |-> m.id]
      /\ \A p \in ProxyId \ new :
             store'[p] = store[p] /\ owner'[p] = owner[p] /\ kind'[p] = kind[p]
      /\ done' = done
  BY <1>1 DEF StoreMade
<1>7. Ages
  BY <1>5, <1>6 DEF Ages
<1> HIDE DEF new, a
<1>8. Len(ms) = 1 /\ ms[1] = a /\ 1 .. Len(ms) = {1}
  OBVIOUS
<1>9. Grows(ms) /\ Reports(ms)
  <2>1. Send(ms)
    BY <1>1 DEF a, new
  <2>2. Reports(ms)
    BY <1>4, <1>8 DEF Reports
  <2> HIDE DEF ms
  <2> QED
    BY <1>4, <2>1, <2>2, SendGrows DEF Inv
<1>10. Answers(ms)
  <2>1. \A n : Same(n, a) <=> Same(n, m)
    BY <1>4 DEF Same
  <2>2. \A p \in new : Same(a, owner'[p])
    BY <1>4, <1>6 DEF Same
  <2>3. Same(m, a)
    BY <2>1 DEF Same
  <2> HIDE DEF ms
  <2> QED
    BY <1>3, <1>4, <1>5, <1>6, <1>8, <2>1, <2>2, <2>3 DEF Answers
<1>11. Makes
  <2>1. ASSUME NEW p \in ProxyId, store[p] = "unborn", store'[p] # "unborn" PROVE p \in new
    BY <1>6, <2>1
  <2>2. ASSUME NEW p \in new PROVE Same(m, owner'[p]) /\ \A n : Same(n, owner'[p]) <=> Same(n, m)
    BY <1>6 DEF Same
  <2>3. ASSUME NEW p \in new, NEW c \in Clients, owner'[p].client = c, link' = "up"
        PROVE  p \in GivenIn(c, Len(s2c[c]))'
    <3>1. p \in ProxyId /\ m.client = c
      BY <1>1, <1>6, <2>3 DEF new
    <3>2. s2c'[c] = s2c[c] \o ms
      <4>1. Send(ms)
        BY <1>1 DEF a, new
      <4> QED
        BY <1>2, <2>3, <4>1 DEF Send, Deliver
    <3>3. Len(s2c'[c]) \in 1 .. Len(s2c'[c]) /\ s2c'[c][Len(s2c'[c])] = a
      <4>1. s2c[c] \in Seq(Message)
        BY DEF Inv, QueueInv
      <4>2. Len(s2c[c] \o ms) = Len(s2c[c]) + 1 /\ (s2c[c] \o ms)[Len(s2c[c]) + 1] = a
        BY <1>4, <1>8, <4>1, JoinAt
      <4>3. Len(s2c[c]) \in Nat
        BY <4>1
      <4> QED
        BY <3>2, <4>2, <4>3
    <3>4. Gives(a, c, p)
      BY <1>4, <3>1, <2>3 DEF Gives
    <3> QED
      BY <3>1, <3>3, <3>4 DEF GivenIn
  <2> QED
    BY <1>2, <1>3, <1>6, <2>1, <2>2, <2>3 DEF Makes
<1> HIDE DEF ms
<1> QED
  BY <1>2, <1>4, <1>7, <1>9, <1>10, <1>11, ServerAgrees

\* A disconnect leaves nothing stored, and sends nothing.
LEMMA AgreeDisconnect ==
    ASSUME Inv, Agree, UNCHANGED clientVars, NEW status, Disconnect(status)
    PROVE  Agree'
<1>1. /\ UNCHANGED <<link, s2c, c2s, runs>> /\ Remove(ProxyId, TRUE, timers)
  BY DEF Disconnect, linkVars
<1>2. Ages /\ Makes
  BY <1>1, RemoveAges DEF Inv
<1>3. \A p \in ProxyId : store'[p] # "stored"
  BY <1>1 DEF Remove, Ended, Reaped, Starting, Inv, StoreInv
<1> QED
  BY <1>1, <1>2, <1>3, AgreeQuiet

\* Every step of the server keeps the agreement.
LEMMA AgreeServer ==
    ASSUME Inv, Agree, ServerNext, UNCHANGED clientVars
    PROVE  Agree'
<1>1. CASE Discard
  BY <1>1, StillAges, AgreeQuiet DEF Discard, serverVars, runVars
<1>2. CASE c2s # <<>> /\ ServerReceives(Head(c2s))
  BY <1>2, AgreeReceives, AgreeMaking DEF ServerReceives
<1>3. ASSUME NEW m \in runs, RunSettles(m) PROVE Agree'
  BY <1>3, AgreeSettles
<1>4. ASSUME NEW p \in ProxyId, DisposeTimer(p) PROVE Agree'
  <2> DEFINE armed == [timers EXCEPT ![p] = @ - 1]
  <2>1. UNCHANGED <<link, s2c, c2s, sStatus, runs>> /\ Remove({p}, FALSE, armed)
    BY <1>4 DEF DisposeTimer, runVars
  <2> HIDE DEF armed
  <2>2. Ages /\ Makes
    BY <2>1, RemoveAges DEF Inv
  <2> QED
    BY <2>1, <2>2, AgreeQuiet
<1>5. CASE NativeStep
  BY <1>5, AgreeNative
<1>6. CASE ServerDown \/ ServerClose
  BY <1>6, AgreeDisconnect DEF ServerDown, ServerClose
<1>7. CASE Tick
  BY <1>7, StillAges, AgreeQuiet DEF Tick, linkVars, runVars
<1>8. CASE ServerUp
  <2>1. UNCHANGED <<linkVars, storeVars, runVars>> /\ sStatus = "Disconnected"
    BY <1>8 DEF ServerUp
  <2>2. \A p \in ProxyId : store'[p] # "stored"
    BY <2>1 DEF Agree, InOrder, storeVars
  <2> QED
    BY <2>1, <2>2, StillAges, AgreeQuiet DEF linkVars, runVars
<1> QED
  BY <1>1, <1>2, <1>3, <1>4, <1>5, <1>6, <1>7, <1>8 DEF ServerNext, ServerReceive

-----------------------------------------------------------------------------
(* Steps of a client.                                                      *)

\* What a client may do to the queues: take the first message, and send a call under
\* a number that no call had.
Takes(c) == UNCHANGED s2c \/ TakeReply(c)
Asks(c) ==
    /\ \A d \in Clients : nextMsg'[d] \in Nat /\ nextMsg[d] <= nextMsg'[d]
    /\ \/ UNCHANGED c2s
       \/ \E m \in Call : m.client = c /\ m.id = nextMsg[c] /\ m.id \in Open(c)' /\ c2s' = c2s \o <<m>>

\* An open call stays open, unless it is the one that the message taken answers.
Closes(c) ==
    \A d \in Clients : \A i \in Open(d) :
        \/ i \in Open(d)'
        \/ /\ d = c
           /\ TakeReply(c)
           /\ \E r : r = Head(s2c[c]) /\ r.type # "event" /\ r.client = c /\ r.id = i

\* A client gets only what the message taken gives; what that gives it gets, unless
\* it gave up on the call.
Gets(c) ==
    /\ \A d \in Clients :
           /\ settled[d] \subseteq settled'[d]
           /\ born[d] \subseteq born'[d]
           /\ \A p \in cProxies'[d] : p \in cProxies[d] \/ p \in born'[d] \ born[d]
           /\ \A p \in born'[d] \ born[d] :
                  /\ p \in cProxies'[d]
                  /\ d = c
                  /\ TakeReply(c)
                  /\ \E r : /\ r = Head(s2c[c]) /\ Gives(r, c, p)
                           /\ [id |-> r.id, how |-> "resolved"] \in settled'[c]
    /\ TakeReply(c) => \A p \in ProxyId : \A r : r = Head(s2c[c]) /\ Gives(r, c, p) => p \in Excused(c)'

\* What a client drops was heard of, and is done or left to a disconnect.
Hears(c) ==
    /\ TakeReply(c) => \A r :
           r = Head(s2c[c]) /\ r.type = "event" /\ r.client = c /\ r.event \in EndEvents =>
               r.proxy \in heard'[c] \/ r.proxy \notin cProxies'[c]
    /\ \A d \in Clients :
           /\ heard[d] \subseteq heard'[d]
           /\ \A k \in calls'[d] \ calls[d] :
                  k.method = "dispose" => k.proxy \in heard'[d] /\ k.proxy \in done
           /\ \A p \in cProxies[d] \ cProxies'[d] :
                  /\ p \in heard'[d]
                  /\ p \in done \/ (link # "up" /\ cStatus'[d] # "Connected")
           /\ link # "up" /\ cStatus[d] # "Connected" => cStatus'[d] # "Connected"

\* Where a message of a queue comes from, of which the first may have been taken.
LEMMA ShiftAt ==
    ASSUME QueueInv, NEW c \in Clients, Takes(c), NEW d \in Clients
    PROVE  \E x \in {0, 1} :
               /\ Len(s2c[d]) \in Nat /\ Len(s2c'[d]) \in Nat
               /\ Len(s2c'[d]) = Len(s2c[d]) - x
               /\ \A i \in 1 .. Len(s2c'[d]) : s2c'[d][i] = s2c[d][i + x] /\ i + x \in 1 .. Len(s2c[d])
               /\ x = 1 => d = c /\ TakeReply(c) /\ Head(s2c[c]) = s2c[c][1] /\ 1 \in 1 .. Len(s2c[c])
<1>1. s2c \in [Clients -> Seq(Message)]
  BY DEF QueueInv
<1>2. CASE s2c'[d] = s2c[d]
  <2>1. \A i \in 1 .. Len(s2c[d]) : i + 0 = i
    BY <1>1
  <2>2. Len(s2c[d]) \in Nat
    BY <1>1
  <2> QED
    BY <1>2, <2>1, <2>2
<1>3. CASE d = c /\ TakeReply(c)
  <2>1. s2c'[c] = Tail(s2c[c]) /\ s2c[c] # <<>> /\ s2c[c] \in Seq(Message)
    BY <1>1, <1>3 DEF TakeReply
  <2>2. /\ Len(s2c'[c]) = Len(s2c[c]) - 1
        /\ Len(s2c[c]) \in Nat \ {0}
        /\ Head(s2c[c]) = s2c[c][1]
        /\ \A i \in 1 .. Len(s2c'[c]) : s2c'[c][i] = s2c[c][i + 1] /\ i + 1 \in 1 .. Len(s2c[c])
        /\ 1 \in 1 .. Len(s2c[c])
    BY <2>1, TailAt
  <2> QED
    BY <1>3, <2>2
<1> QED
  BY <1>1, <1>2, <1>3 DEF Takes, TakeReply

LEMMA ShiftInFlight ==
    ASSUME QueueInv, NEW c \in Clients, Takes(c), NEW d \in Clients
    PROVE  InFlight(s2c'[d]) \subseteq InFlight(s2c[d])
BY ShiftAt DEF InFlight

\* The server's queue with one more call.
LEMMA OneMore ==
    ASSUME NEW S, NEW q \in Seq(S), NEW m \in S
    PROVE  /\ Len(q \o <<m>>) = Len(q) + 1 /\ Len(q) \in Nat
           /\ \A i \in 1 .. Len(q \o <<m>>) :
                  \/ (i \in 1 .. Len(q) /\ (q \o <<m>>)[i] = q[i])
                  \/ (i = Len(q) + 1 /\ (q \o <<m>>)[i] = m)
           /\ InFlight(q \o <<m>>) = InFlight(q) \union {m}
<1>1. /\ Len(q \o <<m>>) = Len(q) + 1 /\ Len(q) \in Nat
      /\ \A i \in 1 .. Len(q) : (q \o <<m>>)[i] = q[i]
      /\ (q \o <<m>>)[Len(q) + 1] = m
  OBVIOUS
<1> DEFINE r == q \o <<m>>
<1> HIDE DEF r
<1>2. \A i \in 1 .. Len(r) : (i \in 1 .. Len(q) /\ r[i] = q[i]) \/ (i = Len(q) + 1 /\ r[i] = m)
  BY <1>1 DEF r
<1>3. Len(q) + 1 \in 1 .. Len(r) /\ \A i \in 1 .. Len(q) : i \in 1 .. Len(r)
  BY <1>1 DEF r
<1>4. InFlight(r) = InFlight(q) \union {m}
  BY <1>1, <1>2, <1>3 DEF InFlight, r
<1> QED
  BY <1>1, <1>2, <1>4 DEF r

LEMMA AskedClient ==
    ASSUME Inv, Agree, UNCHANGED serverVars, NEW c \in Clients, Takes(c), Asks(c), Closes(c)
    PROVE  AskedOnce'
<1>0. QueueInv /\ AskedOnce /\ c2s \in Seq(Call) /\ nextMsg \in [Clients -> Nat]
  BY DEF Inv, QueueInv, Agree, ClientTypeOK
<1>1. UNCHANGED <<runs, owner, store>>
  BY DEF serverVars, storeVars, runVars
<1>2. ASSUME NEW m \in LiveCalls
      PROVE  /\ m.client \in Clients
             /\ (m.id \in Open(m.client))'
             /\ m.id # nextMsg[m.client]
             /\ \A r \in InFlight(s2c'[m.client]) : r.type # "event" => ~Same(m, r)
             /\ \A p \in ProxyId : store'[p] # "unborn" => ~Same(m, owner'[p])
  <2>1. m.client \in Clients /\ m.id \in Open(m.client)
    BY <1>0, LiveAreCalls DEF AskedOnce
  <2>2. (m.id \in Open(m.client))'
    <3>1. SUFFICES ASSUME m.client = c, TakeReply(c),
                          NEW r, r = Head(s2c[c]), r.type # "event", r.client = c, r.id = m.id
                   PROVE  FALSE
      BY <2>1 DEF Closes
    <3>2. r \in InFlight(s2c[c])
      BY <1>0, <3>1, TailOfQueue DEF QueueInv, TakeReply
    <3> QED
      BY <1>0, <3>1, <3>2 DEF AskedOnce, Same
  <2>3. m.id # nextMsg[m.client]
    <3>1. m.id \in 0 .. nextMsg[m.client] - 1
      BY <2>1 DEF Open
    <3>2. nextMsg[m.client] \in Nat
      BY <1>0, <2>1
    <3> QED
      BY <3>1, <3>2
  <2> QED
    BY <1>0, <1>1, <2>1, <2>2, <2>3, ShiftInFlight DEF AskedOnce
<1>3. \A d \in Clients : \A r \in InFlight(s2c'[d]) :
          r.type # "event" /\ r.client = d => r.id \in 0 .. nextMsg'[d] - 1 /\ r.id # nextMsg[d]
  <2>1. ASSUME NEW d \in Clients, NEW i \in 0 .. nextMsg[d] - 1
        PROVE  i \in 0 .. nextMsg'[d] - 1 /\ i # nextMsg[d]
    <3>1. nextMsg[d] \in Nat /\ nextMsg'[d] \in Nat /\ nextMsg[d] <= nextMsg'[d]
      BY <1>0 DEF Asks
    <3> QED
      BY <3>1
  <2> QED
    BY <1>0, <2>1, ShiftInFlight DEF AskedOnce
<1>4. \A p \in ProxyId : store'[p] # "unborn" =>
          owner'[p].id \in 0 .. nextMsg'[owner'[p].client] - 1 /\ owner'[p].id # nextMsg[owner'[p].client]
  <2> SUFFICES ASSUME NEW p \in ProxyId, store[p] # "unborn"
               PROVE  owner[p].id \in 0 .. nextMsg'[owner[p].client] - 1
                      /\ owner[p].id # nextMsg[owner[p].client]
    BY <1>1
  <2>1. owner[p].client \in Clients
    BY DEF Inv, StoreInv, Lifecycle, Maker
  <2>2. owner[p].id \in 0 .. nextMsg[owner[p].client] - 1
    BY <1>0 DEF AskedOnce
  <2>3. /\ nextMsg[owner[p].client] \in Nat /\ nextMsg'[owner[p].client] \in Nat
        /\ nextMsg[owner[p].client] <= nextMsg'[owner[p].client]
    BY <1>0, <2>1 DEF Asks
  <2> QED
    BY <2>2, <2>3
<1>5. CASE UNCHANGED c2s
  <2>1. LiveCalls' = LiveCalls
    BY <1>1, <1>5 DEF LiveCalls
  <2> QED
    BY <1>0, <1>1, <1>2, <1>3, <1>4, <1>5, <2>1 DEF AskedOnce
<1>6. ASSUME NEW m \in Call, m.client = c, m.id = nextMsg[c], m.id \in Open(c)', c2s' = c2s \o <<m>>
      PROVE  AskedOnce'
  <2>1. /\ InFlight(c2s') = InFlight(c2s) \union {m}
        /\ Len(c2s) \in Nat
        /\ \A i \in 1 .. Len(c2s') :
               (i \in 1 .. Len(c2s) /\ c2s'[i] = c2s[i]) \/ (i = Len(c2s) + 1 /\ c2s'[i] = m)
    BY <1>0, <1>6, OneMore
  <2>2. LiveCalls' = LiveCalls \union {m}
    BY <1>1, <2>1 DEF LiveCalls
  <2>3. \A n \in LiveCalls : ~Same(n, m) /\ ~Same(m, n)
    BY <1>2, <1>6 DEF Same
  <2>4. \A i \in 1 .. Len(c2s) : c2s[i] \in LiveCalls
    BY DEF LiveCalls, InFlight
  <2>5. \A i, j \in 1 .. Len(c2s') : Same(c2s'[i], c2s'[j]) => i = j
    BY <1>0, <2>1, <2>3, <2>4 DEF AskedOnce
  <2>6. \A n \in InFlight(c2s'), r \in runs' : ~Same(n, r)
    BY <1>0, <1>1, <2>1, <2>3 DEF AskedOnce, LiveCalls
  <2>7. /\ (m.id \in Open(m.client))'
        /\ \A r \in InFlight(s2c'[m.client]) : r.type # "event" => ~Same(m, r)
        /\ \A p \in ProxyId : store'[p] # "unborn" => ~Same(m, owner'[p])
    BY <1>3, <1>4, <1>6 DEF Same
  <2> QED
    BY <1>0, <1>1, <1>2, <1>3, <1>4, <2>2, <2>5, <2>6, <2>7 DEF AskedOnce
<1> QED
  BY <1>5, <1>6 DEF Asks

LEMMA GivenClient ==
    ASSUME Inv, Agree, UNCHANGED serverVars, NEW c \in Clients, Takes(c), Closes(c)
    PROVE  GivenOnce'
<1>0. QueueInv /\ GivenOnce /\ UNCHANGED <<owner, store>>
  BY DEF Inv, Agree, serverVars, storeVars
<1>1. ASSUME NEW d \in Clients, NEW i \in 1 .. Len(s2c'[d]), NEW p \in ProxyId,
             NEW r, r = s2c'[d][i], Gives(r, d, p)
      PROVE  /\ store'[p] # "unborn"
             /\ Same(r, owner'[p])
             /\ r.id \in Open(d)'
             /\ \A j \in 1 .. Len(s2c'[d]) :
                    s2c'[d][j].type # "event" /\ Same(s2c'[d][j], r) => j = i
  <2>1. PICK x \in {0, 1} :
            /\ Len(s2c[d]) \in Nat /\ Len(s2c'[d]) \in Nat
            /\ Len(s2c'[d]) = Len(s2c[d]) - x
            /\ \A j \in 1 .. Len(s2c'[d]) : s2c'[d][j] = s2c[d][j + x] /\ j + x \in 1 .. Len(s2c[d])
            /\ x = 1 => d = c /\ TakeReply(c) /\ Head(s2c[c]) = s2c[c][1] /\ 1 \in 1 .. Len(s2c[c])
    BY <1>0, ShiftAt
  <2>2. r = s2c[d][i + x] /\ i + x \in 1 .. Len(s2c[d]) /\ r.client = d
    BY <1>1, <2>1 DEF Gives
  <2>3. /\ store[p] # "unborn"
        /\ Same(r, owner[p])
        /\ r.id \in Open(d)
        /\ \A j \in 1 .. Len(s2c[d]) :
               s2c[d][j].type # "event" /\ Same(s2c[d][j], r) => j = i + x
    BY <1>0, <1>1, <2>2 DEF GivenOnce
  <2>4. ASSUME NEW j \in 1 .. Len(s2c'[d]), s2c'[d][j].type # "event", Same(s2c'[d][j], r)
        PROVE  j = i
    <3>1. j + x = i + x
      BY <2>1, <2>3, <2>4
    <3> QED
      BY <3>1
  <2>5. r.id \in Open(d)'
    <3>1. SUFFICES ASSUME d = c, TakeReply(c),
                          NEW h, h = Head(s2c[c]), h.type # "event", h.client = c, h.id = r.id
                   PROVE  FALSE
      BY <2>3 DEF Closes
    <3>2. h = s2c[c][1] /\ 1 \in 1 .. Len(s2c[c])
      BY <1>0, <3>1, TailAt DEF QueueInv, TakeReply
    <3>3. 1 = i + x
      BY <2>2, <2>3, <3>1, <3>2 DEF Same
    <3>4. x = 0 /\ i = 1 /\ s2c'[c][1] = s2c[c][1]
      BY <2>1, <3>1, <3>3
    <3>5. Len(s2c'[c]) = Len(s2c[c]) - 1
      BY <1>0, <3>1, TailAt DEF QueueInv, TakeReply
    <3>6. s2c'[c][1] = s2c[c][2] /\ 2 \in 1 .. Len(s2c[c])
      <4>1. s2c'[c] = Tail(s2c[c]) /\ 1 \in 1 .. Len(Tail(s2c[c]))
        BY <1>0, <3>1, <3>4 DEF QueueInv, TakeReply
      <4>2. Tail(s2c[c])[1] = s2c[c][1 + 1] /\ 1 + 1 \in 1 .. Len(s2c[c])
        BY <1>0, <3>1, <4>1, TailAt DEF QueueInv, TakeReply
      <4> QED
        BY <4>1, <4>2
    <3>7. 2 = i + x
      BY <2>2, <2>3, <3>1, <3>2, <3>4, <3>6 DEF Same
    <3> QED
      BY <3>3, <3>7
  <2> QED
    BY <1>0, <2>3, <2>4, <2>5
<1> QED
  BY <1>1 DEF GivenOnce, Gives, Same

LEMMA HeldClient ==
    ASSUME Inv, Agree, UNCHANGED serverVars, NEW c \in Clients, Gets(c)
    PROVE  HeldByCaller'
<1>0. QueueInv /\ GivenOnce /\ HeldByCaller /\ UNCHANGED <<owner, store>>
  BY DEF Inv, Agree, serverVars, storeVars
<1>1. ASSUME NEW d \in Clients, NEW p \in born'[d]
      PROVE  /\ owner[p].client = d
             /\ [id |-> owner[p].id, how |-> "resolved"] \in settled'[d]
             /\ store[p] # "unborn"
  <2>1. CASE p \in born[d]
    BY <1>0, <2>1 DEF HeldByCaller, OwnedByCaller, Gets
  <2>2. CASE p \notin born[d]
    <3>1. PICK r : /\ d = c /\ TakeReply(c)
                   /\ r = Head(s2c[c]) /\ Gives(r, c, p)
                   /\ [id |-> r.id, how |-> "resolved"] \in settled'[c]
      BY <1>1, <2>2 DEF Gets
    <3>2. r = s2c[c][1] /\ 1 \in 1 .. Len(s2c[c]) /\ r \in Message
      BY <1>0, <3>1, TailAt, TailOfQueue DEF QueueInv, TakeReply
    <3>3. p \in ProxyId
      BY <3>1, <3>2 DEF Gives, Message, Reply, Notice
    <3>4. store[p] # "unborn" /\ Same(r, owner[p])
      BY <1>0, <3>1, <3>2, <3>3 DEF GivenOnce
    <3> QED
      BY <3>1, <3>4 DEF Same, Gives
  <2> QED
    BY <2>1, <2>2
<1>2. \A d \in Clients : cProxies'[d] \subseteq born'[d]
  BY <1>0 DEF Gets, HeldByCaller
<1> QED
  BY <1>0, <1>1, <1>2 DEF HeldByCaller, OwnedByCaller

LEMMA ExcusedClient ==
    ASSUME UNCHANGED serverVars, NEW c, Gets(c), NEW d \in Clients, NEW p \in Excused(d)
    PROVE  p \in Excused(d)'
<1>1. UNCHANGED owner
  BY DEF serverVars, storeVars
<1>2. born[d] \subseteq born'[d] /\ settled[d] \subseteq settled'[d]
  BY DEF Gets
<1> QED
  BY <1>1, <1>2 DEF Excused

LEMMA OrderClient ==
    ASSUME Inv, Agree, UNCHANGED <<link, serverVars>>, NEW c \in Clients, Takes(c), Gets(c)
    PROVE  InOrder'
<1>0. QueueInv /\ InOrder /\ UNCHANGED <<owner, store, sStatus>>
  BY DEF Inv, Agree, serverVars, storeVars
<1>1. ASSUME NEW d \in Clients, NEW p \in ProxyId, NEW x \in {0, 1}, NEW n \in Nat, n \in 0 .. Len(s2c'[d]),
             Len(s2c'[d]) \in Nat,
             \A j \in 1 .. Len(s2c'[d]) : s2c'[d][j] = s2c[d][j + x] /\ j + x \in 1 .. Len(s2c[d]),
             x = 1 => d = c /\ TakeReply(c) /\ Head(s2c[c]) = s2c[c][1],
             p \in Excused(d) \/ p \in GivenIn(d, n + x)
      PROVE  p \in Excused(d)' \/ p \in GivenIn(d, n)'
  <2>1. CASE p \in Excused(d)
    BY <2>1, ExcusedClient
  <2>2. CASE p \in GivenIn(d, n + x)
    <3>1. PICK j \in 1 .. n + x : Gives(s2c[d][j], d, p)
      BY <2>2 DEF GivenIn
    <3>2. CASE j - x \in 1 .. n
      <4>1. s2c'[d][j - x] = s2c[d][j]
        BY <1>1, <3>2
      <4> QED
        BY <3>1, <3>2, <4>1 DEF GivenIn
    <3>3. CASE j - x \notin 1 .. n
      <4>1. x = 1 /\ j = 1
        BY <3>1, <3>3
      <4> QED
        BY <1>1, <3>1, <4>1 DEF Gets
    <3> QED
      BY <3>2, <3>3
  <2> QED
    BY <1>1, <2>1, <2>2
<1>2. ASSUME NEW d \in Clients, NEW i \in 1 .. Len(s2c'[d]), NEW m, m = s2c'[d][i],
             m.type = "event", m.client = d
      PROVE  /\ store'[m.proxy] # "unborn"
             /\ owner'[m.proxy].client = d
             /\ m.proxy \in Excused(d)' \/ m.proxy \in GivenIn(d, i - 1)'
  <2>1. PICK x \in {0, 1} :
            /\ Len(s2c[d]) \in Nat /\ Len(s2c'[d]) \in Nat
            /\ Len(s2c'[d]) = Len(s2c[d]) - x
            /\ \A j \in 1 .. Len(s2c'[d]) : s2c'[d][j] = s2c[d][j + x] /\ j + x \in 1 .. Len(s2c[d])
            /\ x = 1 => d = c /\ TakeReply(c) /\ Head(s2c[c]) = s2c[c][1] /\ 1 \in 1 .. Len(s2c[c])
    BY <1>0, ShiftAt
  <2>2. m = s2c[d][i + x] /\ i + x \in 1 .. Len(s2c[d])
    BY <1>2, <2>1
  <2>3. m.proxy \in ProxyId
    <3>1. m \in Message
      BY <1>0, <2>2 DEF QueueInv
    <3> QED
      BY <1>2, <3>1 DEF Message, Reply, Notice
  <2>4. /\ store[m.proxy] # "unborn"
        /\ owner[m.proxy].client = d
        /\ m.proxy \in Excused(d) \/ m.proxy \in GivenIn(d, (i + x) - 1)
    BY <1>0, <1>2, <2>2 DEF InOrder
  <2>5. (i + x) - 1 = (i - 1) + x /\ i - 1 \in Nat /\ i - 1 \in 0 .. Len(s2c'[d])
    BY <2>1
  <2>6. m.proxy \in Excused(d) \/ m.proxy \in GivenIn(d, (i - 1) + x)
    BY <2>4, <2>5
  <2>7. ASSUME NEW n, n = i - 1 PROVE m.proxy \in Excused(d)' \/ m.proxy \in GivenIn(d, n)'
    BY <1>1, <2>1, <2>3, <2>5, <2>6, <2>7
  <2>8. m.proxy \in Excused(d)' \/ m.proxy \in GivenIn(d, i - 1)'
    BY <2>7
  <2> QED
    BY <1>0, <2>4, <2>8
<1>3. ASSUME NEW d \in Clients, NEW p \in ProxyId, owner'[p].client = d,
             store'[p] = "stored", link' = "up", sStatus' = "Connected"
      PROVE  p \in Excused(d)' \/ p \in GivenIn(d, Len(s2c[d]))'
  <2>1. PICK x \in {0, 1} :
            /\ Len(s2c[d]) \in Nat /\ Len(s2c'[d]) \in Nat
            /\ Len(s2c'[d]) = Len(s2c[d]) - x
            /\ \A j \in 1 .. Len(s2c'[d]) : s2c'[d][j] = s2c[d][j + x] /\ j + x \in 1 .. Len(s2c[d])
            /\ x = 1 => d = c /\ TakeReply(c) /\ Head(s2c[c]) = s2c[c][1] /\ 1 \in 1 .. Len(s2c[c])
    BY <1>0, ShiftAt
  <2>2. p \in Excused(d) \/ p \in GivenIn(d, Len(s2c[d]))
    BY <1>0, <1>3 DEF InOrder
  <2>3. ASSUME NEW n, n = Len(s2c'[d]) PROVE p \in Excused(d)' \/ p \in GivenIn(d, n)'
    <3>1. n \in Nat /\ n \in 0 .. Len(s2c'[d]) /\ n + x = Len(s2c[d])
      BY <2>1, <2>3
    <3> QED
      BY <1>1, <2>1, <2>2, <3>1
  <2>4. p \in Excused(d)' \/ p \in GivenIn(d, Len(s2c[d]))'
    BY <2>3 DEF GivenIn
  <2> QED
    BY <2>4
<1>4. sStatus' # "Connected" => \A p \in ProxyId : store'[p] # "stored"
  BY <1>0 DEF InOrder
<1> QED
  BY <1>2, <1>3, <1>4 DEF InOrder

LEMMA EndClient ==
    ASSUME Inv, Agree, UNCHANGED serverVars, NEW c \in Clients, Takes(c), Gets(c), Hears(c)
    PROVE  EndThenDone'
<1>0. QueueInv /\ EndThenDone /\ UNCHANGED done
  BY DEF Inv, Agree, serverVars, storeVars
<1>1. ASSUME NEW d \in Clients, NEW i \in 1 .. Len(s2c'[d]), NEW m, m = s2c'[d][i],
             NEW l, l = s2c'[d][i - 1], m.type = "event", m.client = d, m.event = "done"
      PROVE  /\ i = 1 /\ m.proxy \in cProxies'[d] => m.proxy \in heard'[d]
             /\ i # 1 => l.type = "event" /\ l.event \in EndEvents /\ l.client = d /\ l.proxy = m.proxy
  <2>1. PICK x \in {0, 1} :
            /\ Len(s2c[d]) \in Nat /\ Len(s2c'[d]) \in Nat
            /\ Len(s2c'[d]) = Len(s2c[d]) - x
            /\ \A j \in 1 .. Len(s2c'[d]) : s2c'[d][j] = s2c[d][j + x] /\ j + x \in 1 .. Len(s2c[d])
            /\ x = 1 => d = c /\ TakeReply(c) /\ Head(s2c[c]) = s2c[c][1] /\ 1 \in 1 .. Len(s2c[c])
    BY <1>0, ShiftAt
  <2>2. m = s2c[d][i + x] /\ i + x \in 1 .. Len(s2c[d])
    BY <1>1, <2>1
  <2>3. CASE i # 1
    <3>1. i - 1 \in 1 .. Len(s2c'[d]) /\ (i - 1) + x = (i + x) - 1 /\ i + x # 1
      BY <2>1, <2>3
    <3>2. l = s2c[d][(i + x) - 1]
      BY <1>1, <2>1, <3>1
    <3> QED
      <4>1. \A j \in 1 .. Len(s2c[d]) :
                s2c[d][j].type = "event" /\ s2c[d][j].client = d /\ s2c[d][j].event = "done" /\ j # 1 =>
                    /\ s2c[d][j - 1].type = "event" /\ s2c[d][j - 1].event \in EndEvents
                    /\ s2c[d][j - 1].client = d /\ s2c[d][j - 1].proxy = s2c[d][j].proxy
        BY <1>0 DEF EndThenDone
      <4> QED
        BY <1>1, <2>2, <2>3, <3>1, <3>2, <4>1
  <2>4. CASE i = 1 /\ x = 0
    <3>1. m.proxy \in cProxies[d] => m.proxy \in heard[d]
      <4>1. m = s2c[d][1] /\ 1 \in 1 .. Len(s2c[d])
        BY <2>2, <2>4
      <4> QED
        BY <1>0, <1>1, <4>1 DEF EndThenDone
    <3>2. m.proxy \in cProxies'[d] => m.proxy \in cProxies[d]
      <4> SUFFICES ASSUME m.proxy \in born'[d] \ born[d] PROVE FALSE
        BY DEF Gets
      <4>1. d = c /\ TakeReply(c)
        BY DEF Gets
      <4>2. s2c'[c] = Tail(s2c[c]) /\ s2c[c] # <<>> /\ s2c[c] \in Seq(Message)
        BY <1>0, <4>1 DEF QueueInv, TakeReply
      <4>3. Len(s2c'[c]) = Len(s2c[c]) - 1
        BY <4>2, TailAt
      <4> QED
        BY <2>1, <2>4, <4>1, <4>3
    <3> QED
      BY <2>4, <3>1, <3>2 DEF Hears
  <2>5. CASE i = 1 /\ x = 1
    <3>1. /\ d = c /\ TakeReply(c) /\ m = s2c[c][2] /\ 2 \in 1 .. Len(s2c[c])
          /\ Head(s2c[c]) = s2c[c][2 - 1] /\ 2 # 1
      BY <2>1, <2>2, <2>5
    <3>2. ASSUME NEW h, h = s2c[c][2 - 1]
          PROVE  h.type = "event" /\ h.event \in EndEvents /\ h.client = c /\ h.proxy = m.proxy
      BY <1>0, <1>1, <3>1, <3>2 DEF EndThenDone
    <3>3. \A h : h = Head(s2c[c]) =>
              h.type = "event" /\ h.event \in EndEvents /\ h.client = c /\ h.proxy = m.proxy
      BY <3>1, <3>2
    <3>4. m.proxy \in heard'[c] \/ m.proxy \notin cProxies'[c]
      BY <3>1, <3>3 DEF Hears
    <3> QED
      BY <2>5, <3>1, <3>4
  <2> QED
    BY <2>3, <2>4, <2>5
<1>2. \A d \in Clients : \A k \in calls'[d] :
          k.method = "dispose" => k.proxy \in heard'[d] /\ k.proxy \in done'
  BY <1>0 DEF EndThenDone, Hears
<1>3. FillHearsEnd'
  <2> SUFFICES ASSUME NEW d \in Clients, NEW p \in born'[d], p \notin cProxies'[d]
               PROVE  p \in heard'[d]
    BY DEF FillHearsEnd
  <2>1. p \in born[d]
    BY DEF Gets
  <2>2. CASE p \in cProxies[d]
    BY <2>2 DEF Hears
  <2>3. CASE p \notin cProxies[d]
    BY <1>0, <2>1, <2>3 DEF EndThenDone, FillHearsEnd, Hears
  <2> QED
    BY <2>2, <2>3
<1> QED
  BY <1>1, <1>2, <1>3 DEF EndThenDone

LEMMA LetGoClient ==
    ASSUME Inv, Agree, UNCHANGED <<link, serverVars>>, NEW c \in Clients, Gets(c), Hears(c)
    PROVE  LetGoDead'
<1>0. LetGoDead /\ UNCHANGED <<store, kind, done>>
  BY DEF Agree, serverVars, storeVars
<1>1. ASSUME NEW d \in Clients, NEW p \in born'[d] \ cProxies'[d]
      PROVE  \/ p \in done
             \/ store[p] \in {"disposing", "removed"}
             \/ link # "up" /\ cStatus'[d] # "Connected"
  <2>1. p \in born[d]
    BY <1>1 DEF Gets
  <2>2. CASE p \in cProxies[d]
    BY <1>1, <2>2 DEF Hears
  <2>3. CASE p \notin cProxies[d]
    BY <1>0, <2>1, <2>3 DEF LetGoDead, Hears
  <2> QED
    BY <2>2, <2>3
<1> QED
  BY <1>0, <1>1 DEF LetGoDead

\* A step of a client with all of these keeps the agreement.
LEMMA ClientAgrees ==
    ASSUME Inv, Agree, UNCHANGED <<link, serverVars>>, NEW c \in Clients,
           Takes(c), Asks(c), Closes(c), Gets(c), Hears(c)
    PROVE  Agree'
<1>1. AskedOnce'
  BY AskedClient
<1>2. GivenOnce'
  BY GivenClient
<1>3. HeldByCaller'
  BY HeldClient
<1>4. InOrder'
  BY OrderClient
<1>5. EndThenDone'
  BY EndClient
<1>6. LetGoDead'
  BY LetGoClient
<1> QED
  BY <1>1, <1>2, <1>3, <1>4, <1>5, <1>6 DEF Agree

\* A step that takes nothing takes nothing.
LEMMA NothingTaken ==
    ASSUME QueueInv, NEW c \in Clients, UNCHANGED s2c
    PROVE  Takes(c) /\ ~TakeReply(c)
<1>1. SUFFICES ASSUME TakeReply(c) PROVE FALSE
  BY DEF Takes
<1>2. s2c'[c] = Tail(s2c[c]) /\ s2c[c] # <<>> /\ s2c[c] \in Seq(Message)
  BY <1>1 DEF QueueInv, TakeReply
<1>3. Len(s2c'[c]) = Len(s2c[c]) - 1 /\ Len(s2c[c]) \in Nat
  BY <1>2, TailAt
<1> QED
  BY <1>3

\* The message taken is the first of the queue.
LEMMA HeadTaken ==
    ASSUME QueueInv, NEW c \in Clients, TakeReply(c), NEW m, m = Head(s2c[c])
    PROVE  m = s2c[c][1] /\ 1 \in 1 .. Len(s2c[c]) /\ m \in Message /\ m \in InFlight(s2c[c])
BY TailAt, TailOfQueue DEF QueueInv, TakeReply

\* The number of a new call is no other's, and open.
LEMMA RemoteCallOpens ==
    ASSUME QueueInv, ClientTypeOK, CallAccounting, NEW c \in Clients, NEW method \in Methods,
           NEW p \in Target, NEW dest \in Target, RemoteCall(c, method, p, dest), UNCHANGED settled
    PROVE  /\ Asks(c)
           /\ Closes(c)
           /\ \A d \in Clients : \A k \in calls'[d] \ calls[d] :
                  d = c /\ k.method = method /\ k.proxy = p
<1> DEFINE id == nextMsg[c]
           m == [client |-> c, id |-> id, method |-> method, proxy |-> p, dest |-> dest]
<1>1. /\ id \in Nat /\ nextMsg' = [nextMsg EXCEPT ![c] = id + 1] /\ nextMsg \in [Clients -> Nat]
      /\ c2s' = Deliver(c2s, <<m>>)
  BY DEF RemoteCall, ClientTypeOK
<1>2. m \in Call /\ m.client = c /\ m.id = id
  BY <1>1 DEF Call
<1>3. \A d \in Clients : nextMsg[d] \in Nat /\ nextMsg'[d] \in Nat /\ nextMsg[d] <= nextMsg'[d]
  BY <1>1
<1>4. id \in Open(c)'
  <2>1. id \notin 0 .. nextMsg[c] - 1 /\ id \in 0 .. nextMsg'[c] - 1
    BY <1>1
  <2>2. \A s \in settled[c] : s.id # id
    BY <2>1 DEF CallAccounting, SettledIds
  <2> QED
    BY <2>1, <2>2 DEF Open
<1>5. Asks(c)
  <2>1. c2s' = c2s \/ c2s' = c2s \o <<m>>
    BY <1>1 DEF Deliver
  <2> HIDE DEF m
  <2> QED
    BY <1>2, <1>3, <1>4, <2>1 DEF Asks
<1>6. Closes(c)
  <2> SUFFICES ASSUME NEW d \in Clients, NEW i, i \in Open(d) PROVE i \in Open(d)'
    BY DEF Closes
  <2>1. i \in 0 .. nextMsg[d] - 1 /\ \A s \in settled'[d] : s.id = i => s.how \in Unanswered
    BY DEF Open
  <2>2. i \in 0 .. nextMsg'[d] - 1
    <3>1. nextMsg[d] \in Nat /\ nextMsg'[d] \in Nat /\ nextMsg[d] <= nextMsg'[d]
      BY <1>3
    <3> QED
      BY <2>1, <3>1
  <2> QED
    BY <2>1, <2>2 DEF Open
<1>7. \A d \in Clients : \A k \in calls'[d] \ calls[d] : d = c /\ k.method = method /\ k.proxy = p
  BY DEF RemoteCall, ClientTypeOK
<1> QED
  BY <1>5, <1>6, <1>7

\* Calls that end leave the others open, and themselves when nothing was answered.
LEMMA SettleOpens ==
    ASSUME ClientTypeOK, NEW c \in Clients, NEW ks \in SUBSET calls[c], NEW how,
           Settle(c, ks, how), UNCHANGED nextMsg, NEW d \in Clients
    PROVE  /\ settled[d] \subseteq settled'[d]
           /\ calls'[d] \subseteq calls[d]
           /\ \A i \in Open(d) :
                  \/ i \in Open(d)'
                  \/ d = c /\ how \notin Unanswered /\ \E k \in ks : k.id = i
           /\ \A k \in ks : [id |-> k.id, how |-> how] \in settled'[c]
<1> DEFINE new == {[id |-> k.id, how |-> how] : k \in ks}
<1>1. /\ settled'[c] = settled[c] \union new
      /\ d # c => settled'[d] = settled[d]
      /\ calls'[d] \subseteq calls[d]
  BY DEF Settle, ClientTypeOK
<1>2. \A s \in new : s.how = how /\ \E k \in ks : k.id = s.id
  OBVIOUS
<1>3. \A k \in ks : [id |-> k.id, how |-> how] \in new
  OBVIOUS
<1> HIDE DEF new
<1>4. ASSUME NEW i \in Open(d), ~(d = c /\ how \notin Unanswered /\ \E k \in ks : k.id = i)
      PROVE  i \in Open(d)'
  <2>1. i \in 0 .. nextMsg'[d] - 1
    BY DEF Open
  <2>2. \A s \in settled[d] : s.id = i => s.how \in Unanswered
    BY DEF Open
  <2>3. \A s \in settled'[d] : s.id = i => s.how \in Unanswered
    BY <1>1, <1>2, <1>4, <2>2
  <2> QED
    BY <2>1, <2>3 DEF Open
<1> QED
  BY <1>1, <1>3, <1>4

\* An open call that does not wait was given up.
LEMMA OpenGivenUp ==
    ASSUME CallAccounting, NEW c \in Clients, NEW i \in Open(c), \A k \in calls[c] : k.id # i
    PROVE  \E s \in settled[c] : s.id = i /\ s.how \in Unanswered
<1>1. i \in 0 .. nextMsg[c] - 1 /\ \A s \in settled[c] : s.id = i => s.how \in Unanswered
  BY DEF Open
<1>2. i \notin WaitingIds(c)
  BY DEF WaitingIds
<1>3. i \in SettledIds(c)
  BY <1>1, <1>2 DEF CallAccounting
<1> QED
  BY <1>1, <1>3 DEF SettledIds

\* So what is given to a client that does not wait for it is excused.
LEMMA GivenUp ==
    ASSUME Inv, Agree, CallAccounting, UNCHANGED serverVars, NEW c \in Clients, TakeReply(c),
           settled[c] \subseteq settled'[c], NEW p \in ProxyId, NEW r, r = Head(s2c[c]), Gives(r, c, p),
           \A k \in calls[c] : k.id # r.id
    PROVE  p \in Excused(c)'
<1>1. r = s2c[c][1] /\ 1 \in 1 .. Len(s2c[c])
  BY HeadTaken DEF Inv
<1>2. Same(r, owner[p]) /\ r.id \in Open(c)
  BY <1>1 DEF Agree, GivenOnce
<1>3. PICK s \in settled[c] : s.id = r.id /\ s.how \in Unanswered
  BY <1>2, OpenGivenUp
<1>4. owner' = owner
  BY DEF serverVars, storeVars
<1> QED
  BY <1>2, <1>3, <1>4 DEF Excused, Same

\* What a dispose() that ends takes away was heard of and is done.
LEMMA DisposedHeard ==
    ASSUME Agree, NEW c \in Clients, NEW ks \in SUBSET calls[c], NEW p \in DisposedBy(ks)
    PROVE  p \in heard[c] /\ p \in done
BY DEF Agree, EndThenDone, DisposedBy

\* A client whose calls and proxies stay gets nothing.
LEMMA GetsNothing ==
    ASSUME UNCHANGED <<settled, born, cProxies>>, NEW c \in Clients,
           TakeReply(c) => \A p \in ProxyId : \A r : r = Head(s2c[c]) /\ Gives(r, c, p) => p \in Excused(c)'
    PROVE  Gets(c)
BY DEF Gets

\* A call of the program.
LEMMA AgreeUserCalls ==
    ASSUME Inv, Agree, CallAccounting, UNCHANGED serverVars, NEW c \in Clients, UserCalls(c)
    PROVE  Agree'
<1> USE DEF Inv
<1>1. PICK method \in UserMethods, p \in Target, dest \in Target : UserCall(c, method, p, dest)
  BY DEF UserCalls
<1>2. method \in Methods /\ method # "dispose"
  BY UserMethodsAssumption
<1>3. /\ RemoteCall(c, method, p, dest)
      /\ UNCHANGED <<link, s2c, cStatus, settled, cProxies, born, heard>>
  BY <1>1 DEF UserCall
<1>4. /\ Asks(c) /\ Closes(c)
      /\ \A d \in Clients : \A k \in calls'[d] \ calls[d] : k.method # "dispose"
  BY <1>2, <1>3, RemoteCallOpens
<1>5. Takes(c) /\ ~TakeReply(c)
  BY <1>3, NothingTaken
<1>6. Gets(c)
  BY <1>3, <1>5, GetsNothing
<1>7. Hears(c)
  BY <1>3, <1>4, <1>5 DEF Hears
<1> QED
  BY <1>3, <1>4, <1>5, <1>6, <1>7, ClientAgrees

\* A call that throws: no call is open under its number.
LEMMA AgreeThrows ==
    ASSUME Inv, Agree, CallAccounting, UNCHANGED serverVars, NEW c \in Clients, UserCallThrows(c)
    PROVE  Agree'
<1> USE DEF Inv
<1>1. /\ nextMsg' = [nextMsg EXCEPT ![c] = @ + 1]
      /\ settled' = [settled EXCEPT ![c] = @ \union {[id |-> nextMsg[c], how |-> "thrown"]}]
      /\ UNCHANGED <<link, c2s, s2c, cStatus, calls, cProxies, born, heard>>
  BY DEF UserCallThrows, linkVars
<1>2. Takes(c) /\ ~TakeReply(c)
  BY <1>1, NothingTaken
<1>3. \A d \in Clients :
          /\ nextMsg[d] \in Nat /\ nextMsg'[d] \in Nat /\ nextMsg[d] <= nextMsg'[d]
          /\ settled[d] \subseteq settled'[d]
          /\ \A s \in settled'[d] \ settled[d] : s.id = nextMsg[d]
  BY <1>1 DEF ClientTypeOK
<1>4. Asks(c)
  BY <1>1, <1>3 DEF Asks
<1>5. Closes(c)
  <2> SUFFICES ASSUME NEW d \in Clients, NEW i, i \in Open(d) PROVE i \in Open(d)'
    BY DEF Closes
  <2>1. /\ i \in 0 .. nextMsg[d] - 1
        /\ \A s \in settled[d] : s.id = i => s.how \in Unanswered
    BY DEF Open
  <2>2. i \in 0 .. nextMsg'[d] - 1 /\ i # nextMsg[d]
    BY <1>3, <2>1
  <2> QED
    BY <1>3, <2>1, <2>2 DEF Open
<1>6. Gets(c)
  BY <1>1, <1>2, <1>3 DEF Gets
<1>7. Hears(c)
  BY <1>1, <1>2 DEF Hears
<1> QED
  BY <1>1, <1>2, <1>4, <1>5, <1>6, <1>7, ClientAgrees

\* A message that a client does not read.
LEMMA AgreeDiscards ==
    ASSUME Inv, Agree, CallAccounting, DisconnectSettlesAll, UNCHANGED serverVars,
           NEW c \in Clients, ClientDiscard(c)
    PROVE  Agree'
<1> USE DEF Inv
<1>1. /\ TakeReply(c) /\ UNCHANGED <<link, c2s, clientVars>>
      /\ \A r : r = Head(s2c[c]) /\ r.client = c => cStatus[c] # "Connected"
  BY DEF ClientDiscard
<1>2. UNCHANGED <<cStatus, nextMsg, calls, settled, cProxies, born, heard>>
  BY <1>1 DEF clientVars
<1>3. Takes(c) /\ Asks(c) /\ Closes(c)
  <2>1. \A d \in Clients : nextMsg[d] \in Nat /\ nextMsg[d] <= nextMsg[d]
    BY DEF ClientTypeOK
  <2> QED
    BY <1>1, <1>2, <2>1 DEF Takes, Asks, Closes, Open
<1>4. Gets(c)
  <2>1. ASSUME NEW p \in ProxyId, NEW r, r = Head(s2c[c]), Gives(r, c, p) PROVE p \in Excused(c)'
    <3>1. calls[c] = {}
      BY <1>1, <2>1 DEF Gives, DisconnectSettlesAll
    <3> QED
      BY <1>1, <1>2, <2>1, <3>1, GivenUp
  <2> QED
    BY <1>2, <2>1, GetsNothing
<1>5. Hears(c)
  <2>1. cStatus[c] # "Connected" => cProxies[c] = {}
    BY DEF DisconnectSettlesAll
  <2> QED
    BY <1>1, <1>2, <2>1 DEF Hears
<1> QED
  BY <1>1, <1>3, <1>4, <1>5, ClientAgrees

\* An answer, to a call that waits or to none.
LEMMA AgreeAnswers ==
    ASSUME Inv, Agree, CallAccounting, UNCHANGED serverVars, NEW c \in Clients,
           NEW m, m = Head(s2c[c]), ReceiveSuccess(c, m) \/ ReceiveFail(c, m)
    PROVE  Agree'
<1> USE DEF Inv
<1> DEFINE ks == Answered(c, m.id)
           new == IF m.type = "success" THEN Created(ks, m) ELSE {}
           how == IF m.type = "success" THEN "resolved" ELSE "rejected"
<1>1. /\ TakeReply(c) /\ m.client = c /\ m.type \in {"success", "fail"}
      /\ Settle(c, ks, how)
      /\ cProxies' = [cProxies EXCEPT ![c] = (@ \ DisposedBy(ks)) \union new]
      /\ born' = [born EXCEPT ![c] = @ \union new]
      /\ UNCHANGED <<link, c2s, cStatus, nextMsg, heard>>
  <2>1. CASE ReceiveSuccess(c, m)
    BY <2>1 DEF ReceiveSuccess, Mine
  <2>2. CASE ReceiveFail(c, m)
    <3>1. m.type = "fail" /\ new = {} /\ how = "rejected"
      BY <2>2 DEF ReceiveFail
    <3>2. born' = [born EXCEPT ![c] = @ \union {}]
      BY <2>2 DEF ReceiveFail, ClientTypeOK
    <3>3. cProxies' = [cProxies EXCEPT ![c] = (@ \ DisposedBy(ks)) \union {}]
      BY <2>2 DEF ReceiveFail
    <3> QED
      BY <2>2, <3>1, <3>2, <3>3 DEF ReceiveFail, Mine
  <2> QED
    BY <2>1, <2>2
<1>2. ks \in SUBSET calls[c] /\ \A k \in calls[c] : k \in ks <=> k.id = m.id
  BY DEF Answered
<1>3. /\ new # {} => m.type = "success" /\ ks # {} /\ how = "resolved"
      /\ \A p \in new : Gives(m, c, p)
      /\ \A p : Gives(m, c, p) /\ ks # {} => p \in new
  BY <1>1 DEF Created, Gives
<1>4. how \notin Unanswered
  BY DEF Unanswered
<1> HIDE DEF ks, new, how
<1>5. \A d \in Clients :
          /\ settled[d] \subseteq settled'[d]
          /\ calls'[d] \subseteq calls[d]
          /\ \A i \in Open(d) :
                 \/ i \in Open(d)'
                 \/ d = c /\ how \notin Unanswered /\ \E k \in ks : k.id = i
          /\ \A k \in ks : [id |-> k.id, how |-> how] \in settled'[c]
  BY <1>1, <1>2, SettleOpens DEF Unanswered
<1>6. /\ cProxies'[c] = (cProxies[c] \ DisposedBy(ks)) \union new
      /\ born'[c] = born[c] \union new
      /\ \A d \in Clients \ {c} : cProxies'[d] = cProxies[d] /\ born'[d] = born[d]
  BY <1>1 DEF ClientTypeOK
<1>7. Takes(c) /\ Asks(c)
  <2>1. \A d \in Clients : nextMsg[d] \in Nat /\ nextMsg[d] <= nextMsg[d]
    BY DEF ClientTypeOK
  <2> QED
    BY <1>1, <2>1 DEF Takes, Asks
<1>8. Closes(c)
  BY <1>1, <1>2, <1>5 DEF Closes
<1>9. \A p \in new : p \notin born[c] /\ p \in ProxyId
  <2> SUFFICES ASSUME NEW p \in new PROVE p \notin born[c] /\ p \in ProxyId
    OBVIOUS
  <2>1. m = s2c[c][1] /\ 1 \in 1 .. Len(s2c[c]) /\ m \in Message /\ m.type = "success"
    BY <1>1, <1>3, HeadTaken DEF Gives
  <2>2. p \in ProxyId
    BY <1>3, <2>1 DEF Gives, Message, Reply, Notice
  <2>3. Same(m, owner[p]) /\ m.id \in Open(c)
    BY <1>3, <2>1, <2>2 DEF Agree, GivenOnce
  <2>4. p \in born[c] => [id |-> m.id, how |-> "resolved"] \in settled[c]
    BY <2>3 DEF Agree, HeldByCaller, OwnedByCaller, Same
  <2>5. [id |-> m.id, how |-> "resolved"] \notin settled[c]
    BY <2>3 DEF Open, Unanswered
  <2> QED
    BY <2>2, <2>4, <2>5
<1>10. Gets(c)
  <2>1. ASSUME NEW p \in new PROVE [id |-> m.id, how |-> "resolved"] \in settled'[c]
    BY <1>2, <1>3, <1>5
  <2>2. ASSUME NEW p \in ProxyId, NEW r, r = Head(s2c[c]), Gives(r, c, p) PROVE p \in Excused(c)'
    <3>1. CASE ks # {}
      BY <1>3, <1>6, <2>2, <3>1 DEF Excused
    <3>2. CASE ks = {}
      BY <1>1, <1>2, <1>5, <2>2, <3>2, GivenUp
    <3> QED
      BY <3>1, <3>2
  <2>3. ASSUME NEW d \in Clients
        PROVE  /\ settled[d] \subseteq settled'[d]
               /\ born[d] \subseteq born'[d]
               /\ \A p \in cProxies'[d] : p \in cProxies[d] \/ p \in born'[d] \ born[d]
               /\ \A p \in born'[d] \ born[d] : d = c /\ p \in new /\ p \in cProxies'[d]
    BY <1>5, <1>6, <1>9
  <2> QED
    BY <1>1, <1>3, <2>1, <2>2, <2>3 DEF Gets
<1>11. Hears(c)
  <2>1. \A p \in DisposedBy(ks) : p \in heard[c] /\ p \in done
    BY <1>2, DisposedHeard
  <2> QED
    BY <1>1, <1>5, <1>6, <2>1 DEF Hears
<1> QED
  BY <1>1, <1>7, <1>8, <1>10, <1>11, ClientAgrees

\* An event, heard or lost; "done" makes the client ask for the proxy's disposal.
LEMMA AgreeEvents ==
    ASSUME Inv, Agree, CallAccounting, UNCHANGED serverVars, NEW c \in Clients,
           NEW m, m = Head(s2c[c]), EventLost(c, m) \/ EventHeard(c, m) \/ EventDone(c, m)
    PROVE  Agree'
<1> USE DEF Inv
<1>1. /\ TakeReply(c) /\ m.client = c /\ m.type = "event"
      /\ UNCHANGED <<link, cStatus, settled, cProxies, born>>
  BY DEF EventLost, EventHeard, EventDone, Mine, clientVars
<1>2. m = s2c[c][1] /\ 1 \in 1 .. Len(s2c[c]) /\ m \in Message /\ m \in InFlight(s2c[c])
  BY <1>1, HeadTaken
<1>3. Takes(c) /\ Gets(c)
  BY <1>1, GetsNothing DEF Takes, Gives
<1>4. CASE EventLost(c, m) \/ EventHeard(c, m)
  <2>1. UNCHANGED <<c2s, nextMsg, calls>>
    BY <1>4 DEF EventLost, EventHeard, clientVars
  <2>2. Asks(c) /\ Closes(c)
    <3>1. \A d \in Clients : nextMsg[d] \in Nat /\ nextMsg[d] <= nextMsg[d]
      BY DEF ClientTypeOK
    <3> QED
      BY <1>1, <2>1, <3>1 DEF Asks, Closes, Open
  <2>3. \A d \in Clients : heard[d] \subseteq heard'[d]
    BY <1>4 DEF EventLost, EventHeard, clientVars, ClientTypeOK
  <2>4. m.proxy \in heard'[c] \/ m.proxy \notin cProxies'[c]
    BY <1>1, <1>4 DEF EventLost, EventHeard, ClientTypeOK
  <2>5. Hears(c)
    BY <1>1, <2>1, <2>3, <2>4 DEF Hears
  <2> QED
    BY <1>1, <1>3, <2>2, <2>5, ClientAgrees
<1>5. CASE EventDone(c, m)
  <2>1. /\ m.event = "done" /\ m.proxy \in cProxies[c]
        /\ RemoteCall(c, "dispose", m.proxy, Module) /\ UNCHANGED heard
    BY <1>5 DEF EventDone
  <2>2. m.proxy \in done /\ m.proxy \in heard[c]
    <3>1. m.proxy \in done
      BY <1>1, <1>2, <2>1 DEF QueueInv
    <3>2. m.proxy \in heard[c]
      BY <1>1, <1>2, <2>1 DEF Agree, EndThenDone
    <3> QED
      BY <3>1, <3>2
  <2>3. m.proxy \in Target /\ Module \in Target /\ "dispose" \in Methods
    BY <2>2 DEF Target, Methods, StoreInv
  <2>4. /\ Asks(c) /\ Closes(c)
        /\ \A d \in Clients : \A k \in calls'[d] \ calls[d] : d = c /\ k.proxy = m.proxy
    BY <1>1, <2>1, <2>3, RemoteCallOpens
  <2>5. m.event \notin EndEvents
    BY <2>1 DEF EndEvents
  <2>6. Hears(c)
    BY <1>1, <2>1, <2>2, <2>4, <2>5 DEF Hears
  <2> QED
    BY <1>1, <1>3, <2>4, <2>6, ClientAgrees
<1> QED
  BY <1>4, <1>5

\* The timeout of a call.
LEMMA AgreeTimesOut ==
    ASSUME Inv, Agree, UNCHANGED serverVars, NEW c \in Clients, NEW k \in calls[c], CallTimeout(c, k)
    PROVE  Agree'
<1> USE DEF Inv
<1>1. PICK how \in Unanswered :
          /\ Settle(c, {k}, how)
          /\ cProxies' = [cProxies EXCEPT ![c] = @ \ DisposedBy({k})]
          /\ UNCHANGED <<linkVars, cStatus, nextMsg, born, heard>>
  BY ZenonT(20) DEF CallTimeout, Unanswered
<1> DEFINE ks == {k}
<1>2. ks \in SUBSET calls[c]
  OBVIOUS
<1> HIDE DEF ks
<1>3. \A d \in Clients :
          /\ settled[d] \subseteq settled'[d]
          /\ calls'[d] \subseteq calls[d]
          /\ \A i \in Open(d) : i \in Open(d)'
  <2>1. Settle(c, ks, how)
    BY <1>1 DEF ks
  <2>2. how \in {"timed out", "disconnected"}
    BY Zenon DEF Unanswered
  <2> QED
    BY <1>1, <1>2, <2>1, <2>2, SettleOpens, Zenon
<1>4. UNCHANGED <<link, s2c, c2s>>
  BY <1>1 DEF linkVars
<1>5. Takes(c) /\ ~TakeReply(c)
  BY <1>4, NothingTaken
<1>6. Asks(c) /\ Closes(c)
  <2>1. \A d \in Clients : nextMsg[d] \in Nat /\ nextMsg[d] <= nextMsg[d]
    BY DEF ClientTypeOK
  <2> QED
    BY <1>1, <1>3, <1>4, <2>1 DEF Asks, Closes
<1>7. /\ cProxies'[c] = cProxies[c] \ DisposedBy(ks)
      /\ \A d \in Clients \ {c} : cProxies'[d] = cProxies[d]
  BY <1>1 DEF ClientTypeOK, ks
<1>8. Gets(c)
  BY <1>1, <1>3, <1>5, <1>7 DEF Gets
<1>9. Hears(c)
  <2>1. \A p \in DisposedBy(ks) : p \in heard[c] /\ p \in done
    BY <1>2, DisposedHeard
  <2> QED
    BY <1>1, <1>3, <1>5, <1>7, <2>1 DEF Hears
<1> QED
  BY <1>4, <1>5, <1>6, <1>8, <1>9, ClientAgrees

\* A disconnect: every call fails, and every proxy is told and dropped.
LEMMA AgreeDisconnects ==
    ASSUME Inv, Agree, UNCHANGED serverVars, NEW c \in Clients, NEW status, status # "Connected",
           link # "up", ClientDisconnect(c, status)
    PROVE  Agree'
<1> USE DEF Inv
<1>1. PICK how \in Unanswered :
          /\ Settle(c, calls[c], how)
          /\ UNCHANGED <<linkVars, nextMsg, born>>
  BY ZenonT(20) DEF ClientDisconnect, Unanswered
<1>2. /\ cStatus' = [cStatus EXCEPT ![c] = status]
      /\ heard' = [heard EXCEPT ![c] = @ \union cProxies[c]]
      /\ cProxies' = [cProxies EXCEPT ![c] = {}]
  BY DEF ClientDisconnect, ToldBeforeDone, DisconnectEvents
<1>3. \A d \in Clients :
          /\ settled[d] \subseteq settled'[d]
          /\ calls'[d] \subseteq calls[d]
          /\ \A i \in Open(d) : i \in Open(d)'
  <2>1. calls[c] \in SUBSET calls[c]
    OBVIOUS
  <2>2. how \in {"timed out", "disconnected"}
    BY Zenon DEF Unanswered
  <2> QED
    BY <1>1, <2>1, <2>2, SettleOpens, Zenon
<1>4. UNCHANGED <<link, s2c, c2s>>
  BY <1>1 DEF linkVars
<1>5. Takes(c) /\ ~TakeReply(c)
  BY <1>4, NothingTaken
<1>6. Asks(c) /\ Closes(c)
  <2>1. \A d \in Clients : nextMsg[d] \in Nat /\ nextMsg[d] <= nextMsg[d]
    BY DEF ClientTypeOK
  <2> QED
    BY <1>1, <1>3, <1>4, <2>1 DEF Asks, Closes
<1>7. /\ cProxies'[c] = {} /\ heard'[c] = heard[c] \union cProxies[c] /\ cStatus'[c] # "Connected"
      /\ \A d \in Clients \ {c} :
             cProxies'[d] = cProxies[d] /\ heard'[d] = heard[d] /\ cStatus'[d] = cStatus[d]
  BY <1>2 DEF ClientTypeOK
<1>8. Gets(c)
  BY <1>1, <1>3, <1>5, <1>7 DEF Gets
<1>9. Hears(c)
  BY <1>3, <1>5, <1>7 DEF Hears
<1> QED
  BY <1>4, <1>5, <1>6, <1>8, <1>9, ClientAgrees

\* A client that connects again.
LEMMA AgreeComesUp ==
    ASSUME Inv, Agree, UNCHANGED serverVars, NEW c \in Clients, ClientUp(c)
    PROVE  Agree'
<1> USE DEF Inv
<1>1. /\ link = "up"
      /\ UNCHANGED <<link, c2s, s2c, nextMsg, calls, settled, cProxies, born, heard>>
  BY DEF ClientUp, linkVars
<1>2. Takes(c) /\ ~TakeReply(c)
  BY <1>1, NothingTaken
<1>3. Asks(c) /\ Closes(c)
  <2>1. \A d \in Clients : nextMsg[d] \in Nat /\ nextMsg[d] <= nextMsg[d]
    BY DEF ClientTypeOK
  <2> QED
    BY <1>1, <2>1 DEF Asks, Closes, Open
<1>4. Gets(c) /\ Hears(c)
  BY <1>1, <1>2, GetsNothing DEF Hears
<1> QED
  BY <1>1, <1>2, <1>3, <1>4, ClientAgrees

\* Every step of a client keeps the agreement.
LEMMA AgreeClient ==
    ASSUME Inv, Agree, CallAccounting, DisconnectSettlesAll, UNCHANGED serverVars,
           NEW c \in Clients, ClientNext(c)
    PROVE  Agree'
<1>1. CASE UserCalls(c)
  BY <1>1, AgreeUserCalls
<1>2. CASE ClientDiscard(c)
  BY <1>2, AgreeDiscards
<1>3. CASE s2c[c] # <<>> /\ ClientReceives(c, Head(s2c[c]))
  BY <1>3, AgreeAnswers, AgreeEvents DEF ClientReceives
<1>4. ASSUME NEW k \in calls[c], CallTimeout(c, k) PROVE Agree'
  BY <1>4, AgreeTimesOut
<1>5. CASE ClientDown(c) \/ ClientClose(c)
  BY <1>5, AgreeDisconnects DEF ClientDown, ClientClose
<1>6. CASE ClientUp(c)
  BY <1>6, AgreeComesUp
<1>7. CASE UserCallThrows(c)
  BY <1>7, AgreeThrows
<1> QED
  BY <1>1, <1>2, <1>3, <1>4, <1>5, <1>6, <1>7 DEF ClientNext, ClientReceive

-----------------------------------------------------------------------------
(* Steps of the connection.                                                *)

\* A drop, which leaves a prefix of each queue.
LEMMA AgreeDown ==
    ASSUME Inv, Agree, LinkDown, UNCHANGED <<serverVars, clientVars>>
    PROVE  Agree'
<1> USE DEF Agree
<1>0. /\ link = "up" /\ link' = "down"
      /\ UNCHANGED <<sStatus, owner, kind, store, done, runs>>
      /\ UNCHANGED <<cStatus, nextMsg, calls, settled, cProxies, born, heard>>
  BY DEF LinkDown, serverVars, storeVars, runVars, clientVars
<1>1. /\ Len(c2s') \in 0 .. Len(c2s)
      /\ \A i \in 1 .. Len(c2s') : c2s'[i] = c2s[i] /\ i \in 1 .. Len(c2s)
      /\ InFlight(c2s') \subseteq InFlight(c2s)
  BY CutAt, CutOfQueue DEF LinkDown, Inv, QueueInv
<1>2. ASSUME NEW c \in Clients
      PROVE  /\ Len(s2c'[c]) \in 0 .. Len(s2c[c]) /\ Len(s2c[c]) \in Nat
             /\ \A i \in 1 .. Len(s2c'[c]) : s2c'[c][i] = s2c[c][i] /\ i \in 1 .. Len(s2c[c])
             /\ InFlight(s2c'[c]) \subseteq InFlight(s2c[c])
  <2>1. s2c[c] \in Seq(Message) /\ s2c'[c] \in Cut(s2c[c])
    BY DEF LinkDown, Inv, QueueInv
  <2> QED
    BY <2>1, CutAt, CutOfQueue
<1>3. AskedOnce'
  <2>1. LiveCalls' \subseteq LiveCalls /\ \A m \in LiveCalls : m.client \in Clients
    BY <1>0, <1>1, LiveAreCalls DEF LiveCalls
  <2>2. \A i, j \in 1 .. Len(c2s') : Same(c2s'[i], c2s'[j]) => i = j
    BY <1>1 DEF AskedOnce
  <2>3. \A m \in InFlight(c2s'), r \in runs' : ~Same(m, r)
    BY <1>0, <1>1 DEF AskedOnce
  <2>4. \A m, r \in runs' : Same(m, r) => m = r
    BY <1>0 DEF AskedOnce
  <2>5. \A m \in LiveCalls' :
            /\ (m.id \in Open(m.client))'
            /\ \A r \in InFlight(s2c[m.client])' : r.type # "event" => ~Same(m, r)
            /\ \A p \in ProxyId : store'[p] # "unborn" => ~Same(m, owner'[p])
    BY <1>0, <1>2, <2>1 DEF AskedOnce, Open
  <2>6. \A c \in Clients : \A r \in InFlight(s2c'[c]) :
            r.type # "event" /\ r.client = c => r.id \in 0 .. nextMsg'[c] - 1
    BY <1>0, <1>2 DEF AskedOnce
  <2>7. \A p \in ProxyId : store'[p] # "unborn" =>
            owner'[p].id \in 0 .. nextMsg'[owner'[p].client] - 1
    BY <1>0 DEF AskedOnce
  <2> QED
    BY <2>2, <2>3, <2>4, <2>5, <2>6, <2>7 DEF AskedOnce
<1>4. GivenOnce'
  BY <1>0, <1>2, SMTT(20) DEF GivenOnce, Gives, Open
<1>5. HeldByCaller'
  BY <1>0 DEF HeldByCaller, OwnedByCaller
<1>6. InOrder'
  <2>1. ASSUME NEW c \in Clients, NEW i \in 1 .. Len(s2c'[c]), NEW m, m = s2c'[c][i],
               m.type = "event", m.client = c
        PROVE  /\ store'[m.proxy] # "unborn"
               /\ owner'[m.proxy].client = c
               /\ m.proxy \in Excused(c)' \/ m.proxy \in GivenIn(c, i - 1)'
    <3>1. /\ store[m.proxy] # "unborn"
          /\ owner[m.proxy].client = c
          /\ m.proxy \in Excused(c) \/ m.proxy \in GivenIn(c, i - 1)
      BY <1>2, <2>1 DEF InOrder
    <3>2. m.proxy \in Excused(c) => m.proxy \in Excused(c)'
      BY <1>0 DEF Excused
    <3>3. \A j \in 1 .. i - 1 : s2c'[c][j] = s2c[c][j]
      BY <1>2
    <3>4. m.proxy \in GivenIn(c, i - 1) => m.proxy \in GivenIn(c, i - 1)'
      BY <3>3 DEF GivenIn
    <3> QED
      BY <1>0, <3>1, <3>2, <3>4
  <2>2. sStatus' # "Connected" => \A p \in ProxyId : store'[p] # "stored"
    BY <1>0 DEF InOrder
  <2> QED
    BY <1>0, <2>1, <2>2 DEF InOrder
<1>7. EndThenDone'
  <2>1. ASSUME NEW c \in Clients, NEW i \in 1 .. Len(s2c'[c]), NEW m, m = s2c'[c][i],
               NEW l, l = s2c'[c][i - 1], m.type = "event", m.client = c, m.event = "done"
        PROVE  /\ i = 1 /\ m.proxy \in cProxies'[c] => m.proxy \in heard'[c]
               /\ i # 1 => l.type = "event" /\ l.event \in EndEvents /\ l.client = c /\ l.proxy = m.proxy
    <3>1. m = s2c[c][i] /\ i \in 1 .. Len(s2c[c])
      BY <1>2, <2>1
    <3>2. i # 1 => l = s2c[c][i - 1]
      <4>1. i # 1 => i - 1 \in 1 .. Len(s2c'[c])
        BY <1>2
      <4> QED
        BY <1>2, <2>1, <4>1
    <3>3. i = 1 /\ m.proxy \in cProxies[c] => m.proxy \in heard[c]
      BY <2>1, <3>1 DEF EndThenDone
    <3>4. i # 1 => l.type = "event" /\ l.event \in EndEvents /\ l.client = c /\ l.proxy = m.proxy
      BY <2>1, <3>1, <3>2 DEF EndThenDone
    <3> QED
      BY <1>0, <3>3, <3>4
  <2>2. \A c \in Clients : \A k \in calls'[c] :
            k.method = "dispose" => k.proxy \in heard'[c] /\ k.proxy \in done'
    BY <1>0 DEF EndThenDone
  <2>3. FillHearsEnd'
    BY <1>0 DEF EndThenDone, FillHearsEnd
  <2> QED
    BY <2>1, <2>2, <2>3 DEF EndThenDone
<1>8. LetGoDead'
  BY <1>0 DEF LetGoDead
<1> QED
  BY <1>3, <1>4, <1>5, <1>6, <1>7, <1>8

\* A step that changes at most the state of the transport, which keeps what the
\* server and the clients keep.
LEMMA AgreeStill ==
    ASSUME Inv, Agree, UNCHANGED <<c2s, s2c, serverVars, clientVars>>,
           UNCHANGED link \/ link' = "closed" \/ LinkUp
    PROVE  Agree'
<1> USE DEF Agree
<1>0. /\ UNCHANGED <<sStatus, owner, kind, store, done, runs>>
      /\ UNCHANGED <<cStatus, nextMsg, calls, settled, cProxies, born, heard>>
      /\ UNCHANGED <<c2s, s2c>>
  BY DEF serverVars, storeVars, runVars, clientVars
<1>1. AskedOnce'
  BY <1>0 DEF AskedOnce, LiveCalls, Open
<1>2. GivenOnce'
  BY <1>0 DEF GivenOnce, Gives, Open
<1>3. HeldByCaller'
  BY <1>0 DEF HeldByCaller, OwnedByCaller
<1>4. InOrder'
  <2>1. link' = "up" /\ sStatus = "Connected" => link = "up"
    BY DEF LinkUp, Noticed
  <2> QED
    BY <1>0, <2>1 DEF InOrder, Excused, GivenIn, Gives
<1>5. EndThenDone'
  BY <1>0 DEF EndThenDone, FillHearsEnd
<1>6. LetGoDead'
  <2>1. CASE LinkUp
    <3>1. \A p \in ProxyId : store[p] # "stored"
      BY <2>1 DEF LinkUp, Noticed, InOrder
    <3>2. \A c \in Clients : \A p \in born[c] : p \in ProxyId /\ store[p] # "unborn"
      BY DEF HeldByCaller, Inv, ClientTypeOK
    <3>3. \A p \in ProxyId : store[p] \in {"unborn", "stored", "disposing", "removed"}
      BY DEF Inv, StoreInv
    <3> QED
      BY <1>0, <3>1, <3>2, <3>3 DEF LetGoDead
  <2>2. CASE link # "up" => link' # "up"
    BY <1>0, <2>2 DEF LetGoDead
  <2> QED
    BY <2>1, <2>2
<1> QED
  BY <1>1, <1>2, <1>3, <1>4, <1>5, <1>6

-----------------------------------------------------------------------------
(* The theorems.                                                           *)

\* At the start nothing was asked, given or made.
LEMMA AgreeInit == Init => Agree
<1> SUFFICES ASSUME Init PROVE Agree
  OBVIOUS
<1>1. /\ c2s = <<>> /\ runs = {} /\ sStatus = "Connected"
      /\ \A c \in Clients : s2c[c] = <<>> /\ born[c] = {} /\ cProxies[c] = {} /\ calls[c] = {}
      /\ \A p \in ProxyId : store[p] = "unborn"
  BY DEF Init, LinkInit, ServerInit, ClientInit
<1>2. LiveCalls = {}
  BY <1>1 DEF LiveCalls, InFlight
<1>3. AskedOnce /\ GivenOnce
  BY <1>1, <1>2 DEF AskedOnce, GivenOnce, InFlight
<1>4. HeldByCaller
  BY <1>1 DEF HeldByCaller, OwnedByCaller
<1>5. InOrder /\ EndThenDone /\ LetGoDead
  BY <1>1 DEF InOrder, EndThenDone, FillHearsEnd, LetGoDead
<1> QED
  BY <1>3, <1>4, <1>5 DEF Agree

\* Every step keeps the agreement.
LEMMA AgreeNext == Inv /\ CallAccounting /\ DisconnectSettlesAll /\ Agree /\ [Next]_vars => Agree'
<1> SUFFICES ASSUME Inv, CallAccounting, DisconnectSettlesAll, Agree, [Next]_vars PROVE Agree'
  OBVIOUS
<1>1. CASE LinkNext /\ UNCHANGED <<serverVars, clientVars>>
  <2>1. CASE LinkDown
    BY <1>1, <2>1, AgreeDown
  <2>2. CASE LinkUp
    <3>1. UNCHANGED <<c2s, s2c>>
      BY <2>2 DEF LinkUp
    <3> QED
      BY <1>1, <2>2, <3>1, AgreeStill
  <2>3. CASE LinkClose
    BY <1>1, <2>3, AgreeStill DEF LinkClose
  <2> QED
    BY <1>1, <2>1, <2>2, <2>3 DEF LinkNext
<1>2. CASE ServerNext /\ UNCHANGED clientVars
  BY <1>2, AgreeServer
<1>3. ASSUME NEW c \in Clients, ClientNext(c), UNCHANGED serverVars PROVE Agree'
  BY <1>3, AgreeClient
<1>4. CASE UNCHANGED vars
  BY <1>4, AgreeStill DEF vars, linkVars
<1> QED
  BY <1>1, <1>2, <1>3, <1>4 DEF Next

\* The clients and the server agree in every behaviour.
THEOREM Agreement == Spec => []Agree
  BY AgreeInit, AgreeNext, Invariance, CallsAccounted, DisconnectsSettleAll, PTL DEF Spec

\* A proxy is only ever held by the client whose call made it, and that call was
\* resolved: an answer goes to its caller alone, and creates proxies once.
THEOREM OwnedByCallers == Spec => []OwnedByCaller
<1>1. Agree => OwnedByCaller
  BY DEF Agree, HeldByCaller
<1> QED
  BY <1>1, Agreement, PTL

\* The fill of a proxy that its client dropped was told of its end: "done" is behind
\* the event it is about, and a disconnect tells all there are.
THEOREM FillsHearEnds == Spec => []FillHearsEnd
<1>1. Agree => FillHearsEnd
  BY DEF Agree, EndThenDone
<1> QED
  BY <1>1, Agreement, PTL

\* What gives up on a call is what leaves it unanswered.
LEMMA GaveUpUnanswered ==
    ASSUME NEW c \in Clients, NEW i
    PROVE  GaveUp(c, i) <=> \E s \in settled[c] : s.id = i /\ s.how \in Unanswered
BY Zenon DEF GaveUp, Unanswered

\* What the server keeps for a connected client is known to it, on its way to it, or
\* was made for a call it gave up on.
THEOREM ProxiesAgree == Spec => []ProxyAgreement
<1>1. ASSUME Inv, Agree, NEW p \in ProxyId, NEW c, c = owner[p].client,
             store[p] = "stored", link = "up", sStatus = "Connected"
      PROVE  \/ p \in born[c]
             \/ GaveUp(c, owner[p].id)
             \/ \E m \in InFlight(s2c[c]) : m.type = "success" /\ m.id = owner[p].id /\ p \in m.made
  <2>1. c \in Clients
    BY <1>1 DEF Inv, StoreInv, Lifecycle, Maker
  <2>2. CASE p \in Excused(c)
    BY <2>1, <2>2, GaveUpUnanswered DEF Excused
  <2>3. CASE p \in GivenIn(c, Len(s2c[c]))
    <3>1. PICK j \in 1 .. Len(s2c[c]) : Gives(s2c[c][j], c, p)
      BY <2>3 DEF GivenIn
    <3>2. s2c[c][j] \in InFlight(s2c[c])
      BY DEF InFlight
    <3>3. s2c[c][j].id = owner[p].id
      BY <1>1, <2>1, <3>1 DEF Agree, GivenOnce, Same
    <3> QED
      BY <3>1, <3>2, <3>3 DEF Gives
  <2> QED
    BY <1>1, <2>1, <2>2, <2>3 DEF Agree, InOrder
<1>2. Inv /\ Agree => ProxyAgreement
  BY <1>1 DEF ProxyAgreement
<1> QED
  BY <1>2, Invariance, Agreement, PTL

\* An event that finds no proxy comes after the end of the proxy, or its caller gave
\* up on the call: it is never ahead of the answer that gives the proxy.
THEOREM EventsFindProxies == Spec => []EventsFindProxy
<1>1. ASSUME Inv, Agree, NEW c \in Clients, s2c[c] # <<>>, NEW m, m = Head(s2c[c]),
             m.type = "event", m.client = c
      PROVE  m.proxy \in born[c] \/ GaveUp(c, owner[m.proxy].id)
  <2>1. s2c[c] \in Seq(Message)
    BY <1>1 DEF Inv, QueueInv
  <2>2. m = s2c[c][1] /\ 1 \in 1 .. Len(s2c[c])
    BY <1>1, <2>1, TailAt
  <2>3. m.proxy \in Excused(c) \/ m.proxy \in GivenIn(c, 1 - 1)
    BY <1>1, <2>2 DEF Agree, InOrder
  <2>4. GivenIn(c, 1 - 1) = {}
    BY DEF GivenIn
  <2> QED
    BY <1>1, <2>3, <2>4, GaveUpUnanswered DEF Excused
<1>2. Inv /\ Agree => EventsFindProxy
  BY <1>1 DEF EventsFindProxy
<1> QED
  BY <1>2, Invariance, Agreement, PTL

\* A process whose proxy a connected client dropped is dead, failed to be signalled
\* or is being killed: what resolves kill() without a message loses none.
THEOREM KillsSafe == Spec => []KillSafe
<1>1. ASSUME Inv, Agree, NEW c \in Clients, NEW p \in born[c] \ cProxies[c],
             cStatus[c] = "Connected", kind[p] = "process"
      PROVE  p \in done \/ store[p] = "disposing"
  <2>1. p \in ProxyId
    BY <1>1 DEF Inv, ClientTypeOK
  <2>2. p \in done \/ store[p] \in {"disposing", "removed"}
    BY <1>1 DEF Agree, LetGoDead
  <2>3. store[p] = "removed" => p \in done
    BY <1>1, <2>1 DEF Agree, LetGoDead
  <2> QED
    BY <2>2, <2>3
<1>2. Inv /\ Agree => KillSafe
  BY <1>1 DEF KillSafe
<1> QED
  BY <1>2, Invariance, Agreement, PTL

=============================================================================
