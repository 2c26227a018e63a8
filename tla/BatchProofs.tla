----------------------------- MODULE BatchProofs ------------------------------
(***************************************************************************)
(* Theorems about Batch, for every set of requests, every count and every  *)
(* pair of times.                                                          *)
(***************************************************************************)
EXTENDS Batch, FiniteSetTheorems, TLAPS

-----------------------------------------------------------------------------
(* The inductive invariant.                                                *)

\* Each promise is its own request's; a request waits exactly while the queue, a batch
\* under way or one that could not be sent carries it, and no two of these carry it.
Flying(i) == \E b \in flights : i \in Carried(b)
Apart ==
    /\ \A i \in Items : outcome[i].of = i
    /\ \A i \in Items :
           outcome[i].is = "waiting" <=> i \in Carried(batch) \/ Flying(i) \/ i \in lost
    /\ \A i \in lost : i \notin Carried(batch) /\ ~Flying(i)
    /\ \A m, n \in 1 .. Len(batch) : batch[m] = batch[n] => m = n
    /\ \A b \in flights : Carried(b) \intersect Carried(batch) = {}
    /\ \A b, c \in flights : b # c => Carried(b) \intersect Carried(c) = {}

\* A request ages in the queue only, where the timer that bounds its age runs.
Aged ==
    \A i \in Items :
        /\ age[i] <= MaxTime
        /\ i \in Carried(batch) => age[i] + max <= MaxTime
        /\ outcome[i].is = "unasked" => age[i] = 0

BatchInv == TypeOK /\ TimersCoverQueue /\ Apart /\ Aged

\* What a queue carries, with one request more.
LEMMA CarriedAppend ==
    ASSUME NEW b \in Seq(Items), NEW i \in Items
    PROVE  /\ Carried(Append(b, i)) = Carried(b) \union {i}
           /\ Carried(b) \subseteq Items
           /\ Append(b, i) \in Seq(Items)
           /\ Append(b, i) # <<>>
           /\ Len(Append(b, i)) = Len(b) + 1
<1>1. /\ Append(b, i) \in Seq(Items)
      /\ Len(Append(b, i)) = Len(b) + 1
      /\ \A n \in 1 .. Len(b) : Append(b, i)[n] = b[n]
      /\ Append(b, i)[Len(b) + 1] = i
      /\ Len(b) \in Nat
  OBVIOUS
<1>2. Append(b, i) # <<>>
  BY <1>1
<1>3. 1 .. (Len(b) + 1) = (1 .. Len(b)) \union {Len(b) + 1}
  BY <1>1
<1>4. Carried(Append(b, i)) = Carried(b) \union {i}
  BY <1>1, <1>3 DEF Carried
<1>5. Carried(b) \subseteq Items
  BY DEF Carried
<1> QED
  BY <1>1, <1>2, <1>4, <1>5

LEMMA CarriedEmpty == Carried(<<>>) = {}
BY DEF Carried

LEMMA BatchInit == Init => BatchInv
<1> SUFFICES ASSUME Init PROVE BatchInv
  OBVIOUS
<1> USE BatchAssumption
<1>1. TypeOK
  BY DEF Init, TypeOK, Off, Promise!Is, Promise!Outcome
<1>2. TimersCoverQueue
  BY DEF Init, TimersCoverQueue
<1>3. Apart
  BY CarriedEmpty DEF Init, Apart, Flying, Promise!Is
<1>4. Aged
  BY CarriedEmpty DEF Init, Aged
<1> QED
  BY <1>1, <1>2, <1>3, <1>4 DEF BatchInv

\* A request is added: it is carried by the queue, or by the batch the queue became.
LEMMA BatchAdd == ASSUME BatchInv, NEW i \in Items, Add(i) PROVE BatchInv'
<1> USE BatchAssumption
<1> DEFINE b == Append(batch, i)
<1>0. /\ TypeOK /\ TimersCoverQueue /\ Apart /\ Aged
      /\ batch \in Seq(Items) /\ flights \subseteq Seq(Items)
  BY DEF BatchInv, TypeOK
<1>1. /\ Carried(b) = Carried(batch) \union {i}
      /\ Carried(batch) \subseteq Items
      /\ b \in Seq(Items)
      /\ b # <<>>
      /\ Len(b) = Len(batch) + 1
      /\ Len(batch) \in Nat
  BY <1>0, CarriedAppend
<1>2. /\ outcome[i] = [of |-> i, is |-> "unasked"]
      /\ outcome' = [outcome EXCEPT ![i] = [of |-> i, is |-> "waiting"]]
      /\ age' = age
      /\ lost' = lost /\ lost \subseteq Items
      /\ outcome \in [Items -> Promise!Outcome]
  BY <1>0 DEF Add, Flush, Wait, Promise!Is, TypeOK
<1>3. outcome' \in [Items -> Promise!Outcome]
  BY <1>2 DEF Promise!Outcome
<1>4. i \notin Carried(batch) /\ ~Flying(i) /\ i \notin lost
  BY <1>0, <1>2 DEF Apart
<1>5. /\ \A j \in Items : outcome'[j].of = j
      /\ \A j \in Items : outcome'[j].is = "waiting" <=> j = i \/ outcome[j].is = "waiting"
      /\ \A j \in Items : outcome'[j].is = "unasked" => outcome[j].is = "unasked"
  BY <1>0, <1>2 DEF Apart
<1> HIDE DEF b
<1>6. CASE Full(b)
  <2>1. /\ batch' = <<>> /\ idle' = Off /\ max' = Off
        /\ flights' = flights \union {b}
    BY <1>6 DEF Add, Flush, b
  <2>2. TypeOK'
    BY <1>0, <1>1, <1>2, <1>3, <2>1 DEF TypeOK
  <2>3. TimersCoverQueue'
    BY <2>1 DEF TimersCoverQueue
  <2>4. Carried(batch') = {}
    BY <2>1, CarriedEmpty
  <2>5. \A j \in Items : Flying(j)' <=> Flying(j) \/ j \in Carried(b)
    BY <2>1 DEF Flying, Carried
  <2>6. \A c \in flights : Carried(c) \intersect Carried(b) = {}
    BY <1>0, <1>1, <1>4 DEF Apart, Flying
  <2>7. \A c, d \in flights' : c # d => Carried(c) \intersect Carried(d) = {}
    BY <1>0, <2>1, <2>6 DEF Apart
  <2>8. /\ \A j \in Items : outcome'[j].is = "waiting"
                <=> j \in Carried(batch') \/ Flying(j)' \/ j \in lost'
        /\ \A j \in lost' : j \notin Carried(batch') /\ ~Flying(j)'
    BY <1>0, <1>1, <1>2, <1>4, <1>5, <2>4, <2>5 DEF Apart
  <2>9. \A m, n \in 1 .. Len(batch') : batch'[m] = batch'[n] => m = n
    BY <2>1
  <2>10. Apart'
    BY <1>5, <2>4, <2>7, <2>8, <2>9 DEF Apart, Carried
  <2>11. Aged'
    BY <1>0, <1>2, <1>5, <2>4 DEF Aged, Carried
  <2> QED
    BY <2>2, <2>3, <2>10, <2>11 DEF BatchInv
<1>7. CASE ~Full(b)
  <2>1. /\ batch' = b /\ idle' = IdleTime
        /\ max' = IF max = Off THEN MaxTime ELSE max
        /\ flights' = flights
    BY <1>7 DEF Add, Wait, b
  <2>2. TypeOK'
    BY <1>0, <1>1, <1>2, <1>3, <2>1 DEF TypeOK
  <2>3. TimersCoverQueue'
    BY <1>0, <1>1, <1>7, <2>1 DEF TimersCoverQueue, Full, Off, TypeOK
  <2>4. \A j \in Items : Flying(j)' <=> Flying(j)
    BY <2>1 DEF Flying, Carried
  <2>5. \A m, n \in 1 .. Len(b) : b[m] = b[n] => m = n
    <3>1. /\ \A n \in 1 .. Len(batch) : b[n] = batch[n] /\ batch[n] # i
          /\ b[Len(batch) + 1] = i
      BY <1>0, <1>4 DEF Carried, b
    <3> QED
      BY <1>0, <1>1, <3>1 DEF Apart
  <2>6. \A c \in flights : Carried(c) \intersect Carried(b) = {}
    BY <1>0, <1>1, <1>4 DEF Apart, Flying
  <2>7. /\ \A j \in Items : outcome'[j].is = "waiting"
                <=> j \in Carried(b) \/ Flying(j) \/ j \in lost
        /\ \A j \in lost : j \notin Carried(b) /\ ~Flying(j)
    BY <1>0, <1>1, <1>4, <1>5 DEF Apart
  <2>8. Apart'
    <3>1. /\ \A j \in Items : outcome'[j].is = "waiting"
                  <=> j \in Carried(batch') \/ Flying(j)' \/ j \in lost'
          /\ \A j \in lost' : j \notin Carried(batch') /\ ~Flying(j)'
      BY <1>2, <2>1, <2>4, <2>7
    <3>2. \A c \in flights' : Carried(c) \intersect Carried(batch') = {}
      BY <2>1, <2>6
    <3>3. \A c, d \in flights' : c # d => Carried(c) \intersect Carried(d) = {}
      BY <1>0, <2>1 DEF Apart
    <3> QED
      BY <1>5, <2>1, <2>5, <3>1, <3>2, <3>3 DEF Apart
  <2>9. Aged'
    <3> SUFFICES ASSUME NEW j \in Items
                 PROVE  /\ age[j] <= MaxTime
                        /\ j \in Carried(b) => age[j] + max' <= MaxTime
                        /\ outcome'[j].is = "unasked" => age[j] = 0
      BY <1>2, <2>1 DEF Aged, Carried
    <3>1. age[j] <= MaxTime /\ (outcome'[j].is = "unasked" => age[j] = 0)
      BY <1>0, <1>5 DEF Aged
    <3>2. max = Off => Carried(batch) = {}
      BY <1>0, CarriedEmpty DEF TimersCoverQueue
    <3>3. max \in {Off} \union 0 .. MaxTime /\ age[j] \in Nat
      BY <1>0 DEF TypeOK
    <3>4. age[i] = 0
      BY <1>0, <1>2 DEF Aged
    <3>5. ASSUME j \in Carried(b) PROVE age[j] + max' <= MaxTime
      <4>1. CASE j = i
        BY <2>1, <3>3, <3>4, <4>1 DEF Off
      <4>2. CASE j # i
        BY <1>0, <1>1, <2>1, <3>2, <3>3, <3>5, <4>2 DEF Aged
      <4> QED
        BY <4>1, <4>2
    <3> QED
      BY <3>1, <3>5
  <2> QED
    BY <2>2, <2>3, <2>8, <2>9 DEF BatchInv
<1> QED
  BY <1>6, <1>7

\* A batch that cannot be sent: what the queue carried is lost.
LEMMA BatchThrows ==
    ASSUME BatchInv, FlushThrows(batch), age' = age,
           outcome' \in [Items -> Promise!Outcome],
           \A i \in Items : /\ outcome'[i].of = i
                            /\ outcome'[i].is = "waiting" <=> outcome[i].is = "waiting"
                            /\ outcome'[i].is = "unasked" => outcome[i].is = "unasked"
    PROVE  BatchInv'
<1>0. /\ TypeOK /\ TimersCoverQueue /\ Apart /\ Aged
      /\ batch \in Seq(Items) /\ flights \subseteq Seq(Items) /\ lost \subseteq Items
  BY DEF BatchInv, TypeOK
<1>1. /\ batch' = <<>> /\ idle' = Off /\ max' = Off
      /\ flights' = flights
      /\ lost' = lost \union Carried(batch)
  BY DEF FlushThrows
<1>2. Carried(batch') = {} /\ Carried(batch) \subseteq Items
  BY <1>0, <1>1, CarriedEmpty DEF Carried
<1>3. TypeOK'
  BY <1>0, <1>1, <1>2 DEF TypeOK
<1>4. TimersCoverQueue'
  BY <1>1, BatchAssumption DEF TimersCoverQueue
<1>5. Apart'
  <2>1. \A j \in Items : Flying(j)' <=> Flying(j)
    BY <1>1 DEF Flying, Carried
  <2>2. /\ \A j \in Items : outcome'[j].is = "waiting"
                <=> j \in Carried(batch') \/ Flying(j)' \/ j \in lost'
        /\ \A j \in lost' : j \notin Carried(batch') /\ ~Flying(j)'
    BY <1>0, <1>1, <1>2, <2>1 DEF Apart, Flying
  <2>3. \A c, d \in flights' : c # d => Carried(c) \intersect Carried(d) = {}
    BY <1>0, <1>1 DEF Apart
  <2>4. \A c \in flights' : Carried(c) \intersect Carried(batch') = {}
    BY <1>2
  <2>5. \A m, n \in 1 .. Len(batch') : batch'[m] = batch'[n] => m = n
    BY <1>1
  <2> QED
    BY <2>2, <2>3, <2>4, <2>5 DEF Apart
<1>6. Aged'
  BY <1>0, <1>1, <1>2 DEF Aged
<1> QED
  BY <1>3, <1>4, <1>5, <1>6 DEF BatchInv

LEMMA BatchAddThrows == ASSUME BatchInv, NEW i \in Items, AddThrows(i) PROVE BatchInv'
<1>1. /\ outcome[i] = [of |-> i, is |-> "unasked"]
      /\ outcome' = [outcome EXCEPT ![i] = [of |-> i, is |-> "failed"]]
      /\ age' = age /\ FlushThrows(batch)
      /\ outcome \in [Items -> Promise!Outcome]
  BY DEF AddThrows, Promise!Is, BatchInv, TypeOK
<1>2. \A j \in Items : outcome[j].of = j
  BY DEF BatchInv, Apart
<1>3. outcome' \in [Items -> Promise!Outcome]
  BY <1>1 DEF Promise!Outcome, Promise!Settled
<1>4. \A j \in Items : /\ outcome'[j].of = j
                       /\ outcome'[j].is = "waiting" <=> outcome[j].is = "waiting"
                       /\ outcome'[j].is = "unasked" => outcome[j].is = "unasked"
  BY <1>1, <1>2
<1> QED
  BY <1>1, <1>3, <1>4, BatchThrows

\* A batch that a timer sends: what the queue carried, a batch under way does.
LEMMA BatchTimer ==
    ASSUME BatchInv, Flush(batch), UNCHANGED <<outcome, age>>
    PROVE  BatchInv'
<1>0. /\ TypeOK /\ TimersCoverQueue /\ Apart /\ Aged
      /\ batch \in Seq(Items) /\ flights \subseteq Seq(Items)
  BY DEF BatchInv, TypeOK
<1>1. /\ batch' = <<>> /\ idle' = Off /\ max' = Off
      /\ flights' = flights \union {batch}
      /\ UNCHANGED <<outcome, age, lost>>
  BY DEF Flush
<1>2. Carried(batch') = {}
  BY <1>1, CarriedEmpty
<1>3. TypeOK'
  BY <1>0, <1>1 DEF TypeOK
<1>4. TimersCoverQueue'
  BY <1>1, BatchAssumption DEF TimersCoverQueue
<1>5. Apart'
  <2>1. \A j \in Items : Flying(j)' <=> Flying(j) \/ j \in Carried(batch)
    BY <1>1 DEF Flying, Carried
  <2>2. /\ \A j \in Items : outcome'[j].is = "waiting"
                <=> j \in Carried(batch') \/ Flying(j)' \/ j \in lost'
        /\ \A j \in lost' : j \notin Carried(batch') /\ ~Flying(j)'
    BY <1>0, <1>1, <1>2, <2>1 DEF Apart, TypeOK
  <2>3. \A c, d \in flights' : c # d => Carried(c) \intersect Carried(d) = {}
    BY <1>0, <1>1 DEF Apart
  <2>4. \A c \in flights' : Carried(c) \intersect Carried(batch') = {}
    BY <1>2
  <2>5. \A j \in Items : outcome'[j].of = j
    BY <1>0, <1>1 DEF Apart
  <2>6. \A m, n \in 1 .. Len(batch') : batch'[m] = batch'[n] => m = n
    BY <1>1
  <2> QED
    BY <2>2, <2>3, <2>4, <2>5, <2>6 DEF Apart
<1>6. Aged'
  BY <1>0, <1>1, <1>2 DEF Aged
<1> QED
  BY <1>3, <1>4, <1>5, <1>6 DEF BatchInv

LEMMA BatchTimerFires == ASSUME BatchInv, TimerFires PROVE BatchInv'
<1>1. CASE Flush(batch)
  BY <1>1, BatchTimer DEF TimerFires
<1>2. CASE FlushThrows(batch)
  BY <1>2, BatchThrows DEF TimerFires, BatchInv, TypeOK, Apart
<1> QED
  BY <1>1, <1>2 DEF TimerFires

\* Time goes on for the timers and for what the queue carries.
LEMMA BatchTick == ASSUME BatchInv, Tick PROVE BatchInv'
<1>0. TypeOK /\ TimersCoverQueue /\ Apart /\ Aged
  BY DEF BatchInv
<1>1. /\ idle # 0 /\ max # 0
      /\ idle' = IF idle = Off THEN Off ELSE idle - 1
      /\ max' = IF max = Off THEN Off ELSE max - 1
      /\ UNCHANGED <<batch, flights, outcome, lost>>
  BY DEF Tick
<1>2. \A i \in Items : age'[i] = IF i \in Carried(batch) THEN age[i] + 1 ELSE age[i]
  BY DEF Tick, Carried
<1>3. age' \in [Items -> Nat]
  <2>1. age' = [i \in Items |-> age'[i]]
    BY DEF Tick
  <2>2. \A i \in Items : age[i] \in Nat
    BY <1>0 DEF TypeOK
  <2> QED
    BY <1>2, <2>1, <2>2
<1>4. /\ idle \in {Off} \union 0 .. IdleTime
      /\ max \in {Off} \union 0 .. MaxTime
      /\ IdleTime \in Nat /\ MaxTime \in Nat
  BY <1>0, BatchAssumption DEF TypeOK
<1>5. TypeOK'
  BY <1>0, <1>1, <1>3, <1>4 DEF TypeOK, Off
<1>6. TimersCoverQueue'
  BY <1>0, <1>1, <1>4 DEF TimersCoverQueue, Off
<1>7. Apart'
  BY <1>0, <1>1 DEF Apart, Flying
<1>8. Aged'
  <2> SUFFICES ASSUME NEW i \in Items
               PROVE  /\ age'[i] <= MaxTime
                      /\ i \in Carried(batch) => age'[i] + max' <= MaxTime
                      /\ outcome[i].is = "unasked" => age'[i] = 0
    BY <1>1 DEF Aged
  <2>1. /\ age[i] \in Nat
        /\ age[i] <= MaxTime
        /\ i \in Carried(batch) => age[i] + max <= MaxTime
        /\ outcome[i].is = "unasked" => age[i] = 0
        /\ i \in Carried(batch) => outcome[i].is = "waiting"
    BY <1>0 DEF TypeOK, Aged, Apart
  <2>2. CASE i \in Carried(batch)
    <3>1. batch # <<>>
      BY <2>2, CarriedEmpty
    <3>2. max # Off
      BY <1>0, <3>1 DEF TimersCoverQueue
    <3> QED
      BY <1>1, <1>2, <1>4, <2>1, <2>2, <3>2 DEF Off
  <2>3. CASE i \notin Carried(batch)
    BY <1>2, <2>1, <2>3
  <2> QED
    BY <2>2, <2>3
<1> QED
  BY <1>5, <1>6, <1>7, <1>8 DEF BatchInv

\* A batch settles: all that it carries, each as its own, and nothing else.
LEMMA BatchSettles ==
    ASSUME BatchInv, NEW b \in flights, Settle(b)
    PROVE  /\ \A i \in Carried(b) :
                  \E state \in Promise!Settled : outcome'[i] = [of |-> i, is |-> state]
           /\ \A i \in Items \ Carried(b) : outcome'[i] = outcome[i]
           /\ Carried(b) \subseteq Items
           /\ outcome' = [i \in Items |-> outcome'[i]]
           /\ flights' = flights \ {b}
           /\ UNCHANGED <<batch, idle, max, age, lost>>
<1>1. b \in Seq(Items)
  BY DEF BatchInv, TypeOK
<1>2. Carried(b) \subseteq Items
  BY <1>1 DEF Carried
<1>3. CASE Reject(b)
  <2>1. outcome' = [i \in Items |-> IF i \in Carried(b) THEN [of |-> i, is |-> "failed"] ELSE outcome[i]]
    BY <1>3 DEF Reject, Promise!Is
  <2>2. "failed" \in Promise!Settled
    BY DEF Promise!Settled
  <2> QED
    BY <1>2, <1>3, <2>1, <2>2 DEF Reject
<1>4. ASSUME NEW r \in Replies(b), Reply(b, r)
      PROVE  /\ \A i \in Carried(b) :
                    \E state \in Promise!Settled : outcome'[i] = [of |-> i, is |-> state]
             /\ \A i \in Items \ Carried(b) : outcome'[i] = outcome[i]
             /\ outcome' = [i \in Items |-> outcome'[i]]
  <2>1. PICK ok \in [1 .. Len(b) -> {"value", "error"}] :
            r = [n \in 1 .. Len(b) |-> [of |-> b[n], is |-> ok[n]]]
    BY DEF Replies, Promise!Is
  <2>2. outcome' = [i \in Items |-> IF i \in Carried(b) THEN Result(b, r, i) ELSE outcome[i]]
    BY <1>4 DEF Reply
  <2>3. ASSUME NEW i \in Carried(b)
        PROVE  \E state \in Promise!Settled : Result(b, r, i) = [of |-> i, is |-> state]
    <3>1. IndexOf(b, i) \in 1 .. Len(b) /\ b[IndexOf(b, i)] = i
      BY DEF IndexOf, Carried
    <3>2. Result(b, r, i) = [of |-> i, is |-> ok[IndexOf(b, i)]]
      BY <2>1, <3>1 DEF Result
    <3>3. ok[IndexOf(b, i)] \in Promise!Settled
      BY <3>1 DEF Promise!Settled
    <3> QED
      BY <3>2, <3>3
  <2> QED
    BY <1>2, <2>2, <2>3
<1> QED
  BY <1>2, <1>3, <1>4 DEF Settle, Reply, Reject

LEMMA BatchSettle == ASSUME BatchInv, NEW b \in flights, Settle(b) PROVE BatchInv'
<1>0. /\ TypeOK /\ TimersCoverQueue /\ Apart /\ Aged
      /\ outcome \in [Items -> Promise!Outcome]
  BY DEF BatchInv, TypeOK
<1>1. /\ \A i \in Carried(b) :
             \E state \in Promise!Settled : outcome'[i] = [of |-> i, is |-> state]
      /\ \A i \in Items \ Carried(b) : outcome'[i] = outcome[i]
      /\ Carried(b) \subseteq Items
      /\ outcome' = [i \in Items |-> outcome'[i]]
      /\ flights' = flights \ {b}
      /\ UNCHANGED <<batch, idle, max, age, lost>>
  BY BatchSettles
<1>2. \A i \in Carried(b) : /\ outcome'[i] \in Promise!Outcome
                            /\ outcome'[i].of = i
                            /\ outcome'[i].is \notin {"waiting", "unasked"}
  <2>1. "waiting" \notin Promise!Settled /\ "unasked" \notin Promise!Settled
    BY DEF Promise!Settled
  <2> TAKE i \in Carried(b)
  <2>2. PICK state \in Promise!Settled : outcome'[i] = [of |-> i, is |-> state]
    BY <1>1
  <2>3. i \in Items
    BY <1>1
  <2> QED
    BY <2>1, <2>2, <2>3 DEF Promise!Outcome
<1>3. outcome' \in [Items -> Promise!Outcome]
  BY <1>0, <1>1, <1>2
<1>4. TypeOK'
  BY <1>0, <1>1, <1>3 DEF TypeOK
<1>5. TimersCoverQueue'
  BY <1>0, <1>1 DEF TimersCoverQueue
<1>6. Apart'
  <2>1. \A j \in Items : Flying(j)' <=> Flying(j) /\ j \notin Carried(b)
    BY <1>0, <1>1 DEF Apart, Flying
  <2>2. Carried(b) \intersect Carried(batch) = {}
    BY <1>0 DEF Apart
  <2>3. /\ \A j \in Items : outcome'[j].is = "waiting"
                <=> j \in Carried(batch') \/ Flying(j)' \/ j \in lost'
        /\ \A j \in lost' : j \notin Carried(batch') /\ ~Flying(j)'
    BY <1>0, <1>1, <1>2, <2>1, <2>2 DEF Apart, Flying
  <2>4. \A j \in Items : outcome'[j].of = j
    BY <1>0, <1>1, <1>2 DEF Apart
  <2> QED
    BY <1>0, <1>1, <2>3, <2>4 DEF Apart
<1>7. Aged'
  <2>1. \A i \in Items : outcome'[i].is = "unasked" => outcome[i].is = "unasked"
    BY <1>1, <1>2
  <2> QED
    BY <1>0, <1>1, <2>1 DEF Aged
<1> QED
  BY <1>4, <1>5, <1>6, <1>7 DEF BatchInv

LEMMA BatchNext == BatchInv /\ [Next]_vars => BatchInv'
<1> SUFFICES ASSUME BatchInv, [Next]_vars PROVE BatchInv'
  OBVIOUS
<1>1. CASE UNCHANGED vars
  BY <1>1 DEF vars, BatchInv, TypeOK, TimersCoverQueue, Apart, Flying, Aged
<1> QED
  BY <1>1, BatchAdd, BatchAddThrows, BatchTimerFires, BatchTick, BatchSettle DEF Next

THEOREM Inductive == Spec => []BatchInv
BY BatchInit, BatchNext, PTL DEF Spec

-----------------------------------------------------------------------------
(* What follows from it.                                                   *)

\* Every variable of Batch keeps its type.
THEOREM TypesCorrect == Spec => []TypeOK
<1>1. BatchInv => TypeOK
  BY DEF BatchInv
<1> QED
  BY <1>1, Inductive, PTL

\* Both timers run exactly while something waits in the queue (proxy.ts:310-343), so
\* no request is forgotten and none is flushed twice.
THEOREM TimersCover == Spec => []TimersCoverQueue
<1>1. BatchInv => TimersCoverQueue
  BY DEF BatchInv
<1> QED
  BY <1>1, Inductive, PTL

\* No request waits longer in the queue than maxTime, however often others restart
\* the idle timer (proxy.ts:322).
THEOREM WaitsBounded == Spec => []BoundedWait
<1>1. BatchInv => BoundedWait
  BY DEF BatchInv, Aged, BoundedWait
<1> QED
  BY <1>1, Inductive, PTL

\* Every request that waits is in the queue, in one batch under way or in one that
\* could not be sent, once, and no other is (proxy.ts:337-346).
THEOREM AllHeldOnce == Spec => []HeldOnce
<1>1. BatchInv => HeldOnce
  <2> SUFFICES ASSUME BatchInv, NEW i \in Items
               PROVE  Held(i) + (IF i \in lost THEN 1 ELSE 0)
                      = IF outcome[i].is = "waiting" THEN 1 ELSE 0
    BY DEF HeldOnce
  <2> DEFINE Q == {n \in 1 .. Len(batch) : batch[n] = i}
             F == {b \in flights : i \in Carried(b)}
  <2>0. Apart
    BY DEF BatchInv
  <2>1. Held(i) = Cardinality(Q) + Cardinality(F)
    BY DEF Held
  <2>2. /\ i \in Carried(batch) <=> Q # {}
        /\ Flying(i) <=> F # {}
    BY DEF Carried, Flying
  <2>3. Q # {} => \E n : Q = {n}
    <3> SUFFICES ASSUME Q # {} PROVE \E n : Q = {n}
      OBVIOUS
    <3>1. PICK n \in 1 .. Len(batch) : batch[n] = i
      OBVIOUS
    <3>2. \A m \in 1 .. Len(batch) : batch[m] = i => m = n
      BY <2>0, <3>1 DEF Apart
    <3>3. Q = {n}
      BY <3>1, <3>2
    <3> QED
      BY <3>3
  <2>4. F # {} => \E b : F = {b}
    <3> SUFFICES ASSUME F # {} PROVE \E b : F = {b}
      OBVIOUS
    <3>1. PICK b \in flights : i \in Carried(b)
      OBVIOUS
    <3>2. \A c \in flights : i \in Carried(c) => c = b
      BY <2>0, <3>1 DEF Apart
    <3>3. F = {b}
      BY <3>1, <3>2
    <3> QED
      BY <3>3
  <2>5. ~(Q # {} /\ F # {}) /\ (i \in lost => Q = {} /\ F = {})
    BY <2>0, <2>2 DEF Apart, Flying
  <2>6. outcome[i].is = "waiting" <=> Q # {} \/ F # {} \/ i \in lost
    BY <2>0, <2>2 DEF Apart
  <2> HIDE DEF Q, F
  <2>7. /\ Q = {} => Cardinality(Q) = 0
        /\ Q # {} => Cardinality(Q) = 1
        /\ F = {} => Cardinality(F) = 0
        /\ F # {} => Cardinality(F) = 1
    BY <2>3, <2>4, FS_EmptySet, FS_Singleton
  <2> QED
    BY <2>1, <2>5, <2>6, <2>7
<1> QED
  BY <1>1, Inductive, PTL

\* However requests are batched, their callers see what Requests promises: each is
\* refused as it is asked, or asked, then settled once, as its own (proxy.ts:347-356).
THEOREM BatchRefinesRequests == Spec => Implements
<1>1. Init => Promise!Init
  BY DEF Init, Promise!Init
<1>2. BatchInv /\ [Next]_vars => [Promise!Next]_outcome
  <2> SUFFICES ASSUME BatchInv, [Next]_vars PROVE Promise!Next \/ UNCHANGED outcome
    OBVIOUS
  <2>1. ASSUME NEW i \in Items, Add(i) PROVE Promise!Next
    BY <2>1 DEF Add, Promise!Next, Promise!Ask
  <2>4. ASSUME NEW i \in Items, AddThrows(i) PROVE Promise!Next
    BY <2>4 DEF AddThrows, Promise!Next, Promise!Refuse
  <2>2. CASE TimerFires \/ Tick \/ UNCHANGED vars
    BY <2>2 DEF TimerFires, Tick, vars
  <2>3. ASSUME NEW b \in flights, Settle(b) PROVE Promise!Next
    <3>1. /\ \A i \in Carried(b) :
                 \E state \in Promise!Settled : outcome'[i] = [of |-> i, is |-> state]
          /\ \A i \in Items \ Carried(b) : outcome'[i] = outcome[i]
      BY <2>3, BatchSettles
    <3>2. outcome' \in [Items -> Promise!Outcome]
      BY <2>3, BatchSettle DEF BatchInv, TypeOK
    <3>3. ASSUME NEW i \in Items, i \in Carried(b)
          PROVE  /\ outcome[i] = Promise!Is(i, "waiting")
                 /\ outcome'[i] \in {Promise!Is(i, state) : state \in Promise!Settled}
      <4>1. outcome[i].is = "waiting" /\ outcome[i].of = i
        BY <3>3 DEF BatchInv, Apart, Flying
      <4>2. outcome[i] \in Promise!Outcome
        BY DEF BatchInv, TypeOK
      <4>3. outcome[i] = Promise!Is(i, "waiting")
        BY <4>1, <4>2 DEF Promise!Outcome, Promise!Is
      <4>4. outcome'[i] \in {Promise!Is(i, state) : state \in Promise!Settled}
        BY <3>1, <3>3 DEF Promise!Is
      <4> QED
        BY <4>3, <4>4
    <3>4. Promise!Settle
      BY <3>1, <3>2, <3>3 DEF Promise!Settle
    <3> QED
      BY <3>4 DEF Promise!Next
  <2> QED
    BY <2>1, <2>2, <2>3, <2>4 DEF Next
<1> QED
  BY <1>1, <1>2, Inductive, PTL DEF Spec, Implements, Promise!Spec

=============================================================================
