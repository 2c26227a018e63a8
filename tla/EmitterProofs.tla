--------------------------- MODULE EmitterProofs ----------------------------
(***************************************************************************)
(* Proofs about the Emitter: whom an emission calls while the listeners it *)
(* calls change the arrays it walks; for every set of listeners and ids,   *)
(* and however many arrays there are.                                      *)
(***************************************************************************)
EXTENDS Emitter, QueueLemmas

-----------------------------------------------------------------------------
(* The inductive invariant, in one part per concern.                       *)

Places == Ids \union {All}
Arrays == 0 .. MaxArrays

Walks == [target: Places \union {Gone}, seen: SUBSET Arrays, last: BOOLEAN,
          array: Arrays, index: Nat, length: Nat]
Types == TypeOK /\ walk \in Walks

\* Array a is that of the place t, in a map ids with the array ls for every id.
Serves(ids, ls, a, t) ==
    IF t = All THEN a = ls ELSE \E i \in 1 .. Len(ids) : ids[i].id = t /\ ids[i].array = a

\* A listener is in one array, at one index, and in none before it subscribes; an
\* array that is not made is empty.
Single ==
    /\ \A a, b \in Arrays : \A i \in 1 .. Len(arrays[a]), j \in 1 .. Len(arrays[b]) :
           arrays[a][i] = arrays[b][j] => a = b /\ i = j
    /\ \A a \in Arrays : \A i \in 1 .. Len(arrays[a]) : place[arrays[a][i]] # New
    /\ \A a \in Arrays : a >= made => Len(arrays[a]) = 0

\* No two places have one array, and no place has two.
Mapped ==
    /\ listeners < made
    /\ \A i \in 1 .. Len(idListeners) : idListeners[i].array < made /\ idListeners[i].array # listeners
    /\ \A i, j \in 1 .. Len(idListeners) :
           idListeners[i].id = idListeners[j].id \/ idListeners[i].array = idListeners[j].array => i = j

\* The array of a place holds those that listen there.
Agreed ==
    /\ \A a \in Arrays, t \in Places : Serves(idListeners, listeners, a, t) =>
           \A i \in 1 .. Len(arrays[a]) : place[arrays[a][i]] = t
    /\ \A l \in Listeners : place[l] \in Places =>
           \E a \in Arrays : /\ Serves(idListeners, listeners, a, place[l])
                            /\ \E i \in 1 .. Len(arrays[a]) : arrays[a][i] = l

\* An emission that has entered no array has not called anyone; the last array it
\* enters is that for every id, and it enters none twice.
Entering ==
    /\ walk.target = Gone => walk = Idle
    /\ walk.seen \subseteq 0 .. made - 1
    /\ walk.seen # {} => walk.array \in walk.seen
    /\ walk.seen = {} => walk.length = 0 /\ ~walk.last
    /\ ~walk.last => listeners \notin walk.seen

\* Whom the emission w called, in the order cs, is in no array that it comes to, nor at
\* an index that it comes to; for arrays as and places pl.
Calling(as, pl, w, cs) ==
    /\ \A m, n \in 1 .. Len(cs) : cs[m] = cs[n] => m = n
    /\ \A n \in 1 .. Len(cs) : pl[cs[n]] # New
    /\ w.target # Gone =>
           \A n \in 1 .. Len(cs), a \in Arrays : \A i \in 1 .. Len(as[a]) : as[a][i] = cs[n] =>
               a \in w.seen /\ (a = w.array => i <= w.index)

\* An emission for an id is in an array of that id, or of every id, and stays there.
Addressing(as, ids, ls, pl, w, cs) ==
    w.target \in Ids =>
        /\ \A n \in 1 .. Len(cs) : pl[cs[n]] \in {w.target, All, Gone}
        /\ w.seen # {} =>
               /\ \A i \in 1 .. Len(as[w.array]) : pl[as[w.array][i]] \in {w.target, All, Gone}
               /\ \A t \in Places : Serves(ids, ls, w.array, t) => t \in {w.target, All}

\* Index i of the array a for the place t is ahead of the emission w.
Ahead(w, a, i, t) ==
    \/ a = w.array /\ a \in w.seen /\ w.index < i /\ i <= w.length
    \/ a \notin w.seen /\ ~w.last /\ (t = All \/ w.target = All \/ w.seen = {})

\* Whom the emission was meant for, ds, it called or is to come to, but for those it
\* was made to miss by what was disposed of, dr.
Receiving(as, ids, ls, pl, w, cs, ds, dr) ==
    w.target # Gone =>
        \A l \in ds : pl[l] # Gone /\ (\A d \in dr : d.from # pl[l]) =>
            /\ pl[l] \in Places /\ (w.target = All \/ pl[l] \in {w.target, All})
            /\ \/ \E n \in 1 .. Len(cs) : cs[n] = l
               \/ \E a \in Arrays : /\ Serves(ids, ls, a, pl[l])
                                   /\ \E i \in 1 .. Len(as[a]) : as[a][i] = l /\ Ahead(w, a, i, pl[l])

EInv ==
    /\ Types /\ Single /\ Mapped /\ Agreed /\ Entering
    /\ Calling(arrays, place, walk, called)
    /\ Addressing(arrays, idListeners, listeners, place, walk, called)
    /\ Receiving(arrays, idListeners, listeners, place, walk, called, due, dropped)

-----------------------------------------------------------------------------
(* Splicing.                                                               *)

\* r is q without what is at k.
CutOut(q, r, k) ==
    /\ Len(r) = Len(q) - 1
    /\ \A i \in 1 .. Len(r) : r[i] = q[IF i < k THEN i ELSE i + 1]

LEMMA RemoveAtCuts ==
    ASSUME NEW S, NEW q \in Seq(S), NEW k \in 1 .. Len(q)
    PROVE  RemoveAt(q, k) \in Seq(S) /\ CutOut(q, RemoveAt(q, k), k)
<1> DEFINE s == SubSeq(q, 1, k - 1)
           t == SubSeq(q, k + 1, Len(q))
<1>1. s \in Seq(S) /\ Len(s) = k - 1 /\ \A i \in 1 .. k - 1 : s[i] = q[i]
  OBVIOUS
<1>2. t \in Seq(S) /\ Len(t) = Len(q) - k /\ \A i \in 1 .. Len(q) - k : t[i] = q[k + i]
  OBVIOUS
<1>3. RemoveAt(q, k) = s \o t
  BY DEF RemoveAt
<1> HIDE DEF s, t
<1> DEFINE r == s \o t
<1>4. r \in Seq(S) /\ Len(r) = Len(q) - 1
  BY <1>1, <1>2
<1>5. ASSUME NEW i \in 1 .. Len(r) PROVE r[i] = q[IF i < k THEN i ELSE i + 1]
  <2>1. CASE i < k
    BY <1>1, <1>2, <1>4, <2>1
  <2>2. CASE ~(i < k)
    <3>1. i - Len(s) \in 1 .. Len(t) /\ k + (i - Len(s)) = i + 1
      BY <1>1, <1>2, <1>4, <2>2
    <3>2. r[i] = t[i - Len(s)]
      BY <1>1, <1>2, <3>1
    <3> QED
      BY <1>2, <2>2, <3>1, <3>2
  <2> QED
    BY <2>1, <2>2
<1> HIDE DEF r
<1> QED
  BY <1>3, <1>4, <1>5 DEF CutOut, r

\* indexOf and splice.
LEMMA RemoveFirstCuts ==
    ASSUME NEW S, NEW q \in Seq(S), NEW x
    PROVE  /\ RemoveFirst(q, x) \in Seq(S)
           /\ \/ (\A i \in 1 .. Len(q) : q[i] # x) /\ RemoveFirst(q, x) = q
              \/ \E k \in 1 .. Len(q) : q[k] = x /\ CutOut(q, RemoveFirst(q, x), k)
<1> DEFINE I == {i \in 1 .. Len(q) : q[i] = x}
<1>1. CASE I = {}
  BY <1>1 DEF RemoveFirst
<1>2. CASE I # {}
  <2>1. RemoveFirst(q, x) = RemoveAt(q, Min(I))
    BY <1>2 DEF RemoveFirst, SelectInSeq
  <2>2. I \in SUBSET Nat
    OBVIOUS
  <2>3. \E m \in I : \A k \in I : m <= k
    BY <1>2, <2>2, Least
  <2>4. Min(I) \in I
    BY <2>3 DEF Min
  <2> QED
    BY <2>1, <2>4, RemoveAtCuts
<1> QED
  BY <1>1, <1>2

-----------------------------------------------------------------------------
(* What changes the listeners.                                             *)

LEMMA PlaceNames == /\ Places \intersect {New, Gone} = {} /\ New # Gone
                    /\ All \in Places /\ All \notin Ids /\ Ids \subseteq Places
BY EmitterAssumption DEF Places, All, New, Gone

LEMMA EntriesTyped ==
    ASSUME NEW q \in Seq([id: Ids, array: Arrays])
    PROVE  \A i \in 1 .. Len(q) : q[i].id \in Ids /\ q[i].array \in Arrays
<1> DEFINE R == [id: Ids, array: Arrays]
<1>1. q \in Seq(R)
  OBVIOUS
<1>2. \A i \in 1 .. Len(q) : q[i] \in R
  <2> HIDE DEF R
  <2> QED
    BY <1>1
<1> QED
  BY <1>2

LEMMA TargetServes ==
    ASSUME Types, NEW t \in Places
    PROVE  /\ Target(t) \subseteq Arrays
           /\ \A a \in Arrays : a \in Target(t) <=> Serves(idListeners, listeners, a, t)
<1>1. /\ listeners \in Arrays
      /\ idListeners \in Seq([id: Ids, array: Arrays])
  BY DEF Types, TypeOK, Arrays
<1>2. CASE t = All
  BY <1>1, <1>2 DEF Target, Serves
<1>3. CASE t # All
  <2>1. Target(t) = {e.array : e \in {e \in ToSet(idListeners) : e.id = t}}
    BY <1>3 DEF Target, ArraysFor
  <2>2. ToSet(idListeners) = {idListeners[i] : i \in 1 .. Len(idListeners)}
    BY <1>1 DEF ToSet
  <2>3. \A i \in 1 .. Len(idListeners) : idListeners[i].array \in Arrays
    BY <1>1, EntriesTyped
  <2> QED
    BY <1>3, <2>1, <2>2, <2>3 DEF Serves
<1> QED
  BY <1>2, <1>3

\* Which array is of which place.
LEMMA ServesOne ==
    ASSUME Types, Mapped, NEW a \in Arrays, NEW b \in Arrays, NEW t \in Places, NEW u \in Places,
           Serves(idListeners, listeners, a, t), Serves(idListeners, listeners, b, u)
    PROVE  (a = b <=> t = u) /\ a < made
<1>1. CASE t = All /\ u = All
  BY <1>1 DEF Serves, Mapped
<1>2. CASE t = All /\ u # All
  BY <1>2 DEF Serves, Mapped
<1>3. CASE t # All /\ u = All
  BY <1>3 DEF Serves, Mapped
<1>4. CASE t # All /\ u # All
  <2>1. PICK i \in 1 .. Len(idListeners) : idListeners[i].id = t /\ idListeners[i].array = a
    BY <1>4 DEF Serves
  <2>2. PICK j \in 1 .. Len(idListeners) : idListeners[j].id = u /\ idListeners[j].array = b
    BY <1>4 DEF Serves
  <2> QED
    BY <2>1, <2>2 DEF Mapped
<1> QED
  BY <1>1, <1>2, <1>3, <1>4

\* l is pushed to array a.
Pushed(a, l) ==
    /\ arrays' \in [Arrays -> Seq(Listeners)]
    /\ Len(arrays'[a]) = Len(arrays[a]) + 1
    /\ \A i \in 1 .. Len(arrays[a]) : arrays'[a][i] = arrays[a][i]
    /\ arrays'[a][Len(arrays[a]) + 1] = l
    /\ \A b \in Arrays : b # a => arrays'[b] = arrays[b]

LEMMA SubscribeShape ==
    ASSUME Types, Single, Mapped, NEW l \in Listeners, NEW t \in Places, Subscribe(l, t)
    PROVE  /\ place[l] = New /\ place' = [place EXCEPT ![l] = t]
           /\ UNCHANGED <<listeners, dropped>>
           /\ \E a \in Arrays :
                  /\ Pushed(a, l)
                  /\ \/ Serves(idListeners, listeners, a, t) /\ UNCHANGED <<made, idListeners>>
                     \/ /\ a = made /\ made <= MaxArrays /\ made' = made + 1 /\ t \in Ids
                        /\ idListeners' = Append(idListeners, [id |-> t, array |-> made])
                        /\ \A b \in Arrays : ~Serves(idListeners, listeners, b, t)
<1>0. /\ arrays \in [Arrays -> Seq(Listeners)]
      /\ made \in 1 .. MaxArrays + 1 /\ MaxArrays \in Nat
  BY EmitterAssumption DEF Types, TypeOK, Arrays
<1>1. place[l] = New /\ place' = [place EXCEPT ![l] = t] /\ UNCHANGED <<listeners, dropped>>
  BY DEF Subscribe
<1>2. CASE Target(t) # {}
  <2>1. PICK a \in Target(t) : arrays' = [arrays EXCEPT ![a] = Push(@, l)]
    BY <1>2 DEF Subscribe
  <2>2. a \in Arrays /\ Serves(idListeners, listeners, a, t)
    BY TargetServes
  <2>3. UNCHANGED <<made, idListeners>>
    BY <1>2 DEF Subscribe
  <2>4. arrays[a] \in Seq(Listeners) /\ Push(arrays[a], l) = Append(arrays[a], l)
    BY <1>0, <2>2 DEF Push
  <2>5. arrays'[a] = Append(arrays[a], l) /\ \A b \in Arrays : b # a => arrays'[b] = arrays[b]
    BY <1>0, <2>1, <2>2, <2>4
  <2>6. arrays' \in [Arrays -> Seq(Listeners)]
    BY <1>0, <2>1, <2>2, <2>4
  <2>7. Pushed(a, l)
    BY <2>4, <2>5, <2>6 DEF Pushed
  <2> QED
    BY <1>1, <2>2, <2>3, <2>7
<1>3. CASE Target(t) = {}
  <2>1. /\ made <= MaxArrays /\ made' = made + 1
        /\ arrays' = [arrays EXCEPT ![made] = <<l>>]
        /\ idListeners' = Append(idListeners, [id |-> t, array |-> made])
    BY <1>3 DEF Subscribe
  <2>2. made \in Arrays
    BY <1>0, <2>1 DEF Arrays
  <2>3. <<l>> \in Seq(Listeners) /\ Len(<<l>>) = 1 /\ <<l>>[1] = l
    OBVIOUS
  <2>4. arrays'[made] = <<l>> /\ \A b \in Arrays : b # made => arrays'[b] = arrays[b]
    BY <1>0, <2>1, <2>2
  <2>5. arrays' \in [Arrays -> Seq(Listeners)]
    BY <1>0, <2>1, <2>2, <2>3
  <2>6. Len(arrays[made]) = 0
    BY <1>0, <2>2 DEF Single
  <2>7. Pushed(made, l)
    BY <2>3, <2>4, <2>5, <2>6 DEF Pushed
  <2>8. \A b \in Arrays : ~Serves(idListeners, listeners, b, t)
    BY <1>3, TargetServes
  <2>9. t # All
    BY <1>3 DEF Target
  <2> QED
    BY <1>1, <2>1, <2>2, <2>7, <2>8, <2>9 DEF Places
<1> QED
  BY <1>2, <1>3

\* l is spliced out of the array of its place.
LEMMA UnsubscribeShape ==
    ASSUME Types, Single, NEW l \in Listeners, Unsubscribe(l)
    PROVE  /\ place[l] \in Places /\ place' = [place EXCEPT ![l] = Gone]
           /\ UNCHANGED <<made, idListeners, listeners>>
           /\ dropped' = dropped \union {[listener |-> l, from |-> place[l]]}
           /\ arrays' \in [Arrays -> Seq(Listeners)]
           /\ \A a \in Arrays : ~Serves(idListeners, listeners, a, place[l]) => arrays'[a] = arrays[a]
           /\ \A a \in Arrays : Serves(idListeners, listeners, a, place[l]) =>
                  \/ arrays'[a] = arrays[a] /\ \A i \in 1 .. Len(arrays[a]) : arrays[a][i] # l
                  \/ \E k \in 1 .. Len(arrays[a]) : arrays[a][k] = l /\ CutOut(arrays[a], arrays'[a], k)
<1>0. /\ arrays \in [Arrays -> Seq(Listeners)]
      /\ DOMAIN arrays = Arrays
  BY DEF Types, TypeOK, Arrays
<1>1. /\ place[l] \in Places /\ place' = [place EXCEPT ![l] = Gone]
      /\ UNCHANGED <<made, idListeners, listeners>>
      /\ dropped' = dropped \union {[listener |-> l, from |-> place[l]]}
  BY DEF Unsubscribe, Places, Dropped
<1>2. arrays' = [a \in Arrays |-> IF a \in Target(place[l]) THEN RemoveFirst(arrays[a], l) ELSE arrays[a]]
  BY <1>0 DEF Unsubscribe
<1>3. \A a \in Arrays : a \in Target(place[l]) <=> Serves(idListeners, listeners, a, place[l])
  BY <1>1, TargetServes
<1>4. ASSUME NEW a \in Arrays
      PROVE  /\ RemoveFirst(arrays[a], l) \in Seq(Listeners)
             /\ \/ (\A i \in 1 .. Len(arrays[a]) : arrays[a][i] # l) /\ RemoveFirst(arrays[a], l) = arrays[a]
                \/ \E k \in 1 .. Len(arrays[a]) : arrays[a][k] = l /\ CutOut(arrays[a], RemoveFirst(arrays[a], l), k)
  <2>1. arrays[a] \in Seq(Listeners)
    BY <1>0
  <2> QED
    BY <2>1, RemoveFirstCuts
<1>5. arrays' \in [Arrays -> Seq(Listeners)]
  BY <1>0, <1>2, <1>4
<1>6. \A a \in Arrays : arrays'[a] = IF Serves(idListeners, listeners, a, place[l])
                                     THEN RemoveFirst(arrays[a], l) ELSE arrays[a]
  BY <1>2, <1>3
<1>7. ASSUME NEW a \in Arrays, Serves(idListeners, listeners, a, place[l])
      PROVE  \/ arrays'[a] = arrays[a] /\ \A i \in 1 .. Len(arrays[a]) : arrays[a][i] # l
             \/ \E k \in 1 .. Len(arrays[a]) : arrays[a][k] = l /\ CutOut(arrays[a], arrays'[a], k)
  <2>1. arrays'[a] = RemoveFirst(arrays[a], l)
    BY <1>6, <1>7
  <2> QED
    BY <1>4, <2>1
<1> QED
  BY <1>1, <1>5, <1>6, <1>7

\* Where a splice finds what it leaves at i: itself, or the next one along.
Shifted(i, k) == IF i < k THEN i ELSE i + 1

\* An array keeps what it had up to some index, and lacks at most what was there.
LEMMA UnsubscribeCuts ==
    ASSUME Types, Single, NEW l \in Listeners, Unsubscribe(l), NEW a \in Arrays
    PROVE  \E k \in 1 .. Len(arrays[a]) + 1 :
               /\ Len(arrays'[a]) <= Len(arrays[a])
               /\ \A i \in 1 .. Len(arrays'[a]) :
                      Shifted(i, k) \in 1 .. Len(arrays[a]) /\ arrays'[a][i] = arrays[a][Shifted(i, k)]
<1>1. arrays[a] \in Seq(Listeners) /\ arrays'[a] \in Seq(Listeners)
  BY UnsubscribeShape DEF Types, TypeOK, Arrays
<1>2. CASE arrays'[a] = arrays[a]
  <2>1. \A i \in 1 .. Len(arrays'[a]) : Shifted(i, Len(arrays[a]) + 1) = i
    BY <1>1, <1>2 DEF Shifted
  <2> QED
    BY <1>1, <1>2, <2>1
<1>3. CASE \E k \in 1 .. Len(arrays[a]) : arrays[a][k] = l /\ CutOut(arrays[a], arrays'[a], k)
  <2>1. PICK k \in 1 .. Len(arrays[a]) : CutOut(arrays[a], arrays'[a], k)
    BY <1>3
  <2>2. \A i \in 1 .. Len(arrays'[a]) : Shifted(i, k) \in 1 .. Len(arrays[a])
    BY <1>1, <2>1 DEF Shifted, CutOut
  <2>3. k \in 1 .. Len(arrays[a]) + 1 /\ Len(arrays'[a]) <= Len(arrays[a])
    BY <1>1, <2>1 DEF CutOut
  <2> QED
    BY <2>1, <2>2, <2>3 DEF CutOut, Shifted
<1> QED
  BY <1>2, <1>3, UnsubscribeShape

\* dispose(id) deletes the one entry of that id.
LEMMA DisposeIdShape ==
    ASSUME Types, NEW id \in Ids, DisposeId(id)
    PROVE  /\ UNCHANGED <<arrays, made, listeners>>
           /\ idListeners' \in Seq([id: Ids, array: Arrays])
           /\ place' = [l \in Listeners |-> IF place[l] = id THEN Gone ELSE place[l]]
           /\ dropped' = dropped \union Dropped({l \in Listeners : place[l] = id})
           /\ \E k \in 1 .. Len(idListeners) :
                  idListeners[k].id = id /\ CutOut(idListeners, idListeners', k)
<1>1. idListeners \in Seq([id: Ids, array: Arrays])
  BY DEF Types, TypeOK, Arrays
<1>2. PICK k \in 1 .. Len(idListeners) : idListeners[k].id = id /\ idListeners' = RemoveAt(idListeners, k)
  BY DEF DisposeId
<1>3. idListeners' \in Seq([id: Ids, array: Arrays]) /\ CutOut(idListeners, idListeners', k)
  BY <1>1, <1>2, RemoveAtCuts
<1> QED
  BY <1>2, <1>3 DEF DisposeId

-----------------------------------------------------------------------------
(* What every change does to the arrays, the map and the places.           *)

ListenerTypes ==
    /\ arrays \in [Arrays -> Seq(Listeners)]
    /\ made \in 1 .. MaxArrays + 1
    /\ listeners \in Arrays
    /\ idListeners \in Seq([id: Ids, array: Arrays])
    /\ place \in [Listeners -> Places \union {New, Gone}]
    /\ dropped \subseteq [listener: Listeners, from: Places]

Listening == ListenerTypes /\ Single /\ Mapped /\ Agreed

\* A listener comes once and goes once.
ComesAndGoes ==
    \A l \in Listeners : \/ place'[l] = place[l]
                         \/ place[l] = New /\ place'[l] \in Places
                         \/ place[l] \in Places /\ place'[l] = Gone

\* What an array has at an index, it had there or further on, or has just been
\* pushed, to the array of its place.
MovesDown ==
    \A a \in Arrays : \A i \in 1 .. Len(arrays'[a]) :
        \/ \E j \in 1 .. Len(arrays[a]) : i <= j /\ arrays[a][j] = arrays'[a][i]
        \/ /\ place[arrays'[a][i]] = New /\ place'[arrays'[a][i]] \in Places
           /\ a = made \/ Serves(idListeners, listeners, a, place'[arrays'[a][i]])

\* The array that a place gets is a new one.
Remaps ==
    /\ \A a \in Arrays, t \in Places : Serves(idListeners', listeners', a, t) =>
           a = made \/ Serves(idListeners, listeners, a, t)
    /\ made <= made' /\ listeners' \in {listeners, made}

\* Where nobody was disposed of, everybody keeps the index it had.
StaysPut ==
    /\ dropped \subseteq dropped'
    /\ \A l \in Listeners : place[l] \in Places /\ place'[l] # Gone
                            /\ (\A d \in dropped' : d.from # place[l]) =>
           \A a \in Arrays : Serves(idListeners, listeners, a, place[l]) =>
               /\ Serves(idListeners', listeners', a, place[l])
               /\ \A i \in 1 .. Len(arrays[a]) : i \in 1 .. Len(arrays'[a]) /\ arrays'[a][i] = arrays[a][i]

Changed == ComesAndGoes /\ MovesDown /\ Remaps /\ StaysPut

LEMMA SubscribeListening ==
    ASSUME Types, Single, Mapped, Agreed, NEW l \in Listeners, NEW t \in Places, Subscribe(l, t)
    PROVE  Listening' /\ Changed
<1>0. /\ arrays \in [Arrays -> Seq(Listeners)] /\ made \in 1 .. MaxArrays + 1 /\ MaxArrays \in Nat
      /\ listeners \in Arrays /\ idListeners \in Seq([id: Ids, array: Arrays])
      /\ place \in [Listeners -> Places \union {New, Gone}]
      /\ dropped \subseteq [listener: Listeners, from: Places]
  BY EmitterAssumption DEF Types, TypeOK, Arrays, Places
<1>1. /\ place[l] = New /\ place' = [place EXCEPT ![l] = t]
      /\ listeners' = listeners /\ dropped' = dropped
  BY SubscribeShape
<1>2. PICK a \in Arrays :
          /\ Pushed(a, l)
          /\ \/ Serves(idListeners, listeners, a, t) /\ UNCHANGED <<made, idListeners>>
             \/ /\ a = made /\ made <= MaxArrays /\ made' = made + 1 /\ t \in Ids
                /\ idListeners' = Append(idListeners, [id |-> t, array |-> made])
                /\ \A b \in Arrays : ~Serves(idListeners, listeners, b, t)
  BY SubscribeShape
<1>3. /\ arrays' \in [Arrays -> Seq(Listeners)]
      /\ Len(arrays[a]) \in Nat /\ Len(arrays'[a]) = Len(arrays[a]) + 1
      /\ \A i \in 1 .. Len(arrays'[a]) :
             \/ i \in 1 .. Len(arrays[a]) /\ arrays'[a][i] = arrays[a][i]
             \/ i = Len(arrays[a]) + 1 /\ arrays'[a][i] = l
      /\ \A b \in Arrays : b # a => arrays'[b] = arrays[b]
  BY <1>0, <1>2 DEF Pushed
<1>4. \A b \in Arrays : \A i \in 1 .. Len(arrays[b]) : arrays[b][i] \in Listeners /\ arrays[b][i] # l
  <2>1. \A b \in Arrays : arrays[b] \in Seq(Listeners)
    BY <1>0
  <2> QED
    BY <1>1, <2>1 DEF Single
<1>5. /\ place' \in [Listeners -> Places \union {New, Gone}]
      /\ place'[l] = t /\ \A m \in Listeners : m # l => place'[m] = place[m]
      /\ t # New
  BY <1>0, <1>1, PlaceNames DEF Places
<1>6. /\ made <= made' /\ made' \in 1 .. MaxArrays + 1 /\ a < made'
      /\ idListeners' \in Seq([id: Ids, array: Arrays])
  <2>1. CASE Serves(idListeners, listeners, a, t) /\ UNCHANGED <<made, idListeners>>
    BY <1>0, <2>1, ServesOne
  <2>2. CASE /\ a = made /\ made <= MaxArrays /\ made' = made + 1 /\ t \in Ids
             /\ idListeners' = Append(idListeners, [id |-> t, array |-> made])
    BY <1>0, <2>2
  <2> QED
    BY <1>2, <2>1, <2>2
<1>7. /\ Serves(idListeners', listeners', a, t)
      /\ \A b \in Arrays, u \in Places :
             Serves(idListeners', listeners', b, u) <=>
                 Serves(idListeners, listeners, b, u) \/ (b = a /\ u = t)
  <2>1. CASE Serves(idListeners, listeners, a, t) /\ UNCHANGED <<made, idListeners>>
    BY <1>1, <2>1
  <2>2. CASE /\ a = made /\ t \in Ids
             /\ idListeners' = Append(idListeners, [id |-> t, array |-> made])
    <3>1. /\ Len(idListeners) \in Nat /\ Len(idListeners') = Len(idListeners) + 1
          /\ \A i \in 1 .. Len(idListeners) : idListeners'[i] = idListeners[i]
          /\ idListeners'[Len(idListeners) + 1] = [id |-> t, array |-> a]
      BY <1>0, <2>2
    <3>2. t # All
      BY <2>2, PlaceNames
    <3>3. \A i \in 1 .. Len(idListeners') : i \in 1 .. Len(idListeners) \/ i = Len(idListeners) + 1
      BY <3>1
    <3>4. ASSUME NEW b \in Arrays, NEW u \in Places, u # All
          PROVE  (\E i \in 1 .. Len(idListeners') : idListeners'[i].id = u /\ idListeners'[i].array = b)
                 <=> \/ \E i \in 1 .. Len(idListeners) : idListeners[i].id = u /\ idListeners[i].array = b
                     \/ b = a /\ u = t
      <4>1. \A i \in 1 .. Len(idListeners) : i \in 1 .. Len(idListeners')
        BY <3>1
      <4>2. Len(idListeners) + 1 \in 1 .. Len(idListeners')
        BY <3>1
      <4>3. [id |-> t, array |-> a].id = t /\ [id |-> t, array |-> a].array = a
        OBVIOUS
      <4> QED
        BY <3>1, <3>3, <4>1, <4>2, <4>3
    <3> QED
      BY <1>1, <3>2, <3>4 DEF Serves
  <2> QED
    BY <1>2, <2>1, <2>2
<1>8. ListenerTypes'
  BY <1>0, <1>1, <1>3, <1>5, <1>6 DEF ListenerTypes
<1>9. Single'
  <2>1. ASSUME NEW b \in Arrays, NEW c \in Arrays,
               NEW i \in 1 .. Len(arrays'[b]), NEW j \in 1 .. Len(arrays'[c]), arrays'[b][i] = arrays'[c][j]
        PROVE  b = c /\ i = j
    <3>1. \/ i \in 1 .. Len(arrays[b]) /\ arrays'[b][i] = arrays[b][i]
          \/ b = a /\ i = Len(arrays[a]) + 1 /\ arrays'[b][i] = l
      BY <1>3
    <3>2. \/ j \in 1 .. Len(arrays[c]) /\ arrays'[c][j] = arrays[c][j]
          \/ c = a /\ j = Len(arrays[a]) + 1 /\ arrays'[c][j] = l
      BY <1>3
    <3> QED
      BY <1>4, <2>1, <3>1, <3>2 DEF Single
  <2>2. ASSUME NEW b \in Arrays, NEW i \in 1 .. Len(arrays'[b]) PROVE place'[arrays'[b][i]] # New
    <3>1. \/ i \in 1 .. Len(arrays[b]) /\ arrays'[b][i] = arrays[b][i]
          \/ b = a /\ i = Len(arrays[a]) + 1 /\ arrays'[b][i] = l
      BY <1>3
    <3> QED
      BY <1>4, <1>5, <3>1 DEF Single
  <2>3. ASSUME NEW b \in Arrays, b >= made' PROVE Len(arrays'[b]) = 0
    <3>1. b # a /\ b >= made
      BY <1>0, <1>6, <2>3 DEF Arrays
    <3> QED
      BY <1>3, <3>1 DEF Single
  <2> QED
    BY <2>1, <2>2, <2>3 DEF Single
<1>10. Mapped'
  <2>1. CASE Serves(idListeners, listeners, a, t) /\ UNCHANGED <<made, idListeners>>
    BY <1>1, <2>1 DEF Mapped
  <2>2. CASE /\ a = made /\ made' = made + 1 /\ t \in Ids
             /\ idListeners' = Append(idListeners, [id |-> t, array |-> made])
             /\ \A b \in Arrays : ~Serves(idListeners, listeners, b, t)
    <3>1. /\ Len(idListeners) \in Nat /\ Len(idListeners') = Len(idListeners) + 1
          /\ \A i \in 1 .. Len(idListeners) : idListeners'[i] = idListeners[i]
          /\ idListeners'[Len(idListeners) + 1] = [id |-> t, array |-> made]
      BY <1>0, <2>2
    <3>2. \A i \in 1 .. Len(idListeners') : i \in 1 .. Len(idListeners) \/ i = Len(idListeners) + 1
      BY <3>1
    <3>3. ASSUME NEW i \in 1 .. Len(idListeners) PROVE idListeners[i].id # t
      <4>1. idListeners[i].array \in Arrays
        BY <1>0, EntriesTyped
      <4>2. t # All
        BY <2>2, PlaceNames
      <4> QED
        BY <2>2, <4>1, <4>2 DEF Serves
    <3>4. \A i \in 1 .. Len(idListeners) :
              idListeners[i].array \in Nat /\ idListeners[i].array < made /\ idListeners[i].array # listeners
      <4>1. \A i \in 1 .. Len(idListeners) : idListeners[i].array \in Arrays
        BY <1>0, EntriesTyped
      <4>2. Arrays \subseteq Nat
        BY <1>0 DEF Arrays
      <4> QED
        BY <4>1, <4>2 DEF Mapped
    <3>5. listeners \in Nat /\ listeners < made /\ made \in Nat
      BY <1>0 DEF Mapped, Arrays
    <3>6. \A i \in 1 .. Len(idListeners') : \/ i \in 1 .. Len(idListeners) /\ idListeners'[i] = idListeners[i]
                                            \/ /\ i = Len(idListeners) + 1
                                               /\ idListeners'[i].id = t /\ idListeners'[i].array = made
      BY <3>1, <3>2
    <3>7. listeners' < made'
      BY <1>1, <2>2, <3>5
    <3>8. \A i \in 1 .. Len(idListeners') : idListeners'[i].array < made' /\ idListeners'[i].array # listeners'
      BY <1>1, <2>2, <3>4, <3>5, <3>6
    <3>9. ASSUME NEW i \in 1 .. Len(idListeners'), NEW j \in 1 .. Len(idListeners'),
                 idListeners'[i].id = idListeners'[j].id \/ idListeners'[i].array = idListeners'[j].array
          PROVE  i = j
      <4>1. CASE i \in 1 .. Len(idListeners) /\ j \in 1 .. Len(idListeners)
        BY <3>1, <3>9, <4>1 DEF Mapped
      <4>2. CASE i \in 1 .. Len(idListeners) /\ j = Len(idListeners) + 1
        BY <3>1, <3>3, <3>4, <3>5, <3>6, <3>9, <4>2
      <4>3. CASE i = Len(idListeners) + 1 /\ j \in 1 .. Len(idListeners)
        BY <3>1, <3>3, <3>4, <3>5, <3>6, <3>9, <4>3
      <4> QED
        BY <3>2, <4>1, <4>2, <4>3
    <3> QED
      BY <3>7, <3>8, <3>9 DEF Mapped
  <2> QED
    BY <1>2, <2>1, <2>2
<1>11. Agreed'
  <2>1. ASSUME NEW b \in Arrays, NEW u \in Places, Serves(idListeners', listeners', b, u),
               NEW i \in 1 .. Len(arrays'[b])
        PROVE  place'[arrays'[b][i]] = u
    <3>1. CASE b # a
      <4>1. Serves(idListeners, listeners, b, u) /\ arrays'[b] = arrays[b]
        BY <1>3, <1>7, <2>1, <3>1
      <4> QED
        BY <1>4, <1>5, <4>1 DEF Agreed
    <3>2. CASE b = a
      <4>2. u = t
        <5>2. CASE Serves(idListeners, listeners, a, t)
          BY <1>7, <2>1, <3>2, <5>2, ServesOne
        <5>3. CASE ~Serves(idListeners, listeners, a, t)
          <6>1. a = made
            BY <1>2, <5>3
          <6>2. ~Serves(idListeners, listeners, a, u)
            <7>1. SUFFICES ASSUME Serves(idListeners, listeners, a, u) PROVE FALSE
              OBVIOUS
            <7>2. a < made
              BY <7>1, ServesOne
            <7> QED
              BY <1>0, <6>1, <7>2
          <6> QED
            BY <1>7, <2>1, <3>2, <6>2
        <5> QED
          BY <5>2, <5>3
      <4>3. i \in 1 .. Len(arrays[a]) => Serves(idListeners, listeners, a, t)
        <5>1. ~Serves(idListeners, listeners, a, t) => a = made
          BY <1>2
        <5> QED
          BY <1>0, <5>1 DEF Single
      <4> QED
        BY <1>3, <1>4, <1>5, <3>2, <4>2, <4>3 DEF Agreed
    <3> QED
      BY <3>1, <3>2
  <2>2. ASSUME NEW m \in Listeners, place'[m] \in Places
        PROVE  \E b \in Arrays : /\ Serves(idListeners', listeners', b, place'[m])
                                /\ \E i \in 1 .. Len(arrays'[b]) : arrays'[b][i] = m
    <3>1. CASE m = l
      <4>1. Len(arrays[a]) + 1 \in 1 .. Len(arrays'[a]) /\ arrays'[a][Len(arrays[a]) + 1] = l
        BY <1>2, <1>3 DEF Pushed
      <4> QED
        BY <1>5, <1>7, <3>1, <4>1
    <3>2. CASE m # l
      <4>1. place'[m] = place[m]
        BY <1>5, <3>2
      <4>2. PICK b \in Arrays : /\ Serves(idListeners, listeners, b, place[m])
                               /\ \E i \in 1 .. Len(arrays[b]) : arrays[b][i] = m
        BY <2>2, <4>1 DEF Agreed
      <4>3. \E i \in 1 .. Len(arrays'[b]) : arrays'[b][i] = m
        <5>1. PICK i \in 1 .. Len(arrays[b]) : arrays[b][i] = m
          BY <4>2
        <5>2. i \in 1 .. Len(arrays'[b]) /\ arrays'[b][i] = m
          BY <1>2, <1>3, <5>1, SMTT(20) DEF Pushed
        <5> QED
          BY <5>2
      <4> QED
        BY <1>7, <2>2, <4>1, <4>2, <4>3
    <3> QED
      BY <3>1, <3>2
  <2> QED
    BY <2>1, <2>2 DEF Agreed
<1>12. Changed
  <2>1. ComesAndGoes
    BY <1>1, <1>5 DEF ComesAndGoes
  <2>2. MovesDown
    <3>1. ASSUME NEW b \in Arrays, NEW i \in 1 .. Len(arrays'[b])
          PROVE  \/ \E j \in 1 .. Len(arrays[b]) : i <= j /\ arrays[b][j] = arrays'[b][i]
                 \/ /\ place[arrays'[b][i]] = New /\ place'[arrays'[b][i]] \in Places
                    /\ b = made \/ Serves(idListeners, listeners, b, place'[arrays'[b][i]])
      <4>1. CASE i \in 1 .. Len(arrays[b]) /\ arrays'[b][i] = arrays[b][i]
        <5>1. i <= i
          OBVIOUS
        <5> QED
          BY <4>1, <5>1
      <4>2. CASE b = a /\ arrays'[b][i] = l
        BY <1>1, <1>2, <1>5, <4>2
      <4> QED
        BY <1>3, <4>1, <4>2
    <3> QED
      BY <3>1 DEF MovesDown
  <2>3. Remaps
    BY <1>1, <1>2, <1>6, <1>7 DEF Remaps
  <2>4. StaysPut
    <3>1. \A b \in Arrays : \A i \in 1 .. Len(arrays[b]) :
              i \in 1 .. Len(arrays'[b]) /\ arrays'[b][i] = arrays[b][i]
      BY <1>2, <1>3, SMTT(20) DEF Pushed
    <3> QED
      BY <1>1, <1>7, <3>1 DEF StaysPut
  <2> QED
    BY <2>1, <2>2, <2>3, <2>4 DEF Changed
<1> QED
  BY <1>8, <1>9, <1>10, <1>11, <1>12 DEF Listening

LEMMA UnsubscribeListening ==
    ASSUME Types, Single, Mapped, Agreed, NEW l \in Listeners, Unsubscribe(l)
    PROVE  Listening' /\ Changed
<1> DEFINE t == place[l]
<1>0. /\ arrays \in [Arrays -> Seq(Listeners)] /\ made \in 1 .. MaxArrays + 1 /\ MaxArrays \in Nat
      /\ listeners \in Arrays /\ idListeners \in Seq([id: Ids, array: Arrays])
      /\ place \in [Listeners -> Places \union {New, Gone}]
      /\ dropped \subseteq [listener: Listeners, from: Places]
  BY EmitterAssumption DEF Types, TypeOK, Arrays, Places
<1>1. /\ place[l] \in Places /\ place' = [place EXCEPT ![l] = Gone]
      /\ made' = made /\ idListeners' = idListeners /\ listeners' = listeners
      /\ dropped' = dropped \union {[listener |-> l, from |-> place[l]]}
      /\ arrays' \in [Arrays -> Seq(Listeners)]
      /\ \A a \in Arrays : ~Serves(idListeners, listeners, a, place[l]) => arrays'[a] = arrays[a]
  BY UnsubscribeShape
<1>2. /\ place' \in [Listeners -> Places \union {New, Gone}]
      /\ place'[l] = Gone /\ \A m \in Listeners : m # l => place'[m] = place[m]
      /\ Gone # New /\ Gone \notin Places
  BY <1>0, <1>1, PlaceNames
<1>3. \A a \in Arrays : \A i \in 1 .. Len(arrays[a]) : arrays[a][i] \in Listeners
  <2>1. \A a \in Arrays : arrays[a] \in Seq(Listeners)
    BY <1>0
  <2> QED
    BY <2>1
<1>4. \A a \in Arrays : \E k \in 1 .. Len(arrays[a]) + 1 :
          /\ Len(arrays'[a]) <= Len(arrays[a])
          /\ \A i \in 1 .. Len(arrays'[a]) :
                 Shifted(i, k) \in 1 .. Len(arrays[a]) /\ arrays'[a][i] = arrays[a][Shifted(i, k)]
  BY UnsubscribeCuts
\* The array of l's place no longer has l, and has everyone else.
<1>5. ASSUME NEW a \in Arrays, Serves(idListeners, listeners, a, t)
      PROVE  /\ \A i \in 1 .. Len(arrays'[a]) : arrays'[a][i] # l
             /\ \A i \in 1 .. Len(arrays[a]) : arrays[a][i] # l =>
                    \E j \in 1 .. Len(arrays'[a]) : arrays'[a][j] = arrays[a][i]
  <2>1. CASE arrays'[a] = arrays[a] /\ \A i \in 1 .. Len(arrays[a]) : arrays[a][i] # l
    BY <2>1
  <2>2. CASE \E k \in 1 .. Len(arrays[a]) : arrays[a][k] = l /\ CutOut(arrays[a], arrays'[a], k)
    <3>1. PICK k \in 1 .. Len(arrays[a]) : arrays[a][k] = l /\ CutOut(arrays[a], arrays'[a], k)
      BY <2>2
    <3>2. /\ Len(arrays[a]) \in Nat /\ Len(arrays'[a]) = Len(arrays[a]) - 1
          /\ \A i \in 1 .. Len(arrays'[a]) : arrays'[a][i] = arrays[a][IF i < k THEN i ELSE i + 1]
      <4>1. arrays[a] \in Seq(Listeners)
        BY <1>0
      <4>2. Len(arrays[a]) \in Nat
        BY <4>1
      <4> QED
        BY <3>1, <4>2 DEF CutOut
    <3>3. ASSUME NEW i \in 1 .. Len(arrays'[a]) PROVE arrays'[a][i] # l
      <4>1. (IF i < k THEN i ELSE i + 1) \in 1 .. Len(arrays[a]) /\ (IF i < k THEN i ELSE i + 1) # k
        BY <3>2
      <4> QED
        BY <3>1, <3>2, <4>1 DEF Single
    <3>4. ASSUME NEW i \in 1 .. Len(arrays[a]), arrays[a][i] # l
          PROVE  \E j \in 1 .. Len(arrays'[a]) : arrays'[a][j] = arrays[a][i]
      <4>1. i # k
        BY <3>1, <3>4
      <4>2. CASE i < k
        BY <3>2, <4>2
      <4>3. CASE i > k
        <5>1. i - 1 \in 1 .. Len(arrays'[a]) /\ ~(i - 1 < k) /\ i - 1 + 1 = i
          BY <3>2, <4>3
        <5> QED
          BY <3>2, <5>1
      <4> QED
        BY <3>2, <4>1, <4>2, <4>3
    <3> QED
      BY <3>3, <3>4
  <2> QED
    BY <2>1, <2>2, <1>5, UnsubscribeShape
<1>6. ListenerTypes'
  <2>1. [listener |-> l, from |-> place[l]] \in [listener: Listeners, from: Places]
    BY <1>1
  <2> QED
    BY <1>0, <1>1, <1>2, <2>1 DEF ListenerTypes
<1>7. Single'
  <2>1. ASSUME NEW b \in Arrays, NEW c \in Arrays,
               NEW i \in 1 .. Len(arrays'[b]), NEW j \in 1 .. Len(arrays'[c]), arrays'[b][i] = arrays'[c][j]
        PROVE  b = c /\ i = j
    <3>1. PICK k \in 1 .. Len(arrays[b]) + 1 :
              /\ Len(arrays'[b]) <= Len(arrays[b])
              /\ \A n \in 1 .. Len(arrays'[b]) :
                     Shifted(n, k) \in 1 .. Len(arrays[b]) /\ arrays'[b][n] = arrays[b][Shifted(n, k)]
      BY <1>4
    <3>2. PICK h \in 1 .. Len(arrays[c]) + 1 :
              /\ Len(arrays'[c]) <= Len(arrays[c])
              /\ \A n \in 1 .. Len(arrays'[c]) :
                     Shifted(n, h) \in 1 .. Len(arrays[c]) /\ arrays'[c][n] = arrays[c][Shifted(n, h)]
      BY <1>4
    <3>3. b = c
      <4>1. Shifted(i, k) \in 1 .. Len(arrays[b]) /\ arrays'[b][i] = arrays[b][Shifted(i, k)]
        BY <3>1
      <4>2. Shifted(j, h) \in 1 .. Len(arrays[c]) /\ arrays'[c][j] = arrays[c][Shifted(j, h)]
        BY <3>2
      <4> QED
        BY <2>1, <4>1, <4>2 DEF Single
    <3>4. Shifted(j, k) \in 1 .. Len(arrays[b]) /\ arrays'[b][j] = arrays[b][Shifted(j, k)]
      BY <3>1, <3>3
    <3>5. Shifted(i, k) = Shifted(j, k)
      <4>1. Shifted(i, k) \in 1 .. Len(arrays[b]) /\ arrays'[b][i] = arrays[b][Shifted(i, k)]
        BY <3>1
      <4>2. arrays[b][Shifted(i, k)] = arrays[b][Shifted(j, k)]
        BY <2>1, <3>3, <3>4, <4>1
      <4> QED
        BY <3>4, <4>1, <4>2 DEF Single
    <3>6. i \in Nat /\ j \in Nat /\ k \in Nat
      OBVIOUS
    <3> QED
      BY <3>3, <3>5, <3>6 DEF Shifted
  <2>2. ASSUME NEW b \in Arrays, NEW i \in 1 .. Len(arrays'[b]) PROVE place'[arrays'[b][i]] # New
    <3>1. PICK j \in 1 .. Len(arrays[b]) : arrays'[b][i] = arrays[b][j]
      BY <1>4
    <3> QED
      BY <1>2, <1>3, <3>1 DEF Single
  <2>3. ASSUME NEW b \in Arrays, b >= made' PROVE Len(arrays'[b]) = 0
    <3>1. Len(arrays[b]) = 0 /\ Len(arrays'[b]) <= Len(arrays[b])
      BY <1>1, <1>4, <2>3 DEF Single
    <3>2. arrays'[b] \in Seq(Listeners)
      BY <1>1
    <3> QED
      BY <3>1, <3>2
  <2> QED
    BY <2>1, <2>2, <2>3 DEF Single
<1>8. Mapped'
  BY <1>1 DEF Mapped
<1>9. Agreed'
  <2>1. ASSUME NEW b \in Arrays, NEW u \in Places, Serves(idListeners, listeners, b, u),
               NEW i \in 1 .. Len(arrays'[b])
        PROVE  place'[arrays'[b][i]] = u
    <3>1. PICK j \in 1 .. Len(arrays[b]) : arrays'[b][i] = arrays[b][j]
      BY <1>4
    <3>2. arrays[b][j] \in Listeners /\ place[arrays[b][j]] = u
      BY <1>3, <2>1, <3>1 DEF Agreed
    <3>3. arrays'[b][i] # l
      <4>1. CASE u = t
        BY <1>5, <2>1, <4>1
      <4>2. CASE u # t
        BY <3>1, <3>2, <4>2
      <4> QED
        BY <4>1, <4>2
    <3> QED
      BY <1>2, <3>1, <3>2, <3>3
  <2>2. ASSUME NEW m \in Listeners, place'[m] \in Places
        PROVE  \E b \in Arrays : /\ Serves(idListeners, listeners, b, place'[m])
                                /\ \E i \in 1 .. Len(arrays'[b]) : arrays'[b][i] = m
    <3>1. m # l /\ place'[m] = place[m]
      BY <1>2, <2>2
    <3>2. PICK b \in Arrays : /\ Serves(idListeners, listeners, b, place[m])
                             /\ \E i \in 1 .. Len(arrays[b]) : arrays[b][i] = m
      BY <2>2, <3>1 DEF Agreed
    <3>3. PICK i \in 1 .. Len(arrays[b]) : arrays[b][i] = m
      BY <3>2
    <3>4. \E j \in 1 .. Len(arrays'[b]) : arrays'[b][j] = m
      <4>1. CASE Serves(idListeners, listeners, b, t)
        BY <1>5, <3>1, <3>3, <4>1
      <4>2. CASE ~Serves(idListeners, listeners, b, t)
        BY <1>1, <3>3, <4>2
      <4> QED
        BY <4>1, <4>2
    <3> QED
      BY <3>1, <3>2, <3>4
  <2> QED
    BY <1>1, <2>1, <2>2 DEF Agreed
<1>10. Changed
  <2>1. ComesAndGoes
    BY <1>1, <1>2 DEF ComesAndGoes
  <2>2. ASSUME NEW b \in Arrays, NEW i \in 1 .. Len(arrays'[b])
        PROVE  \E j \in 1 .. Len(arrays[b]) : i <= j /\ arrays[b][j] = arrays'[b][i]
    <3>1. PICK k \in 1 .. Len(arrays[b]) + 1 :
              Shifted(i, k) \in 1 .. Len(arrays[b]) /\ arrays'[b][i] = arrays[b][Shifted(i, k)]
      BY <1>4
    <3>2. i <= Shifted(i, k)
      <4>1. i \in Nat /\ k \in Nat
        OBVIOUS
      <4> QED
        BY <4>1 DEF Shifted
    <3> QED
      BY <3>1, <3>2
  <2>3. MovesDown
    BY <2>2 DEF MovesDown
  <2>4. Remaps
    <3>1. made <= made
      BY <1>0
    <3> QED
      BY <1>1, <3>1 DEF Remaps
  <2>5. StaysPut
    <3>1. ASSUME NEW m \in Listeners, place[m] \in Places, \A d \in dropped' : d.from # place[m],
                 NEW b \in Arrays, Serves(idListeners, listeners, b, place[m])
          PROVE  arrays'[b] = arrays[b]
      <4>1. place[m] # t
        <5>1. [listener |-> l, from |-> t] \in dropped'
          BY <1>1
        <5>2. [listener |-> l, from |-> t].from = t
          OBVIOUS
        <5> QED
          BY <3>1, <5>1, <5>2
      <4>2. ~Serves(idListeners, listeners, b, t)
        BY <1>1, <3>1, <4>1, ServesOne
      <4> QED
        BY <1>1, <4>2
    <3> QED
      BY <1>1, <3>1 DEF StaysPut
  <2> QED
    BY <2>1, <2>3, <2>4, <2>5 DEF Changed
<1> QED
  BY <1>6, <1>7, <1>8, <1>9, <1>10 DEF Listening

LEMMA DisposeIdListening ==
    ASSUME Types, Single, Mapped, Agreed, NEW id \in Ids, DisposeId(id)
    PROVE  Listening' /\ Changed
<1>0. /\ arrays \in [Arrays -> Seq(Listeners)] /\ made \in 1 .. MaxArrays + 1 /\ MaxArrays \in Nat
      /\ listeners \in Arrays /\ idListeners \in Seq([id: Ids, array: Arrays])
      /\ place \in [Listeners -> Places \union {New, Gone}]
      /\ dropped \subseteq [listener: Listeners, from: Places]
  BY EmitterAssumption DEF Types, TypeOK, Arrays, Places
<1>1. /\ arrays' = arrays /\ made' = made /\ listeners' = listeners
      /\ idListeners' \in Seq([id: Ids, array: Arrays])
      /\ place' = [l \in Listeners |-> IF place[l] = id THEN Gone ELSE place[l]]
      /\ dropped' = dropped \union Dropped({l \in Listeners : place[l] = id})
  BY DisposeIdShape
<1>2. PICK k \in 1 .. Len(idListeners) : idListeners[k].id = id /\ CutOut(idListeners, idListeners', k)
  BY DisposeIdShape
<1>3. Len(idListeners) \in Nat /\ Len(idListeners') = Len(idListeners) - 1
  BY <1>0, <1>2 DEF CutOut
<1>4. \A i \in 1 .. Len(idListeners') :
          /\ Shifted(i, k) \in 1 .. Len(idListeners) /\ Shifted(i, k) # k
          /\ idListeners'[i] = idListeners[Shifted(i, k)]
  <2>1. \A i \in 1 .. Len(idListeners') : Shifted(i, k) \in 1 .. Len(idListeners) /\ Shifted(i, k) # k
    BY <1>3 DEF Shifted
  <2> QED
    BY <1>2, <2>1 DEF CutOut, Shifted
<1>5. \A i \in 1 .. Len(idListeners) : i # k =>
          \E j \in 1 .. Len(idListeners') : idListeners'[j] = idListeners[i]
  <2>1. ASSUME NEW i \in 1 .. Len(idListeners), i # k
        PROVE  \E j \in 1 .. Len(idListeners') : Shifted(j, k) = i
    <3>1. CASE i < k
      <4>1. i \in 1 .. Len(idListeners') /\ Shifted(i, k) = i
        BY <1>3, <3>1 DEF Shifted
      <4> QED
        BY <4>1
    <3>2. CASE i > k
      <4>1. i - 1 \in 1 .. Len(idListeners') /\ Shifted(i - 1, k) = i
        BY <1>3, <3>2 DEF Shifted
      <4> QED
        BY <4>1
    <3> QED
      BY <2>1, <3>1, <3>2
  <2> QED
    BY <1>4, <2>1
<1>6. ASSUME NEW a \in Arrays, NEW t \in Places
      PROVE  Serves(idListeners', listeners', a, t) <=> Serves(idListeners, listeners, a, t) /\ t # id
  <2>1. CASE t = All
    BY <1>1, <2>1, PlaceNames DEF Serves
  <2>2. CASE t # All
    <3>1. ASSUME NEW i \in 1 .. Len(idListeners'), idListeners'[i].id = t, idListeners'[i].array = a
          PROVE  Serves(idListeners, listeners, a, t) /\ t # id
      <4>1. /\ Shifted(i, k) \in 1 .. Len(idListeners) /\ Shifted(i, k) # k
            /\ idListeners[Shifted(i, k)].id = t /\ idListeners[Shifted(i, k)].array = a
        BY <1>4, <3>1
      <4> QED
        BY <1>2, <2>2, <4>1 DEF Serves, Mapped
    <3>2. ASSUME NEW i \in 1 .. Len(idListeners), idListeners[i].id = t, idListeners[i].array = a, t # id
          PROVE  Serves(idListeners', listeners', a, t)
      <4>1. i # k
        BY <1>2, <3>2
      <4>2. PICK j \in 1 .. Len(idListeners') : idListeners'[j] = idListeners[i]
        BY <1>5, <4>1
      <4> QED
        BY <2>2, <3>2, <4>2 DEF Serves
    <3>3. CASE Serves(idListeners', listeners', a, t)
      <4>1. PICK i \in 1 .. Len(idListeners') : idListeners'[i].id = t /\ idListeners'[i].array = a
        BY <2>2, <3>3 DEF Serves
      <4> QED
        BY <3>1, <3>3, <4>1
    <3>4. CASE Serves(idListeners, listeners, a, t) /\ t # id
      <4>1. PICK i \in 1 .. Len(idListeners) : idListeners[i].id = t /\ idListeners[i].array = a
        BY <2>2, <3>4 DEF Serves
      <4> QED
        BY <3>2, <3>4, <4>1
    <3> QED
      BY <3>3, <3>4
  <2> QED
    BY <2>1, <2>2
<1>7. /\ place' \in [Listeners -> Places \union {New, Gone}]
      /\ \A l \in Listeners : IF place[l] = id THEN place'[l] = Gone ELSE place'[l] = place[l]
      /\ Gone # New /\ Gone \notin Places /\ id \in Places
  BY <1>0, <1>1, PlaceNames
<1>8. \A a \in Arrays : \A i \in 1 .. Len(arrays[a]) : arrays[a][i] \in Listeners
  <2>1. \A a \in Arrays : arrays[a] \in Seq(Listeners)
    BY <1>0
  <2> QED
    BY <2>1
<1>9. ListenerTypes'
  <2>1. Dropped({l \in Listeners : place[l] = id}) \subseteq [listener: Listeners, from: Places]
    BY <1>7 DEF Dropped
  <2> QED
    BY <1>0, <1>1, <1>7, <2>1 DEF ListenerTypes
<1>10. Single'
  <2>1. \A a \in Arrays : \A i \in 1 .. Len(arrays[a]) : place'[arrays[a][i]] # New
    BY <1>7, <1>8 DEF Single
  <2>2. arrays' = arrays /\ made' = made
    BY <1>1
  <2> QED
    BY <2>1, <2>2 DEF Single
<1>11. Mapped'
  <2>1. \A i \in 1 .. Len(idListeners') : idListeners'[i].array < made /\ idListeners'[i].array # listeners
    BY <1>4 DEF Mapped
  <2>2. ASSUME NEW i \in 1 .. Len(idListeners'), NEW j \in 1 .. Len(idListeners'),
               idListeners'[i].id = idListeners'[j].id \/ idListeners'[i].array = idListeners'[j].array
        PROVE  i = j
    <3>1. /\ Shifted(i, k) \in 1 .. Len(idListeners) /\ idListeners'[i] = idListeners[Shifted(i, k)]
          /\ Shifted(j, k) \in 1 .. Len(idListeners) /\ idListeners'[j] = idListeners[Shifted(j, k)]
      BY <1>4
    <3>2. Shifted(i, k) = Shifted(j, k)
      BY <2>2, <3>1 DEF Mapped
    <3>3. i \in Nat /\ j \in Nat /\ k \in Nat
      OBVIOUS
    <3> QED
      BY <3>2, <3>3 DEF Shifted
  <2> QED
    BY <1>1, <2>1, <2>2 DEF Mapped
<1>12. Agreed'
  <2>1. ASSUME NEW a \in Arrays, NEW t \in Places, Serves(idListeners', listeners', a, t),
               NEW i \in 1 .. Len(arrays[a])
        PROVE  place'[arrays[a][i]] = t
    BY <1>6, <1>7, <1>8, <2>1, SMTT(20) DEF Agreed
  <2>2. ASSUME NEW l \in Listeners, place'[l] \in Places
        PROVE  \E a \in Arrays : /\ Serves(idListeners', listeners', a, place'[l])
                                /\ \E i \in 1 .. Len(arrays[a]) : arrays[a][i] = l
    <3>1. place'[l] = place[l] /\ place[l] # id
      BY <1>7, <2>2
    <3>2. PICK a \in Arrays : /\ Serves(idListeners, listeners, a, place[l])
                             /\ \E i \in 1 .. Len(arrays[a]) : arrays[a][i] = l
      BY <2>2, <3>1 DEF Agreed
    <3> QED
      BY <1>6, <2>2, <3>1, <3>2
  <2> QED
    BY <1>1, <2>1, <2>2 DEF Agreed
<1>13. Changed
  <2>1. ComesAndGoes
    BY <1>7 DEF ComesAndGoes
  <2>2. MovesDown
    <3>1. \A a \in Arrays : \A i \in 1 .. Len(arrays[a]) : i <= i
      OBVIOUS
    <3> QED
      BY <1>1, <3>1 DEF MovesDown
  <2>3. Remaps
    <3>1. made <= made
      BY <1>0
    <3> QED
      BY <1>1, <1>6, <3>1 DEF Remaps
  <2>4. StaysPut
    <3>1. \A l \in Listeners : place'[l] # Gone => place[l] # id
      BY <1>7
    <3> QED
      BY <1>1, <1>6, <3>1 DEF StaysPut
  <2> QED
    BY <2>1, <2>2, <2>3, <2>4 DEF Changed
<1> QED
  BY <1>9, <1>10, <1>11, <1>12, <1>13 DEF Listening

LEMMA DisposeAllListening ==
    ASSUME Types, Single, Mapped, Agreed, DisposeAll
    PROVE  Listening' /\ Changed
<1>0. /\ arrays \in [Arrays -> Seq(Listeners)] /\ made \in 1 .. MaxArrays + 1 /\ MaxArrays \in Nat
      /\ place \in [Listeners -> Places \union {New, Gone}]
      /\ dropped \subseteq [listener: Listeners, from: Places]
  BY EmitterAssumption DEF Types, TypeOK, Arrays, Places
<1>1. /\ arrays' = arrays /\ made <= MaxArrays /\ made' = made + 1 /\ listeners' = made
      /\ idListeners' = <<>>
      /\ place' = [l \in Listeners |-> IF place[l] \in Places THEN Gone ELSE place[l]]
      /\ dropped' = dropped \union Dropped({l \in Listeners : place[l] \in Places})
  BY DEF DisposeAll, Places
<1>2. /\ place' \in [Listeners -> Places \union {New, Gone}]
      /\ \A l \in Listeners : IF place[l] \in Places THEN place'[l] = Gone ELSE place'[l] = place[l]
      /\ Gone # New /\ Gone \notin Places
  BY <1>0, <1>1, PlaceNames
<1>3. <<>> \in Seq([id: Ids, array: Arrays])
  OBVIOUS
<1>4. made \in Arrays /\ made <= made + 1 /\ made < made + 1
  BY <1>0, <1>1 DEF Arrays
<1>5. \A a \in Arrays, t \in Places : Serves(idListeners', listeners', a, t) <=> t = All /\ a = made
  BY <1>1 DEF Serves
<1>6. \A a \in Arrays : \A i \in 1 .. Len(arrays[a]) : arrays[a][i] \in Listeners
  <2>1. \A a \in Arrays : arrays[a] \in Seq(Listeners)
    BY <1>0
  <2> QED
    BY <2>1
<1>7. ListenerTypes'
  <2>1. Dropped({l \in Listeners : place[l] \in Places}) \subseteq [listener: Listeners, from: Places]
    BY DEF Dropped
  <2> QED
    BY <1>0, <1>1, <1>2, <1>3, <1>4, <2>1 DEF ListenerTypes
<1>8. Single'
  <2>1. \A a \in Arrays : \A i \in 1 .. Len(arrays[a]) : place'[arrays[a][i]] # New
    BY <1>2, <1>6 DEF Single
  <2>2. \A a \in Arrays : a >= made + 1 => a >= made
    BY <1>0 DEF Arrays
  <2> QED
    BY <1>1, <2>1, <2>2 DEF Single
<1>9. Mapped'
  BY <1>1, <1>4 DEF Mapped
<1>10. Agreed'
  <2>1. made >= made
    BY <1>0
  <2>2. Len(arrays[made]) = 0
    BY <1>4, <2>1 DEF Single
  <2>3. \A l \in Listeners : place'[l] \notin Places
    BY <1>2
  <2> QED
    BY <1>1, <1>5, <2>2, <2>3 DEF Agreed
<1>11. Changed
  <2>1. ComesAndGoes
    BY <1>2 DEF ComesAndGoes
  <2>2. MovesDown
    <3>1. \A a \in Arrays : \A i \in 1 .. Len(arrays[a]) : i <= i
      OBVIOUS
    <3> QED
      BY <1>1, <3>1 DEF MovesDown
  <2>3. Remaps
    BY <1>1, <1>4, <1>5 DEF Remaps
  <2>4. StaysPut
    BY <1>1, <1>2 DEF StaysPut
  <2> QED
    BY <2>1, <2>2, <2>3, <2>4 DEF Changed
<1> QED
  BY <1>7, <1>8, <1>9, <1>10, <1>11 DEF Listening

LEMMA KeptListening ==
    ASSUME Types, Single, Mapped, Agreed, UNCHANGED listenerVars
    PROVE  Listening' /\ Changed
<1>0. /\ arrays \in [Arrays -> Seq(Listeners)] /\ made \in 1 .. MaxArrays + 1 /\ MaxArrays \in Nat
      /\ listeners \in Arrays /\ idListeners \in Seq([id: Ids, array: Arrays])
      /\ place \in [Listeners -> Places \union {New, Gone}]
      /\ dropped \subseteq [listener: Listeners, from: Places]
  BY EmitterAssumption DEF Types, TypeOK, Arrays, Places
<1>1. /\ arrays' = arrays /\ made' = made /\ idListeners' = idListeners /\ listeners' = listeners
      /\ place' = place /\ dropped' = dropped
  BY DEF listenerVars
<1>2. made <= made /\ \A a \in Arrays : \A i \in 1 .. Len(arrays[a]) : i <= i
  BY <1>0
<1>3. Listening'
  BY <1>0, <1>1 DEF Listening, ListenerTypes, Single, Mapped, Agreed
<1> QED
  BY <1>1, <1>2, <1>3 DEF Changed, ComesAndGoes, MovesDown, Remaps, StaysPut

LEMMA ChangeListening ==
    ASSUME Types, Single, Mapped, Agreed, Change \/ UNCHANGED listenerVars
    PROVE  Listening' /\ Changed
<1>1. ASSUME NEW l \in Listeners, NEW t \in Ids \union {All}, Subscribe(l, t) PROVE Listening' /\ Changed
  BY <1>1, SubscribeListening DEF Places
<1> QED
  BY <1>1, UnsubscribeListening, DisposeIdListening, DisposeAllListening, KeptListening DEF Change

-----------------------------------------------------------------------------
(* What an emission relies on outlives every change.                       *)

LEMMA ArrayTyped ==
    ASSUME NEW as \in [Arrays -> Seq(Listeners)], NEW a \in Arrays
    PROVE  /\ as[a] \in Seq(Listeners) /\ Len(as[a]) \in Nat
           /\ \A i \in 1 .. Len(as[a]) : as[a][i] \in Listeners
<1>1. as[a] \in Seq(Listeners)
  OBVIOUS
<1>2. \A q \in Seq(Listeners) : Len(q) \in Nat /\ \A i \in 1 .. Len(q) : q[i] \in Listeners
  OBVIOUS
<1> QED
  BY <1>1, <1>2

LEMMA CallingKept ==
    ASSUME Listening, Listening', Changed, NEW w \in Walks, NEW cs \in Seq(Listeners),
           Calling(arrays, place, w, cs)
    PROVE  Calling(arrays', place', w, cs)
<1>1. \A n \in 1 .. Len(cs) : cs[n] \in Listeners /\ place[cs[n]] # New
  BY DEF Calling
<1>2. \A n \in 1 .. Len(cs) : place'[cs[n]] # New
  BY <1>1, PlaceNames DEF Changed, ComesAndGoes
<1>3. ASSUME w.target # Gone, NEW n \in 1 .. Len(cs), NEW a \in Arrays, NEW i \in 1 .. Len(arrays'[a]),
             arrays'[a][i] = cs[n]
      PROVE  a \in w.seen /\ (a = w.array => i <= w.index)
  <2>1. PICK j \in 1 .. Len(arrays[a]) : i <= j /\ arrays[a][j] = cs[n]
    BY <1>1, <1>3 DEF Changed, MovesDown
  <2>2. a \in w.seen /\ (a = w.array => j <= w.index)
    BY <1>3, <2>1 DEF Calling
  <2>3. w.index \in Nat /\ i \in Nat /\ j \in Nat
    BY DEF Walks
  <2> QED
    BY <2>1, <2>2, <2>3
<1> QED
  BY <1>2, <1>3 DEF Calling

LEMMA AddressingKept ==
    ASSUME Listening, Listening', Changed, NEW w \in Walks, NEW cs \in Seq(Listeners),
           w.seen \subseteq 0 .. made - 1, w.seen # {} => w.array \in w.seen,
           Addressing(arrays, idListeners, listeners, place, w, cs)
    PROVE  Addressing(arrays', idListeners', listeners', place', w, cs)
<1>1. SUFFICES ASSUME w.target \in Ids
               PROVE  /\ \A n \in 1 .. Len(cs) : place'[cs[n]] \in {w.target, All, Gone}
                      /\ w.seen # {} =>
                             /\ \A i \in 1 .. Len(arrays'[w.array]) :
                                    place'[arrays'[w.array][i]] \in {w.target, All, Gone}
                             /\ \A t \in Places :
                                    Serves(idListeners', listeners', w.array, t) => t \in {w.target, All}
  BY DEF Addressing
<1>2. New \notin {w.target, All, Gone}
  BY <1>1, PlaceNames
<1>3. \A l \in Listeners : place[l] \in {w.target, All, Gone} => place'[l] \in {w.target, All, Gone}
  BY <1>2 DEF Changed, ComesAndGoes
<1>4. ASSUME NEW n \in 1 .. Len(cs) PROVE place'[cs[n]] \in {w.target, All, Gone}
  <2>1. place[cs[n]] \in {w.target, All, Gone}
    BY <1>1 DEF Addressing
  <2> QED
    BY <1>3, <2>1
<1>5. ASSUME w.seen # {}, NEW t \in Places, Serves(idListeners', listeners', w.array, t)
      PROVE  t \in {w.target, All}
  <2>1. w.array \in Arrays /\ made \in Nat /\ w.array \in 0 .. made - 1
    BY <1>5, SMTT(20) DEF Walks, Listening, ListenerTypes
  <2>2. w.array # made
    BY <2>1
  <2>3. Serves(idListeners, listeners, w.array, t)
    BY <1>5, <2>1, <2>2 DEF Changed, Remaps
  <2> QED
    BY <1>1, <1>5, <2>3 DEF Addressing
<1>6. ASSUME w.seen # {}, NEW i \in 1 .. Len(arrays'[w.array])
      PROVE  place'[arrays'[w.array][i]] \in {w.target, All, Gone}
  <2>1. w.array \in Arrays /\ made \in Nat /\ w.array \in 0 .. made - 1
    BY <1>6, SMTT(20) DEF Walks, Listening, ListenerTypes
  <2>2. w.array # made
    BY <2>1
  <2>3. arrays'[w.array][i] \in Listeners
    BY <2>1, ArrayTyped DEF Listening, ListenerTypes
  <2>4. CASE \E j \in 1 .. Len(arrays[w.array]) : i <= j /\ arrays[w.array][j] = arrays'[w.array][i]
    <3>1. place[arrays'[w.array][i]] \in {w.target, All, Gone}
      BY <1>1, <1>6, <2>4 DEF Addressing
    <3> QED
      BY <1>3, <2>3, <3>1
  <2>5. CASE /\ place'[arrays'[w.array][i]] \in Places
             /\ Serves(idListeners, listeners, w.array, place'[arrays'[w.array][i]])
    <3>1. place'[arrays'[w.array][i]] \in {w.target, All}
      BY <1>1, <1>6, <2>5 DEF Addressing
    <3> QED
      BY <3>1
  <2> QED
    BY <2>1, <2>2, <2>4, <2>5 DEF Changed, MovesDown
<1> QED
  BY <1>4, <1>5, <1>6

LEMMA ReceivingKept ==
    ASSUME Listening, Listening', Changed, NEW w \in Walks, NEW cs \in Seq(Listeners),
           NEW ds \in SUBSET Listeners,
           Receiving(arrays, idListeners, listeners, place, w, cs, ds, dropped)
    PROVE  Receiving(arrays', idListeners', listeners', place', w, cs, ds, dropped')
<1>1. SUFFICES ASSUME w.target # Gone, NEW l \in ds, place'[l] # Gone, \A d \in dropped' : d.from # place'[l]
               PROVE  /\ place'[l] \in Places /\ (w.target = All \/ place'[l] \in {w.target, All})
                      /\ \/ \E n \in 1 .. Len(cs) : cs[n] = l
                         \/ \E a \in Arrays :
                                /\ Serves(idListeners', listeners', a, place'[l])
                                /\ \E i \in 1 .. Len(arrays'[a]) : arrays'[a][i] = l /\ Ahead(w, a, i, place'[l])
  BY DEF Receiving
<1>2. dropped \subseteq dropped' /\ dropped \subseteq [listener: Listeners, from: Places]
  BY DEF Changed, StaysPut, Listening, ListenerTypes
\* It was there when the emission began, so it listened before this change as well.
<1>3. place'[l] = place[l]
  <2>1. SUFFICES ASSUME place[l] = New PROVE FALSE
    BY <1>1 DEF Changed, ComesAndGoes
  <2>2. \A d \in dropped : d.from \in Places
    BY <1>2
  <2>3. place[l] # Gone /\ \A d \in dropped : d.from # place[l]
    BY <2>1, <2>2, PlaceNames
  <2>4. place[l] \in Places
    BY <1>1, <2>3 DEF Receiving
  <2> QED
    BY <2>1, <2>4, PlaceNames
<1>4. \A d \in dropped : d.from # place[l]
  BY <1>1, <1>2, <1>3
<1>5. /\ place[l] \in Places /\ (w.target = All \/ place[l] \in {w.target, All})
      /\ \/ \E n \in 1 .. Len(cs) : cs[n] = l
         \/ \E a \in Arrays : /\ Serves(idListeners, listeners, a, place[l])
                             /\ \E i \in 1 .. Len(arrays[a]) : arrays[a][i] = l /\ Ahead(w, a, i, place[l])
  BY <1>1, <1>3, <1>4 DEF Receiving
<1>6. CASE \E n \in 1 .. Len(cs) : cs[n] = l
  BY <1>3, <1>5, <1>6
<1>7. CASE \E a \in Arrays : /\ Serves(idListeners, listeners, a, place[l])
                            /\ \E i \in 1 .. Len(arrays[a]) : arrays[a][i] = l /\ Ahead(w, a, i, place[l])
  <2>1. PICK a \in Arrays : /\ Serves(idListeners, listeners, a, place[l])
                           /\ \E i \in 1 .. Len(arrays[a]) : arrays[a][i] = l /\ Ahead(w, a, i, place[l])
    BY <1>7
  <2>2. PICK i \in 1 .. Len(arrays[a]) : arrays[a][i] = l /\ Ahead(w, a, i, place[l])
    BY <2>1
  <2>3. /\ Serves(idListeners', listeners', a, place[l])
        /\ i \in 1 .. Len(arrays'[a]) /\ arrays'[a][i] = arrays[a][i]
    BY <1>1, <1>3, <1>5, <2>1 DEF Changed, StaysPut
  <2> QED
    BY <1>3, <1>5, <2>2, <2>3
<1> QED
  BY <1>5, <1>6, <1>7

LEMMA EnteringKept ==
    ASSUME Listening, Listening', Changed, Types, Entering, NEW index \in Nat, walk' = [walk EXCEPT !.index = index],
           walk = Idle => walk' = walk
    PROVE  Entering'
<1>1. /\ walk \in Walks /\ made \in Nat /\ made' \in Nat /\ made <= made'
      /\ listeners' \in {listeners, made}
  BY DEF Types, Listening, ListenerTypes, Changed, Remaps
<1>2. /\ walk'.target = walk.target /\ walk'.seen = walk.seen /\ walk'.array = walk.array
      /\ walk'.length = walk.length /\ walk'.last = walk.last
  BY <1>1 DEF Walks
<1>3. 0 .. made - 1 \subseteq 0 .. made' - 1 /\ made \notin 0 .. made - 1
  BY <1>1
<1>4. walk'.seen \subseteq 0 .. made' - 1
  BY <1>2, <1>3 DEF Entering
<1>5. ~walk'.last => listeners' \notin walk'.seen
  BY <1>1, <1>2, <1>3 DEF Entering
<1> QED
  BY <1>2, <1>4, <1>5 DEF Entering

-----------------------------------------------------------------------------
(* The steps.                                                              *)

LEMMA TypesParts ==
    /\ Types <=> /\ ListenerTypes /\ walk \in Walks /\ walk.index <= walk.length
                 /\ called \in Seq(Listeners) /\ due \in SUBSET Listeners
    /\ Types' <=> /\ ListenerTypes' /\ walk' \in Walks /\ walk'.index <= walk'.length
                  /\ called' \in Seq(Listeners) /\ due' \in SUBSET Listeners
<1>1. /\ Types <=> /\ ListenerTypes /\ walk \in Walks /\ walk.index \in 0 .. walk.length
                   /\ called \in Seq(Listeners) /\ due \in SUBSET Listeners
      /\ Types' <=> /\ ListenerTypes' /\ walk' \in Walks /\ walk'.index \in 0 .. walk'.length
                    /\ called' \in Seq(Listeners) /\ due' \in SUBSET Listeners
  BY DEF Types, TypeOK, ListenerTypes, Arrays, Places
<1>2. \A w \in Walks : w.index <= w.length <=> w.index \in 0 .. w.length
  BY DEF Walks
<1> QED
  BY <1>1, <1>2

LEMMA NextIndex ==
    ASSUME NEW w \in Walks, NEW v, v = [w EXCEPT !.index = @ + 1]
    PROVE  /\ v \in Walks /\ v = [w EXCEPT !.index = w.index + 1] /\ w.index + 1 \in Nat
           /\ v.target = w.target /\ v.seen = w.seen /\ v.last = w.last
           /\ v.array = w.array /\ v.index = w.index + 1 /\ v.length = w.length
<1>1. w.index + 1 \in Nat
  BY DEF Walks
<1>2. v \in Walks
  BY <1>1 DEF Walks
<1> QED
  BY <1>1, <1>2 DEF Walks

LEMMA IdleFields ==
    /\ Idle \in Walks /\ Idle.target = Gone /\ Idle.seen = {} /\ Idle.last = FALSE
    /\ Idle.array = 0 /\ Idle.index = 0 /\ Idle.length = 0
BY EmitterAssumption DEF Idle, Walks, Arrays

LEMMA InitHolds == Init => EInv
<1> SUFFICES ASSUME Init PROVE EInv
  OBVIOUS
<1>1. /\ arrays = [a \in Arrays |-> <<>>] /\ made = 1 /\ idListeners = <<>> /\ listeners = 0
      /\ place = [l \in Listeners |-> New] /\ walk = Idle /\ called = <<>> /\ due = {} /\ dropped = {}
  BY DEF Init, Arrays
<1>2. <<>> \in Seq(Listeners) /\ Len(<<>>) = 0
  OBVIOUS
<1>3. <<>> \in Seq([id: Ids, array: Arrays])
  OBVIOUS
<1>4. ListenerTypes
  BY <1>1, <1>2, <1>3, EmitterAssumption DEF ListenerTypes, Arrays
<1>5. Types
  BY <1>1, <1>2, <1>4, IdleFields, TypesParts
<1>6. \A a \in Arrays : Len(arrays[a]) = 0
  BY <1>1, <1>2
<1>7. Single /\ Agreed
  BY <1>1, <1>6, PlaceNames DEF Single, Agreed
<1>8. Mapped
  BY <1>1 DEF Mapped
<1>9. Entering
  BY <1>1, IdleFields DEF Entering
<1>10. /\ Calling(arrays, place, walk, called)
       /\ Addressing(arrays, idListeners, listeners, place, walk, called)
       /\ Receiving(arrays, idListeners, listeners, place, walk, called, due, dropped)
  BY <1>1, IdleFields, PlaceNames DEF Calling, Addressing, Receiving
<1> QED
  BY <1>5, <1>7, <1>8, <1>9, <1>10 DEF EInv

LEMMA ChangeStep ==
    ASSUME EInv, Change \/ UNCHANGED listenerVars, UNCHANGED <<walk, called, due>>
    PROVE  EInv'
<1>1. /\ walk \in Walks /\ walk.index <= walk.length
      /\ called \in Seq(Listeners) /\ due \in SUBSET Listeners /\ Listening
  BY TypesParts DEF EInv, Listening
<1>2. Listening' /\ Changed
  BY ChangeListening DEF EInv
<1>3. walk' = walk /\ called' = called /\ due' = due
  OBVIOUS
<1>4. Types'
  BY <1>1, <1>2, <1>3, TypesParts DEF Listening
<1>5. walk.index \in Nat /\ walk = [walk EXCEPT !.index = walk.index]
  BY <1>1 DEF Walks
<1>6. Entering'
  BY <1>1, <1>2, <1>3, <1>5, EnteringKept DEF EInv
<1>7. Calling(arrays', place', walk', called')
  BY <1>1, <1>2, <1>3, CallingKept DEF EInv
<1>8. Addressing(arrays', idListeners', listeners', place', walk', called')
  BY <1>1, <1>2, <1>3, AddressingKept DEF EInv, Entering
<1>9. Receiving(arrays', idListeners', listeners', place', walk', called', due', dropped')
  BY <1>1, <1>2, <1>3, ReceivingKept DEF EInv
<1> QED
  BY <1>2, <1>4, <1>6, <1>7, <1>8, <1>9 DEF EInv, Listening

LEMMA EmitStep ==
    ASSUME EInv, NEW t \in Places, Emit(t)
    PROVE  EInv'
<1>0. Listening
  BY TypesParts DEF EInv, Listening
<1>1. /\ walk' = [Idle EXCEPT !.target = t] /\ called' = <<>> /\ dropped' = {}
      /\ due' = {l \in Listeners : place[l] \in {t, All} \/ (t = All /\ place[l] \in Ids)}
      /\ arrays' = arrays /\ made' = made /\ idListeners' = idListeners
      /\ listeners' = listeners /\ place' = place
  BY DEF Emit
<1>2. /\ walk' \in Walks /\ walk'.target = t /\ walk'.seen = {} /\ walk'.last = FALSE
      /\ walk'.array = 0 /\ walk'.index = 0 /\ walk'.length = 0
  <2>1. walk' = [target |-> t, seen |-> {}, last |-> FALSE, array |-> 0, index |-> 0, length |-> 0]
    BY <1>1 DEF Idle
  <2>2. 0 \in Arrays
    BY EmitterAssumption DEF Arrays
  <2>3. walk' \in Walks
    BY <2>1, <2>2 DEF Walks
  <2> QED
    BY <2>1, <2>3
<1>3. <<>> \in Seq(Listeners) /\ Len(<<>>) = 0
  OBVIOUS
<1>4. Listening'
  <2>1. ListenerTypes' /\ Mapped'
    BY <1>0, <1>1 DEF Listening, ListenerTypes, Mapped
  <2>2. Single' /\ Agreed'
    BY <1>0, <1>1 DEF Listening, Single, Agreed
  <2> QED
    BY <2>1, <2>2 DEF Listening
<1>5. Types'
  BY <1>1, <1>2, <1>3, <1>4, TypesParts DEF Listening
<1>6. Entering'
  BY <1>2, PlaceNames DEF Entering
<1>7. Calling(arrays', place', walk', called')
  BY <1>1, <1>2, <1>3 DEF Calling
<1>8. Addressing(arrays', idListeners', listeners', place', walk', called')
  BY <1>1, <1>2, <1>3 DEF Addressing
<1>9. Receiving(arrays', idListeners', listeners', place', walk', called', due', dropped')
  <2>1. ASSUME NEW l \in due'
        PROVE  /\ place[l] \in Places /\ (t = All \/ place[l] \in {t, All})
               /\ \E a \in Arrays : /\ Serves(idListeners, listeners, a, place[l])
                                   /\ \E i \in 1 .. Len(arrays[a]) :
                                          arrays[a][i] = l /\ Ahead(walk', a, i, place[l])
    <3>1. l \in Listeners /\ place[l] \in Places /\ (t = All \/ place[l] \in {t, All})
      BY <1>1, <2>1, PlaceNames
    <3>2. PICK a \in Arrays : /\ Serves(idListeners, listeners, a, place[l])
                             /\ \E i \in 1 .. Len(arrays[a]) : arrays[a][i] = l
      BY <1>0, <3>1 DEF Listening, Agreed
    <3>3. \A i \in 1 .. Len(arrays[a]) : Ahead(walk', a, i, place[l])
      BY <1>2 DEF Ahead
    <3> QED
      BY <3>1, <3>2, <3>3
  <2> QED
    BY <1>1, <1>2, <2>1 DEF Receiving
<1> QED
  BY <1>4, <1>5, <1>6, <1>7, <1>8, <1>9 DEF EInv, Listening

LEMMA FinishStep ==
    ASSUME EInv, Finish
    PROVE  EInv'
<1>0. Listening /\ called \in Seq(Listeners) /\ due \in SUBSET Listeners
  BY TypesParts DEF EInv, Listening
<1>1. /\ walk' = Idle /\ called' = called /\ due' = due /\ UNCHANGED listenerVars
      /\ arrays' = arrays /\ made' = made /\ idListeners' = idListeners
      /\ listeners' = listeners /\ place' = place /\ dropped' = dropped
  BY DEF Finish, listenerVars
<1>2. Listening'
  BY <1>1, ChangeListening DEF EInv
<1>3. Types'
  BY <1>0, <1>1, <1>2, IdleFields, TypesParts DEF Listening
<1>4. Entering'
  BY <1>1, IdleFields DEF Entering
<1>5. Calling(arrays', place', walk', called')
  BY <1>1, IdleFields DEF Calling, EInv
<1>6. /\ Addressing(arrays', idListeners', listeners', place', walk', called')
      /\ Receiving(arrays', idListeners', listeners', place', walk', called', due', dropped')
  BY <1>1, IdleFields, PlaceNames DEF Addressing, Receiving
<1> QED
  BY <1>2, <1>3, <1>4, <1>5, <1>6 DEF EInv, Listening

LEMMA SkipStep ==
    ASSUME EInv, Skip
    PROVE  EInv'
<1>0. /\ Listening /\ called \in Seq(Listeners) /\ due \in SUBSET Listeners
      /\ walk \in Walks /\ arrays \in [Arrays -> Seq(Listeners)]
  BY TypesParts DEF EInv, Listening, ListenerTypes
<1>1. /\ called' = called /\ due' = due /\ UNCHANGED listenerVars
      /\ arrays' = arrays /\ made' = made /\ idListeners' = idListeners
      /\ listeners' = listeners /\ place' = place /\ dropped' = dropped
      /\ walk.index < walk.length /\ walk.index >= Len(arrays[walk.array])
  <2>1. ~(walk.index >= walk.length) /\ walk.index \in Nat /\ walk.length \in Nat
    BY <1>0 DEF Skip, Walked, Walks
  <2> QED
    BY <2>1 DEF Skip, listenerVars
<1>2. /\ walk' \in Walks /\ walk' = [walk EXCEPT !.index = walk.index + 1] /\ walk.index + 1 \in Nat
      /\ walk'.target = walk.target /\ walk'.seen = walk.seen /\ walk'.last = walk.last
      /\ walk'.array = walk.array /\ walk'.index = walk.index + 1 /\ walk'.length = walk.length
  BY <1>0, NextIndex DEF Skip
<1>3. walk.index \in Nat /\ walk.length \in Nat /\ walk.index + 1 <= walk.length
  BY <1>0, <1>1 DEF Walks
<1>4. Listening' /\ Changed
  BY <1>1, ChangeListening DEF EInv
<1>5. Types'
  BY <1>0, <1>1, <1>2, <1>3, <1>4, TypesParts DEF Listening
<1>6. Entering'
  <2>1. walk # Idle
    BY <1>3, IdleFields
  <2> QED
    BY <1>0, <1>2, <1>4, <2>1, EnteringKept DEF EInv
<1>7. Calling(arrays', place', walk', called')
  <2>1. \A a \in Arrays : \A i \in 1 .. Len(arrays[a]) : i <= walk.index => i <= walk.index + 1
    BY <1>3
  <2> QED
    BY <1>1, <1>2, <2>1 DEF EInv, Calling
<1>8. Addressing(arrays', idListeners', listeners', place', walk', called')
  BY <1>1, <1>2 DEF EInv, Addressing
<1>9. Receiving(arrays', idListeners', listeners', place', walk', called', due', dropped')
  <2>1. ASSUME NEW a \in Arrays, NEW i \in 1 .. Len(arrays[a]), NEW t, Ahead(walk, a, i, t)
        PROVE  Ahead(walk', a, i, t)
    <3>1. Len(arrays[a]) \in Nat /\ ~(a = walk.array /\ walk.index < i)
      BY <1>0, <1>1, <1>3, ArrayTyped
    <3> QED
      BY <1>2, <2>1, <3>1 DEF Ahead
  <2> QED
    BY <1>1, <1>2, <2>1 DEF EInv, Receiving
<1> QED
  BY <1>4, <1>5, <1>6, <1>7, <1>8, <1>9 DEF EInv, Listening

\* An emission calls the next listener, then what the listener does happens: first
\* the call, to the arrays as they were, then the change.
LEMMA CallNextStep ==
    ASSUME EInv, CallNext
    PROVE  EInv'
<1> DEFINE a == walk.array
           n == walk.index + 1
           l == arrays[a][n]
<1>0. /\ Listening /\ called \in Seq(Listeners) /\ due \in SUBSET Listeners
      /\ walk \in Walks /\ walk.index <= walk.length /\ arrays \in [Arrays -> Seq(Listeners)]
  BY TypesParts DEF EInv, Listening, ListenerTypes
<1>1. a \in Arrays /\ Len(arrays[a]) \in Nat /\ walk.index \in Nat /\ walk.length \in Nat /\ n \in Nat
  BY <1>0, ArrayTyped DEF Walks
<1>2. /\ walk.index < walk.length /\ n <= walk.length /\ n \in 1 .. Len(arrays[a])
      /\ called' = Append(called, l) /\ due' = due /\ walk' = [walk EXCEPT !.index = @ + 1] /\ Acts(l)
  <2>1. ~(walk.index >= walk.length) /\ walk.index < Len(arrays[walk.array])
    BY DEF CallNext, Walked
  <2>2. walk.index < walk.length /\ n <= walk.length /\ n \in 1 .. Len(arrays[a])
    BY <1>1, <2>1
  <2> QED
    BY <2>2 DEF CallNext
<1>3. l \in Listeners /\ place[l] # New
  BY <1>0, <1>1, <1>2, ArrayTyped DEF Listening, Single
<1>4. Change \/ UNCHANGED listenerVars
  BY <1>2, <1>3 DEF Acts, Change
<1>5. Listening' /\ Changed
  BY <1>4, ChangeListening DEF EInv
<1>6. /\ walk' \in Walks /\ walk' = [walk EXCEPT !.index = n] /\ n \in Nat
      /\ walk'.target = walk.target /\ walk'.seen = walk.seen /\ walk'.last = walk.last
      /\ walk'.array = a /\ walk'.index = n /\ walk'.length = walk.length
  BY <1>0, <1>2, NextIndex
<1>7. walk # Idle /\ walk.target # Gone /\ walk.seen # {} /\ a \in walk.seen
  <2>1. walk # Idle
    BY <1>1, <1>2, IdleFields
  <2>2. walk.seen # {}
    BY <1>1, <1>2 DEF EInv, Entering
  <2> QED
    BY <2>1, <2>2 DEF EInv, Entering
<1>8. /\ called' \in Seq(Listeners) /\ Len(called) \in Nat /\ Len(called') = Len(called) + 1
      /\ \A m \in 1 .. Len(called) : m \in 1 .. Len(called') /\ called'[m] = called[m]
      /\ Len(called) + 1 \in 1 .. Len(called') /\ called'[Len(called) + 1] = l
      /\ \A m \in 1 .. Len(called') : m \in 1 .. Len(called) \/ m = Len(called) + 1
  <2>1. \A x \in Listeners : /\ Append(called, x) \in Seq(Listeners)
                            /\ Len(Append(called, x)) = Len(called) + 1
                            /\ Append(called, x)[Len(called) + 1] = x
                            /\ \A m \in 1 .. Len(called) : Append(called, x)[m] = called[m]
    BY <1>0
  <2>2. Len(called) \in Nat
    BY <1>0
  <2>3. /\ called' \in Seq(Listeners) /\ Len(called') = Len(called) + 1
        /\ called'[Len(called) + 1] = l
        /\ \A m \in 1 .. Len(called) : called'[m] = called[m]
    BY <1>2, <1>3, <2>1
  <2> QED
    BY <2>2, <2>3
<1>9. Types'
  BY <1>2, <1>0, <1>5, <1>6, <1>8, TypesParts DEF Listening
<1>10. Entering'
  BY <1>0, <1>5, <1>6, <1>7, EnteringKept DEF EInv
<1> HIDE DEF a, n, l
<1>11. Calling(arrays, place, walk', called')
  <2>1. \A m \in 1 .. Len(called) : called[m] # l
    <3>1. SUFFICES ASSUME NEW m \in 1 .. Len(called), arrays[a][n] = called[m] PROVE FALSE
      BY DEF l
    <3>2. n <= walk.index
      BY <1>1, <1>2, <1>7, <3>1 DEF EInv, Calling, a
    <3> QED
      BY <1>1, <3>2 DEF n
  <2>2. ASSUME NEW i \in 1 .. Len(called'), NEW j \in 1 .. Len(called'), called'[i] = called'[j]
        PROVE  i = j
    <3>1. CASE i \in 1 .. Len(called) /\ j \in 1 .. Len(called)
      BY <1>8, <2>2, <3>1 DEF EInv, Calling
    <3>2. CASE i = Len(called) + 1 /\ j \in 1 .. Len(called)
      BY <1>8, <2>1, <2>2, <3>2
    <3>3. CASE i \in 1 .. Len(called) /\ j = Len(called) + 1
      BY <1>8, <2>1, <2>2, <3>3
    <3> QED
      BY <1>8, <3>1, <3>2, <3>3
  <2>3. \A m \in 1 .. Len(called') : place[called'[m]] # New
    BY <1>3, <1>8 DEF EInv, Calling
  <2>4. ASSUME NEW m \in 1 .. Len(called'), NEW b \in Arrays, NEW i \in 1 .. Len(arrays[b]),
               arrays[b][i] = called'[m]
        PROVE  b \in walk.seen /\ (b = a => i <= n)
    <3>1. CASE m \in 1 .. Len(called)
      <4>1. b \in walk.seen /\ (b = a => i <= walk.index)
        BY <1>7, <1>8, <2>4, <3>1, SMTT(20) DEF EInv, Calling, a
      <4>2. i <= walk.index => i <= n
        BY <1>1 DEF n
      <4> QED
        BY <4>1, <4>2
    <3>2. CASE m = Len(called) + 1
      <4>1. arrays[b][i] = arrays[a][n]
        BY <1>8, <2>4, <3>2 DEF l
      <4>2. b = a /\ i = n
        BY <1>0, <1>1, <1>2, <4>1 DEF Listening, Single
      <4>3. n <= n
        BY <1>1
      <4> QED
        BY <1>7, <4>2, <4>3
    <3> QED
      BY <1>8, <3>1, <3>2
  <2> QED
    BY <1>6, <2>2, <2>3, <2>4 DEF Calling
<1>12. Addressing(arrays, idListeners, listeners, place, walk', called')
  <2>1. SUFFICES ASSUME walk.target \in Ids, NEW m \in 1 .. Len(called')
                 PROVE  place[called'[m]] \in {walk.target, All, Gone}
    BY <1>6 DEF EInv, Addressing, a
  <2>2. place[l] \in {walk.target, All, Gone}
    BY <1>2, <1>7, <2>1 DEF EInv, Addressing, a, l
  <2>3. \A i \in 1 .. Len(called) : place[called[i]] \in {walk.target, All, Gone}
    BY <2>1 DEF EInv, Addressing
  <2> QED
    BY <1>8, <2>2, <2>3
<1>13. Receiving(arrays, idListeners, listeners, place, walk', called', due, dropped)
  <2>1. ASSUME NEW b \in Arrays, NEW i \in 1 .. Len(arrays[b]), NEW t, Ahead(walk, b, i, t), arrays[b][i] # l
        PROVE  Ahead(walk', b, i, t)
    <3>1. CASE b = a /\ a \in walk.seen /\ walk.index < i /\ i <= walk.length
      <4>1. i # n
        BY <2>1, <3>1 DEF l
      <4>2. n < i
        BY <1>1, <3>1, <4>1 DEF n
      <4> QED
        BY <1>6, <3>1, <4>2 DEF Ahead
    <3>2. CASE b \notin walk.seen /\ ~walk.last /\ (t = All \/ walk.target = All \/ walk.seen = {})
      BY <1>6, <3>2 DEF Ahead
    <3> QED
      BY <2>1, <3>1, <3>2 DEF Ahead, a
  <2>2. ASSUME NEW m \in due, place[m] # Gone, \A d \in dropped : d.from # place[m]
        PROVE  /\ place[m] \in Places /\ (walk.target = All \/ place[m] \in {walk.target, All})
               /\ \/ \E i \in 1 .. Len(called') : called'[i] = m
                  \/ \E b \in Arrays :
                         /\ Serves(idListeners, listeners, b, place[m])
                         /\ \E i \in 1 .. Len(arrays[b]) : arrays[b][i] = m /\ Ahead(walk', b, i, place[m])
    <3>1. /\ place[m] \in Places /\ (walk.target = All \/ place[m] \in {walk.target, All})
          /\ \/ \E i \in 1 .. Len(called) : called[i] = m
             \/ \E b \in Arrays :
                    /\ Serves(idListeners, listeners, b, place[m])
                    /\ \E i \in 1 .. Len(arrays[b]) : arrays[b][i] = m /\ Ahead(walk, b, i, place[m])
      BY <1>7, <2>2 DEF EInv, Receiving
    <3>2. CASE m = l
      BY <1>8, <3>1, <3>2
    <3>3. CASE m # l
      BY <1>8, <2>1, <3>1, <3>3
    <3> QED
      BY <3>2, <3>3
  <2> QED
    BY <1>6, <2>2 DEF Receiving
<1>14. Calling(arrays', place', walk', called')
  BY <1>0, <1>5, <1>6, <1>8, <1>11, CallingKept
<1>15. Addressing(arrays', idListeners', listeners', place', walk', called')
  BY <1>0, <1>5, <1>6, <1>7, <1>8, <1>12, AddressingKept DEF EInv, Entering, a
<1>16. Receiving(arrays', idListeners', listeners', place', walk', called', due', dropped')
  BY <1>0, <1>2, <1>5, <1>6, <1>8, <1>13, ReceivingKept
<1> QED
  BY <1>5, <1>9, <1>10, <1>14, <1>15, <1>16 DEF EInv, Listening

\* What an emission enters next is an array it has not entered, of a place it is for.
LEMMA EnterStep ==
    ASSUME EInv, walk # Idle, Walked, ~walk.last, UNCHANGED <<listenerVars, called, due>>,
           NEW a \in Arrays, NEW last \in BOOLEAN, Enter(a, last), a \notin walk.seen, a < made,
           last <=> a = listeners,
           walk.target \in Ids => \A t \in Places : Serves(idListeners, listeners, a, t) => t \in {walk.target, All},
           walk.target \in Ids => \E t \in Places : Serves(idListeners, listeners, a, t),
           \A b \in Arrays, t \in Places :
               /\ Serves(idListeners, listeners, b, t) /\ b \notin walk.seen /\ b # a
               /\ walk.target = All \/ t \in {walk.target, All}
               /\ t = All \/ walk.target = All \/ walk.seen = {}
               => ~last /\ (t = All \/ walk.target = All)
    PROVE  EInv'
<1>0. /\ Listening /\ called \in Seq(Listeners) /\ due \in SUBSET Listeners
      /\ walk \in Walks /\ walk.index <= walk.length /\ arrays \in [Arrays -> Seq(Listeners)]
      /\ made \in Nat /\ walk.index >= walk.length
  BY TypesParts DEF EInv, Listening, ListenerTypes, Walked
<1>1. Len(arrays[a]) \in Nat /\ walk.index \in Nat /\ walk.length \in Nat /\ a \in Nat /\ Arrays \subseteq Nat
  BY <1>0, ArrayTyped DEF Walks, Arrays
<1>2. /\ called' = called /\ due' = due /\ UNCHANGED listenerVars
      /\ arrays' = arrays /\ made' = made /\ idListeners' = idListeners
      /\ listeners' = listeners /\ place' = place /\ dropped' = dropped
  BY DEF listenerVars
<1>3. Listening'
  BY <1>2, ChangeListening DEF EInv
<1>4. walk' = [walk EXCEPT !.seen = walk.seen \union {a}, !.last = last, !.array = a, !.index = 0,
                           !.length = Len(arrays[a])]
  BY DEF Enter
<1>5. walk' \in Walks
  <2>1. walk.seen \union {a} \in SUBSET Arrays /\ 0 \in Nat
    BY <1>0 DEF Walks
  <2> QED
    BY <1>0, <1>1, <1>4, <2>1 DEF Walks
<1>6. /\ walk'.target = walk.target /\ walk'.seen = walk.seen \union {a} /\ walk'.last = last
      /\ walk'.array = a /\ walk'.index = 0 /\ walk'.length = Len(arrays[a])
  BY <1>0, <1>4 DEF Walks
<1>7. walk.target # Gone
  BY DEF EInv, Entering
<1>8. Types'
  BY <1>0, <1>1, <1>2, <1>3, <1>5, <1>6, TypesParts DEF Listening
<1>9. Entering'
  <2>1. a \in 0 .. made - 1
    BY <1>0, <1>1
  <2>2. walk'.seen \subseteq 0 .. made' - 1
    BY <1>2, <1>6, <2>1 DEF EInv, Entering
  <2>3. ~walk'.last => listeners' \notin walk'.seen
    BY <1>2, <1>6 DEF EInv, Entering
  <2> QED
    BY <1>6, <1>7, <2>2, <2>3 DEF Entering
<1>10. Calling(arrays', place', walk', called')
  <2>1. ASSUME NEW n \in 1 .. Len(called), NEW b \in Arrays, NEW i \in 1 .. Len(arrays[b]),
               arrays[b][i] = called[n]
        PROVE  b \in walk.seen
    BY <1>7, <2>1 DEF EInv, Calling
  <2> QED
    BY <1>2, <1>6, <2>1 DEF EInv, Calling
<1>11. Addressing(arrays', idListeners', listeners', place', walk', called')
  <2>1. SUFFICES ASSUME walk.target \in Ids
                 PROVE  \A i \in 1 .. Len(arrays[a]) : place[arrays[a][i]] \in {walk.target, All, Gone}
    BY <1>2, <1>6 DEF EInv, Addressing
  <2>2. PICK t \in Places : Serves(idListeners, listeners, a, t)
    BY <2>1
  <2>3. t \in {walk.target, All}
    BY <2>1, <2>2
  <2> QED
    BY <1>0, <2>2, <2>3 DEF Listening, Agreed
<1>12. Receiving(arrays', idListeners', listeners', place', walk', called', due', dropped')
  <2>1. ASSUME NEW b \in Arrays, NEW t \in Places, Serves(idListeners, listeners, b, t),
               walk.target = All \/ t \in {walk.target, All},
               NEW i \in 1 .. Len(arrays[b]), Ahead(walk, b, i, t)
        PROVE  Ahead(walk', b, i, t)
    <3>1. ~(walk.index < i /\ i <= walk.length)
      BY <1>0, <1>1
    <3>2. b \notin walk.seen /\ (t = All \/ walk.target = All \/ walk.seen = {})
      BY <2>1, <3>1 DEF Ahead
    <3>3. CASE b = a
      <4>1. Len(arrays[b]) \in Nat
        BY <1>1, <3>3
      <4>2. 0 < i /\ i <= Len(arrays[b])
        BY <4>1
      <4> QED
        BY <1>6, <3>3, <4>2 DEF Ahead
    <3>4. CASE b # a
      BY <1>6, <2>1, <3>2, <3>4 DEF Ahead
    <3> QED
      BY <3>3, <3>4
  <2>2. ASSUME NEW m \in due, place[m] # Gone, \A d \in dropped : d.from # place[m]
        PROVE  /\ place[m] \in Places /\ (walk.target = All \/ place[m] \in {walk.target, All})
               /\ \/ \E i \in 1 .. Len(called) : called[i] = m
                  \/ \E b \in Arrays :
                         /\ Serves(idListeners, listeners, b, place[m])
                         /\ \E i \in 1 .. Len(arrays[b]) : arrays[b][i] = m /\ Ahead(walk', b, i, place[m])
    <3>1. /\ place[m] \in Places /\ (walk.target = All \/ place[m] \in {walk.target, All})
          /\ \/ \E i \in 1 .. Len(called) : called[i] = m
             \/ \E b \in Arrays :
                    /\ Serves(idListeners, listeners, b, place[m])
                    /\ \E i \in 1 .. Len(arrays[b]) : arrays[b][i] = m /\ Ahead(walk, b, i, place[m])
      BY <1>7, <2>2 DEF EInv, Receiving
    <3> QED
      BY <2>1, <3>1
  <2> QED
    BY <1>2, <1>6, <2>2 DEF Receiving
<1> QED
  BY <1>3, <1>8, <1>9, <1>10, <1>11, <1>12 DEF EInv, Listening

LEMMA NextArrayStep ==
    ASSUME EInv, NextArray
    PROVE  EInv'
<1>0. /\ Types /\ Mapped /\ listeners \in Arrays /\ idListeners \in Seq([id: Ids, array: Arrays])
      /\ walk.target \in Places \union {Gone} /\ walk.target # Gone
  <2>1. walk \in Walks /\ Listening
    BY TypesParts DEF EInv, Listening
  <2>2. walk.target # Gone
    BY DEF EInv, Entering, NextArray
  <2> QED
    BY <2>1, <2>2 DEF EInv, Listening, ListenerTypes, Walks
<1>1. walk # Idle /\ Walked /\ ~walk.last /\ UNCHANGED <<listenerVars, called, due>>
  BY DEF NextArray
<1>2. \A i \in 1 .. Len(idListeners) : idListeners[i].id \in Ids /\ idListeners[i].array \in Arrays
  BY <1>0, EntriesTyped
<1>3. \A i \in 1 .. Len(idListeners) :
          /\ idListeners[i].id # All /\ idListeners[i].id \in Places
          /\ Serves(idListeners, listeners, idListeners[i].array, idListeners[i].id)
  BY <1>2, PlaceNames DEF Serves
<1>4. CASE Unseen # {}
  <2> DEFINE i == Min(Unseen)
             a == idListeners[i].array
             id == idListeners[i].id
  <2>1. i \in Unseen
    <3>1. Unseen \in SUBSET Nat
      BY DEF Unseen, Entries
    <3>2. \E m \in Unseen : \A k \in Unseen : m <= k
      BY <1>4, <3>1, Least
    <3> QED
      BY <3>2 DEF Min
  <2>2. /\ i \in 1 .. Len(idListeners) /\ walk.target \in {id, All} /\ a \notin walk.seen
        /\ Enter(a, FALSE)
    BY <1>4, <2>1 DEF Unseen, Entries, NextArray
  <2>3. /\ a \in Arrays /\ id \in Places /\ id # All /\ Serves(idListeners, listeners, a, id)
        /\ a < made /\ a # listeners
    BY <1>0, <1>2, <1>3, <2>2 DEF Mapped
  <2> HIDE DEF i, a, id
  <2>4. \A b \in Arrays, t \in Places : Serves(idListeners, listeners, b, t) => (a = b <=> id = t)
    BY <1>0, <2>3, ServesOne
  <2>5. walk.target \in Ids => walk.target = id
    BY <2>2, PlaceNames
  <2>6. walk.target \in Ids => \A t \in Places : Serves(idListeners, listeners, a, t) => t \in {walk.target, All}
    BY <2>3, <2>4, <2>5
  <2>7. walk.target \in Ids => \E t \in Places : Serves(idListeners, listeners, a, t)
    BY <2>3
  <2>8. ASSUME NEW b \in Arrays, NEW t \in Places, Serves(idListeners, listeners, b, t), b # a,
               walk.target = All \/ t \in {walk.target, All}
        PROVE  ~FALSE /\ (t = All \/ walk.target = All)
    <3>1. t # id
      BY <2>4, <2>8
    <3> QED
      BY <2>2, <2>8, <3>1
  <2> QED
    BY <1>1, <2>2, <2>3, <2>6, <2>7, <2>8, EnterStep
<1>5. CASE Unseen = {}
  <2>1. Enter(listeners, TRUE)
    BY <1>5 DEF NextArray
  <2>2. listeners \notin walk.seen /\ listeners < made
    BY <1>0, <1>1 DEF EInv, Entering, Mapped
  <2>3. Serves(idListeners, listeners, listeners, All)
    BY DEF Serves
  <2>4. \A t \in Places : Serves(idListeners, listeners, listeners, t) => t = All
    BY <1>0, <2>3, PlaceNames, ServesOne
  <2>5. ASSUME NEW b \in Arrays, NEW t \in Places, Serves(idListeners, listeners, b, t),
               b \notin walk.seen, b # listeners,
               walk.target = All \/ t \in {walk.target, All},
               t = All \/ walk.target = All \/ walk.seen = {}
        PROVE  ~TRUE /\ (t = All \/ walk.target = All)
    <3>1. t # All
      BY <2>5 DEF Serves
    <3>2. PICK j \in 1 .. Len(idListeners) : idListeners[j].id = t /\ idListeners[j].array = b
      BY <2>5, <3>1 DEF Serves
    <3>3. walk.target \in {t, All}
      BY <2>5, <3>1
    <3>4. j \in Unseen
      BY <2>5, <3>1, <3>2, <3>3 DEF Unseen, Entries
    <3> QED
      BY <1>5, <3>4
  <2>6. walk.target \in Ids =>
            \A t \in Places : Serves(idListeners, listeners, listeners, t) => t \in {walk.target, All}
    BY <2>4
  <2>7. walk.target \in Ids => \E t \in Places : Serves(idListeners, listeners, listeners, t)
    BY <2>3, PlaceNames
  <2> QED
    BY <1>0, <1>1, <2>1, <2>2, <2>5, <2>6, <2>7, EnterStep
<1> QED
  BY <1>4, <1>5

-----------------------------------------------------------------------------
(* The theorems.                                                           *)

LEMMA NextKeeps ==
    ASSUME EInv, [Next]_vars
    PROVE  EInv'
<1>1. CASE UNCHANGED vars
  BY <1>1, ChangeStep DEF vars
<1>2. CASE walk = Idle /\ Change /\ UNCHANGED <<walk, called, due>>
  BY <1>2, ChangeStep
<1>3. CASE \E t \in Ids \union {All} : Emit(t)
  BY <1>3, EmitStep DEF Places
<1> QED
  BY <1>1, <1>2, <1>3, NextArrayStep, SkipStep, CallNextStep, FinishStep DEF Next

\* Whatever listeners subscribe and dispose of, and whenever, the invariant of an
\* emission (events.ts emit, and event's and dispose's changes to what it walks) holds.
THEOREM Emitting == Spec => []EInv
<1>1. Init => EInv
  BY InitHolds
<1>2. EInv /\ [Next]_vars => EInv'
  BY NextKeeps
<1> QED
  BY <1>1, <1>2, PTL DEF Spec

\* The types, with a walk that never passes the length its array had.
THEOREM EmitterTyped == Spec => []TypeOK
<1>1. EInv => TypeOK
  BY DEF EInv, Types
<1> QED
  BY <1>1, Emitting, PTL

\* The arrays of the map, and that for every id, have exactly the listeners that are
\* not disposed of, each in that of its id, of which there is one: event pushes to it,
\* the Disposable splices from it, dispose(id) drops it and dispose() drops them all.
THEOREM ArraysAgreed == Spec => []ArraysAgree
<1>1. EInv => ArraysAgree
  <2> SUFFICES ASSUME EInv PROVE ArraysAgree
    OBVIOUS
  <2>1. Types /\ Mapped /\ Agreed /\ arrays \in [Arrays -> Seq(Listeners)]
    BY TypesParts DEF EInv, ListenerTypes
  <2>2. ASSUME NEW t \in Places
        PROVE  {l \in Listeners : place[l] = t} = UNION {ToSet(arrays[a]) : a \in Target(t)}
    <3>1. \A a \in Target(t) : a \in Arrays /\ Serves(idListeners, listeners, a, t)
      BY <2>1, TargetServes
    <3>2. ASSUME NEW a \in Target(t) PROVE ToSet(arrays[a]) = {arrays[a][i] : i \in 1 .. Len(arrays[a])}
      <4>1. arrays[a] \in Seq(Listeners)
        BY <2>1, <3>1
      <4> QED
        BY <4>1 DEF ToSet
    <3>3. ASSUME NEW l \in Listeners, place[l] = t PROVE \E a \in Target(t) : l \in ToSet(arrays[a])
      <4>1. PICK a \in Arrays : /\ Serves(idListeners, listeners, a, t)
                               /\ \E i \in 1 .. Len(arrays[a]) : arrays[a][i] = l
        BY <2>1, <3>3 DEF Agreed
      <4>2. a \in Target(t)
        BY <2>1, <4>1, TargetServes
      <4> QED
        BY <3>2, <4>1, <4>2
    <3>4. ASSUME NEW a \in Target(t), NEW l \in ToSet(arrays[a]) PROVE l \in Listeners /\ place[l] = t
      <4>1. PICK i \in 1 .. Len(arrays[a]) : arrays[a][i] = l
        BY <3>2
      <4> QED
        BY <2>1, <3>1, <4>1, ArrayTyped DEF Agreed
    <3> QED
      BY <3>3, <3>4
  <2>3. \A i, j \in 1 .. Len(idListeners) : idListeners[i].id = idListeners[j].id => i = j
    BY <2>1 DEF Mapped
  <2> QED
    BY <2>2, <2>3 DEF ArraysAgree, Places
<1> QED
  BY <1>1, Emitting, PTL

\* emit calls no listener twice: none is in two arrays, forEach goes up while a splice
\* moves what it leaves down, and event pushes behind all that was called.
THEOREM CalledAtMostOnce == Spec => []CalledOnce
<1>1. EInv => CalledOnce
  <2> SUFFICES ASSUME EInv PROVE CalledOnce
    OBVIOUS
  <2>1. called \in Seq(Listeners)
    BY TypesParts DEF EInv
  <2>2. DOMAIN called = 1 .. Len(called)
    BY <2>1
  <2>3. \A m, n \in 1 .. Len(called) : called[m] = called[n] => m = n
    BY DEF EInv, Calling
  <2> QED
    BY <2>2, <2>3 DEF CalledOnce, IsInjective
<1> QED
  BY <1>1, Emitting, PTL

\* emit(id) calls only who listens for that id or for every id, or did until it was
\* disposed of: an array it walks never comes to serve another id.
THEOREM AddressedOnly == Spec => []Addressed
<1>1. EInv => Addressed
  <2> SUFFICES ASSUME EInv, walk.target \in Ids, NEW l \in ToSet(called)
               PROVE  place[l] \in {walk.target, All, Gone}
    BY DEF Addressed
  <2>1. called \in Seq(Listeners)
    BY TypesParts DEF EInv
  <2>2. ToSet(called) = {called[n] : n \in 1 .. Len(called)}
    BY <2>1 DEF ToSet
  <2>3. \A n \in 1 .. Len(called) : place[called[n]] \in {walk.target, All, Gone}
    BY DEF EInv, Addressing
  <2> QED
    BY <2>2, <2>3
<1> QED
  BY <1>1, Emitting, PTL

\* emit calls everyone it was meant for but those disposed of, and those who listen
\* where somebody was: only a splice in the array that forEach walks makes it miss one.
THEOREM AllReceived == Spec => []AllReceive
<1>1. EInv => AllReceive
  <2> SUFFICES ASSUME EInv, Over, NEW l \in due, place[l] # Gone, ~Spliced(place[l])
               PROVE  l \in ToSet(called)
    BY DEF AllReceive
  <2>1. /\ called \in Seq(Listeners) /\ walk \in Walks
        /\ walk.last /\ walk.index >= walk.length
    BY TypesParts DEF EInv, Over, Walked
  <2>2. ToSet(called) = {called[n] : n \in 1 .. Len(called)}
    BY <2>1 DEF ToSet
  <2>3. walk.target # Gone
    BY <2>1, IdleFields DEF EInv, Entering
  <2>4. \A d \in dropped : d.from # place[l]
    BY DEF Spliced
  <2>5. ASSUME NEW a \in Arrays, NEW i \in 1 .. Len(arrays[a]), NEW t PROVE ~Ahead(walk, a, i, t)
    <3>1. i \in Nat /\ walk.index \in Nat /\ walk.length \in Nat
      BY <2>1 DEF Walks
    <3> QED
      BY <2>1, <3>1 DEF Ahead
  <2>6. \E n \in 1 .. Len(called) : called[n] = l
    BY <2>3, <2>4, <2>5 DEF EInv, Receiving
  <2> QED
    BY <2>2, <2>6
<1> QED
  BY <1>1, Emitting, PTL

=============================================================================
