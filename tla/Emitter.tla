------------------------------ MODULE Emitter ------------------------------
(***************************************************************************)
(* Emitter (common/events.ts), the client's dispatcher of answers and      *)
(* events: listeners by id and for every id, and emissions that walk them  *)
(* while the listeners they call subscribe and dispose.  A walk is         *)
(* JavaScript's: Map.forEach visits, in insertion order, the entries that  *)
(* are there when it comes to them; Array.forEach visits the indices below *)
(* the length the array had at its start, skipping those a splice took     *)
(* away.  An array dropped from the map is still walked to its end.        *)
(***************************************************************************)
EXTENDS Naturals, Sequences, SequencesExt

CONSTANTS
    Listeners,  \* the listeners; each subscribes at most once
    Once,       \* those that dispose themselves when they are called
    Ids,        \* the ids listened under
    MaxArrays   \* bound: how many arrays the emitter makes

VARIABLES
    arrays,       \* arrays[a]: the listeners in array a
    made,         \* how many arrays there are
    idListeners,  \* the map: its [id, array] entries in insertion order
    listeners,    \* the array of the listeners for every id
    place,        \* place[l]: the id l listens under, All, or that it is not yet, or no more, there
    walk,         \* the emission under way, or Idle
    called,       \* the listeners it called, in order
    due,          \* ghost: those it was meant for when it started
    dropped       \* ghost: those disposed of since, each with where it listened

listenerVars == <<arrays, made, idListeners, listeners, place, dropped>>
vars == <<listenerVars, walk, called, due>>

All == "all"
New == "new"
Gone == "gone"

ASSUME EmitterAssumption ==
    Once \subseteq Listeners /\ MaxArrays \in Nat /\ Ids \intersect {All, New, Gone} = {}

Idle == [target |-> Gone, seen |-> {}, last |-> FALSE,
         array |-> 0, index |-> 0, length |-> 0]

Init ==
    /\ arrays = [a \in 0 .. MaxArrays |-> <<>>]
    /\ made = 1
    /\ idListeners = <<>>
    /\ listeners = 0
    /\ place = [l \in Listeners |-> New]
    /\ walk = Idle
    /\ called = <<>>
    /\ due = {}
    /\ dropped = {}

-----------------------------------------------------------------------------
(* What listeners, and the program between emissions, do.                  *)

\* The arrays the map has for id, at most one.
ArraysFor(id) == {e.array : e \in {e \in ToSet(idListeners) : e.id = id}}
Target(t) == IF t = All THEN {listeners} ELSE ArraysFor(t)

Unshift(q, l) == <<l>> \o q
Push(q, l) == Append(q, l)

\* event(): push to the array there is, or make one.
Subscribe(l, t) ==
    /\ place[l] = New
    /\ place' = [place EXCEPT ![l] = t]
    /\ IF Target(t) # {}
       THEN /\ \E a \in Target(t) : arrays' = [arrays EXCEPT ![a] = Push(@, l)]
            /\ UNCHANGED <<made, idListeners>>
       ELSE /\ made <= MaxArrays
            /\ made' = made + 1
            /\ arrays' = [arrays EXCEPT ![made] = <<l>>]
            /\ idListeners' = Append(idListeners, [id |-> t, array |-> made])
    /\ UNCHANGED <<listeners, dropped>>

Dropped(ls) == {[listener |-> l, from |-> place[l]] : l \in ls}

\* The Disposable of event(): splice l out of the array that is there now.
Unsubscribe(l) ==
    /\ place[l] \in Ids \union {All}
    /\ place' = [place EXCEPT ![l] = Gone]
    /\ arrays' = [a \in DOMAIN arrays |->
                     IF a \in Target(place[l]) THEN RemoveFirst(arrays[a], l) ELSE arrays[a]]
    /\ dropped' = dropped \union Dropped({l})
    /\ UNCHANGED <<made, idListeners, listeners>>

\* dispose(id): delete the entry; the array itself is left as it is.
DisposeId(id) ==
    LET ls == {l \in Listeners : place[l] = id}
    IN  /\ \E i \in 1 .. Len(idListeners) :
               idListeners[i].id = id /\ idListeners' = RemoveAt(idListeners, i)
        /\ place' = [l \in Listeners |-> IF l \in ls THEN Gone ELSE place[l]]
        /\ dropped' = dropped \union Dropped(ls)
        /\ UNCHANGED <<arrays, made, listeners>>

\* dispose(): a new array for every id, and an empty map.
DisposeKeepingIds ==
    LET ls == {l \in Listeners : place[l] \in Ids \union {All}}
    IN  /\ made <= MaxArrays
        /\ listeners' = made
        /\ made' = made + 1
        /\ place' = [l \in Listeners |-> IF l \in ls THEN Gone ELSE place[l]]
        /\ dropped' = dropped \union Dropped(ls)
        /\ UNCHANGED <<arrays, idListeners>>
DisposeAll ==
    LET ls == {l \in Listeners : place[l] \in Ids \union {All}}
    IN  /\ made <= MaxArrays
        /\ listeners' = made
        /\ made' = made + 1
        /\ idListeners' = <<>>
        /\ place' = [l \in Listeners |-> IF l \in ls THEN Gone ELSE place[l]]
        /\ dropped' = dropped \union Dropped(ls)
        /\ UNCHANGED arrays

Change ==
    \/ \E l \in Listeners, t \in Ids \union {All} : Subscribe(l, t)
    \/ \E l \in Listeners : Unsubscribe(l)
    \/ \E id \in Ids : DisposeId(id)
    \/ DisposeAll

-----------------------------------------------------------------------------
(* emit.                                                                   *)

\* The entries of the map that an emission is for, by their positions; those still to
\* visit are, of one for an id, the first, and none once it was visited.
OnlyThatId(t) == {i \in 1 .. Len(idListeners) : t = idListeners[i].id}
AnyEntry(t) == 1 .. Len(idListeners)
Entries(t) == {i \in 1 .. Len(idListeners) : t \in {idListeners[i].id, All}}

Unseen ==
    IF walk.target # All /\ walk.seen # {} THEN {}
    ELSE {i \in Entries(walk.target) : idListeners[i].array \notin walk.seen}

WalkedPastEnd == walk.index > walk.length
Walked == walk.index >= walk.length
Over == walk.last /\ Walked

\* emit(id, value) with an id of Ids, or emit(value).
Emit(t) ==
    /\ walk = Idle
    /\ walk' = [Idle EXCEPT !.target = t]
    /\ called' = <<>>
    /\ due' = {l \in Listeners : place[l] \in {t, All} \/ (t = All /\ place[l] \in Ids)}
    /\ dropped' = {}
    /\ UNCHANGED <<arrays, made, idListeners, listeners, place>>

Enter(a, last) ==
    walk' = [walk EXCEPT !.seen = @ \union {a}, !.last = last, !.array = a, !.index = 0,
                         !.length = Len(arrays[a])]

NextArray ==
    /\ walk # Idle
    /\ Walked
    /\ ~walk.last
    /\ IF Unseen # {} THEN Enter(idListeners[Min(Unseen)].array, FALSE) ELSE Enter(listeners, TRUE)
    /\ UNCHANGED <<listenerVars, called, due>>

\* The next index: skipped if a splice left the array shorter.
Skip ==
    /\ ~Walked
    /\ walk.index >= Len(arrays[walk.array])
    /\ walk' = [walk EXCEPT !.index = @ + 1]
    /\ UNCHANGED <<listenerVars, called, due>>

\* A listener of Once disposes itself; another may do anything, or nothing.
Acts(l) ==
    IF l \in Once /\ place[l] # Gone THEN Unsubscribe(l) ELSE Change \/ UNCHANGED listenerVars

CallNext ==
    /\ ~Walked
    /\ walk.index < Len(arrays[walk.array])
    /\ LET l == arrays[walk.array][walk.index + 1]
       IN  called' = Append(called, l) /\ Acts(l)
    /\ walk' = [walk EXCEPT !.index = @ + 1]
    /\ UNCHANGED due

Finish ==
    /\ Over
    /\ walk' = Idle
    /\ UNCHANGED <<listenerVars, called, due>>

Next ==
    \/ /\ walk = Idle
       /\ Change
       /\ UNCHANGED <<walk, called, due>>
    \/ \E t \in Ids \union {All} : Emit(t)
    \/ NextArray
    \/ Skip
    \/ CallNext
    \/ Finish

Spec == Init /\ [][Next]_vars

-----------------------------------------------------------------------------

TypeOK ==
    /\ arrays \in [0 .. MaxArrays -> Seq(Listeners)]
    /\ made \in 1 .. MaxArrays + 1
    /\ listeners \in 0 .. MaxArrays
    /\ idListeners \in Seq([id: Ids, array: 0 .. MaxArrays])
    /\ place \in [Listeners -> Ids \union {All, New, Gone}]
    /\ walk.index \in 0 .. walk.length
    /\ called \in Seq(Listeners)
    /\ due \subseteq Listeners
    /\ dropped \subseteq [listener: Listeners, from: Ids \union {All}]

\* The arrays the emitter still has hold exactly the listeners not disposed of,
\* each in the array of its id: no id has two entries.
ArraysAgree ==
    /\ \A t \in Ids \union {All} :
           {l \in Listeners : place[l] = t} = UNION {ToSet(arrays[a]) : a \in Target(t)}
    /\ \A i, j \in 1 .. Len(idListeners) : idListeners[i].id = idListeners[j].id => i = j

\* An emission calls no listener twice, whatever its listeners subscribe.
CalledOnce == IsInjective(called)

\* An emission for an id reaches the listeners of that id and of every id only.
Addressed ==
    walk.target \in Ids =>
        \A l \in ToSet(called) : place[l] \in {walk.target, All, Gone}

\* Every listener an emission was meant for is called, unless it was disposed of
\* before its turn, or a listener of the same place was: the splice that takes it
\* away makes the walk skip the one behind it.
Spliced(t) == \E d \in dropped : d.from = t
AllReceive == Over => \A l \in due : place[l] # Gone /\ ~Spliced(place[l]) => l \in ToSet(called)

=============================================================================
