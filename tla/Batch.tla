------------------------------- MODULE Batch -------------------------------
(***************************************************************************)
(* Batch (common/proxy.ts), which client/fs.ts puts in front of stat,      *)
(* lstat and readdir: requests are queued and flushed together when there  *)
(* are enough of them, when no more come, or when the first has waited     *)
(* long enough.  Time is counted in ticks; a timer that is due fires       *)
(* before time goes on, that is, the event loop is not held up.            *)
(***************************************************************************)
EXTENDS Integers, Sequences, FiniteSets

CONSTANTS
    Items,     \* the requests, each added once
    MaxCount,  \* flush at this many
    IdleTime,  \* flush when no request came for this long
    MaxTime    \* flush this long after the first

ASSUME BatchAssumption ==
    /\ MaxCount \in Nat \ {0}
    /\ IdleTime \in Nat \ {0}
    /\ MaxTime \in Nat \ {0}

VARIABLES
    batch,     \* the queue
    idle,      \* idleTimeout: ticks until it fires, or Off
    max,       \* maxTimeout: likewise
    flights,   \* batches whose remoteCall has not settled
    outcome,   \* outcome[i]: the state of the promise add() returned
    age,       \* age[i], ghost: ticks request i has been in the queue
    lost       \* ghost: the requests of batches that could not be sent

vars == <<batch, idle, max, flights, outcome, age, lost>>

Off == -1
Promise == INSTANCE Requests WITH Items <- Items, outcome <- outcome

Init ==
    /\ batch = <<>>
    /\ idle = Off
    /\ max = Off
    /\ flights = {}
    /\ outcome = [i \in Items |-> Promise!Is(i, "unasked")]
    /\ age = [i \in Items |-> 0]
    /\ lost = {}

-----------------------------------------------------------------------------

\* flush, of a queue b: both timers are cleared and the batch is sent.
FlushKeepsQueue(b) ==
    /\ idle' = Off
    /\ max' = Off
    /\ flights' = flights \union {b}
    /\ UNCHANGED <<batch, lost>>
FlushKeepsMax(b) ==
    /\ batch' = <<>>
    /\ idle' = Off
    /\ flights' = flights \union {b}
    /\ UNCHANGED <<max, lost>>
Flush(b) ==
    /\ batch' = <<>>
    /\ idle' = Off
    /\ max' = Off
    /\ flights' = flights \union {b}
    /\ UNCHANGED lost

\* The same, when remoteCall throws before it returns a promise: an argument that
\* cannot be encoded, a connection that cannot send.  The queue is empty by then,
\* and nobody is left to settle what it held.
Carried(b) == {b[n] : n \in 1 .. Len(b)}

FlushThrows(b) ==
    /\ batch' = <<>>
    /\ idle' = Off
    /\ max' = Off
    /\ lost' = lost \union Carried(b)
    /\ UNCHANGED flights

\* add: the idle timer starts again, the other one only if it is not running.
Full(b) == Len(b) >= MaxCount

WaitSwapped(b) ==
    /\ batch' = b
    /\ idle' = MaxTime
    /\ max' = IF max = Off THEN IdleTime ELSE max
    /\ UNCHANGED <<flights, lost>>
WaitAgain(b) ==
    /\ batch' = b
    /\ idle' = IdleTime
    /\ max' = MaxTime
    /\ UNCHANGED <<flights, lost>>
WaitForMore(b) ==
    /\ batch' = b
    /\ UNCHANGED <<idle, max, flights, lost>>
Wait(b) ==
    /\ batch' = b
    /\ idle' = IdleTime
    /\ max' = IF max = Off THEN MaxTime ELSE max
    /\ UNCHANGED <<flights, lost>>

Add(i) ==
    LET b == Append(batch, i)
    IN  /\ outcome[i] = Promise!Is(i, "unasked")
        /\ outcome' = [outcome EXCEPT ![i] = Promise!Is(i, "waiting")]
        /\ IF Full(b) THEN Flush(b) ELSE Wait(b)
        /\ UNCHANGED age

\* The flush that add makes throws out of the promise's executor, which rejects the
\* one promise that is being made; those of the others were made before.
AddThrows(i) ==
    /\ outcome[i] = Promise!Is(i, "unasked")
    /\ Full(Append(batch, i))
    /\ outcome' = [outcome EXCEPT ![i] = Promise!Is(i, "failed")]
    /\ FlushThrows(batch)
    /\ UNCHANGED age

TimerFires ==
    /\ idle = 0 \/ max = 0
    /\ Flush(batch) \/ FlushThrows(batch)
    /\ UNCHANGED <<outcome, age>>

Tick ==
    /\ 0 \notin {idle, max}
    /\ idle > 0 \/ max > 0
    /\ idle' = IF idle = Off THEN Off ELSE idle - 1
    /\ max' = IF max = Off THEN Off ELSE max - 1
    /\ age' = [i \in Items |-> IF \E n \in 1 .. Len(batch) : batch[n] = i
                               THEN age[i] + 1 ELSE age[i]]
    /\ UNCHANGED <<batch, flights, outcome, lost>>

\* The server answers each argument in its place, an Error for what failed.
Replies(b) ==
    {[n \in 1 .. Len(b) |-> Promise!Is(b[n], ok[n])] : ok \in [1 .. Len(b) -> {"value", "error"}]}

\* Where in b request i is; each item takes the result with its own index.
IndexOf(b, i) == CHOOSE n \in 1 .. Len(b) : b[n] = i
ResultOfFirst(b, r, i) == r[1]
Result(b, r, i) == r[IndexOf(b, i)]

Reply(b, r) ==
    /\ b \in flights
    /\ flights' = flights \ {b}
    /\ outcome' = [i \in Items |-> IF i \in Carried(b) THEN Result(b, r, i) ELSE outcome[i]]
    /\ UNCHANGED <<batch, idle, max, age, lost>>

\* remoteCall rejects: so does every item.
Reject(b) ==
    /\ b \in flights
    /\ flights' = flights \ {b}
    /\ outcome' = [i \in Items |-> IF i \in Carried(b) THEN Promise!Is(i, "failed") ELSE outcome[i]]
    /\ UNCHANGED <<batch, idle, max, age, lost>>

Settle(b) == Reject(b) \/ \E r \in Replies(b) : Reply(b, r)

Next ==
    \/ \E i \in Items : Add(i) \/ AddThrows(i)
    \/ TimerFires
    \/ Tick
    \/ \E b \in flights : Settle(b)

\* Timers fire, and a remote call that was made settles: at the latest, it times
\* out.  Nobody has to ask.
Spec ==
    /\ Init /\ [][Next]_vars
    /\ WF_vars(TimerFires) /\ WF_vars(Tick)
    /\ WF_vars(\E b \in flights : Settle(b))

-----------------------------------------------------------------------------

TypeOK ==
    /\ batch \in Seq(Items)
    /\ idle \in {Off} \union 0 .. IdleTime
    /\ max \in {Off} \union 0 .. MaxTime
    /\ flights \subseteq Seq(Items)
    /\ outcome \in [Items -> Promise!Outcome]
    /\ age \in [Items -> Nat]
    /\ lost \subseteq Items

\* The callers see what Requests promises, however requests are batched.
Implements == Promise!Spec

\* Every request that waits is in one place, once: in the queue, in one batch that
\* was sent, or in one that could not be.
Held(i) ==
    Cardinality({n \in 1 .. Len(batch) : batch[n] = i})
    + Cardinality({b \in flights : i \in Carried(b)})
HeldOnce ==
    \A i \in Items :
        Held(i) + (IF i \in lost THEN 1 ELSE 0) = IF outcome[i].is = "waiting" THEN 1 ELSE 0

\* A queue is never forgotten and a timer never fires on an empty one: both run
\* exactly while something waits in the queue, which is never full.
TimersCoverQueue ==
    /\ batch # <<>> <=> idle # Off
    /\ batch # <<>> <=> max # Off
    /\ Len(batch) < MaxCount

\* However often new requests restart the idle timer, none waits in the queue
\* longer than MaxTime, counted from the first of its batch.
BoundedWait == \A i \in Items : age[i] <= MaxTime

\* Every request that waits is settled, whatever batches overlap and however long
\* others restart the idle timer, unless its batch could not be sent: of those,
\* only the one whose add() made the flush learns of it.
AllSettle ==
    \A i \in Items : (outcome[i].is = "waiting") ~> (outcome[i].is # "waiting" \/ i \in lost)

=============================================================================
