------------------------------ MODULE Requests ------------------------------
(***************************************************************************)
(* What a Batch promises to the callers of add(): each request is answered *)
(* once, with the answer to its own arguments, or fails; it never learns   *)
(* which other requests travelled with it.                                 *)
(***************************************************************************)
CONSTANTS
    Items  \* the requests

VARIABLES
    outcome  \* outcome[i]: the state of request i's promise, and of which request

\* The promise of a request is as yet unasked, waits, or settled: with a value or
\* an Error the server gave for it, or because the remote call failed.
Settled == {"value", "error", "failed"}
Outcome == [of: Items, is: {"unasked", "waiting"} \union Settled]
Is(i, state) == [of |-> i, is |-> state]

Init == outcome = [i \in Items |-> Is(i, "unasked")]

Ask(i) ==
    /\ outcome[i] = Is(i, "unasked")
    /\ outcome' = [outcome EXCEPT ![i] = Is(i, "waiting")]

\* A request that cannot be sent is refused as it is asked.
Refuse(i) ==
    /\ outcome[i] = Is(i, "unasked")
    /\ outcome' = [outcome EXCEPT ![i] = Is(i, "failed")]

\* Some requests that wait are settled at once, each as its own.
Settle ==
    /\ outcome' \in [Items -> Outcome]
    /\ \A i \in Items :
           \/ outcome'[i] = outcome[i]
           \/ /\ outcome[i] = Is(i, "waiting")
              /\ outcome'[i] \in {Is(i, state) : state \in Settled}

Next == (\E i \in Items : Ask(i) \/ Refuse(i)) \/ Settle

Spec == Init /\ [][Next]_outcome

=============================================================================
