------------------------------- MODULE Calls --------------------------------
(***************************************************************************)
(* What the remote calls of client.ts promise to the fills that make them: *)
(* a call throws as it is made, or waits under a number of its own until   *)
(* it ends, once; it ends alone, answered or timed out, or with all the    *)
(* others at a disconnect.                                                 *)
(***************************************************************************)
EXTENDS Naturals

CONSTANTS
    Clients  \* the clients, each with calls of its own

VARIABLES
    asked,   \* asked[c]: how many calls c made
    pending, \* pending[c]: the numbers of those that wait
    ended    \* ended[c]: how each of the others ended

callVars == <<asked, pending, ended>>

Alone == {"resolved", "rejected", "timed out"}

Init ==
    /\ asked = [c \in Clients |-> 0]
    /\ pending = [c \in Clients |-> {}]
    /\ ended = [c \in Clients |-> {}]

Ask(c) ==
    /\ asked' = [asked EXCEPT ![c] = @ + 1]
    /\ pending' = [pending EXCEPT ![c] = @ \union {asked[c]}]
    /\ UNCHANGED ended

Throw(c) ==
    /\ asked' = [asked EXCEPT ![c] = @ + 1]
    /\ ended' = [ended EXCEPT ![c] = @ \union {[id |-> asked[c], how |-> "thrown"]}]
    /\ UNCHANGED pending

EndOne(c, id, how) ==
    /\ id \in pending[c]
    /\ pending' = [pending EXCEPT ![c] = @ \ {id}]
    /\ ended' = [ended EXCEPT ![c] = @ \union {[id |-> id, how |-> how]}]
    /\ UNCHANGED asked

EndAll(c) ==
    /\ pending' = [pending EXCEPT ![c] = {}]
    /\ ended' = [ended EXCEPT ![c] = @ \union {[id |-> id, how |-> "disconnected"] : id \in pending[c]}]
    /\ UNCHANGED asked

Next ==
    \E c \in Clients :
        \/ Ask(c)
        \/ Throw(c)
        \/ \E id \in pending[c], how \in Alone : EndOne(c, id, how)
        \/ EndAll(c)

Spec == Init /\ [][Next]_callVars

=============================================================================
