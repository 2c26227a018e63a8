------------------------------ MODULE Watched -------------------------------
(***************************************************************************)
(* What a fill promises to the program that made it: it is a native object *)
(* watched from afar.  Once held it shows what happens there, each event   *)
(* once and in order.  It is let go of when an end was shown, or when the  *)
(* program is told that it is out of reach; then it shows nothing more.    *)
(* It may come to nothing, when there is no such object.                   *)
(***************************************************************************)
EXTENDS Naturals, Sequences

CONSTANTS
    Events    \* what can happen to a native object

VARIABLES
    ends,     \* the events that end this one
    happened, \* what happened to it
    shown,    \* what the program was shown of that
    stage,    \* the fill: "asked", "held", "null", "failed" or "gone"
    lost      \* how many times the program was told that it is out of reach

watchedVars == <<ends, happened, shown, stage, lost>>

Init ==
    /\ ends \subseteq Events
    /\ happened = <<>>
    /\ shown = <<>>
    /\ stage = "asked"
    /\ lost = 0

Happen(e) ==
    /\ happened' = Append(happened, e)
    /\ UNCHANGED <<ends, shown, stage, lost>>

Settle(outcome) ==
    /\ stage = "asked"
    /\ stage' = outcome
    /\ UNCHANGED <<ends, happened, shown, lost>>

Show ==
    /\ stage = "held"
    /\ Len(shown) < Len(happened)
    /\ shown' = Append(shown, happened[Len(shown) + 1])
    /\ UNCHANGED <<ends, happened, stage, lost>>

LetGo ==
    /\ stage = "held"
    /\ \E i \in DOMAIN shown : shown[i] \in ends
    /\ stage' = "gone"
    /\ UNCHANGED <<ends, happened, shown, lost>>

Lose ==
    /\ stage = "held"
    /\ stage' = "gone"
    /\ lost' = lost + 1
    /\ UNCHANGED <<ends, happened, shown>>

Next ==
    \/ \E e \in Events : Happen(e)
    \/ \E outcome \in {"held", "null", "failed"} : Settle(outcome)
    \/ Show
    \/ LetGo
    \/ Lose

Spec == Init /\ [][Next]_watchedVars

=============================================================================
