----------------------------- MODULE Lifecycle -----------------------------
(* What docs/scope.md ("Core Flow", "Status Flow") promises of a donation,  *)
(* with each request one atomic step: listed, proposed to a receiver,       *)
(* agreed to by both sides or declined by one, picked up, delivered.        *)
(* Delivery implements it when requests do not overlap.                     *)
CONSTANTS Donations

VARIABLES
    stage,   \* where each donation stands
    consent  \* which sides have agreed to the proposal on the table

vars == <<stage, consent>>

Stages == {"unlisted", "available", "proposal_pending", "pickup_assigned",
           "picked_up", "delivered"}
Sides == {"donor", "receiver"}

Init ==
    /\ stage = [d \in Donations |-> "unlisted"]
    /\ consent = [d \in Donations |-> {}]

Move(d, from, to) ==
    /\ stage[d] = from
    /\ stage' = [stage EXCEPT ![d] = to]

List(d)    == Move(d, "unlisted", "available") /\ UNCHANGED consent
Propose(d) == Move(d, "available", "proposal_pending") /\ UNCHANGED consent

(* One side agrees; the second agreement assigns the pickup in the same     *)
(* step.                                                                    *)
Agree(d, side) ==
    /\ stage[d] = "proposal_pending"
    /\ side \notin consent[d]
    /\ consent' = [consent EXCEPT ![d] = @ \cup {side}]
    /\ stage' = [stage EXCEPT ![d] =
                    IF consent'[d] = Sides THEN "pickup_assigned" ELSE @]

(* Either side declines: the next proposal starts without any agreement.    *)
Decline(d) ==
    /\ Move(d, "proposal_pending", "available")
    /\ consent' = [consent EXCEPT ![d] = {}]

PickUp(d)  == Move(d, "pickup_assigned", "picked_up") /\ UNCHANGED consent
HandOver(d) == Move(d, "picked_up", "delivered") /\ UNCHANGED consent

Next ==
    \E d \in Donations :
        \/ List(d)
        \/ Propose(d)
        \/ \E side \in Sides : Agree(d, side)
        \/ Decline(d)
        \/ PickUp(d)
        \/ HandOver(d)

Spec == Init /\ [][Next]_vars
=============================================================================
