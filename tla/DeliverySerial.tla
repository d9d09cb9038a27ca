--------------------------- MODULE DeliverySerial ---------------------------
(* Delivery seen through the life of a donation: the refinement that holds  *)
(* when requests do not overlap, with the mapping from the tables to the    *)
(* stages of Lifecycle. The run has one worker; SerialProofs shows it for   *)
(* any number of workers that take turns.                                   *)
EXTENDS Delivery

(* Requests do not overlap: at most one is being served at any time.        *)
NoOverlap == \A v, w \in Workers : pc[v] # "idle" /\ pc[w] # "idle" => v = w

StageOf(d) == IF d \in DOMAIN donation THEN donation[d].status ELSE "unlisted"

(* The acceptances recorded on the donation's proposals that are not        *)
(* rejected.                                                                *)
ConsentOf(d) ==
    {side \in {"donor", "receiver"} :
        \E p \in DOMAIN proposal :
            /\ Live(p)
            /\ proposal[p].donation = d
            /\ IF side = "donor" THEN proposal[p].donorAccepted
                                 ELSE proposal[p].receiverAccepted}

Life == INSTANCE Lifecycle WITH
            stage   <- [d \in Donations |-> StageOf(d)],
            consent <- [d \in Donations |-> ConsentOf(d)]

(* Delivery implements Lifecycle: every commit is one of its steps or none, *)
(* so a donation moves only along the documented status flow, both sides    *)
(* agree to the very proposal that is carried out, and an agreement never   *)
(* outlives the proposal it was given to.                                   *)
ImplementsLifecycle == Life!Spec
=============================================================================
