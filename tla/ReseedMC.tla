------------------------------ MODULE ReseedMC ------------------------------
(* The bakery demo donation of seed.go: proposal pending, donor accepted.   *)
EXTENDS Reseed, TLC

CONSTANTS d1, r1, v1, f1, p1, k1

MCSeedRows == <<f1, p1>>
MCSeedOf ==
    f1 :> [status |-> "proposal_pending", donor |-> d1]
    @@ p1 :> [status |-> "pending", donation |-> f1, receiver |-> r1, volunteer |-> v1,
              donorAccepted |-> TRUE, receiverAccepted |-> FALSE, rejectedBy |-> None]
=============================================================================
