----------------------------- MODULE DeliveryMC -----------------------------
(* Instances of Delivery and DeliverySerial for TLC. *)
EXTENDS DeliverySerial, TLC

(* Ids and connections are interchangeable: the transactions only compare   *)
(* them for equality. Users are not, for they have roles.                   *)
Symmetry ==
    Permutations(Proposals) \cup Permutations(Pickups) \cup Permutations(Workers)
=============================================================================
