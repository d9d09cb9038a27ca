-------------------------------- MODULE Api --------------------------------
(* The API as the dashboards meet it: each request is one atomic step, which *)
(* is what Delivery amounts to while requests do not overlap (Life below),  *)
(* and each GET answers with the first page of what the user may see.       *)
(* Rows get their ids in the order of their creation.                       *)
EXTENDS Naturals, Sequences, FiniteSets, TLC

CONSTANTS
    Donors, Receivers, Volunteers,
    PageSize,       \* rows of a list, 20 unless the client asks (httpx.go)
    InboxPage,      \* rows of a page of notifications, the same 20
    MaxDonations, MaxProposals  \* bounds of the exploration

ASSUME ApiAssumption ==
    /\ PageSize \in Nat \ {0} /\ InboxPage \in Nat \ {0}
    /\ MaxDonations \in Nat /\ MaxProposals \in Nat

VARIABLES
    donation, proposal, pickup,  \* the tables: sequences of rows, a row's id its index
    inbox                        \* per user, newest first: has the notification been read?

apiVars == <<donation, proposal, pickup, inbox>>
Users == Donors \cup Receivers \cup Volunteers

DonationRow == [donor : Donors,
                status : {"available", "proposal_pending", "pickup_assigned",
                          "picked_up", "delivered"}]
ProposalRow == [donation : 1 .. MaxDonations, receiver : Receivers, volunteer : Volunteers,
                status : {"pending", "accepted", "rejected"},
                donorAccepted : BOOLEAN, receiverAccepted : BOOLEAN]
PickupRow == [proposal : 1 .. MaxProposals,
              status : {"assigned", "picked_up", "delivered"}]

IsTable(t, Row, max) == Len(t) <= max /\ \A i \in DOMAIN t : t[i] \in Row

(* The tables hold rows of their kind that refer to rows that exist, and a  *)
(* page of notifications is never longer than a page (store.go, httpx.go).  *)
TypeOK ==
    /\ IsTable(donation, DonationRow, MaxDonations)
    /\ IsTable(proposal, ProposalRow, MaxProposals)
    /\ IsTable(pickup, PickupRow, MaxProposals)
    /\ \A p \in DOMAIN proposal : proposal[p].donation \in DOMAIN donation
    /\ \A k \in DOMAIN pickup : pickup[k].proposal \in DOMAIN proposal
    /\ DOMAIN inbox = Users
    /\ \A u \in Users : IsTable(inbox[u], BOOLEAN, InboxPage)

Init ==
    /\ donation = <<>>
    /\ proposal = <<>>
    /\ pickup = <<>>
    /\ inbox = [u \in Users |-> <<>>]

-----------------------------------------------------------------------------
(* The lists *)

Upto(s, n) == SubSeq(s, 1, IF Len(s) < n THEN Len(s) ELSE n)

(* The elements of s that are in S, in their order: a WHERE or a filter. A  *)
(* set where SelectSeq takes an operator, so that facts about every filter  *)
(* can be stated and proved once.                                           *)
Kept(s, S) ==
    LET kept[n \in 0 .. Len(s)] ==
            IF n = 0 THEN <<>>
            ELSE IF s[n] \in S THEN Append(kept[n - 1], s[n]) ELSE kept[n - 1]
    IN  kept[Len(s)]

NewestIds(t) == [i \in 1 .. Len(t) |-> Len(t) + 1 - i]
Listed(t, ids) == Upto(Kept(NewestIds(t), ids), PageSize)

OfPickup(k) == proposal[pickup[k].proposal]
DonorOf(p) == donation[proposal[p].donation].donor

(* Whose rows they are: a volunteer sees every donation, and otherwise a    *)
(* user sees the rows that name them.                                       *)
DonationsOf(u) == {d \in DOMAIN donation : u \in Volunteers \/ donation[d].donor = u}
ProposalsOf(u) ==
    {p \in DOMAIN proposal : u \in {DonorOf(p), proposal[p].receiver, proposal[p].volunteer}}
PickupsOf(u) == {k \in DOMAIN pickup : pickup[k].proposal \in ProposalsOf(u)}

(* A row as the API presents it.                                            *)
DonationSent(d) == [id |-> d, status |-> donation[d].status]
ProposalSent(p) ==
    [id |-> p, donation |-> proposal[p].donation, status |-> proposal[p].status,
     donorAccepted |-> proposal[p].donorAccepted,
     receiverAccepted |-> proposal[p].receiverAccepted]
PickupSent(k) ==
    [id |-> k, status |-> pickup[k].status,
     proposal |-> pickup[k].proposal, donation |-> OfPickup(k).donation]

ListDonations(u) ==
    LET ids == Listed(donation, DonationsOf(u)) IN [i \in DOMAIN ids |-> DonationSent(ids[i])]
ListProposals(u) ==
    LET ids == Listed(proposal, ProposalsOf(u)) IN [i \in DOMAIN ids |-> ProposalSent(ids[i])]
ListPickups(u) ==
    LET ids == Listed(pickup, PickupsOf(u)) IN [i \in DOMAIN ids |-> PickupSent(ids[i])]

-----------------------------------------------------------------------------
(* The requests *)

(* Mutant: a page of notifications without a limit.                         *)
PostedUnlimited(box, to) == [u \in Users |-> IF u \in to THEN <<FALSE>> \o box[u] ELSE box[u]]
Posted(box, to) ==
    [u \in Users |-> IF u \in to THEN Upto(<<FALSE>> \o box[u], InboxPage) ELSE box[u]]
SetStatus(d, s) == donation' = [donation EXCEPT ![d].status = s]

CreateDonation(u) ==
    /\ u \in Donors
    /\ Len(donation) < MaxDonations
    /\ donation' = Append(donation, [donor |-> u, status |-> "available"])
    /\ inbox' = Posted(inbox, {u})
    /\ UNCHANGED <<proposal, pickup>>

Proposable(u, d, r) ==
    u \in Volunteers /\ r \in Receivers /\ donation[d].status = "available"
CreateProposal(u, d, r) ==
    /\ Proposable(u, d, r)
    /\ Len(proposal) < MaxProposals
    /\ proposal' = Append(proposal,
           [donation |-> d, receiver |-> r, volunteer |-> u, status |-> "pending",
            donorAccepted |-> FALSE, receiverAccepted |-> FALSE])
    /\ SetStatus(d, "proposal_pending")
    /\ inbox' = Posted(inbox, {donation[d].donor, r})
    /\ UNCHANGED pickup

Decidable(u, p) ==
    /\ proposal[p].status = "pending"
    /\ u \in {DonorOf(p), proposal[p].receiver}

Accept(u, p) ==
    LET row == IF u \in Donors THEN [proposal[p] EXCEPT !.donorAccepted = TRUE]
                               ELSE [proposal[p] EXCEPT !.receiverAccepted = TRUE]
        volunteer == {row.volunteer}
    IN
    /\ Decidable(u, p)
    /\ IF row.donorAccepted /\ row.receiverAccepted
         THEN /\ proposal' = [proposal EXCEPT ![p] = [row EXCEPT !.status = "accepted"]]
              /\ pickup' = Append(pickup, [proposal |-> p, status |-> "assigned"])
              /\ SetStatus(row.donation, "pickup_assigned")
              /\ inbox' = Posted(Posted(inbox, volunteer), volunteer)
         ELSE /\ proposal' = [proposal EXCEPT ![p] = row]
              /\ inbox' = Posted(inbox, volunteer)
              /\ UNCHANGED <<donation, pickup>>

Reject(u, p) ==
    /\ Decidable(u, p)
    /\ proposal' = [proposal EXCEPT ![p].status = "rejected"]
    /\ SetStatus(proposal[p].donation, "available")
    /\ inbox' = Posted(inbox, {proposal[p].volunteer})
    /\ UNCHANGED pickup

(* Mutant: the receiver may report a delivery nobody has picked up.         *)
DeliverableAssigned(u, k) ==
    pickup[k].status # "delivered" /\ u \in {OfPickup(k).volunteer, OfPickup(k).receiver}
Collectable(u, k) == pickup[k].status = "assigned" /\ u = OfPickup(k).volunteer
Deliverable(u, k) ==
    pickup[k].status = "picked_up" /\ u \in {OfPickup(k).volunteer, OfPickup(k).receiver}

MarkPickedUp(u, k) ==
    /\ Collectable(u, k)
    /\ pickup' = [pickup EXCEPT ![k].status = "picked_up"]
    /\ SetStatus(OfPickup(k).donation, "picked_up")
    /\ UNCHANGED <<proposal, inbox>>

MarkDelivered(u, k) ==
    LET other == {OfPickup(k).volunteer, OfPickup(k).receiver} \ {u} IN
    /\ Deliverable(u, k)
    /\ pickup' = [pickup EXCEPT ![k].status = "delivered"]
    /\ SetStatus(OfPickup(k).donation, "delivered")
    /\ inbox' = Posted(inbox, other)
    /\ UNCHANGED proposal

MarkRead(u, i) ==
    /\ inbox' = [inbox EXCEPT ![u][i] = TRUE]
    /\ UNCHANGED <<donation, proposal, pickup>>

(* Whatever a user sends, from a fresh page, a stale one or another client, *)
(* if the API accepts it; a refused request changes nothing.                *)
Next ==
    \E u \in Users :
        \/ CreateDonation(u)
        \/ \E d \in DOMAIN donation, r \in Receivers : CreateProposal(u, d, r)
        \/ \E p \in DOMAIN proposal : Accept(u, p)
        \/ \E p \in DOMAIN proposal : Reject(u, p)
        \/ \E k \in DOMAIN pickup : MarkPickedUp(u, k)
        \/ \E k \in DOMAIN pickup : MarkDelivered(u, k)
        \/ \E i \in DOMAIN inbox[u] : MarkRead(u, i)

Spec == Init /\ [][Next]_apiVars

-----------------------------------------------------------------------------
(* The proposals on the table and the agreement each side has given them.   *)
Life == INSTANCE Lifecycle WITH
    Donations <- 1 .. MaxDonations,
    stage <- [d \in 1 .. MaxDonations |->
                 IF d \in DOMAIN donation THEN donation[d].status ELSE "unlisted"],
    consent <- [d \in 1 .. MaxDonations |->
                 {side \in {"donor", "receiver"} :
                     \E p \in DOMAIN proposal :
                         /\ proposal[p].donation = d
                         /\ proposal[p].status # "rejected"
                         /\ IF side = "donor" THEN proposal[p].donorAccepted
                                              ELSE proposal[p].receiverAccepted}]

(* The one-step requests keep to the documented status flow (docs/scope.md) *)
(* exactly as Delivery's transactions do when they do not overlap.          *)
KeepsToLifecycle == Life!Spec
=============================================================================
