------------------------------ MODULE ApiProofs ------------------------------
(* Theorems about Api and the Dashboards that show it, for any users, any   *)
(* page sizes and any bounds of the exploration: the tables are well formed *)
(* and the requests keep to the status flow of Lifecycle; fresh buttons are *)
(* not refused, no donation is stranded and the pages agree while the lists *)
(* are whole. In between: facts about filtered lists, by induction on their *)
(* length, and about sums over finite sets, by induction on their size.     *)
EXTENDS Dashboards, SequenceTheorems, FiniteSetTheorems, TLAPS

-----------------------------------------------------------------------------
(* The inductive invariant *)

DonationIds == 1 .. MaxDonations
StatusOf(p) == donation[proposal[p].donation].status
Live(p) == proposal[p].status # "rejected"
Both(row) == row.donorAccepted /\ row.receiverAccepted

(* The status a donation has while its pickup is at the given one.          *)
StageOfPickup == [assigned |-> "pickup_assigned", picked_up |-> "picked_up",
                  delivered |-> "delivered"]

(* TypeOK, with the tables sequences.                                       *)
Typed ==
    /\ donation \in Seq(DonationRow) /\ Len(donation) <= MaxDonations
    /\ proposal \in Seq(ProposalRow) /\ Len(proposal) <= MaxProposals
    /\ pickup \in Seq(PickupRow)
    /\ \A p \in DOMAIN proposal : proposal[p].donation \in DOMAIN donation
    /\ \A k \in DOMAIN pickup : pickup[k].proposal \in DOMAIN proposal
    /\ inbox \in [Users -> Seq(BOOLEAN)]
    /\ \A u \in Users : Len(inbox[u]) <= InboxPage

(* A donation has one proposal at most that is not rejected, and its status *)
(* tells how far that one is.                                               *)
Backed ==
    /\ \A p, q \in DOMAIN proposal :
          Live(p) /\ Live(q) /\ proposal[p].donation = proposal[q].donation => p = q
    /\ \A p \in DOMAIN proposal : Live(p) =>
          /\ StatusOf(p) # "available"
          /\ proposal[p].status = "pending" <=> StatusOf(p) = "proposal_pending"
          /\ proposal[p].status = "accepted" <=> Both(proposal[p])

(* A pickup carries out the accepted proposal it was made for, alone.       *)
Carried ==
    /\ \A k \in DOMAIN pickup :
          /\ proposal[pickup[k].proposal].status = "accepted"
          /\ StatusOf(pickup[k].proposal) = StageOfPickup[pickup[k].status]
    /\ \A k, l \in DOMAIN pickup : pickup[k].proposal = pickup[l].proposal => k = l

ApiInv == Typed /\ Backed /\ Carried

-----------------------------------------------------------------------------
(* Tables and boxes *)

LEMMA RowChanged ==
    ASSUME NEW Row, NEW t \in Seq(Row), NEW i \in DOMAIN t, NEW row \in Row
    PROVE  /\ [t EXCEPT ![i] = row] \in Seq(Row)
           /\ DOMAIN [t EXCEPT ![i] = row] = DOMAIN t
           /\ Len([t EXCEPT ![i] = row]) = Len(t)
           /\ \A j \in DOMAIN t : [t EXCEPT ![i] = row][j] = IF j = i THEN row ELSE t[j]
<1>1. DOMAIN t = 1 .. Len(t)
  BY LenProperties
<1> QED
  BY <1>1, ExceptSeq

LEMMA RowAdded ==
    ASSUME NEW Row, NEW t \in Seq(Row), NEW row \in Row
    PROVE  /\ Append(t, row) \in Seq(Row)
           /\ Len(Append(t, row)) = Len(t) + 1
           /\ DOMAIN Append(t, row) = DOMAIN t \cup {Len(t) + 1}
           /\ Len(t) + 1 \notin DOMAIN t
           /\ \A j \in DOMAIN t : Append(t, row)[j] = t[j]
           /\ Append(t, row)[Len(t) + 1] = row
<1>1. DOMAIN t = 1 .. Len(t) /\ Len(t) \in Nat
  BY LenProperties
<1>2. /\ Append(t, row) \in Seq(Row)
      /\ Len(Append(t, row)) = Len(t) + 1
      /\ \A j \in 1 .. Len(t) : Append(t, row)[j] = t[j]
      /\ Append(t, row)[Len(t) + 1] = row
  BY AppendProperties
<1>3. DOMAIN Append(t, row) = 1 .. Len(t) + 1
  BY <1>2, LenProperties
<1> QED
  BY <1>1, <1>2, <1>3

(* A page of notifications stays one.                                       *)
IsBoxes(boxes) ==
    /\ boxes \in [Users -> Seq(BOOLEAN)]
    /\ \A u \in Users : Len(boxes[u]) <= InboxPage

LEMMA UptoPage ==
    ASSUME NEW s \in Seq(BOOLEAN)
    PROVE  Upto(s, InboxPage) \in Seq(BOOLEAN) /\ Len(Upto(s, InboxPage)) <= InboxPage
<1>1. Len(s) \in Nat /\ InboxPage \in Nat
  BY LenProperties, ApiAssumption
<1> DEFINE n == IF Len(s) < InboxPage THEN Len(s) ELSE InboxPage
<1>2. n \in Nat /\ n <= Len(s) /\ n <= InboxPage
  BY <1>1
<1>3. \A i \in 1 .. n : i \in 1 .. Len(s)
  BY <1>1, <1>2
<1> HIDE DEF n
<1>4. SubSeq(s, 1, n) \in Seq(BOOLEAN) /\ Len(SubSeq(s, 1, n)) = n
  BY <1>1, <1>2, <1>3, SubSeqProperties
<1>5. Upto(s, InboxPage) = SubSeq(s, 1, n)
  BY DEF Upto, n
<1> QED
  BY <1>2, <1>4, <1>5

LEMMA PostedBoxes ==
    ASSUME NEW boxes, IsBoxes(boxes), NEW to
    PROVE  IsBoxes(Posted(boxes, to))
<1> SUFFICES ASSUME NEW u \in Users
             PROVE  /\ Posted(boxes, to)[u] \in Seq(BOOLEAN)
                    /\ Len(Posted(boxes, to)[u]) <= InboxPage
  BY DEF IsBoxes, Posted
<1>1. boxes[u] \in Seq(BOOLEAN) /\ Len(boxes[u]) <= InboxPage
  BY DEF IsBoxes
<1>2. <<FALSE>> \o boxes[u] \in Seq(BOOLEAN)
  BY <1>1, ConcatProperties
<1>3. /\ Upto(<<FALSE>> \o boxes[u], InboxPage) \in Seq(BOOLEAN)
      /\ Len(Upto(<<FALSE>> \o boxes[u], InboxPage)) <= InboxPage
  BY <1>2, UptoPage
<1> QED
  BY <1>1, <1>3 DEF Posted
-----------------------------------------------------------------------------
(* What a request does to the tables, row by row                            *)

DonationAt(d, status) ==
    /\ d \in DOMAIN donation
    /\ donation' \in Seq(DonationRow) /\ Len(donation') = Len(donation)
    /\ DOMAIN donation' = DOMAIN donation
    /\ \A e \in DOMAIN donation :
          donation'[e] = IF e = d THEN [donation[d] EXCEPT !.status = status] ELSE donation[e]

ProposalAt(p, row) ==
    /\ p \in DOMAIN proposal /\ row \in ProposalRow
    /\ proposal' \in Seq(ProposalRow) /\ Len(proposal') = Len(proposal)
    /\ DOMAIN proposal' = DOMAIN proposal
    /\ \A q \in DOMAIN proposal : proposal'[q] = IF q = p THEN row ELSE proposal[q]

PickupAt(k, row) ==
    /\ k \in DOMAIN pickup /\ row \in PickupRow
    /\ pickup' \in Seq(PickupRow) /\ Len(pickup') = Len(pickup)
    /\ DOMAIN pickup' = DOMAIN pickup
    /\ \A l \in DOMAIN pickup : pickup'[l] = IF l = k THEN row ELSE pickup[l]

DonationNew(d, row) ==
    /\ d = Len(donation) + 1 /\ d \notin DOMAIN donation /\ row \in DonationRow
    /\ donation' \in Seq(DonationRow) /\ Len(donation') = d
    /\ DOMAIN donation' = DOMAIN donation \cup {d}
    /\ donation'[d] = row
    /\ \A e \in DOMAIN donation : donation'[e] = donation[e]

ProposalNew(p, row) ==
    /\ p = Len(proposal) + 1 /\ p \notin DOMAIN proposal /\ row \in ProposalRow
    /\ proposal' \in Seq(ProposalRow) /\ Len(proposal') = p
    /\ DOMAIN proposal' = DOMAIN proposal \cup {p}
    /\ proposal'[p] = row
    /\ \A q \in DOMAIN proposal : proposal'[q] = proposal[q]

PickupNew(k, row) ==
    /\ k = Len(pickup) + 1 /\ k \notin DOMAIN pickup /\ row \in PickupRow
    /\ pickup' \in Seq(PickupRow) /\ Len(pickup') = k
    /\ DOMAIN pickup' = DOMAIN pickup \cup {k}
    /\ pickup'[k] = row
    /\ \A l \in DOMAIN pickup : pickup'[l] = pickup[l]

(* The seven things a request can do.                                       *)
Listing(d, row) ==
    /\ DonationNew(d, row) /\ row.status = "available" /\ d <= MaxDonations
    /\ UNCHANGED <<proposal, pickup>>

Proposing(d, p, row) ==
    /\ DonationAt(d, "proposal_pending") /\ donation[d].status = "available"
    /\ ProposalNew(p, row) /\ p <= MaxProposals
    /\ row.donation = d /\ row.status = "pending"
    /\ ~ row.donorAccepted /\ ~ row.receiverAccepted
    /\ UNCHANGED pickup

Sided(old, row, side) ==
    row = IF side = "donor" THEN [old EXCEPT !.donorAccepted = TRUE]
                            ELSE [old EXCEPT !.receiverAccepted = TRUE]

Agreeing(p, row, side) ==
    /\ ProposalAt(p, row) /\ proposal[p].status = "pending"
    /\ Sided(proposal[p], row, side) /\ ~ Both(row)
    /\ UNCHANGED <<donation, pickup>>

Assigning(p, row, side, k, task) ==
    /\ proposal[p].status = "pending"
    /\ Sided(proposal[p], row, side) /\ Both(row)
    /\ ProposalAt(p, [row EXCEPT !.status = "accepted"])
    /\ DonationAt(proposal[p].donation, "pickup_assigned")
    /\ PickupNew(k, task) /\ task.proposal = p /\ task.status = "assigned"

Declining(p, row) ==
    /\ ProposalAt(p, row) /\ proposal[p].status = "pending"
    /\ row = [proposal[p] EXCEPT !.status = "rejected"]
    /\ DonationAt(proposal[p].donation, "available")
    /\ UNCHANGED pickup

Goes(from, to) == <<from, to>> \in {<<"assigned", "picked_up">>, <<"picked_up", "delivered">>}
Moving(k, row, from, to) ==
    /\ PickupAt(k, row) /\ pickup[k].status = from
    /\ row = [pickup[k] EXCEPT !.status = to]
    /\ DonationAt(OfPickup(k).donation, to)
    /\ Goes(from, to)
    /\ UNCHANGED proposal

TablesMove ==
    \/ UNCHANGED <<donation, proposal, pickup>>
    \/ \E d, row : Listing(d, row)
    \/ \E d, p, row : Proposing(d, p, row)
    \/ \E p, row : \E side \in {"donor", "receiver"} : Agreeing(p, row, side)
    \/ \E p, row, k, task : \E side \in {"donor", "receiver"} : Assigning(p, row, side, k, task)
    \/ \E p, row : Declining(p, row)
    \/ \E k, row, from, to : Moving(k, row, from, to)

Statuses == {"available", "proposal_pending", "pickup_assigned", "picked_up", "delivered"}

LEMMA StatusSet ==
    ASSUME donation \in Seq(DonationRow), NEW d \in DOMAIN donation, NEW s \in Statuses,
           SetStatus(d, s)
    PROVE  DonationAt(d, s)
<1> DEFINE row == [donation[d] EXCEPT !.status = s]
<1>1. donation[d] \in DonationRow
  BY ElementOfSeq, LenProperties
<1>2. row \in DonationRow
  BY <1>1 DEF DonationRow, Statuses
<1>3. donation' = [donation EXCEPT ![d] = row]
  BY DEF SetStatus
<1> HIDE DEF row
<1>4. /\ [donation EXCEPT ![d] = row] \in Seq(DonationRow)
      /\ DOMAIN [donation EXCEPT ![d] = row] = DOMAIN donation
      /\ Len([donation EXCEPT ![d] = row]) = Len(donation)
      /\ \A j \in DOMAIN donation :
            [donation EXCEPT ![d] = row][j] = IF j = d THEN row ELSE donation[j]
  BY <1>2, RowChanged
<1> QED
  BY <1>3, <1>4 DEF DonationAt, row

LEMMA ProposalSet ==
    ASSUME proposal \in Seq(ProposalRow), NEW p \in DOMAIN proposal, NEW row \in ProposalRow,
           proposal' = [proposal EXCEPT ![p] = row]
    PROVE  ProposalAt(p, row)
  BY RowChanged DEF ProposalAt

LEMMA PickupSet ==
    ASSUME pickup \in Seq(PickupRow), NEW k \in DOMAIN pickup, NEW row \in PickupRow,
           pickup' = [pickup EXCEPT ![k] = row]
    PROVE  PickupAt(k, row)
  BY RowChanged DEF PickupAt

LEMMA RowsOfTables ==
    ASSUME Typed
    PROVE  /\ \A d \in DOMAIN donation : donation[d] \in DonationRow
           /\ \A p \in DOMAIN proposal : proposal[p] \in ProposalRow
           /\ \A k \in DOMAIN pickup : pickup[k] \in PickupRow
           /\ DOMAIN donation = 1 .. Len(donation) /\ Len(donation) \in Nat
           /\ DOMAIN proposal = 1 .. Len(proposal) /\ Len(proposal) \in Nat
           /\ DOMAIN pickup = 1 .. Len(pickup) /\ Len(pickup) \in Nat
  BY ElementOfSeq, LenProperties DEF Typed

-----------------------------------------------------------------------------
(* Each request is one of them, and posts notifications                     *)

LEMMA CreateDonationRows ==
    ASSUME Typed, NEW u, CreateDonation(u)
    PROVE  \E d, row : Listing(d, row)
<1> DEFINE row == [donor |-> u, status |-> "available"]
           d == Len(donation) + 1
<1>1. row \in DonationRow /\ row.status = "available"
  BY DEF CreateDonation, DonationRow
<1>2. donation \in Seq(DonationRow) /\ donation' = Append(donation, row)
  BY DEF Typed, CreateDonation
<1>3. d <= MaxDonations
  BY RowsOfTables, ApiAssumption DEF CreateDonation
<1> HIDE DEF row
<1>4. DonationNew(d, row)
  BY <1>1, <1>2, RowAdded DEF DonationNew
<1>5. Listing(d, row)
  BY <1>1, <1>3, <1>4 DEF Listing, CreateDonation
<1> QED
  BY <1>5

LEMMA CreateProposalRows ==
    ASSUME Typed, NEW u, NEW d \in DOMAIN donation, NEW r, CreateProposal(u, d, r)
    PROVE  \E p, row : Proposing(d, p, row)
<1> DEFINE row == [donation |-> d, receiver |-> r, volunteer |-> u, status |-> "pending",
                   donorAccepted |-> FALSE, receiverAccepted |-> FALSE]
           p == Len(proposal) + 1
<1>1. d \in DonationIds
  BY RowsOfTables, ApiAssumption DEF Typed, DonationIds
<1>2. /\ row \in ProposalRow /\ row.donation = d /\ row.status = "pending"
      /\ ~ row.donorAccepted /\ ~ row.receiverAccepted
  BY <1>1 DEF CreateProposal, Proposable, ProposalRow, DonationIds
<1>3. proposal \in Seq(ProposalRow) /\ proposal' = Append(proposal, row)
  BY DEF Typed, CreateProposal
<1>4. p <= MaxProposals
  BY RowsOfTables, ApiAssumption DEF CreateProposal
<1> HIDE DEF row
<1>5. ProposalNew(p, row)
  BY <1>2, <1>3, RowAdded DEF ProposalNew
<1>6. DonationAt(d, "proposal_pending") /\ donation[d].status = "available"
  BY StatusSet DEF Typed, Statuses, CreateProposal, Proposable
<1>7. Proposing(d, p, row)
  BY <1>2, <1>4, <1>5, <1>6 DEF Proposing, CreateProposal
<1> QED
  BY <1>7

LEMMA AcceptRows ==
    ASSUME Typed, NEW u, NEW p \in DOMAIN proposal, Accept(u, p)
    PROVE  \E row : \E side \in {"donor", "receiver"} :
              \/ Agreeing(p, row, side)
              \/ \E k, task : Assigning(p, row, side, k, task)
<1> DEFINE side == IF u \in Donors THEN "donor" ELSE "receiver"
           row == IF u \in Donors THEN [proposal[p] EXCEPT !.donorAccepted = TRUE]
                                  ELSE [proposal[p] EXCEPT !.receiverAccepted = TRUE]
           done == [row EXCEPT !.status = "accepted"]
           k == Len(pickup) + 1
           task == [proposal |-> p, status |-> "assigned"]
<1>1. side \in {"donor", "receiver"} /\ Sided(proposal[p], row, side)
  BY DEF Sided
<1>2. proposal[p] \in ProposalRow /\ proposal[p].status = "pending"
  BY RowsOfTables DEF Accept, Decidable
<1>3. row \in ProposalRow /\ done \in ProposalRow /\ row.donation = proposal[p].donation
  BY <1>2 DEF ProposalRow
<1>4. p \in 1 .. MaxProposals /\ task \in PickupRow /\ task.proposal = p /\ task.status = "assigned"
  <2>1. p \in 1 .. MaxProposals
    BY RowsOfTables, ApiAssumption DEF Typed
  <2> QED
    BY <2>1 DEF PickupRow
<1>5. CASE Both(row)
  <2>1. /\ proposal' = [proposal EXCEPT ![p] = done]
        /\ pickup' = Append(pickup, task)
        /\ SetStatus(proposal[p].donation, "pickup_assigned")
    BY <1>3, <1>5 DEF Accept, Both
  <2>2. proposal[p].donation \in DOMAIN donation
    BY DEF Typed
  <2>3. DonationAt(proposal[p].donation, "pickup_assigned")
    BY <2>1, <2>2, StatusSet DEF Typed, Statuses
  <2> HIDE DEF row, done, task, side
  <2>4. ProposalAt(p, done)
    BY <1>3, <2>1, ProposalSet DEF Typed
  <2>5. PickupNew(k, task)
    BY <1>4, <2>1, RowAdded DEF PickupNew, Typed
  <2>6. Assigning(p, row, side, k, task)
    BY <1>1, <1>2, <1>4, <1>5, <2>3, <2>4, <2>5 DEF Assigning, done
  <2> QED
    BY <1>1, <2>6
<1>6. CASE ~ Both(row)
  <2>1. proposal' = [proposal EXCEPT ![p] = row] /\ UNCHANGED <<donation, pickup>>
    BY <1>6 DEF Accept, Both
  <2> HIDE DEF row, side
  <2>2. ProposalAt(p, row)
    BY <1>3, <2>1, ProposalSet DEF Typed
  <2>3. Agreeing(p, row, side)
    BY <1>1, <1>2, <1>6, <2>1, <2>2 DEF Agreeing
  <2> QED
    BY <1>1, <2>3
<1> QED
  BY <1>5, <1>6

LEMMA RejectRows ==
    ASSUME Typed, NEW u, NEW p \in DOMAIN proposal, Reject(u, p)
    PROVE  \E row : Declining(p, row)
<1> DEFINE row == [proposal[p] EXCEPT !.status = "rejected"]
<1>1. proposal[p] \in ProposalRow /\ proposal[p].status = "pending"
  BY RowsOfTables DEF Reject, Decidable
<1>2. row \in ProposalRow
  BY <1>1 DEF ProposalRow
<1>3. proposal' = [proposal EXCEPT ![p] = row]
  BY DEF Reject
<1>4. DonationAt(proposal[p].donation, "available")
  BY StatusSet DEF Typed, Statuses, Reject
<1> HIDE DEF row
<1>5. ProposalAt(p, row)
  BY <1>2, <1>3, ProposalSet DEF Typed
<1>6. Declining(p, row)
  BY <1>1, <1>4, <1>5 DEF Declining, row, Reject
<1> QED
  BY <1>6

LEMMA MarkRows ==
    ASSUME Typed, NEW u, NEW k \in DOMAIN pickup, MarkPickedUp(u, k) \/ MarkDelivered(u, k)
    PROVE  \E row, from, to : Moving(k, row, from, to)
<1> DEFINE Takes(from, to) ==
             /\ pickup[k].status = from
             /\ pickup' = [pickup EXCEPT ![k].status = to]
             /\ SetStatus(OfPickup(k).donation, to)
             /\ UNCHANGED proposal
<1>0. Takes("assigned", "picked_up") \/ Takes("picked_up", "delivered")
  BY DEF MarkPickedUp, MarkDelivered, Collectable, Deliverable
<1>1. PICK from, to : Goes(from, to) /\ Takes(from, to)
  BY <1>0 DEF Goes
<1> DEFINE row == [pickup[k] EXCEPT !.status = to]
<1>2. row \in PickupRow
  BY <1>1, RowsOfTables DEF PickupRow, Goes
<1>3. OfPickup(k).donation \in DOMAIN donation
  BY DEF Typed, OfPickup
<1>4. DonationAt(OfPickup(k).donation, to)
  BY <1>1, <1>3, StatusSet DEF Typed, Statuses, Goes
<1>5. pickup' = [pickup EXCEPT ![k] = row]
  BY <1>1
<1> HIDE DEF row
<1>6. PickupAt(k, row)
  BY <1>2, <1>5, PickupSet DEF Typed
<1>7. Moving(k, row, from, to)
  BY <1>1, <1>4, <1>6 DEF Moving, row
<1> QED
  BY <1>7

LEMMA ReadBoxes ==
    ASSUME IsBoxes(inbox), NEW u \in Users, NEW i \in DOMAIN inbox[u], MarkRead(u, i)
    PROVE  IsBoxes(inbox)'
<1>1. inbox[u] \in Seq(BOOLEAN) /\ Len(inbox[u]) <= InboxPage
  BY DEF IsBoxes
<1> DEFINE box == [inbox[u] EXCEPT ![i] = TRUE]
<1>2. inbox' = [inbox EXCEPT ![u] = box]
  BY DEF MarkRead
<1>3. box \in Seq(BOOLEAN) /\ Len(box) = Len(inbox[u])
  BY <1>1, RowChanged
<1> HIDE DEF box
<1> QED
  BY <1>1, <1>2, <1>3 DEF IsBoxes

LEMMA RequestRows ==
    ASSUME Typed, Next
    PROVE  TablesMove /\ IsBoxes(inbox)'
<1>1. IsBoxes(inbox)
  BY DEF Typed, IsBoxes
<1>2. ASSUME NEW u \in Users, CreateDonation(u) PROVE TablesMove /\ IsBoxes(inbox)'
  BY <1>1, <1>2, CreateDonationRows, PostedBoxes DEF TablesMove, CreateDonation
<1>3. ASSUME NEW u \in Users, NEW d \in DOMAIN donation, NEW r \in Receivers,
             CreateProposal(u, d, r)
      PROVE  TablesMove /\ IsBoxes(inbox)'
  BY <1>1, <1>3, CreateProposalRows, PostedBoxes DEF TablesMove, CreateProposal
<1>4. ASSUME NEW u \in Users, NEW p \in DOMAIN proposal, Accept(u, p)
      PROVE  TablesMove /\ IsBoxes(inbox)'
  <2>1. IsBoxes(inbox)'
    BY <1>1, <1>4, PostedBoxes DEF Accept
  <2> QED
    BY <1>4, <2>1, AcceptRows DEF TablesMove
<1>5. ASSUME NEW u \in Users, NEW p \in DOMAIN proposal, Reject(u, p)
      PROVE  TablesMove /\ IsBoxes(inbox)'
  BY <1>1, <1>5, RejectRows, PostedBoxes DEF TablesMove, Reject
<1>6. ASSUME NEW u \in Users, NEW k \in DOMAIN pickup, MarkPickedUp(u, k) \/ MarkDelivered(u, k)
      PROVE  TablesMove /\ IsBoxes(inbox)'
  <2>1. IsBoxes(inbox)'
    BY <1>1, <1>6, PostedBoxes DEF MarkPickedUp, MarkDelivered
  <2> QED
    BY <1>6, <2>1, MarkRows DEF TablesMove
<1>7. ASSUME NEW u \in Users, NEW i \in DOMAIN inbox[u], MarkRead(u, i)
      PROVE  TablesMove /\ IsBoxes(inbox)'
  BY <1>1, <1>7, ReadBoxes DEF TablesMove, MarkRead
<1> QED
  BY <1>2, <1>3, <1>4, <1>5, <1>6, <1>7 DEF Next

-----------------------------------------------------------------------------
(* The invariant is kept, one kind of table step after the other            *)

LEMMA ListingKeeps ==
    ASSUME ApiInv, IsBoxes(inbox)', NEW d, NEW row, Listing(d, row)
    PROVE  ApiInv'
<1>1. Typed'
  BY DEF ApiInv, Typed, IsBoxes, Listing, DonationNew
<1>2. \A p \in DOMAIN proposal : StatusOf(p)' = StatusOf(p) /\ (Live(p)' <=> Live(p))
  BY DEF ApiInv, Typed, Listing, DonationNew, StatusOf, Live
<1>3. Backed'
  BY <1>2 DEF ApiInv, Backed, Listing
<1>4. Carried'
  BY <1>2 DEF ApiInv, Typed, Carried, Listing
<1> QED
  BY <1>1, <1>3, <1>4 DEF ApiInv

LEMMA ProposingKeeps ==
    ASSUME ApiInv, IsBoxes(inbox)', NEW d, NEW p, NEW row, Proposing(d, p, row)
    PROVE  ApiInv'
<1>1. Typed'
  BY DEF ApiInv, Typed, IsBoxes, Proposing, DonationAt, ProposalNew
<1>2. \A q \in DOMAIN proposal : proposal'[q] = proposal[q] /\ (Live(q)' <=> Live(q))
  BY DEF Proposing, ProposalNew, Live
<1>3. \A q \in DOMAIN proposal : Live(q) => proposal[q].donation # d
  BY DEF ApiInv, Backed, Proposing, StatusOf
<1>4. \A q \in DOMAIN proposal : Live(q) => StatusOf(q)' = StatusOf(q)
  BY <1>2, <1>3 DEF ApiInv, Typed, Proposing, DonationAt, StatusOf
<1>5. StatusOf(p)' = "proposal_pending"
  BY RowsOfTables DEF ApiInv, Proposing, DonationAt, ProposalNew, StatusOf, DonationRow
<1>6. Backed'
  <2>1. ASSUME NEW q \in DOMAIN proposal', NEW o \in DOMAIN proposal', Live(q)', Live(o)',
               proposal'[q].donation = proposal'[o].donation
        PROVE  q = o
    BY <1>2, <1>3, <2>1 DEF ApiInv, Backed, Proposing, ProposalNew
  <2>2. ASSUME NEW q \in DOMAIN proposal', Live(q)'
        PROVE  /\ StatusOf(q)' # "available"
               /\ proposal'[q].status = "pending" <=> StatusOf(q)' = "proposal_pending"
               /\ proposal'[q].status = "accepted" <=> Both(proposal'[q])
    BY <1>2, <1>4, <1>5, <2>2 DEF ApiInv, Backed, Proposing, ProposalNew, Both
  <2> QED
    BY <2>1, <2>2 DEF Backed
<1>7. Carried'
  <2>1. \A k \in DOMAIN pickup : Live(pickup[k].proposal) /\ pickup[k].proposal \in DOMAIN proposal
    BY DEF ApiInv, Typed, Carried, Live
  <2> QED
    BY <1>2, <1>4, <2>1 DEF ApiInv, Carried, Proposing
<1> QED
  BY <1>1, <1>6, <1>7 DEF ApiInv

(* A pickup's proposal is not pending.                                      *)
LEMMA PendingIsFree ==
    ASSUME ApiInv, NEW p \in DOMAIN proposal, proposal[p].status = "pending"
    PROVE  /\ \A k \in DOMAIN pickup : /\ pickup[k].proposal # p
                                      /\ OfPickup(k).donation # proposal[p].donation
           /\ StatusOf(p) = "proposal_pending"
           /\ ~ Both(proposal[p])
           /\ \A q \in DOMAIN proposal : Live(q) /\ proposal[q].donation = proposal[p].donation
                                        => q = p
<1>1. Live(p)
  BY DEF Live
<1>2. /\ StatusOf(p) = "proposal_pending"
      /\ ~ Both(proposal[p])
      /\ \A q \in DOMAIN proposal : Live(q) /\ proposal[q].donation = proposal[p].donation
                                   => q = p
  BY <1>1 DEF ApiInv, Backed
<1>3. \A k \in DOMAIN pickup : /\ pickup[k].proposal \in DOMAIN proposal
                              /\ Live(pickup[k].proposal)
                              /\ pickup[k].proposal # p
  BY DEF ApiInv, Typed, Carried, Live
<1> QED
  BY <1>2, <1>3 DEF OfPickup

LEMMA AgreeingKeeps ==
    ASSUME ApiInv, IsBoxes(inbox)', NEW p, NEW row, NEW side, Agreeing(p, row, side)
    PROVE  ApiInv'
<1>1. /\ p \in DOMAIN proposal /\ proposal[p].status = "pending" /\ proposal[p] \in ProposalRow
      /\ row.donation = proposal[p].donation /\ row.status = "pending" /\ ~ Both(row)
  BY RowsOfTables DEF ApiInv, Agreeing, ProposalAt, Sided, ProposalRow
<1>2. /\ DOMAIN proposal' = DOMAIN proposal /\ UNCHANGED <<donation, pickup>>
      /\ proposal' \in Seq(ProposalRow) /\ Len(proposal') = Len(proposal)
  BY DEF Agreeing, ProposalAt
<1>3. ASSUME NEW q \in DOMAIN proposal
      PROVE  /\ proposal'[q].donation = proposal[q].donation
             /\ proposal'[q].status = proposal[q].status
             /\ Both(proposal'[q]) <=> Both(proposal[q])
  BY <1>1, PendingIsFree DEF Agreeing, ProposalAt
<1>4. \A q \in DOMAIN proposal : StatusOf(q)' = StatusOf(q) /\ (Live(q)' <=> Live(q))
  BY <1>2, <1>3 DEF StatusOf, Live
<1>5. Typed'
  BY <1>2, <1>3 DEF ApiInv, Typed, IsBoxes
<1>6. Backed'
  BY <1>2, <1>3, <1>4 DEF ApiInv, Backed
<1>7. Carried'
  BY <1>2, <1>3, <1>4 DEF ApiInv, Typed, Carried
<1> QED
  BY <1>5, <1>6, <1>7 DEF ApiInv

LEMMA AssigningKeeps ==
    ASSUME ApiInv, IsBoxes(inbox)', NEW p, NEW row, NEW side, NEW k, NEW task,
           Assigning(p, row, side, k, task)
    PROVE  ApiInv'
<1> DEFINE d == proposal[p].donation
<1>1. /\ p \in DOMAIN proposal /\ proposal[p].status = "pending" /\ proposal[p] \in ProposalRow
      /\ d \in DOMAIN donation /\ donation[d] \in DonationRow
  BY RowsOfTables DEF ApiInv, Typed, Assigning, ProposalAt
<1>2. /\ proposal'[p].donation = d /\ proposal'[p].status = "accepted" /\ Both(proposal'[p])
  BY <1>1 DEF Assigning, ProposalAt, Sided, ProposalRow, Both
<1>3. /\ DOMAIN proposal' = DOMAIN proposal
      /\ proposal' \in Seq(ProposalRow) /\ Len(proposal') = Len(proposal)
      /\ \A q \in DOMAIN proposal : q # p => proposal'[q] = proposal[q]
  BY DEF Assigning, ProposalAt
<1>4. /\ DOMAIN donation' = DOMAIN donation
      /\ donation' \in Seq(DonationRow) /\ Len(donation') = Len(donation)
      /\ donation'[d].status = "pickup_assigned"
      /\ \A e \in DOMAIN donation : e # d => donation'[e] = donation[e]
  BY <1>1 DEF Assigning, DonationAt, DonationRow
<1>5. /\ \A l \in DOMAIN pickup : /\ pickup[l].proposal # p
                                 /\ proposal[pickup[l].proposal].donation # d
      /\ \A q \in DOMAIN proposal : Live(q) /\ proposal[q].donation = d => q = p
  BY <1>1, PendingIsFree DEF OfPickup
<1> HIDE DEF d
<1>6. StatusOf(p)' = "pickup_assigned" /\ Live(p)'
  BY <1>2, <1>4 DEF StatusOf, Live
<1>7. \A q \in DOMAIN proposal :
         q # p => /\ Live(q)' <=> Live(q)
                  /\ proposal[q].donation # d => StatusOf(q)' = StatusOf(q)
  BY <1>3, <1>4 DEF ApiInv, Typed, StatusOf, Live
<1>8. Typed'
  <2>1. \A q \in DOMAIN proposal : proposal'[q].donation = proposal[q].donation
    BY <1>2, <1>3 DEF d
  <2>2. ASSUME NEW l \in DOMAIN pickup' PROVE pickup'[l].proposal \in DOMAIN proposal'
    BY <1>1, <1>3 DEF ApiInv, Typed, Assigning, PickupNew
  <2> QED
    BY <1>3, <1>4, <2>1, <2>2 DEF ApiInv, Typed, IsBoxes, Assigning, PickupNew
<1>9. Backed'
  <2>1. ASSUME NEW q \in DOMAIN proposal', NEW o \in DOMAIN proposal', Live(q)', Live(o)',
               proposal'[q].donation = proposal'[o].donation
        PROVE  q = o
    BY <1>2, <1>3, <1>5, <1>7, <2>1 DEF ApiInv, Backed
  <2>2. ASSUME NEW q \in DOMAIN proposal', Live(q)'
        PROVE  /\ StatusOf(q)' # "available"
               /\ proposal'[q].status = "pending" <=> StatusOf(q)' = "proposal_pending"
               /\ proposal'[q].status = "accepted" <=> Both(proposal'[q])
    <3>1. CASE q = p
      BY <1>2, <1>6, <3>1
    <3>2. CASE q # p
      BY <1>3, <1>5, <1>7, <2>2, <3>2 DEF ApiInv, Backed, Both
    <3> QED
      BY <3>1, <3>2
  <2> QED
    BY <2>1, <2>2 DEF Backed
<1>10. Carried'
  <2>1. /\ DOMAIN pickup' = DOMAIN pickup \cup {k} /\ k \notin DOMAIN pickup
        /\ pickup'[k].proposal = p /\ pickup'[k].status = "assigned"
        /\ \A l \in DOMAIN pickup : pickup'[l] = pickup[l]
    BY DEF Assigning, PickupNew
  <2>2. ASSUME NEW l \in DOMAIN pickup'
        PROVE  /\ proposal'[pickup'[l].proposal].status = "accepted"
               /\ StatusOf(pickup[l].proposal)' = StageOfPickup[pickup'[l].status]
    <3>1. CASE l = k
      BY <1>2, <1>6, <2>1, <3>1 DEF StageOfPickup, StatusOf
    <3>2. CASE l # k
      <4>1. PICK q \in DOMAIN proposal : q = pickup[l].proposal
        BY <2>1, <3>2 DEF ApiInv, Typed
      <4>2. q # p /\ proposal[q].donation # d /\ pickup'[l] = pickup[l]
        BY <1>5, <2>1, <3>2, <4>1
      <4>3. proposal'[q].status = "accepted" /\ StatusOf(q)' = StageOfPickup[pickup[l].status]
        BY <1>3, <1>7, <2>1, <3>2, <4>1, <4>2 DEF ApiInv, Carried
      <4> QED
        BY <4>1, <4>2, <4>3 DEF StatusOf
    <3> QED
      BY <3>1, <3>2
  <2>3. ASSUME NEW l \in DOMAIN pickup', NEW m \in DOMAIN pickup',
               pickup'[l].proposal = pickup'[m].proposal
        PROVE  l = m
    BY <1>5, <2>1, <2>3 DEF ApiInv, Carried
  <2> QED
    BY <2>2, <2>3 DEF Carried
<1> QED
  BY <1>8, <1>9, <1>10 DEF ApiInv

LEMMA DecliningKeeps ==
    ASSUME ApiInv, IsBoxes(inbox)', NEW p, NEW row, Declining(p, row)
    PROVE  ApiInv'
<1> DEFINE d == proposal[p].donation
<1>1. /\ p \in DOMAIN proposal /\ proposal[p].status = "pending" /\ proposal[p] \in ProposalRow
      /\ d \in DOMAIN donation /\ donation[d] \in DonationRow
  BY RowsOfTables DEF ApiInv, Typed, Declining, ProposalAt
<1>2. proposal'[p].donation = d /\ proposal'[p].status = "rejected"
  BY <1>1 DEF Declining, ProposalAt, ProposalRow
<1>3. /\ DOMAIN proposal' = DOMAIN proposal
      /\ proposal' \in Seq(ProposalRow) /\ Len(proposal') = Len(proposal)
      /\ \A q \in DOMAIN proposal : q # p => proposal'[q] = proposal[q]
      /\ UNCHANGED pickup
  BY DEF Declining, ProposalAt
<1>4. /\ DOMAIN donation' = DOMAIN donation
      /\ donation' \in Seq(DonationRow) /\ Len(donation') = Len(donation)
      /\ \A e \in DOMAIN donation : e # d => donation'[e] = donation[e]
  BY <1>1 DEF Declining, DonationAt
<1>5. /\ \A l \in DOMAIN pickup : /\ pickup[l].proposal # p
                                 /\ proposal[pickup[l].proposal].donation # d
      /\ \A q \in DOMAIN proposal : Live(q) /\ proposal[q].donation = d => q = p
  BY <1>1, PendingIsFree DEF OfPickup
<1> HIDE DEF d
<1>6. ~ Live(p)'
  BY <1>2 DEF Live
<1>7. \A q \in DOMAIN proposal :
         q # p => /\ Live(q)' <=> Live(q)
                  /\ proposal[q].donation # d => StatusOf(q)' = StatusOf(q)
  BY <1>3, <1>4 DEF ApiInv, Typed, StatusOf, Live
<1>8. Typed'
  <2>1. \A q \in DOMAIN proposal : proposal'[q].donation = proposal[q].donation
    BY <1>2, <1>3 DEF d
  <2> QED
    BY <1>3, <1>4, <2>1 DEF ApiInv, Typed, IsBoxes
<1>9. Backed'
  <2>1. ASSUME NEW q \in DOMAIN proposal', NEW o \in DOMAIN proposal', Live(q)', Live(o)',
               proposal'[q].donation = proposal'[o].donation
        PROVE  q = o
    BY <1>3, <1>6, <1>7, <2>1 DEF ApiInv, Backed
  <2>2. ASSUME NEW q \in DOMAIN proposal', Live(q)'
        PROVE  /\ StatusOf(q)' # "available"
               /\ proposal'[q].status = "pending" <=> StatusOf(q)' = "proposal_pending"
               /\ proposal'[q].status = "accepted" <=> Both(proposal'[q])
    BY <1>3, <1>5, <1>6, <1>7, <2>2 DEF ApiInv, Backed, Both
  <2> QED
    BY <2>1, <2>2 DEF Backed
<1>10. Carried'
  <2>1. ASSUME NEW l \in DOMAIN pickup
        PROVE  /\ proposal'[pickup[l].proposal].status = "accepted"
               /\ StatusOf(pickup[l].proposal)' = StageOfPickup[pickup[l].status]
    <3>1. PICK q \in DOMAIN proposal : q = pickup[l].proposal
      BY DEF ApiInv, Typed
    <3>2. q # p /\ proposal[q].donation # d
      BY <1>5, <3>1
    <3>3. proposal'[q].status = "accepted" /\ StatusOf(q)' = StageOfPickup[pickup[l].status]
      BY <1>3, <1>7, <3>1, <3>2 DEF ApiInv, Carried
    <3> QED
      BY <1>3, <3>1, <3>3 DEF StatusOf
  <2> QED
    BY <1>3, <2>1 DEF ApiInv, Carried, StatusOf
<1> QED
  BY <1>8, <1>9, <1>10 DEF ApiInv

(* Two pickups belong to two donations.                                     *)
LEMMA OnePickup ==
    ASSUME ApiInv, NEW k \in DOMAIN pickup, NEW l \in DOMAIN pickup,
           OfPickup(k).donation = OfPickup(l).donation
    PROVE  k = l
<1>1. /\ pickup[k].proposal \in DOMAIN proposal /\ Live(pickup[k].proposal)
      /\ pickup[l].proposal \in DOMAIN proposal /\ Live(pickup[l].proposal)
  BY DEF ApiInv, Typed, Carried, Live
<1>2. pickup[k].proposal = pickup[l].proposal
  BY <1>1 DEF ApiInv, Backed, OfPickup
<1> QED
  BY <1>2 DEF ApiInv, Carried

LEMMA MovingKeeps ==
    ASSUME ApiInv, IsBoxes(inbox)', NEW k, NEW row, NEW from, NEW to, Moving(k, row, from, to)
    PROVE  ApiInv'
<1> DEFINE d == OfPickup(k).donation
<1>1. /\ k \in DOMAIN pickup /\ pickup[k] \in PickupRow
      /\ d \in DOMAIN donation /\ donation[d] \in DonationRow
  BY RowsOfTables DEF ApiInv, Typed, Moving, PickupAt, OfPickup
<1>2. /\ pickup'[k].proposal = pickup[k].proposal /\ pickup'[k].status = to
      /\ to \in {"picked_up", "delivered"}
  BY <1>1 DEF Moving, Goes, PickupAt, PickupRow
<1>3. /\ DOMAIN pickup' = DOMAIN pickup /\ pickup' \in Seq(PickupRow)
      /\ \A l \in DOMAIN pickup : l # k => pickup'[l] = pickup[l]
      /\ UNCHANGED proposal
  BY DEF Moving, PickupAt
<1>4. /\ DOMAIN donation' = DOMAIN donation
      /\ donation' \in Seq(DonationRow) /\ Len(donation') = Len(donation)
      /\ donation'[d].status = to
      /\ \A e \in DOMAIN donation : e # d => donation'[e] = donation[e]
  BY <1>1 DEF Moving, DonationAt, DonationRow
<1>5. \A l \in DOMAIN pickup : OfPickup(l).donation = d => l = k
  BY <1>1, OnePickup
<1>6. \A q \in DOMAIN proposal : Live(q) /\ proposal[q].donation = d => proposal[q].status = "accepted"
  BY <1>1, PendingIsFree, RowsOfTables DEF ApiInv, Typed, Live, OfPickup, ProposalRow
<1> HIDE DEF d
<1>7. \A q \in DOMAIN proposal :
         /\ Live(q)' <=> Live(q)
         /\ StatusOf(q)' = IF proposal[q].donation = d THEN to ELSE StatusOf(q)
  BY <1>3, <1>4 DEF ApiInv, Typed, StatusOf, Live
<1>8. Typed'
  BY <1>1, <1>2, <1>3, <1>4 DEF ApiInv, Typed, IsBoxes
<1>9. Backed'
  BY <1>2, <1>3, <1>6, <1>7 DEF ApiInv, Backed
<1>10. Carried'
  <2>1. ASSUME NEW l \in DOMAIN pickup
        PROVE  /\ proposal[pickup'[l].proposal].status = "accepted"
               /\ StatusOf(pickup[l].proposal)' = StageOfPickup[pickup'[l].status]
    <3>1. PICK q \in DOMAIN proposal : q = pickup[l].proposal /\ q = pickup'[l].proposal
      BY <1>2, <1>3 DEF ApiInv, Typed
    <3>2. proposal[q].status = "accepted" /\ StatusOf(q) = StageOfPickup[pickup[l].status]
      BY <3>1 DEF ApiInv, Carried
    <3>3. StatusOf(q)' = StageOfPickup[pickup'[l].status]
      <4>1. CASE l = k
        BY <1>2, <1>7, <3>1, <4>1 DEF d, OfPickup, StageOfPickup
      <4>2. CASE l # k
        BY <1>3, <1>5, <1>7, <3>1, <3>2, <4>2 DEF OfPickup
      <4> QED
        BY <4>1, <4>2
    <3> QED
      BY <3>1, <3>2, <3>3 DEF StatusOf
  <2> QED
    BY <1>2, <1>3, <2>1 DEF ApiInv, Carried
<1> QED
  BY <1>8, <1>9, <1>10 DEF ApiInv
-----------------------------------------------------------------------------
(* The invariant holds in every reachable state                             *)

LEMMA InitHolds == Init => ApiInv
<1> SUFFICES ASSUME Init PROVE ApiInv
  OBVIOUS
<1>1. \A Row : <<>> \in Seq(Row) /\ Len(<<>>) = 0 /\ DOMAIN <<>> = {}
  BY EmptySeq, LenProperties
<1>2. Typed
  BY <1>1, ApiAssumption DEF Init, Typed
<1> QED
  BY <1>1, <1>2 DEF Init, ApiInv, Backed, Carried

LEMMA StepKeeps == ApiInv /\ [Next]_apiVars => ApiInv'
<1> SUFFICES ASSUME ApiInv, [Next]_apiVars PROVE ApiInv'
  OBVIOUS
<1>1. CASE UNCHANGED apiVars
  BY <1>1 DEF apiVars, ApiInv, Typed, Backed, Carried, StatusOf, Live, Both
<1>2. CASE Next
  <2>1. TablesMove /\ IsBoxes(inbox)'
    BY <1>2, RequestRows DEF ApiInv
  <2>2. CASE UNCHANGED <<donation, proposal, pickup>>
    BY <2>1, <2>2 DEF ApiInv, Typed, IsBoxes, Backed, Carried, StatusOf, Live, Both
  <2> QED
    BY <2>1, <2>2, ListingKeeps, ProposingKeeps, AgreeingKeeps, AssigningKeeps, DecliningKeeps,
       MovingKeeps
       DEF TablesMove
<1> QED
  BY <1>1, <1>2

(* A donation has one live proposal at most, whose state and pickup are the *)
(* ones its status tells: for any requests in any order.                    *)
THEOREM ApiInductive == Spec => []ApiInv
  BY InitHolds, StepKeeps, PTL DEF Spec

LEMMA SizeOfTable ==
    ASSUME NEW n \in Nat
    PROVE  IsFiniteSet(1 .. n) /\ Cardinality(1 .. n) = n
<1>1. 1 \in Int /\ n \in Int
  OBVIOUS
<1>2. IsFiniteSet(1 .. n) /\ Cardinality(1 .. n) = IF 1 > n THEN 0 ELSE n - 1 + 1
  BY <1>1, FS_Interval
<1> QED
  BY <1>2

(* There are no more pickups than proposals: each is made for its own.      *)
LEMMA FewPickups ==
    ASSUME ApiInv
    PROVE  Len(pickup) <= Len(proposal) /\ Len(pickup) <= MaxProposals
<1> DEFINE f == [k \in DOMAIN pickup |-> pickup[k].proposal]
<1>1. f \in Injection(DOMAIN pickup, DOMAIN proposal)
  BY DEF ApiInv, Typed, Carried, Injection, IsInjective
<1>2. /\ DOMAIN pickup = 1 .. Len(pickup) /\ Len(pickup) \in Nat
      /\ DOMAIN proposal = 1 .. Len(proposal) /\ Len(proposal) \in Nat
  BY RowsOfTables DEF ApiInv
<1>3. /\ IsFiniteSet(DOMAIN proposal)
      /\ Cardinality(DOMAIN proposal) = Len(proposal)
      /\ Cardinality(DOMAIN pickup) = Len(pickup)
  BY <1>2, SizeOfTable
<1> HIDE DEF f
<1>4. Cardinality(DOMAIN pickup) <= Cardinality(DOMAIN proposal)
  BY <1>1, <1>3, FS_Injection
<1> QED
  BY <1>2, <1>3, <1>4, ApiAssumption DEF ApiInv, Typed

(* The tables hold rows of their kind that refer to rows that exist, and no *)
(* page of notifications is longer than a page.                             *)
THEOREM ApiTypeCorrect == Spec => []TypeOK
<1>1. ApiInv => TypeOK
  <2> SUFFICES ASSUME ApiInv PROVE TypeOK
    OBVIOUS
  <2>1. \A u \in Users : \A i \in DOMAIN inbox[u] : inbox[u][i] \in BOOLEAN
    BY ElementOfSeq, LenProperties DEF ApiInv, Typed
  <2> QED
    BY <2>1, RowsOfTables, FewPickups DEF ApiInv, Typed, TypeOK, IsTable
<1> QED
  BY <1>1, ApiInductive, PTL

-----------------------------------------------------------------------------
(* The requests implement Lifecycle                                         *)

Stage(d) == IF d \in DOMAIN donation THEN donation[d].status ELSE "unlisted"
Consent(d) ==
    {side \in {"donor", "receiver"} :
        \E p \in DOMAIN proposal :
            /\ proposal[p].donation = d
            /\ proposal[p].status # "rejected"
            /\ IF side = "donor" THEN proposal[p].donorAccepted ELSE proposal[p].receiverAccepted}
LifeStage == [d \in DonationIds |-> Stage(d)]
LifeConsent == [d \in DonationIds |-> Consent(d)]
Agreed(row) == {side \in {"donor", "receiver"} :
                   IF side = "donor" THEN row.donorAccepted ELSE row.receiverAccepted}

(* Only the rows of donation d change.                                      *)
Only(d) ==
    /\ \A e \in DonationIds \ {d} :
          /\ e \in DOMAIN donation' <=> e \in DOMAIN donation
          /\ e \in DOMAIN donation => donation'[e].status = donation[e].status
    /\ \A p \in DOMAIN proposal :
          /\ p \in DOMAIN proposal'
          /\ proposal'[p].donation = proposal[p].donation
          /\ proposal[p].donation # d => proposal'[p] = proposal[p]
    /\ \A p \in DOMAIN proposal' : p \notin DOMAIN proposal => proposal'[p].donation = d

(* Only d moves, from stage and consent a, x to b, y.                       *)
LifeMoves(d, a, x, b, y) ==
    /\ d \in DonationIds
    /\ LifeStage[d] = a /\ LifeStage' = [LifeStage EXCEPT ![d] = b]
    /\ LifeConsent[d] = x /\ LifeConsent' = [LifeConsent EXCEPT ![d] = y]

LEMMA OnlyMoves ==
    ASSUME NEW d \in DonationIds, Only(d)
    PROVE  LifeMoves(d, Stage(d), Consent(d), Stage(d)', Consent(d)')
<1>1. ASSUME NEW e \in DonationIds \ {d}
      PROVE  Stage(e)' = Stage(e) /\ Consent(e)' = Consent(e)
  <2>1. Stage(e)' = Stage(e)
    BY DEF Only, Stage
  <2>2. ASSUME NEW side \in {"donor", "receiver"}
        PROVE  side \in Consent(e)' <=> side \in Consent(e)
    BY DEF Only, Consent
  <2>3. Consent(e)' \subseteq {"donor", "receiver"} /\ Consent(e) \subseteq {"donor", "receiver"}
    BY DEF Consent
  <2> QED
    BY <2>1, <2>2, <2>3
<1>2. /\ LifeStage' = [e \in DonationIds |-> Stage(e)']
      /\ LifeConsent' = [e \in DonationIds |-> Consent(e)']
  BY DEF LifeStage, LifeConsent
<1>3. LifeStage' = [LifeStage EXCEPT ![d] = Stage(d)']
  BY <1>1, <1>2 DEF LifeStage
<1>4. LifeConsent' = [LifeConsent EXCEPT ![d] = Consent(d)']
  BY <1>1, <1>2 DEF LifeConsent
<1> QED
  BY <1>3, <1>4 DEF LifeMoves, LifeStage, LifeConsent

(* The consent to a donation is what its one live proposal records.         *)
LEMMA ConsentOfLive ==
    ASSUME NEW d, NEW p \in DOMAIN proposal, Live(p), proposal[p].donation = d,
           \A q \in DOMAIN proposal : Live(q) /\ proposal[q].donation = d => q = p
    PROVE  Consent(d) = Agreed(proposal[p])
  BY DEF Consent, Live, Agreed

LEMMA NoConsent ==
    ASSUME NEW d, \A q \in DOMAIN proposal : Live(q) => proposal[q].donation # d
    PROVE  Consent(d) = {}
  BY DEF Consent, Live

LEMMA DonationInBound ==
    ASSUME Typed, NEW d \in DOMAIN donation
    PROVE  d \in DonationIds
  BY RowsOfTables, ApiAssumption DEF Typed, DonationIds
(* The moves of Lifecycle in these terms.                                   *)
LEMMA MovesOfLife ==
    ASSUME NEW d, NEW x
    PROVE  /\ LifeMoves(d, "unlisted", x, "available", x) => Life!List(d)
           /\ LifeMoves(d, "available", x, "proposal_pending", x) => Life!Propose(d)
           /\ LifeMoves(d, "proposal_pending", x, "available", {}) => Life!Decline(d)
           /\ LifeMoves(d, "pickup_assigned", x, "picked_up", x) => Life!PickUp(d)
           /\ LifeMoves(d, "picked_up", x, "delivered", x) => Life!HandOver(d)
<1> USE DEF LifeMoves, LifeStage, LifeConsent, Stage, Consent, DonationIds, Life!Move
<1>1. LifeMoves(d, "unlisted", x, "available", x) => Life!List(d)
  BY DEF Life!List
<1>2. LifeMoves(d, "available", x, "proposal_pending", x) => Life!Propose(d)
  BY DEF Life!Propose
<1>3. LifeMoves(d, "proposal_pending", x, "available", {}) => Life!Decline(d)
  BY DEF Life!Decline
<1>4. LifeMoves(d, "pickup_assigned", x, "picked_up", x) => Life!PickUp(d)
  BY DEF Life!PickUp
<1>5. LifeMoves(d, "picked_up", x, "delivered", x) => Life!HandOver(d)
  BY DEF Life!HandOver
<1> QED
  BY <1>1, <1>2, <1>3, <1>4, <1>5

LEMMA AgreesInLife ==
    ASSUME NEW d, NEW x, NEW y, NEW side \in {"donor", "receiver"}, side \notin x,
           y = x \cup {side}, NEW b,
           b = IF y = {"donor", "receiver"} THEN "pickup_assigned" ELSE "proposal_pending",
           LifeMoves(d, "proposal_pending", x, b, y)
    PROVE  Life!Agree(d, side)
  BY DEF LifeMoves, LifeStage, LifeConsent, Stage, Consent, DonationIds, Life!Agree, Life!Sides

LEMMA ListingLife ==
    ASSUME ApiInv, ApiInv', NEW d, NEW row, Listing(d, row)
    PROVE  d \in DonationIds /\ Life!List(d)
<1>1. d \in DOMAIN donation'
  BY DEF Listing, DonationNew
<1>2. d \in DonationIds
  <2>1. DOMAIN donation' = 1 .. Len(donation') /\ Len(donation') \in Nat
    BY LenProperties DEF Listing, DonationNew
  <2> QED
    BY <1>1, <2>1, ApiAssumption DEF ApiInv, Typed, DonationIds
<1>3. \A p \in DOMAIN proposal : proposal[p].donation # d
  BY DEF ApiInv, Typed, Listing, DonationNew
<1>4. Only(d)
  BY DEF Only, Listing, DonationNew
<1>5. Consent(d) = {} /\ Consent(d)' = {}
  BY <1>3 DEF Listing, Consent
<1>6. Stage(d) = "unlisted" /\ Stage(d)' = "available"
  BY DEF Stage, Listing, DonationNew
<1>7. LifeMoves(d, "unlisted", {}, "available", {})
  BY <1>2, <1>4, <1>5, <1>6, OnlyMoves
<1> QED
  BY <1>2, <1>7, MovesOfLife

LEMMA ProposingLife ==
    ASSUME ApiInv, ApiInv', NEW d, NEW p, NEW row, Proposing(d, p, row)
    PROVE  d \in DonationIds /\ Life!Propose(d)
<1>1. d \in DOMAIN donation /\ d \in DonationIds /\ donation[d] \in DonationRow
  BY DonationInBound, RowsOfTables DEF Proposing, DonationAt, ApiInv
<1>2. \A q \in DOMAIN proposal : Live(q) => proposal[q].donation # d
  BY DEF ApiInv, Backed, Proposing, StatusOf
<1>3. Only(d)
  BY DEF Only, Proposing, DonationAt, ProposalNew
<1>4. Consent(d) = {}
  BY <1>2, NoConsent
<1>5. Consent(d)' = {}
  <2>1. /\ DOMAIN proposal' = DOMAIN proposal \cup {p} /\ proposal'[p] = row
        /\ \A q \in DOMAIN proposal : proposal'[q] = proposal[q]
        /\ ~ row.donorAccepted /\ ~ row.receiverAccepted
    BY DEF Proposing, ProposalNew
  <2> QED
    BY <1>2, <2>1 DEF Consent, Live
<1>6. Stage(d) = "available" /\ Stage(d)' = "proposal_pending"
  BY <1>1 DEF Stage, Proposing, DonationAt, DonationRow
<1>7. LifeMoves(d, "available", {}, "proposal_pending", {})
  BY <1>1, <1>3, <1>4, <1>5, <1>6, OnlyMoves
<1> QED
  BY <1>1, <1>7, MovesOfLife

(* What an acceptance does to the consent to its donation.                  *)
IsOf(p, d) == proposal[p].donation = d
Accepted(row, now) == now = row \/ now = [row EXCEPT !.status = "accepted"]

LEMMA SidedConsent ==
    ASSUME ApiInv, NEW p \in DOMAIN proposal, proposal[p].status = "pending", NEW d, IsOf(p, d),
           NEW row, NEW now, NEW side \in {"donor", "receiver"}, Sided(proposal[p], row, side),
           Accepted(row, now), ProposalAt(p, now)
    PROVE  /\ Consent(d)' = Consent(d) \cup {side}
           /\ Both(row) <=> Consent(d)' = {"donor", "receiver"}
           /\ Both(proposal[p]) <=> Consent(d) = {"donor", "receiver"}
           /\ now.donation = d
<1>1. proposal[p] \in ProposalRow /\ Live(p) /\ proposal[p].donation = d
  BY RowsOfTables DEF ApiInv, Live, IsOf
<1>2. /\ now.donation = d /\ now.status # "rejected"
      /\ Agreed(now) = Agreed(proposal[p]) \cup {side}
      /\ Agreed(now) = {"donor", "receiver"} <=> Both(row)
      /\ Agreed(proposal[p]) = {"donor", "receiver"} <=> Both(proposal[p])
  BY <1>1 DEF Sided, ProposalRow, Agreed, Both, Accepted
<1>3. \A q \in DOMAIN proposal : Live(q) /\ proposal[q].donation = d => q = p
  BY <1>1, PendingIsFree
<1>4. Consent(d) = Agreed(proposal[p])
  BY <1>1, <1>3, ConsentOfLive
<1>5. Consent(d)' = Agreed(now)
  <2>1. /\ p \in DOMAIN proposal' /\ proposal'[p] = now
        /\ \A q \in DOMAIN proposal' : q # p => q \in DOMAIN proposal /\ proposal'[q] = proposal[q]
    BY DEF ProposalAt
  <2>2. \A q \in DOMAIN proposal' :
           proposal'[q].donation = d /\ proposal'[q].status # "rejected" => q = p
    BY <1>3, <2>1 DEF Live
  <2>3. ASSUME NEW s \in {"donor", "receiver"}
        PROVE  s \in Consent(d)' <=> s \in Agreed(now)
    BY <1>2, <2>1, <2>2 DEF Consent, Agreed
  <2>4. Consent(d)' \subseteq {"donor", "receiver"} /\ Agreed(now) \subseteq {"donor", "receiver"}
    BY DEF Consent, Agreed
  <2> QED
    BY <2>3, <2>4
<1> QED
  BY <1>2, <1>4, <1>5

LEMMA AgreeingLife ==
    ASSUME ApiInv, NEW p, NEW row, NEW side \in {"donor", "receiver"}, Agreeing(p, row, side)
    PROVE  (\E d \in DonationIds : Life!Agree(d, side)) \/ UNCHANGED Life!vars
<1>1. PICK d : IsOf(p, d)
  BY DEF IsOf
<1>2. /\ p \in DOMAIN proposal /\ proposal[p].status = "pending"
      /\ Sided(proposal[p], row, side) /\ ProposalAt(p, row) /\ UNCHANGED donation
      /\ ~ Both(row)
  BY DEF Agreeing, ProposalAt
<1>3. d \in DOMAIN donation /\ d \in DonationIds /\ donation[d].status = "proposal_pending"
  BY <1>1, <1>2, DonationInBound, PendingIsFree DEF ApiInv, Typed, StatusOf, IsOf
<1>4. /\ row.donation = d
      /\ Consent(d)' = Consent(d) \cup {side} /\ Consent(d)' # {"donor", "receiver"}
  <2>1. Accepted(row, row)
    BY DEF Accepted
  <2> QED
    BY <1>1, <1>2, <2>1, SidedConsent
<1>5. Only(d)
  BY <1>1, <1>2, <1>4 DEF Only, ProposalAt, IsOf
<1>6. Stage(d) = "proposal_pending" /\ Stage(d)' = "proposal_pending"
  BY <1>2, <1>3 DEF Stage
<1>7. CASE side \in Consent(d)
  <2>1. Consent(d)' = Consent(d)
    BY <1>4, <1>7
  <2>2. LifeMoves(d, Stage(d), Consent(d), Stage(d), Consent(d))
    BY <1>3, <1>5, <1>6, <2>1, OnlyMoves
  <2>3. LifeStage' = LifeStage /\ LifeConsent' = LifeConsent
    BY <2>2 DEF LifeMoves, LifeStage, LifeConsent
  <2> QED
    BY <2>3 DEF LifeStage, LifeConsent, Stage, Consent, DonationIds, Life!vars
<1>8. CASE side \notin Consent(d)
  <2>1. PICK x : x = Consent(d)
    OBVIOUS
  <2>2. LifeMoves(d, "proposal_pending", x, "proposal_pending", x \cup {side})
    BY <1>3, <1>4, <1>5, <1>6, <2>1, OnlyMoves
  <2>3. x \cup {side} # {"donor", "receiver"} /\ side \notin x
    BY <1>4, <1>8, <2>1
  <2>4. Life!Agree(d, side)
    BY <2>2, <2>3, AgreesInLife
  <2> QED
    BY <1>3, <2>4
<1> QED
  BY <1>7, <1>8

LEMMA AssigningLife ==
    ASSUME ApiInv, NEW p, NEW row, NEW side \in {"donor", "receiver"}, NEW k, NEW task,
           Assigning(p, row, side, k, task)
    PROVE  \E d \in DonationIds : Life!Agree(d, side)
<1>1. PICK d : IsOf(p, d)
  BY DEF IsOf
<1>2. PICK now : Accepted(row, now) /\ ProposalAt(p, now)
  BY DEF Assigning, Accepted
<1>3. /\ p \in DOMAIN proposal /\ proposal[p].status = "pending"
      /\ Sided(proposal[p], row, side) /\ DonationAt(d, "pickup_assigned") /\ Both(row)
  BY <1>1 DEF Assigning, ProposalAt, IsOf
<1>4. /\ d \in DOMAIN donation /\ d \in DonationIds /\ donation[d] \in DonationRow
      /\ donation[d].status = "proposal_pending" /\ ~ Both(proposal[p])
  BY <1>1, <1>3, DonationInBound, RowsOfTables, PendingIsFree DEF ApiInv, Typed, StatusOf, IsOf
<1>5. /\ now.donation = d
      /\ Consent(d)' = Consent(d) \cup {side} /\ Consent(d)' = {"donor", "receiver"}
      /\ Consent(d) # {"donor", "receiver"}
  BY <1>1, <1>2, <1>3, <1>4, SidedConsent
<1>6. Only(d)
  BY <1>1, <1>2, <1>3, <1>5 DEF Only, ProposalAt, DonationAt, IsOf
<1>7. Stage(d) = "proposal_pending" /\ Stage(d)' = "pickup_assigned"
  BY <1>3, <1>4 DEF Stage, DonationAt, DonationRow
<1>8. PICK x : x = Consent(d)
  OBVIOUS
<1>9. LifeMoves(d, "proposal_pending", x, "pickup_assigned", x \cup {side})
  BY <1>4, <1>5, <1>6, <1>7, <1>8, OnlyMoves
<1>10. x \cup {side} = {"donor", "receiver"} /\ side \notin x
  BY <1>5, <1>8
<1>11. Life!Agree(d, side)
  BY <1>9, <1>10, AgreesInLife
<1> QED
  BY <1>4, <1>11

LEMMA DecliningLife ==
    ASSUME ApiInv, NEW p, NEW row, Declining(p, row)
    PROVE  \E d \in DonationIds : Life!Decline(d)
<1>1. PICK d : IsOf(p, d)
  BY DEF IsOf
<1>2. /\ p \in DOMAIN proposal /\ proposal[p].status = "pending" /\ proposal[p] \in ProposalRow
      /\ ProposalAt(p, row) /\ DonationAt(d, "available")
      /\ row.donation = d /\ row.status = "rejected"
  BY <1>1, RowsOfTables DEF ApiInv, Declining, ProposalAt, ProposalRow, IsOf
<1>3. /\ d \in DOMAIN donation /\ d \in DonationIds /\ donation[d] \in DonationRow
      /\ donation[d].status = "proposal_pending"
      /\ \A q \in DOMAIN proposal : Live(q) /\ proposal[q].donation = d => q = p
  BY <1>1, <1>2, DonationInBound, RowsOfTables, PendingIsFree DEF ApiInv, Typed, StatusOf, IsOf
<1>4. Only(d)
  BY <1>1, <1>2 DEF Only, ProposalAt, DonationAt, IsOf
<1>5. Stage(d) = "proposal_pending" /\ Stage(d)' = "available"
  BY <1>2, <1>3 DEF Stage, DonationAt, DonationRow
<1>6. Consent(d)' = {}
  <2>1. \A q \in DOMAIN proposal' :
           proposal'[q].donation = d => proposal'[q].status = "rejected"
    BY <1>2, <1>3 DEF ProposalAt, Live
  <2> QED
    BY <2>1 DEF Consent
<1>7. PICK x : x = Consent(d)
  OBVIOUS
<1>8. LifeMoves(d, "proposal_pending", x, "available", {})
  BY <1>3, <1>4, <1>5, <1>6, <1>7, OnlyMoves
<1> QED
  BY <1>3, <1>8, MovesOfLife

LEMMA MovingLife ==
    ASSUME ApiInv, NEW k, NEW row, NEW from, NEW to, Moving(k, row, from, to)
    PROVE  \E d \in DonationIds : Life!PickUp(d) \/ Life!HandOver(d)
<1>1. PICK p : p = pickup[k].proposal
  OBVIOUS
<1>2. PICK d : IsOf(p, d)
  BY DEF IsOf
<1>3. /\ k \in DOMAIN pickup /\ p \in DOMAIN proposal /\ OfPickup(k).donation = d
      /\ DonationAt(d, to) /\ UNCHANGED proposal
  BY <1>1, <1>2 DEF ApiInv, Typed, Moving, PickupAt, OfPickup, IsOf
<1>4. /\ d \in DOMAIN donation /\ d \in DonationIds /\ donation[d] \in DonationRow
  BY <1>2, <1>3, DonationInBound, RowsOfTables DEF ApiInv, Typed, IsOf
<1>5. donation[d].status = StageOfPickup[from]
  BY <1>1, <1>2, <1>3 DEF ApiInv, Carried, StatusOf, Moving, IsOf
<1>6. Only(d)
  BY <1>3 DEF Only, DonationAt
<1>7. Stage(d) = StageOfPickup[from] /\ Stage(d)' = to
  BY <1>3, <1>4, <1>5 DEF Stage, DonationAt, DonationRow
<1>8. Consent(d)' = Consent(d)
  BY <1>3 DEF Consent
<1>9. PICK x : x = Consent(d)
  OBVIOUS
<1>10. \/ LifeMoves(d, "pickup_assigned", x, "picked_up", x)
       \/ LifeMoves(d, "picked_up", x, "delivered", x)
  <2>1. LifeMoves(d, StageOfPickup[from], x, to, x)
    BY <1>4, <1>6, <1>7, <1>8, <1>9, OnlyMoves
  <2> QED
    BY <2>1 DEF Moving, Goes, StageOfPickup
<1> QED
  BY <1>4, <1>10, MovesOfLife

LEMMA LifeStep == ApiInv /\ ApiInv' /\ [Next]_apiVars => [Life!Next]_(Life!vars)
<1> SUFFICES ASSUME ApiInv, ApiInv', [Next]_apiVars PROVE Life!Next \/ UNCHANGED Life!vars
  OBVIOUS
<1>1. CASE UNCHANGED <<donation, proposal, pickup>>
  BY <1>1 DEF Life!vars
<1>2. ASSUME NEW d, NEW row, Listing(d, row) PROVE Life!Next
  BY <1>2, ListingLife DEF Life!Next, DonationIds
<1>3. ASSUME NEW d, NEW p, NEW row, Proposing(d, p, row) PROVE Life!Next
  BY <1>3, ProposingLife DEF Life!Next, DonationIds
<1>4. ASSUME NEW p, NEW row, NEW side \in {"donor", "receiver"}, Agreeing(p, row, side)
      PROVE  Life!Next \/ UNCHANGED Life!vars
  BY <1>4, AgreeingLife DEF Life!Next, DonationIds, Life!Sides
<1>5. ASSUME NEW p, NEW row, NEW side \in {"donor", "receiver"}, NEW k, NEW task,
             Assigning(p, row, side, k, task)
      PROVE  Life!Next
  BY <1>5, AssigningLife DEF Life!Next, DonationIds, Life!Sides
<1>6. ASSUME NEW p, NEW row, Declining(p, row) PROVE Life!Next
  BY <1>6, DecliningLife DEF Life!Next, DonationIds
<1>7. ASSUME NEW k, NEW row, NEW from, NEW to, Moving(k, row, from, to) PROVE Life!Next
  BY <1>7, MovingLife DEF Life!Next, DonationIds
<1>8. TablesMove
  BY <1>1, RequestRows DEF TablesMove, ApiInv, apiVars
<1> QED
  BY <1>1, <1>2, <1>3, <1>4, <1>5, <1>6, <1>7, <1>8 DEF TablesMove

LEMMA LifeInit == Init => Life!Init
  BY DEF Init, Life!Init

(* Whatever requests arrive, in any order and from any user, a donation     *)
(* moves along the documented status flow only, and an agreement never      *)
(* outlives the proposal it was given to (docs/scope.md).                   *)
THEOREM ApiLifecycle == Spec => KeepsToLifecycle
<1>1. ApiInv /\ ApiInv' /\ [Next]_apiVars => [Life!Next]_(Life!vars)
  BY LifeStep
<1> QED
  BY <1>1, LifeInit, ApiInductive, PTL DEF Spec, KeepsToLifecycle, Life!Spec

-----------------------------------------------------------------------------
(* Induction, with sets in the place of operators                           *)

(* A set of numbers has a least one: the order is well founded.             *)
LEMMA LeastNumber ==
  ASSUME NEW T, T \subseteq Nat, T # {}
  PROVE  \E m \in T : \A n \in T : m <= n
<1> DEFINE R == OpToRel(<, Nat)
<1>1. IsWellFoundedOn(R, Nat)
  BY NatLessThanWellFounded
<1>2. \A x, y \in Nat : <<x, y>> \in R <=> x < y
  BY DEF OpToRel
<1> HIDE DEF R
<1>3. PICK m \in T : \A n \in T : ~ <<n, m>> \in R
  BY <1>1, WFMin
<1>4. \A n \in T : ~ n < m
  BY <1>2, <1>3
<1> QED
  BY <1>3, <1>4

(* What holds of 0, and of n when it holds of n - 1, holds of every n.      *)
LEMMA Induction ==
  ASSUME NEW N \in Nat, NEW P, 0 \in P, \A n \in 1 .. N : n - 1 \in P => n \in P
  PROVE  \A n \in 0 .. N : n \in P
<1> DEFINE T == {n \in 0 .. N : n \notin P}
<1> SUFFICES ASSUME T # {} PROVE FALSE
  OBVIOUS
<1>1. PICK m \in T : \A n \in T : m <= n
  <2>1. T \subseteq Nat OBVIOUS
  <2> HIDE DEF T
  <2> QED BY <2>1, LeastNumber
<1>2. m # 0 /\ m \in 1 .. N OBVIOUS
<1>3. m - 1 \notin T BY <1>1, <1>2
<1> QED BY <1>2, <1>3

Keeps(g, s, S, N) ==
    g = [n \in 0 .. N |-> IF n = 0 THEN <<>>
            ELSE IF s[n] \in S THEN Append(g[n - 1], s[n]) ELSE g[n - 1]]

(* The recursive function in Kept exists, so it obeys its equation.         *)
LEMMA KeptRecursion ==
  ASSUME NEW s, NEW S, Len(s) \in Nat
  PROVE  \E g : Keeps(g, s, S, Len(s)) /\ Kept(s, S) = g[Len(s)]
<1> DEFINE P == {N \in Nat : \E g : Keeps(g, s, S, N)}
<1>1. 0 \in P
  <2>1. Keeps([n \in 0 .. 0 |-> <<>>], s, S, 0) BY DEF Keeps
  <2> QED BY <2>1
<1>2. ASSUME NEW n \in 1 .. Len(s), n - 1 \in P PROVE n \in P
  <2>1. PICK g : Keeps(g, s, S, n - 1) BY <1>2
  <2> DEFINE last == IF s[n] \in S THEN Append(g[n - 1], s[n]) ELSE g[n - 1]
             h == [m \in 0 .. n |-> IF m = n THEN last ELSE g[m]]
  <2>2. Keeps(h, s, S, n)
    <3>1. \A m \in 0 .. n - 1 : h[m] = g[m] OBVIOUS
    <3>2. \A m \in 1 .. n : m - 1 \in 0 .. n - 1 OBVIOUS
    <3>3. \A m \in 0 .. n - 1 : g[m] = IF m = 0 THEN <<>>
            ELSE IF s[m] \in S THEN Append(g[m - 1], s[m]) ELSE g[m - 1]
       BY <2>1 DEF Keeps
    <3>4. \A m \in 0 .. n : h[m] = IF m = 0 THEN <<>>
            ELSE IF s[m] \in S THEN Append(h[m - 1], s[m]) ELSE h[m - 1]
       <4> SUFFICES ASSUME NEW m \in 0 .. n PROVE h[m] = IF m = 0 THEN <<>>
            ELSE IF s[m] \in S THEN Append(h[m - 1], s[m]) ELSE h[m - 1]
         OBVIOUS
       <4>1. CASE m = 0 BY <4>1, <3>1, <3>3
       <4>2. CASE m # 0 /\ m # n BY <4>2, <3>1, <3>2, <3>3
       <4>3. CASE m = n BY <4>3, <3>1, <3>2
       <4> QED BY <4>1, <4>2, <4>3
    <3>5. h = [m \in 0 .. n |-> h[m]] OBVIOUS
    <3> HIDE DEF h
    <3> QED BY <3>4, <3>5 DEF Keeps
  <2> QED BY <2>2
<1> HIDE DEF P
<1>3. Len(s) \in P
  <2>1. \A n \in 0 .. Len(s) : n \in P BY <1>1, <1>2, Induction
  <2> QED BY <2>1
<1>4. PICK g : Keeps(g, s, S, Len(s)) BY <1>3 DEF P
<1> DEFINE f == CHOOSE f : Keeps(f, s, S, Len(s))
<1>5. Keeps(f, s, S, Len(s)) BY <1>4
<1>6. Kept(s, S) = f[Len(s)] BY DEF Kept, Keeps
<1> QED BY <1>5, <1>6

-----------------------------------------------------------------------------
(* What Kept keeps: h tells where in the first n elements of s those of k   *)
(* are.                                                                     *)
Picks(h, k, s, S, n) ==
    /\ h \in [1 .. Len(k) -> 1 .. n]
    /\ \A i, j \in 1 .. Len(k) : i < j => h[i] < h[j]
    /\ \A j \in 1 .. Len(k) : k[j] = s[h[j]] /\ s[h[j]] \in S
    /\ \A i \in 1 .. n : s[i] \in S => \E j \in 1 .. Len(k) : h[j] = i

LEMMA PicksNone ==
  ASSUME NEW s, NEW S, NEW k, NEW h, NEW n \in Nat \ {0}, Picks(h, k, s, S, n - 1),
         Len(k) \in Nat, s[n] \notin S
  PROVE  Picks(h, k, s, S, n)
<1>1. h \in [1 .. Len(k) -> 1 .. n]
  BY DEF Picks
<1>2. \A i \in 1 .. n : s[i] \in S => \E j \in 1 .. Len(k) : h[j] = i
  <2> SUFFICES ASSUME NEW i \in 1 .. n, s[i] \in S
               PROVE  \E j \in 1 .. Len(k) : h[j] = i
    OBVIOUS
  <2>1. i \in 1 .. n - 1
    OBVIOUS
  <2> QED
    BY <2>1 DEF Picks
<1> QED
  BY <1>1, <1>2 DEF Picks

LEMMA PicksOneMore ==
  ASSUME NEW X, NEW s, NEW S, NEW k \in Seq(X), NEW h, NEW n \in Nat \ {0},
         Picks(h, k, s, S, n - 1), s[n] \in S, s[n] \in X
  PROVE  /\ Append(k, s[n]) \in Seq(X)
         /\ \E hh : Picks(hh, Append(k, s[n]), s, S, n)
<1> DEFINE m == Len(k)
           kk == Append(k, s[n])
           hh == [j \in 1 .. m + 1 |-> IF j = m + 1 THEN n ELSE h[j]]
<1>1. /\ m \in Nat
      /\ kk \in Seq(X) /\ Len(kk) = m + 1
      /\ \A j \in 1 .. m : kk[j] = k[j]
      /\ kk[m + 1] = s[n]
  BY AppendProperties, LenProperties
<1>2. /\ \A j \in 1 .. m : h[j] \in 1 .. n - 1
      /\ \A i, j \in 1 .. m : i < j => h[i] < h[j]
      /\ \A j \in 1 .. m : k[j] = s[h[j]] /\ s[h[j]] \in S
      /\ \A i \in 1 .. n - 1 : s[i] \in S => \E j \in 1 .. m : h[j] = i
  BY DEF Picks
<1>3. hh[m + 1] = n /\ \A j \in 1 .. m : hh[j] = h[j]
  BY <1>1
<1>4. hh \in [1 .. m + 1 -> 1 .. n]
  BY <1>1, <1>2
<1> HIDE DEF hh, kk, m
<1>5. \A j \in 1 .. m + 1 : j \in 1 .. m \/ j = m + 1
  BY <1>1
<1>6. \A i, j \in 1 .. m + 1 : i < j => hh[i] < hh[j]
  <2> SUFFICES ASSUME NEW i \in 1 .. m + 1, NEW j \in 1 .. m + 1, i < j
               PROVE  hh[i] < hh[j]
    OBVIOUS
  <2>1. i \in 1 .. m
    BY <1>1
  <2>2. CASE j \in 1 .. m
    BY <1>2, <1>3, <2>1, <2>2
  <2>3. CASE j = m + 1
    BY <1>2, <1>3, <2>1, <2>3
  <2> QED
    BY <1>5, <2>2, <2>3
<1>7. \A j \in 1 .. m + 1 : kk[j] = s[hh[j]] /\ s[hh[j]] \in S
  BY <1>1, <1>2, <1>3, <1>5
<1>8. \A i \in 1 .. n : s[i] \in S => \E j \in 1 .. m + 1 : hh[j] = i
  <2> SUFFICES ASSUME NEW i \in 1 .. n, s[i] \in S
               PROVE  \E j \in 1 .. m + 1 : hh[j] = i
    OBVIOUS
  <2>1. CASE i = n
    BY <1>1, <1>3, <2>1
  <2>2. CASE i # n
    <3>1. PICK j \in 1 .. m : h[j] = i
      BY <1>2, <2>2
    <3> QED
      BY <1>1, <1>3, <3>1
  <2> QED
    BY <2>1, <2>2
<1>9. Picks(hh, kk, s, S, n)
  BY <1>1, <1>4, <1>6, <1>7, <1>8 DEF Picks
<1> QED
  BY <1>1, <1>9 DEF kk

(* Kept is an increasing choice of exactly the places whose element is in   *)
(* S.                                                                       *)
LEMMA KeptPicks ==
  ASSUME NEW X, NEW s \in Seq(X), NEW S
  PROVE  Kept(s, S) \in Seq(X) /\ \E h : Picks(h, Kept(s, S), s, S, Len(s))
<1> DEFINE N == Len(s)
<1>1. N \in Nat /\ \A i \in 1 .. N : s[i] \in X
  BY ElementOfSeq, LenProperties
<1>2. PICK g : Keeps(g, s, S, N) /\ Kept(s, S) = g[N]
  BY <1>1, KeptRecursion
<1> DEFINE P == {n \in 0 .. N : g[n] \in Seq(X) /\ \E h : Picks(h, g[n], s, S, n)}
<1>3. 0 \in P
  <2>1. g[0] = <<>>
    BY <1>1, <1>2 DEF Keeps
  <2>2. g[0] \in Seq(X) /\ Len(g[0]) = 0
    BY <2>1, EmptySeq
  <2>3. Picks([j \in 1 .. 0 |-> 0], g[0], s, S, 0)
    BY <2>2 DEF Picks
  <2> QED
    BY <1>1, <2>2, <2>3
<1>4. ASSUME NEW n \in 1 .. N, n - 1 \in P
      PROVE  n \in P
  <2> DEFINE k == g[n - 1]
  <2>1. k \in Seq(X) /\ Len(k) \in Nat
    BY <1>4, LenProperties
  <2>2. PICK h : Picks(h, k, s, S, n - 1)
    BY <1>4
  <2>3. g[n] = IF s[n] \in S THEN Append(k, s[n]) ELSE k
    <3>1. n \in 0 .. N /\ n # 0
      BY <1>1
    <3> QED
      BY <3>1, <1>2 DEF Keeps
  <2> HIDE DEF k
  <2>4. n \in Nat \ {0} /\ s[n] \in X /\ n \in 0 .. N
    BY <1>1
  <2>5. CASE s[n] \notin S
    <3>1. Picks(h, k, s, S, n)
      BY <2>1, <2>2, <2>4, <2>5, PicksNone
    <3> QED
      BY <2>1, <2>3, <2>4, <2>5, <3>1
  <2>6. CASE s[n] \in S
    <3>1. Append(k, s[n]) \in Seq(X) /\ \E hh : Picks(hh, Append(k, s[n]), s, S, n)
      BY <2>1, <2>2, <2>4, <2>6, PicksOneMore
    <3> QED
      BY <2>3, <2>4, <2>6, <3>1
  <2> QED
    BY <2>5, <2>6
<1> HIDE DEF P
<1>5. \A n \in 0 .. N : n \in P
  BY <1>1, <1>3, <1>4, Induction
<1>6. N \in P
  BY <1>1, <1>5
<1> QED
  BY <1>2, <1>6 DEF P

(* Its length counts the elements of s that are in S.                       *)
LEMMA KeptLength ==
  ASSUME NEW X, NEW s \in Seq(X), NEW S
  PROVE  Len(Kept(s, S)) = Cardinality({i \in 1 .. Len(s) : s[i] \in S})
<1> DEFINE k == Kept(s, S)
           I == {i \in 1 .. Len(s) : s[i] \in S}
<1>1. Len(k) \in Nat
  BY KeptPicks, LenProperties
<1>2. PICK h : Picks(h, k, s, S, Len(s))
  BY KeptPicks
<1> HIDE DEF k
<1>3. h \in Bijection(1 .. Len(k), I)
  <2>1. h \in [1 .. Len(k) -> I]
    BY <1>2 DEF Picks
  <2>2. \A i, j \in 1 .. Len(k) : h[i] = h[j] => i = j
    <3>1. \A i \in 1 .. Len(k) : h[i] \in Nat
      BY <1>2, LenProperties DEF Picks
    <3> QED
      BY <1>1, <1>2, <3>1 DEF Picks
  <2>3. \A i \in I : \E j \in 1 .. Len(k) : h[j] = i
    BY <1>2 DEF Picks
  <2> HIDE DEF I
  <2> QED
    BY <2>1, <2>2, <2>3 DEF Bijection, Injection, Surjection, IsInjective
<1> HIDE DEF I
<1>4. ExistsBijection(1 .. Len(k), I)
  BY <1>3 DEF ExistsBijection
<1>5. Cardinality(I) = Len(k)
  BY <1>1, <1>4, FS_CountingElements
<1> QED
  BY <1>5 DEF k, I

(* Sequences by their places and by their elements.                         *)
LEMMA InSeq ==
  ASSUME NEW X, NEW s \in Seq(X)
  PROVE  /\ Len(s) \in Nat /\ DOMAIN s = 1 .. Len(s)
         /\ \A i \in 1 .. Len(s) : s[i] \in X /\ s[i] \in ToSet(s)
         /\ \A x \in ToSet(s) : x \in X /\ \E i \in 1 .. Len(s) : s[i] = x
  BY LenProperties, ElementOfSeq DEF ToSet

(* Its elements are those of s that are in S.                               *)
LEMMA KeptElements ==
  ASSUME NEW X, NEW s \in Seq(X), NEW S
  PROVE  Kept(s, S) \in Seq(X) /\ ToSet(Kept(s, S)) = ToSet(s) \cap S
<1> DEFINE k == Kept(s, S)
<1>1. k \in Seq(X)
  BY KeptPicks
<1>2. PICK h : Picks(h, k, s, S, Len(s))
  BY KeptPicks
<1> HIDE DEF k
<1>3. /\ \A j \in 1 .. Len(k) : h[j] \in 1 .. Len(s) /\ k[j] = s[h[j]] /\ s[h[j]] \in S
      /\ \A i \in 1 .. Len(s) : s[i] \in S => \E j \in 1 .. Len(k) : h[j] = i
  BY <1>2 DEF Picks
<1>4. ASSUME NEW x \in ToSet(k) PROVE x \in ToSet(s) \cap S
  <2>1. PICK j \in 1 .. Len(k) : k[j] = x
    BY <1>1, InSeq
  <2> QED
    BY <1>3, <2>1, InSeq
<1>5. ASSUME NEW x \in ToSet(s) \cap S PROVE x \in ToSet(k)
  <2>1. PICK i \in 1 .. Len(s) : s[i] = x
    BY InSeq
  <2>2. PICK j \in 1 .. Len(k) : h[j] = i
    BY <1>3, <2>1
  <2>3. k[j] = x
    BY <1>3, <2>1, <2>2
  <2> QED
    BY <1>1, <2>3, InSeq
<1> QED
  BY <1>1, <1>4, <1>5 DEF k

(* A page is the beginning of its list, the whole of it if that fits.       *)
LEMMA UptoElements ==
  ASSUME NEW X, NEW s \in Seq(X), NEW n \in Nat
  PROVE  /\ Upto(s, n) \in Seq(X)
         /\ ToSet(Upto(s, n)) \subseteq ToSet(s)
         /\ Len(Upto(s, n)) = IF Len(s) < n THEN Len(s) ELSE n
         /\ \A i \in 1 .. Len(Upto(s, n)) : i \in 1 .. Len(s) /\ Upto(s, n)[i] = s[i]
         /\ Len(s) <= n => Upto(s, n) = s
<1> DEFINE m == IF Len(s) < n THEN Len(s) ELSE n
           t == SubSeq(s, 1, m)
<1>1. Len(s) \in Nat /\ m \in Nat /\ m <= Len(s) /\ m <= n /\ (Len(s) <= n => m = Len(s))
  BY InSeq
<1>2. Upto(s, n) = t
  BY DEF Upto
<1>3. m = IF Len(s) < n THEN Len(s) ELSE n
  OBVIOUS
<1> HIDE DEF m
<1>4. \A i \in 1 .. m : i \in 1 .. Len(s) /\ s[i] \in X
  BY <1>1, InSeq
<1>5. t \in Seq(X) /\ Len(t) = m /\ \A i \in 1 .. m : t[i] = s[i]
  BY <1>1, <1>4, SubSeqProperties
<1> HIDE DEF t
<1>6. ASSUME NEW x \in ToSet(t) PROVE x \in ToSet(s)
  <2>1. PICK i \in 1 .. Len(t) : t[i] = x
    BY <1>5, InSeq
  <2> QED
    BY <1>4, <1>5, <2>1, InSeq
<1>7. m = Len(s) => t = s
  BY <1>5, SeqEqual
<1> QED
  BY <1>1, <1>2, <1>3, <1>4, <1>5, <1>6, <1>7

(* The first element is an element; there is none in an empty list only.    *)
LEMMA FirstElement ==
  ASSUME NEW X, NEW s \in Seq(X)
  PROVE  /\ First(s) \subseteq ToSet(s)
         /\ First(s) = {} <=> ToSet(s) = {}
         /\ First(s) # {} => 1 \in 1 .. Len(s) /\ First(s) = {s[1]}
<1>1. CASE s = <<>>
  <2>1. First(s) = {} /\ Len(s) = 0
    BY <1>1, EmptySeq DEF First
  <2>2. 1 .. Len(s) = {}
    BY <2>1
  <2>3. DOMAIN s = {}
    BY <2>2, InSeq
  <2>4. ToSet(s) = {}
    BY <2>3 DEF ToSet
  <2> QED
    BY <2>1, <2>4
<1>2. CASE s # <<>>
  <2>1. First(s) = {s[1]} /\ Len(s) \in Nat \ {0}
    BY <1>2, EmptySeq DEF First
  <2>2. 1 \in 1 .. Len(s)
    BY <2>1
  <2> QED
    BY <2>1, <2>2, InSeq
<1> QED
  BY <1>1, <1>2

-----------------------------------------------------------------------------
(* The lists of a page: rows of S as sent, newest first                     *)

Tagged(sent, S) == S \subseteq Nat /\ \A n \in S : sent[n].id = n
NewestFirst(list, sent, S) ==
    /\ list \in Seq({sent[n] : n \in S})
    /\ \A i, j \in 1 .. Len(list) : i < j => list[i].id > list[j].id
Whole(list, sent, S) ==
    NewestFirst(list, sent, S) /\ \A n \in S : sent[n] \in ToSet(list)

(* A row of a list is the row of its id, and the first has the largest      *)
(* id.                                                                      *)
LEMMA ListRows ==
  ASSUME NEW sent, NEW S, Tagged(sent, S), NEW list, NewestFirst(list, sent, S)
  PROVE  /\ \A row \in ToSet(list) : row.id \in S /\ row = sent[row.id]
         /\ First(list) # {} =>
               \E row \in ToSet(list) :
                  First(list) = {row} /\ \A other \in ToSet(list) : other.id <= row.id
<1> DEFINE X == {sent[n] : n \in S}
<1>1. list \in Seq(X) /\ \A i, j \in 1 .. Len(list) : i < j => list[i].id > list[j].id
  BY DEF NewestFirst
<1>2. \A row \in X : row.id \in S /\ row = sent[row.id] /\ row.id \in Nat
  BY DEF Tagged
<1> HIDE DEF X
<1>3. \A row \in ToSet(list) : row.id \in S /\ row = sent[row.id]
  BY <1>1, <1>2, InSeq
<1>4. ASSUME First(list) # {}
      PROVE  \E row \in ToSet(list) :
                First(list) = {row} /\ \A other \in ToSet(list) : other.id <= row.id
  <2>1. 1 \in 1 .. Len(list) /\ First(list) = {list[1]}
    BY <1>1, <1>4, FirstElement
  <2>2. ASSUME NEW other \in ToSet(list) PROVE other.id <= list[1].id
    <3>1. PICK i \in 1 .. Len(list) : list[i] = other
      BY <1>1, InSeq
    <3>2. list[1].id \in Nat /\ list[i].id \in Nat
      BY <1>1, <1>2, <2>1, InSeq
    <3> QED
      BY <1>1, <2>1, <3>1, <3>2
  <2> QED
    BY <1>1, <2>1, <2>2, InSeq
<1> QED
  BY <1>3, <1>4

(* A whole list is as long as its set of ids is large.                      *)
LEMMA ListLength ==
  ASSUME NEW sent, NEW S, Tagged(sent, S), NEW list, Whole(list, sent, S)
  PROVE  IsFiniteSet(S) /\ Len(list) = Cardinality(S)
<1> DEFINE X == {sent[n] : n \in S}
           f == [i \in 1 .. Len(list) |-> list[i].id]
<1>1. /\ list \in Seq(X) /\ \A i, j \in 1 .. Len(list) : i < j => list[i].id > list[j].id
      /\ \A n \in S : sent[n] \in ToSet(list)
  BY DEF Whole, NewestFirst
<1>2. /\ \A row \in X : row.id \in S /\ row.id \in Nat
      /\ \A n \in S : sent[n].id = n
  BY DEF Tagged
<1> HIDE DEF X
<1>3. Len(list) \in Nat /\ \A i \in 1 .. Len(list) : list[i].id \in S /\ list[i].id \in Nat
  BY <1>1, <1>2, InSeq
<1>4. \A i, j \in 1 .. Len(list) : list[i].id = list[j].id => i = j
  BY <1>1, <1>3
<1>5. ASSUME NEW n \in S PROVE \E i \in 1 .. Len(list) : f[i] = n
  <2>1. PICK i \in 1 .. Len(list) : list[i] = sent[n]
    BY <1>1, InSeq
  <2> QED
    BY <1>2, <2>1
<1>6. f \in [1 .. Len(list) -> S]
  BY <1>3
<1>7. \A i, j \in 1 .. Len(list) : f[i] = f[j] => i = j
  BY <1>4
<1> HIDE DEF f
<1>8. f \in Bijection(1 .. Len(list), S)
  BY <1>5, <1>6, <1>7 DEF Bijection, Injection, Surjection, IsInjective
<1>9. ExistsBijection(1 .. Len(list), S)
  BY <1>8 DEF ExistsBijection
<1> QED
  BY <1>3, <1>9, FS_CountingElements, FS_NatBijection

(* A filter keeps a list newest first, and whole if it was.                 *)
LEMMA ListFiltered ==
  ASSUME NEW sent, NEW S, Tagged(sent, S), NEW list, NewestFirst(list, sent, S), NEW T
  PROVE  /\ NewestFirst(Kept(list, T), sent, {n \in S : sent[n] \in T})
         /\ Tagged(sent, {n \in S : sent[n] \in T})
         /\ Whole(list, sent, S) => Whole(Kept(list, T), sent, {n \in S : sent[n] \in T})
<1> DEFINE k == Kept(list, T)
           SS == {n \in S : sent[n] \in T}
           X == {sent[n] : n \in S}
           Y == {sent[n] : n \in SS}
<1>1. list \in Seq(X) /\ \A i, j \in 1 .. Len(list) : i < j => list[i].id > list[j].id
  BY DEF NewestFirst
<1>2. k \in Seq(X) /\ ToSet(k) = ToSet(list) \cap T
  BY <1>1, KeptElements
<1>3. PICK h : Picks(h, k, list, T, Len(list))
  BY <1>1, KeptPicks
<1> HIDE DEF k
<1>4. \A i \in 1 .. Len(k) : k[i] \in Y
  <2>1. \A x \in X : x \in T => x \in Y
    OBVIOUS
  <2> QED
    BY <1>2, <2>1, InSeq
<1>5. k \in Seq(Y)
  <2>1. Len(k) \in Nat /\ k = [i \in 1 .. Len(k) |-> k[i]]
    BY <1>2, LenProperties
  <2> HIDE DEF Y
  <2>2. k \in [1 .. Len(k) -> Y]
    BY <1>4, <2>1
  <2> QED
    BY <2>1, <2>2, SeqDef
<1>6. \A i, j \in 1 .. Len(k) : i < j => k[i].id > k[j].id
  BY <1>1, <1>3 DEF Picks
<1>7. NewestFirst(k, sent, SS)
  BY <1>5, <1>6 DEF NewestFirst
<1>8. Whole(list, sent, S) => Whole(k, sent, SS)
  BY <1>2, <1>7 DEF Whole
<1> QED
  BY <1>7, <1>8 DEF k, Tagged

(* The ids of a page, newest first; all of them if the table fits a page.   *)
LEMMA ListedIds ==
  ASSUME NEW X, NEW t \in Seq(X), NEW S \in SUBSET DOMAIN t
  PROVE  /\ S \subseteq Nat
         /\ Listed(t, S) \in Seq(S)
         /\ \A i, j \in 1 .. Len(Listed(t, S)) : i < j => Listed(t, S)[i] > Listed(t, S)[j]
         /\ Len(t) <= PageSize => S \subseteq ToSet(Listed(t, S))
<1> DEFINE N == Len(t)
           ids == NewestIds(t)
           k == Kept(ids, S)
           page == Upto(k, PageSize)
<1>1. N \in Nat /\ S \subseteq 1 .. N /\ PageSize \in Nat
  BY InSeq, ApiAssumption
<1>2. ids \in Seq(1 .. N) /\ Len(ids) = N /\ \A i \in 1 .. N : ids[i] = N + 1 - i
  <2>1. ids = [i \in 1 .. N |-> N + 1 - i]
    BY DEF NewestIds
  <2>2. ids \in [1 .. N -> 1 .. N]
    BY <1>1, <2>1
  <2>3. ids \in Seq(1 .. N)
    BY <1>1, <2>2, SeqDef
  <2>4. Len(ids) = N
    BY <1>1, <2>1, <2>2, <2>3, LenProperties
  <2> QED
    BY <2>1, <2>3, <2>4
<1>3. S \subseteq ToSet(ids)
  <2> SUFFICES ASSUME NEW n \in S PROVE n \in ToSet(ids)
    OBVIOUS
  <2>1. N + 1 - n \in 1 .. N /\ ids[N + 1 - n] = n
    BY <1>1, <1>2
  <2> QED
    BY <1>2, <2>1, InSeq
<1> HIDE DEF ids
<1>4. k \in Seq(1 .. N) /\ ToSet(k) = S
  <2>1. k \in Seq(1 .. N) /\ ToSet(k) = ToSet(ids) \cap S
    BY <1>2, KeptElements
  <2> QED
    BY <1>3, <2>1
<1>5. Len(k) <= N
  <2> DEFINE I == {i \in 1 .. Len(ids) : ids[i] \in S}
  <2>1. Len(k) = Cardinality(I)
    BY <1>2, KeptLength
  <2>2. IsFiniteSet(1 .. N) /\ Cardinality(1 .. N) = N
    <3> HIDE DEF N
    <3>1. Cardinality(1 .. N) = IF 1 > N THEN 0 ELSE N - 1 + 1
      BY <1>1, FS_Interval
    <3> QED
      BY <1>1, <3>1, FS_Interval
  <2>3. I \subseteq 1 .. N
    BY <1>2
  <2> HIDE DEF I
  <2> QED
    BY <2>1, <2>2, <2>3, FS_Subset
<1>6. PICK h : Picks(h, k, ids, S, N)
  BY <1>2, KeptPicks
<1> HIDE DEF k
<1>7. \A i, j \in 1 .. Len(k) : i < j => k[i] > k[j]
  <2> SUFFICES ASSUME NEW i \in 1 .. Len(k), NEW j \in 1 .. Len(k), i < j
               PROVE  k[i] > k[j]
    OBVIOUS
  <2>1. h[i] \in 1 .. N /\ h[j] \in 1 .. N /\ h[i] < h[j] /\ k[i] = ids[h[i]] /\ k[j] = ids[h[j]]
    BY <1>6 DEF Picks
  <2>2. k[i] = N + 1 - h[i] /\ k[j] = N + 1 - h[j]
    BY <1>2, <2>1
  <2> HIDE DEF N
  <2> QED
    BY <1>1, <2>1, <2>2
<1>8. /\ page \in Seq(1 .. N) /\ ToSet(page) \subseteq S
      /\ \A i \in 1 .. Len(page) : i \in 1 .. Len(k) /\ page[i] = k[i]
      /\ Len(k) <= PageSize => page = k
  BY <1>1, <1>4, UptoElements
<1>9. page \in Seq(S)
  <2>1. Len(page) \in Nat /\ page = [i \in 1 .. Len(page) |-> page[i]]
    BY <1>8, LenProperties
  <2>2. page \in [1 .. Len(page) -> S]
    BY <1>8, <2>1, InSeq
  <2> QED
    BY <2>1, <2>2, SeqDef
<1>10. N <= PageSize => S \subseteq ToSet(page)
  <2>1. N <= PageSize => Len(k) <= PageSize
    BY <1>1, <1>4, <1>5, LenProperties
  <2> QED
    BY <1>4, <1>8, <2>1
<1>11. \A i, j \in 1 .. Len(page) : i < j => page[i] > page[j]
  BY <1>7, <1>8
<1> QED
  BY <1>1, <1>9, <1>10, <1>11 DEF Listed, ids, k

(* Rows sent for such ids make a list.                                      *)
LEMMA ListOfIds ==
  ASSUME NEW sent, NEW S, Tagged(sent, S), NEW ids \in Seq(S),
         \A i, j \in 1 .. Len(ids) : i < j => ids[i] > ids[j],
         NEW list, list = [i \in DOMAIN ids |-> sent[ids[i]]]
  PROVE  /\ NewestFirst(list, sent, S)
         /\ S \subseteq ToSet(ids) => Whole(list, sent, S)
<1> DEFINE X == {sent[n] : n \in S}
<1>1. Len(ids) \in Nat /\ DOMAIN ids = 1 .. Len(ids) /\ \A i \in 1 .. Len(ids) : ids[i] \in S
  BY InSeq
<1>2. list \in [1 .. Len(ids) -> X]
  BY <1>1
<1>3. list \in Seq(X)
  BY <1>1, <1>2, SeqDef
<1> HIDE DEF X
<1>4. Len(list) = Len(ids)
  BY <1>1, <1>2, <1>3, LenProperties
<1>5. \A i \in 1 .. Len(list) : list[i] = sent[ids[i]] /\ list[i].id = ids[i]
  BY <1>1, <1>4 DEF Tagged
<1>6. \A i, j \in 1 .. Len(list) : i < j => list[i].id > list[j].id
  BY <1>4, <1>5
<1>7. NewestFirst(list, sent, S)
  BY <1>3, <1>6 DEF NewestFirst, X
<1>8. ASSUME S \subseteq ToSet(ids), NEW n \in S PROVE sent[n] \in ToSet(list)
  <2>1. PICK i \in 1 .. Len(ids) : ids[i] = n
    BY <1>8, InSeq
  <2> QED
    BY <1>3, <1>4, <1>5, <2>1, InSeq
<1> QED
  BY <1>7, <1>8 DEF Whole

(* Rows as sent, and the three lists of a user's page.                      *)
SentDonations == [d \in DOMAIN donation |-> DonationSent(d)]
SentProposals == [p \in DOMAIN proposal |-> ProposalSent(p)]
SentPickups == [k \in DOMAIN pickup |-> PickupSent(k)]

(* The three lists of a user are lists of their rows, whole if they fit.    *)
LEMMA DonationList ==
  ASSUME Typed, NEW u
  PROVE  /\ Tagged(SentDonations, DonationsOf(u))
         /\ NewestFirst(ListDonations(u), SentDonations, DonationsOf(u))
         /\ Len(donation) <= PageSize =>
               Whole(ListDonations(u), SentDonations, DonationsOf(u))
<1> DEFINE S == DonationsOf(u)
           ids == Listed(donation, S)
           list == ListDonations(u)
<1>1. donation \in Seq(DonationRow) /\ S \in SUBSET DOMAIN donation
  BY DEF Typed, DonationsOf
<1>2. /\ S \subseteq Nat /\ ids \in Seq(S)
      /\ \A i, j \in 1 .. Len(ids) : i < j => ids[i] > ids[j]
      /\ Len(donation) <= PageSize => S \subseteq ToSet(ids)
  BY <1>1, ListedIds
<1>3. \A d \in S : SentDonations[d] = DonationSent(d) /\ SentDonations[d].id = d
  BY <1>1 DEF SentDonations, DonationSent
<1>4. Tagged(SentDonations, S)
  BY <1>2, <1>3 DEF Tagged
<1>5. list = [i \in DOMAIN ids |-> DonationSent(ids[i])]
  BY DEF ListDonations
<1> HIDE DEF S, ids, list
<1>6. list = [i \in DOMAIN ids |-> SentDonations[ids[i]]]
  BY <1>2, <1>3, <1>5, InSeq
<1>7. NewestFirst(list, SentDonations, S) /\ (S \subseteq ToSet(ids) => Whole(list, SentDonations, S))
  BY <1>2, <1>4, <1>6, ListOfIds
<1> QED
  BY <1>2, <1>4, <1>7 DEF S, list

LEMMA ProposalList ==
  ASSUME Typed, NEW u
  PROVE  /\ Tagged(SentProposals, ProposalsOf(u))
         /\ NewestFirst(ListProposals(u), SentProposals, ProposalsOf(u))
         /\ Len(proposal) <= PageSize =>
               Whole(ListProposals(u), SentProposals, ProposalsOf(u))
<1> DEFINE S == ProposalsOf(u)
           ids == Listed(proposal, S)
           list == ListProposals(u)
<1>1. proposal \in Seq(ProposalRow) /\ S \in SUBSET DOMAIN proposal
  BY DEF Typed, ProposalsOf
<1>2. /\ S \subseteq Nat /\ ids \in Seq(S)
      /\ \A i, j \in 1 .. Len(ids) : i < j => ids[i] > ids[j]
      /\ Len(proposal) <= PageSize => S \subseteq ToSet(ids)
  BY <1>1, ListedIds
<1>3. \A d \in S : SentProposals[d] = ProposalSent(d) /\ SentProposals[d].id = d
  BY <1>1 DEF SentProposals, ProposalSent
<1>4. Tagged(SentProposals, S)
  BY <1>2, <1>3 DEF Tagged
<1>5. list = [i \in DOMAIN ids |-> ProposalSent(ids[i])]
  BY DEF ListProposals
<1> HIDE DEF S, ids, list
<1>6. list = [i \in DOMAIN ids |-> SentProposals[ids[i]]]
  BY <1>2, <1>3, <1>5, InSeq
<1>7. NewestFirst(list, SentProposals, S) /\ (S \subseteq ToSet(ids) => Whole(list, SentProposals, S))
  BY <1>2, <1>4, <1>6, ListOfIds
<1> QED
  BY <1>2, <1>4, <1>7 DEF S, list

LEMMA PickupList ==
  ASSUME Typed, NEW u
  PROVE  /\ Tagged(SentPickups, PickupsOf(u))
         /\ NewestFirst(ListPickups(u), SentPickups, PickupsOf(u))
         /\ Len(pickup) <= PageSize =>
               Whole(ListPickups(u), SentPickups, PickupsOf(u))
<1> DEFINE S == PickupsOf(u)
           ids == Listed(pickup, S)
           list == ListPickups(u)
<1>1. pickup \in Seq(PickupRow) /\ S \in SUBSET DOMAIN pickup
  BY DEF Typed, PickupsOf
<1>2. /\ S \subseteq Nat /\ ids \in Seq(S)
      /\ \A i, j \in 1 .. Len(ids) : i < j => ids[i] > ids[j]
      /\ Len(pickup) <= PageSize => S \subseteq ToSet(ids)
  BY <1>1, ListedIds
<1>3. \A d \in S : SentPickups[d] = PickupSent(d) /\ SentPickups[d].id = d
  BY <1>1 DEF SentPickups, PickupSent
<1>4. Tagged(SentPickups, S)
  BY <1>2, <1>3 DEF Tagged
<1>5. list = [i \in DOMAIN ids |-> PickupSent(ids[i])]
  BY DEF ListPickups
<1> HIDE DEF S, ids, list
<1>6. list = [i \in DOMAIN ids |-> SentPickups[ids[i]]]
  BY <1>2, <1>3, <1>5, InSeq
<1>7. NewestFirst(list, SentPickups, S) /\ (S \subseteq ToSet(ids) => Whole(list, SentPickups, S))
  BY <1>2, <1>4, <1>6, ListOfIds
<1> QED
  BY <1>2, <1>4, <1>7 DEF S, list

(* Receivers are listed in some order; the page is empty only without       *)
(* any.                                                                     *)
LEMMA ReceiverList ==
  /\ SetToSeq(Receivers) \in Seq(Receivers) /\ ToSet(SetToSeq(Receivers)) = Receivers
  /\ ListReceivers \in Seq(Receivers)
  /\ Receivers # {} => ToSet(ListReceivers) # {}
<1> DEFINE n == Cardinality(Receivers)
           s == SetToSeq(Receivers)
<1>1. IsFiniteSet(Receivers)
  <2>1. Receivers \subseteq Users
    BY DEF Users
  <2> QED
    BY <2>1, RolesAssumption, FS_Subset
<1>2. n \in Nat /\ ExistsBijection(1 .. n, Receivers)
  BY <1>1, FS_CardinalityType
<1>3. \E f \in [1 .. n -> Receivers] : IsInjective(f)
  BY <1>2 DEF ExistsBijection, Bijection, Injection
<1>4. s \in [1 .. n -> Receivers] /\ IsInjective(s)
  BY <1>3 DEF SetToSeq
<1>5. s \in Seq(Receivers)
  BY <1>2, <1>4, SeqDef
<1>6. ToSet(s) = Receivers
  <2>1. s \in Injection(1 .. n, Receivers)
    BY <1>4 DEF Injection, IsInjective
  <2>2. IsFiniteSet(1 .. n) /\ Cardinality(1 .. n) = n
    <3>1. n \in Int /\ 1 \in Int /\ (IF 1 > n THEN 0 ELSE n - 1 + 1) = n
      BY <1>2
    <3> HIDE DEF n
    <3> QED
      BY <3>1, FS_Interval
  <2>3. s \in Surjection(1 .. n, Receivers)
    BY <1>1, <2>1, <2>2, FS_Injection
  <2>4. DOMAIN s = 1 .. n /\ \A r \in Receivers : \E i \in 1 .. n : s[i] = r
    BY <2>3 DEF Surjection
  <2> QED
    BY <1>4, <2>4 DEF ToSet
<1>7. /\ ListReceivers \in Seq(Receivers)
      /\ Len(ListReceivers) = IF Len(s) < PageSize THEN Len(s) ELSE PageSize
  BY <1>5, UptoElements, ApiAssumption DEF ListReceivers
<1>8. ASSUME Receivers # {} PROVE ToSet(ListReceivers) # {}
  <2>1. Len(s) \in Nat /\ Len(s) # 0
    <3>1. PICK r \in ToSet(s) : TRUE
      BY <1>6, <1>8
    <3>2. PICK i \in 1 .. Len(s) : s[i] = r
      BY <1>5, <3>1, InSeq
    <3> QED
      BY <1>5, <3>2, InSeq
  <2>2. 1 \in 1 .. Len(ListReceivers)
    BY <1>7, <2>1, ApiAssumption
  <2> QED
    BY <1>7, <2>2, InSeq
<1> QED
  BY <1>5, <1>6, <1>7, <1>8

-----------------------------------------------------------------------------
(* What is on a page                                                        *)

IsList(s) == s \in Seq(ToSet(s))

(* A sequence is one of its own elements.                                   *)
LEMMA ListsAre ==
  ASSUME NEW X, NEW s \in Seq(X)
  PROVE  IsList(s)
<1>1. Len(s) \in Nat /\ s \in [1 .. Len(s) -> ToSet(s)]
  BY LenProperties, InSeq
<1> QED
  BY <1>1, SeqDef DEF IsList

(* Every row on a page is a row of the table that the user may see.         *)
LEMMA PageRows ==
  ASSUME Typed, NEW u \in Users
  PROVE  LET page == PageOf(u) IN
         /\ IsList(page.donations) /\ IsList(page.proposals)
         /\ IsList(page.pickups) /\ IsList(page.receivers)
         /\ \A row \in ToSet(page.donations) :
               row.id \in DonationsOf(u) /\ row = DonationSent(row.id)
         /\ \A row \in ToSet(page.proposals) :
               row.id \in ProposalsOf(u) /\ row = ProposalSent(row.id)
         /\ \A row \in ToSet(page.pickups) :
               row.id \in PickupsOf(u) /\ row = PickupSent(row.id)
         /\ ToSet(page.receivers) \subseteq Receivers
         /\ u \in Volunteers => page.receivers = ListReceivers
         /\ page.notifications = inbox[u]
<1> DEFINE page == PageOf(u)
<1>1. /\ page.donations = ListDonations(u) /\ page.proposals = ListProposals(u)
      /\ page.pickups = ListPickups(u) /\ page.notifications = inbox[u]
      /\ page.receivers = IF u \in Volunteers THEN ListReceivers ELSE <<>>
  BY DEF PageOf
<1>2. page.receivers \in Seq(Receivers)
  BY <1>1, ReceiverList, EmptySeq
<1> HIDE DEF page
<1>3. IsList(page.donations) /\ IsList(page.proposals) /\ IsList(page.pickups)
  BY <1>1, DonationList, ProposalList, PickupList, ListsAre DEF NewestFirst
<1>4. \A row \in ToSet(page.donations) : row.id \in DonationsOf(u) /\ row = DonationSent(row.id)
  <2>1. \A row \in ToSet(page.donations) : row.id \in DonationsOf(u) /\ row = SentDonations[row.id]
    BY <1>1, DonationList, ListRows
  <2> QED
    BY <2>1 DEF SentDonations, DonationsOf
<1>5. \A row \in ToSet(page.proposals) : row.id \in ProposalsOf(u) /\ row = ProposalSent(row.id)
  <2>1. \A row \in ToSet(page.proposals) : row.id \in ProposalsOf(u) /\ row = SentProposals[row.id]
    BY <1>1, ProposalList, ListRows
  <2> QED
    BY <2>1 DEF SentProposals, ProposalsOf
<1>6. \A row \in ToSet(page.pickups) : row.id \in PickupsOf(u) /\ row = PickupSent(row.id)
  <2>1. \A row \in ToSet(page.pickups) : row.id \in PickupsOf(u) /\ row = SentPickups[row.id]
    BY <1>1, PickupList, ListRows
  <2> QED
    BY <2>1 DEF SentPickups, PickupsOf
<1>7. IsList(page.receivers) /\ ToSet(page.receivers) \subseteq Receivers
  BY <1>2, ListsAre, InSeq
<1> QED
  BY <1>1, <1>3, <1>4, <1>5, <1>6, <1>7 DEF page

(* Filters and choices on a page yield rows of it.                          *)
LEMMA StatusRows ==
  ASSUME NEW s, IsList(s), NEW statuses
  PROVE  /\ IsList(WithStatus(s, statuses))
         /\ ToSet(WithStatus(s, statuses)) = {row \in ToSet(s) : row.status \in statuses}
<1> DEFINE T == {row \in ToSet(s) : row.status \in statuses}
<1>1. WithStatus(s, statuses) = Kept(s, T)
  BY DEF WithStatus
<1>2. T \subseteq ToSet(s)
  OBVIOUS
<1> HIDE DEF T
<1>3. Kept(s, T) \in Seq(ToSet(s)) /\ ToSet(Kept(s, T)) = ToSet(s) \cap T
  BY KeptElements DEF IsList
<1> QED
  BY <1>1, <1>2, <1>3, ListsAre DEF T

LEMMA FoundRows ==
  ASSUME NEW s, IsList(s), NEW S
  PROVE  /\ Find(s, S) \subseteq ToSet(s) \cap S
         /\ Find(s, S) = {} <=> ToSet(s) \cap S = {}
         /\ \A x, y \in Find(s, S) : x = y
<1>1. Kept(s, S) \in Seq(ToSet(s)) /\ ToSet(Kept(s, S)) = ToSet(s) \cap S
  BY KeptElements DEF IsList
<1>2. /\ First(Kept(s, S)) \subseteq ToSet(Kept(s, S))
      /\ First(Kept(s, S)) = {} <=> ToSet(Kept(s, S)) = {}
  BY <1>1, FirstElement
<1> QED
  BY <1>1, <1>2 DEF Find, First

LEMMA FirstRows ==
  ASSUME NEW s, IsList(s)
  PROVE  /\ First(s) \subseteq ToSet(s)
         /\ First(s) = {} <=> ToSet(s) = {}
         /\ \A x, y \in First(s) : x = y
  BY FirstElement DEF IsList, First

-----------------------------------------------------------------------------
(* Offers the API accepts                                                   *)

(* A notification shown exists.                                             *)
LEMMA ReadsAccepted ==
  ASSUME Typed, NEW u \in Users, NEW ask \in ReadOffers(u, PageOf(u))
  PROVE  AcceptedByApi(u, ask)
<1>1. PageOf(u).notifications = inbox[u]
  BY PageRows
<1> DEFINE page == PageOf(u)
           listed == DOMAIN page.notifications
                     \cup UNION {NotificationRows(u, page, f) : f \in {"all", "unread"}}
<1>2. listed \subseteq DOMAIN page.notifications
  BY DEF NotificationRows
<1>3. \E i \in listed : ask = [call |-> "read", on |-> i, to |-> {}]
  BY DEF ReadOffers
<1> HIDE DEF page, listed
<1>4. ask.call = "read" /\ ask.on \in DOMAIN inbox[u]
  BY <1>1, <1>2, <1>3 DEF page
<1> QED
  BY <1>4 DEF AcceptedByApi

(* The donor's queue: Accept while the proposal pends, Reject always.       *)
LEMMA QueueAccepted ==
  ASSUME Typed, NEW u \in Donors, NEW ask \in QueueOffers(PageOf(u))
  PROVE  AcceptedByApi(u, ask) \/ SettledReject(u, ask)
<1> DEFINE page == PageOf(u)
<1>1. u \in Users /\ u \notin Receivers /\ u \notin Volunteers
  BY RolesAssumption DEF Users
<1>2. \A row \in ToSet(page.proposals) : row.id \in ProposalsOf(u) /\ row = ProposalSent(row.id)
  BY <1>1, PageRows
<1> HIDE DEF page
<1>3. PICK row \in ToSet(page.proposals) :
         /\ ask.on = row.id
         /\ \/ ask.call = "reject"
            \/ ask.call = "accept" /\ row.status = "pending"
  BY DEF QueueOffers, Ask, Ids, Now, page
<1>4. row.status = proposal[row.id].status /\ row.id \in DOMAIN proposal
  BY <1>2, <1>3 DEF ProposalSent, ProposalsOf
<1>5. u = DonorOf(row.id)
  <2>1. proposal[row.id] \in ProposalRow
    BY <1>4, InSeq DEF Typed
  <2>2. u # proposal[row.id].receiver /\ u # proposal[row.id].volunteer
    BY <1>1, <2>1 DEF ProposalRow
  <2> QED
    BY <1>2, <1>3, <2>2 DEF ProposalsOf
<1>6. CASE row.status = "pending"
  <2>1. Decidable(u, ask.on)
    BY <1>3, <1>4, <1>5, <1>6 DEF Decidable
  <2> QED
    BY <1>3, <2>1 DEF AcceptedByApi
<1>7. CASE row.status # "pending"
  BY <1>3, <1>4, <1>7 DEF SettledReject
<1> QED
  BY <1>6, <1>7

(* The volunteer's donations and receivers after filter and search.         *)
LEMMA FilteredRows ==
  ASSUME NEW page, IsList(page.donations), IsList(page.receivers), NEW c
  PROVE  /\ IsList(FilteredDonations(page, c)) /\ IsList(AvailableDonations(page, c))
         /\ IsList(FilteredReceivers(page, c))
         /\ ToSet(FilteredDonations(page, c)) =
               {d \in ToSet(page.donations) :
                   d.status \in FilterStatuses(c.filter) /\ d.id \in c.found}
         /\ ToSet(AvailableDonations(page, c)) =
               {d \in ToSet(FilteredDonations(page, c)) : d.status = "available"}
         /\ ToSet(FilteredReceivers(page, c)) = ToSet(page.receivers) \cap c.found
<1> DEFINE shown == WithStatus(page.donations, FilterStatuses(c.filter))
           T == {d \in ToSet(page.donations) : d.id \in c.found}
           filtered == FilteredDonations(page, c)
<1>1. /\ IsList(shown)
      /\ ToSet(shown) = {d \in ToSet(page.donations) : d.status \in FilterStatuses(c.filter)}
  BY StatusRows
<1>2. filtered = Kept(shown, T)
  BY DEF FilteredDonations
<1>3. ToSet(shown) \cap T =
         {d \in ToSet(page.donations) : d.status \in FilterStatuses(c.filter) /\ d.id \in c.found}
  BY <1>1
<1> HIDE DEF shown, T
<1>4. filtered \in Seq(ToSet(shown)) /\ ToSet(filtered) = ToSet(shown) \cap T
  BY <1>1, <1>2, KeptElements DEF IsList
<1>5. IsList(filtered)
  BY <1>4, ListsAre
<1> HIDE DEF filtered
<1>6. /\ IsList(WithStatus(filtered, {"available"}))
      /\ ToSet(WithStatus(filtered, {"available"})) =
            {d \in ToSet(filtered) : d.status \in {"available"}}
  BY <1>5, StatusRows
<1>7. /\ FilteredReceivers(page, c) \in Seq(ToSet(page.receivers))
      /\ ToSet(FilteredReceivers(page, c)) = ToSet(page.receivers) \cap c.found
  BY KeptElements DEF IsList, FilteredReceivers
<1> QED
  BY <1>3, <1>4, <1>5, <1>6, <1>7, ListsAre DEF AvailableDonations, filtered

LEMMA ChosenRows ==
  ASSUME NEW page, IsList(page.donations), IsList(page.receivers), NEW c
  PROVE  /\ ChosenDonation(page, c) \subseteq ToSet(AvailableDonations(page, c))
         /\ ChosenReceiver(page, c) \subseteq ToSet(page.receivers)
<1>1. /\ IsList(AvailableDonations(page, c)) /\ IsList(FilteredReceivers(page, c))
      /\ ToSet(FilteredReceivers(page, c)) \subseteq ToSet(page.receivers)
  BY FilteredRows
<1> QED
  BY <1>1, FoundRows, FirstRows DEF ChosenDonation, ChosenReceiver, OrElse

(* What is proposed is available: it is chosen among the available rows.    *)
LEMMA ProposeAccepted ==
  ASSUME Typed, NEW u \in Volunteers, NEW c, NEW ask \in CreateOffers(PageOf(u), c)
  PROVE  AcceptedByApi(u, ask)
<1> DEFINE page == PageOf(u)
<1>1. u \in Users
  BY DEF Users
<1>2. /\ IsList(page.donations) /\ IsList(page.receivers)
      /\ \A row \in ToSet(page.donations) :
            row.id \in DonationsOf(u) /\ row = DonationSent(row.id)
      /\ ToSet(page.receivers) \subseteq Receivers
  BY <1>1, PageRows
<1> HIDE DEF page
<1>3. PICK d \in ChosenDonation(page, c), r \in ChosenReceiver(page, c) :
         ask = [call |-> "propose", on |-> d.id, to |-> {r}]
  BY DEF CreateOffers, page
<1>4. d \in ToSet(page.donations) /\ d.status = "available" /\ r \in Receivers
  BY <1>2, <1>3, ChosenRows, FilteredRows
<1>5. donation[d.id].status = "available"
  BY <1>2, <1>4 DEF DonationSent
<1>6. Proposable(u, d.id, r)
  BY <1>4, <1>5 DEF Proposable
<1> QED
  BY <1>3, <1>6 DEF AcceptedByApi

LEMMA ActiveRow ==
  ASSUME NEW page, IsList(page.pickups)
  PROVE  /\ ActivePickup(page) \subseteq {k \in ToSet(page.pickups) : k.status \in UnderWay}
         /\ ReceiverPickup(page) \subseteq ToSet(page.pickups)
<1>1. /\ IsList(WithStatus(page.pickups, UnderWay))
      /\ ToSet(WithStatus(page.pickups, UnderWay)) =
            {row \in ToSet(page.pickups) : row.status \in UnderWay}
  BY StatusRows
<1>2. ActivePickup(page) \subseteq {k \in ToSet(page.pickups) : k.status \in UnderWay}
  BY <1>1, FirstRows DEF ActivePickup
<1> QED
  BY <1>2, FirstRows DEF ReceiverPickup, OrElse

(* A pickup on a page carries out a proposal that names the user.           *)
LEMMA PickupOnPage ==
  ASSUME Typed, NEW u \in Users, NEW k \in ToSet(PageOf(u).pickups)
  PROVE  /\ k.id \in DOMAIN pickup /\ k = PickupSent(k.id)
         /\ u \in Volunteers => u = OfPickup(k.id).volunteer
         /\ u \in Receivers => u = OfPickup(k.id).receiver
<1>1. k.id \in PickupsOf(u) /\ k = PickupSent(k.id)
  BY PageRows
<1>2. k.id \in DOMAIN pickup /\ pickup[k.id].proposal \in ProposalsOf(u)
  BY <1>1 DEF PickupsOf
<1> DEFINE p == pickup[k.id].proposal
<1>3. p \in DOMAIN proposal /\ u \in {DonorOf(p), proposal[p].receiver, proposal[p].volunteer}
  BY <1>2 DEF ProposalsOf
<1>4. /\ DonorOf(p) \in Donors /\ proposal[p].receiver \in Receivers
      /\ proposal[p].volunteer \in Volunteers
  <2>1. proposal[p] \in ProposalRow /\ proposal[p].donation \in DOMAIN donation
    BY <1>3, InSeq DEF Typed
  <2>2. donation[proposal[p].donation] \in DonationRow
    BY <2>1, InSeq DEF Typed
  <2> QED
    BY <2>1, <2>2 DEF ProposalRow, DonationRow, DonorOf
<1> QED
  BY <1>1, <1>2, <1>3, <1>4, RolesAssumption DEF OfPickup

LEMMA PickupAccepted ==
  ASSUME Typed, NEW u \in Volunteers, NEW ask \in PickupOffers(PageOf(u))
  PROVE  AcceptedByApi(u, ask)
<1> DEFINE page == PageOf(u)
<1>1. u \in Users /\ IsList(page.pickups)
  BY PageRows DEF Users
<1> HIDE DEF page
<1>2. PICK k \in ActivePickup(page) :
         /\ ask.on = k.id
         /\ \/ ask.call = "pick_up" /\ k.status = "assigned"
            \/ ask.call = "deliver" /\ k.status = "picked_up"
  BY DEF PickupOffers, Ask, Ids, Now, page
<1>3. k \in ToSet(page.pickups)
  BY <1>1, <1>2, ActiveRow
<1>4. u = OfPickup(k.id).volunteer /\ k.status = pickup[k.id].status
  BY <1>1, <1>3, PickupOnPage DEF page, PickupSent
<1> QED
  BY <1>2, <1>4 DEF AcceptedByApi, Collectable, Deliverable

LEMMA ConfirmAccepted ==
  ASSUME Typed, NEW u \in Receivers, NEW ask \in ConfirmOffers(PageOf(u))
  PROVE  AcceptedByApi(u, ask)
<1> DEFINE page == PageOf(u)
<1>1. u \in Users /\ IsList(page.pickups)
  BY PageRows DEF Users
<1> HIDE DEF page
<1>2. PICK k \in ReceiverPickup(page) :
         ask.on = k.id /\ ask.call = "deliver" /\ k.status = "picked_up"
  BY DEF ConfirmOffers, Ask, Ids, Now, page
<1>3. k \in ToSet(page.pickups)
  BY <1>1, <1>2, ActiveRow
<1>4. u = OfPickup(k.id).receiver /\ k.status = pickup[k.id].status
  BY <1>1, <1>3, PickupOnPage DEF page, PickupSent
<1> QED
  BY <1>2, <1>4 DEF AcceptedByApi, Deliverable

(* The receiver's buttons are there only while the proposal pends.          *)
LEMMA CardAccepted ==
  ASSUME Typed, NEW u \in Receivers, NEW row \in ToSet(PageOf(u).proposals),
         NEW ask \in CardOffers(row) \cup PhoneCardOffers(row)
  PROVE  AcceptedByApi(u, ask)
<1>1. u \in Users /\ u \notin Donors /\ u \notin Volunteers
  BY RolesAssumption DEF Users
<1>2. row.id \in ProposalsOf(u) /\ row = ProposalSent(row.id)
  BY <1>1, PageRows
<1>3. /\ row.id \in DOMAIN proposal /\ row.status = proposal[row.id].status
      /\ u \in {DonorOf(row.id), proposal[row.id].receiver, proposal[row.id].volunteer}
  BY <1>2 DEF ProposalsOf, ProposalSent
<1>4. proposal[row.id].status \in {"pending", "accepted", "rejected"}
  <2>1. proposal[row.id] \in ProposalRow
    BY <1>3, InSeq DEF Typed
  <2> QED
    BY <2>1 DEF ProposalRow
<1>5. u = proposal[row.id].receiver
  <2>1. proposal[row.id] \in ProposalRow /\ proposal[row.id].donation \in DOMAIN donation
    BY <1>3, InSeq DEF Typed
  <2>2. donation[proposal[row.id].donation] \in DonationRow
    BY <2>1, InSeq DEF Typed
  <2> QED
    BY <1>1, <1>3, <2>1, <2>2 DEF ProposalRow, DonationRow, DonorOf
<1>6. ask.on = row.id /\ ask.call \in {"accept", "reject"} /\ row.status = "pending"
  BY <1>3, <1>4 DEF CardOffers, PhoneCardOffers, Ask, Ids
<1> QED
  BY <1>3, <1>5, <1>6 DEF AcceptedByApi, Decidable

LEMMA CardOnPage ==
  ASSUME NEW page, IsList(page.proposals), NEW selected
  PROVE  ActiveProposal(page, selected) \subseteq ToSet(page.proposals)
<1> DEFINE pending == WithStatus(page.proposals, {"pending"})
<1>1. IsList(pending) /\ ToSet(pending) \subseteq ToSet(page.proposals)
  BY StatusRows
<1>2. /\ \A S : Find(page.proposals, S) \subseteq ToSet(page.proposals)
      /\ First(page.proposals) \subseteq ToSet(page.proposals)
  BY FoundRows, FirstRows
<1> HIDE DEF pending
<1>3. /\ \A S : Find(pending, S) \subseteq ToSet(page.proposals)
      /\ First(pending) \subseteq ToSet(page.proposals)
  BY <1>1, FoundRows, FirstRows
<1> QED
  BY <1>2, <1>3 DEF ActiveProposal, OrElse, pending

LEMMA OffersAccepted ==
  ASSUME Typed, NEW u \in Users,
         NEW ask \in DeskOffers(u, PageOf(u)) \cup PhoneOffers(u, PageOf(u))
  PROVE  AcceptedByApi(u, ask) \/ SettledReject(u, ask)
<1> DEFINE page == PageOf(u)
<1> SUFFICES ASSUME ask \notin ReadOffers(u, page)
             PROVE  AcceptedByApi(u, ask) \/ SettledReject(u, ask)
  BY ReadsAccepted
<1>1. CASE u \in Donors
  <2>1. u \notin Receivers /\ u \notin Volunteers
    BY <1>1, RolesAssumption
  <2> HIDE DEF page
  <2>2. ask \in QueueOffers(page)
    BY <1>1, <2>1 DEF DeskOffers, PhoneOffers, page
  <2> QED
    BY <1>1, <2>2, QueueAccepted DEF page
<1>2. CASE u \in Volunteers
  <2>1. u \notin Receivers /\ u \notin Donors
    BY <1>2, RolesAssumption
  <2> HIDE DEF page
  <2>2. ask \in VolunteerOffers(page) \cup PhoneVolunteerOffers(page)
    BY <1>2, <2>1 DEF DeskOffers, PhoneOffers, page
  <2>3. ask \in PickupOffers(page) \/ \E c : ask \in CreateOffers(page, c)
    <3>1. ASSUME NEW C, ask \in UNION {CreateOffers(page, c) : c \in C}
          PROVE  \E c : ask \in CreateOffers(page, c)
      BY <3>1
    <3> QED
      BY <2>2, <3>1 DEF VolunteerOffers, PhoneVolunteerOffers
  <2> QED
    BY <1>2, <2>3, PickupAccepted, ProposeAccepted DEF page
<1>3. CASE u \in Receivers
  <2>1. u \notin Volunteers /\ u \notin Donors
    BY <1>3, RolesAssumption
  <2>2. IsList(page.proposals)
    BY PageRows
  <2> HIDE DEF page
  <2>3. ask \in ReceiverOffers(page) \cup PhoneReceiverOffers(page)
    BY <1>3, <2>1 DEF DeskOffers, PhoneOffers, page
  <2>4. \/ ask \in ConfirmOffers(page)
        \/ \E row \in ToSet(page.proposals) : ask \in CardOffers(row) \cup PhoneCardOffers(row)
    <3>1. CASE ask \in ConfirmOffers(page)
      BY <3>1
    <3>2. CASE ask \in PhoneReceiverOffers(page) /\ ask \notin ConfirmOffers(page)
      <4>1. PICK row \in ActiveProposal(page, 0) : ask \in PhoneCardOffers(row)
        BY <3>2 DEF PhoneReceiverOffers
      <4> QED
        BY <2>2, <4>1, CardOnPage
    <3>3. CASE ask \in ReceiverOffers(page) /\ ask \notin ConfirmOffers(page)
      <4> DEFINE ids == {0} \cup InboxIds(page)
      <4>1. ask \in UNION {CardOffers(row) : row \in UNION {ActiveProposal(page, s) : s \in ids}}
        BY <3>3 DEF ReceiverOffers
      <4> HIDE DEF ids
      <4>2. PICK row \in UNION {ActiveProposal(page, s) : s \in ids} : ask \in CardOffers(row)
        BY <4>1
      <4>3. PICK s \in ids : row \in ActiveProposal(page, s)
        BY <4>2
      <4> QED
        BY <2>2, <4>2, <4>3, CardOnPage
    <3> QED
      BY <2>3, <3>1, <3>2, <3>3
  <2> QED
    BY <1>3, <2>4, ConfirmAccepted, CardAccepted DEF page
<1> QED
  BY <1>1, <1>2, <1>3 DEF Users

(* A button of a page that is up to date is not refused, whatever the lists *)
(* leave out; only the donor's queue keeps Reject on settled proposals.     *)
THEOREM FreshNotRefused == Spec => []FreshOffersAccepted
<1>1. ApiInv => FreshOffersAccepted
  BY OffersAccepted DEF ApiInv, FreshOffersAccepted
<1> QED
  BY <1>1, ApiInductive, PTL

-----------------------------------------------------------------------------
(* Nothing is left without what its status stands for                       *)

(* A donation that is not available has a live proposal, and an accepted    *)
(* proposal has its pickup. ApiInv says the converse.                       *)
Held ==
    /\ \A d \in DOMAIN donation :
          donation[d].status # "available" =>
             \E p \in DOMAIN proposal : Live(p) /\ proposal[p].donation = d
    /\ \A p \in DOMAIN proposal :
          proposal[p].status = "accepted" => \E k \in DOMAIN pickup : pickup[k].proposal = p

(* Held outlives changes that keep proposals live and pickups in place.     *)
LEMMA HeldByChange ==
  ASSUME Held,
         \A p \in DOMAIN proposal :
            /\ p \in DOMAIN proposal' /\ proposal'[p].donation = proposal[p].donation
            /\ Live(p) => Live(p)'
            /\ proposal'[p].status = "accepted" => proposal[p].status = "accepted",
         \A p \in DOMAIN proposal' \ DOMAIN proposal : proposal'[p].status # "accepted",
         \A d \in DOMAIN donation' :
            \/ donation'[d].status = "available"
            \/ d \in DOMAIN donation /\ donation[d].status # "available"
            \/ \E p \in DOMAIN proposal' : Live(p)' /\ proposal'[p].donation = d,
         \A k \in DOMAIN pickup : k \in DOMAIN pickup' /\ pickup'[k].proposal = pickup[k].proposal
  PROVE  Held'
<1>1. ASSUME NEW d \in DOMAIN donation', donation'[d].status # "available"
      PROVE  \E p \in DOMAIN proposal' : Live(p)' /\ proposal'[p].donation = d
  <2> SUFFICES ASSUME d \in DOMAIN donation, donation[d].status # "available"
               PROVE  \E p \in DOMAIN proposal' : Live(p)' /\ proposal'[p].donation = d
    BY <1>1
  <2>1. PICK p \in DOMAIN proposal : Live(p) /\ proposal[p].donation = d
    BY DEF Held
  <2> QED
    BY <2>1
<1>2. ASSUME NEW p \in DOMAIN proposal', proposal'[p].status = "accepted"
      PROVE  \E k \in DOMAIN pickup' : pickup'[k].proposal = p
  <2>1. p \in DOMAIN proposal /\ proposal[p].status = "accepted"
    BY <1>2
  <2>2. PICK k \in DOMAIN pickup : pickup[k].proposal = p
    BY <2>1 DEF Held
  <2> QED
    BY <2>2
<1> QED
  BY <1>1, <1>2 DEF Held

(* It outlives every kind of table step.                                    *)
LEMMA HeldByMove ==
  ASSUME ApiInv, Held, TablesMove
  PROVE  Held'
<1> USE DEF Live
<1>1. CASE UNCHANGED <<donation, proposal, pickup>>
  BY <1>1 DEF Held
<1>2. ASSUME NEW d, NEW row, Listing(d, row) PROVE Held'
  BY <1>2, HeldByChange DEF Listing, DonationNew
<1>3. ASSUME NEW d, NEW p, NEW row, Proposing(d, p, row) PROVE Held'
  <2>1. \A e \in DOMAIN donation' :
           \/ e \in DOMAIN donation /\ (donation[e].status # "available" \/ donation'[e].status = "available")
           \/ e = d
    BY <1>3 DEF Proposing, DonationAt
  <2>2. p \in DOMAIN proposal' /\ proposal'[p].donation = d /\ Live(p)'
    BY <1>3 DEF Proposing, ProposalNew
  <2> QED
    BY <1>3, <2>1, <2>2, HeldByChange DEF Proposing, ProposalNew
<1>4. ASSUME NEW p, NEW row, NEW side \in {"donor", "receiver"}, Agreeing(p, row, side)
      PROVE  Held'
  <2>1. row.status = "pending" /\ row.donation = proposal[p].donation
    <3>1. proposal[p] \in ProposalRow
      BY <1>4, RowsOfTables DEF ApiInv, Agreeing, ProposalAt
    <3> QED
      BY <1>4, <3>1 DEF Agreeing, Sided, ProposalRow
  <2> QED
    BY <1>4, <2>1, HeldByChange DEF Agreeing, ProposalAt
<1>5. ASSUME NEW p, NEW row, NEW k, NEW task, NEW side \in {"donor", "receiver"},
             Assigning(p, row, side, k, task)
      PROVE  Held'
  <2> DEFINE d == proposal[p].donation
  <2>1. /\ p \in DOMAIN proposal /\ DOMAIN proposal' = DOMAIN proposal
        /\ proposal'[p].status = "accepted" /\ proposal'[p].donation = d
        /\ \A q \in DOMAIN proposal : q # p => proposal'[q] = proposal[q]
    <3>1. p \in DOMAIN proposal /\ proposal[p] \in ProposalRow
      BY <1>5, RowsOfTables DEF ApiInv, Assigning, ProposalAt
    <3> QED
      BY <1>5, <3>1 DEF Assigning, ProposalAt, Sided, ProposalRow
  <2>2. /\ DOMAIN donation' = DOMAIN donation
        /\ \A e \in DOMAIN donation : e # d => donation'[e] = donation[e]
    BY <1>5 DEF Assigning, DonationAt
  <2>3. /\ k \in DOMAIN pickup' /\ pickup'[k].proposal = p
        /\ \A l \in DOMAIN pickup : l \in DOMAIN pickup' /\ pickup'[l] = pickup[l]
    BY <1>5 DEF Assigning, PickupNew
  <2> HIDE DEF d
  <2>4. ASSUME NEW e \in DOMAIN donation', donation'[e].status # "available"
        PROVE  \E q \in DOMAIN proposal' : Live(q)' /\ proposal'[q].donation = e
    <3>1. CASE e = d
      BY <2>1, <3>1
    <3>2. CASE e # d
      <4>1. PICK q \in DOMAIN proposal : Live(q) /\ proposal[q].donation = e
        BY <2>2, <2>4, <3>2 DEF Held
      <4> QED
        BY <2>1, <3>2, <4>1 DEF d
    <3> QED
      BY <3>1, <3>2
  <2>5. ASSUME NEW q \in DOMAIN proposal', proposal'[q].status = "accepted"
        PROVE  \E l \in DOMAIN pickup' : pickup'[l].proposal = q
    <3>1. CASE q = p
      BY <2>3, <3>1
    <3>2. CASE q # p
      <4>1. PICK l \in DOMAIN pickup : pickup[l].proposal = q
        BY <2>1, <2>5, <3>2 DEF Held
      <4> QED
        BY <2>3, <4>1
    <3> QED
      BY <3>1, <3>2
  <2> QED
    BY <2>4, <2>5 DEF Held
<1>6. ASSUME NEW p, NEW row, Declining(p, row) PROVE Held'
  <2> DEFINE d == proposal[p].donation
  <2>1. /\ p \in DOMAIN proposal /\ DOMAIN proposal' = DOMAIN proposal
        /\ proposal'[p].status = "rejected"
        /\ \A q \in DOMAIN proposal : q # p => proposal'[q] = proposal[q]
    <3>1. p \in DOMAIN proposal /\ proposal[p] \in ProposalRow
      BY <1>6, RowsOfTables DEF ApiInv, Declining, ProposalAt
    <3> QED
      BY <1>6, <3>1 DEF Declining, ProposalAt, ProposalRow
  <2>2. /\ DOMAIN donation' = DOMAIN donation /\ pickup' = pickup
        /\ \A e \in DOMAIN donation : e # d => donation'[e] = donation[e]
    BY <1>6 DEF Declining, DonationAt
  <2>3. d \in DOMAIN donation => donation'[d].status = "available"
    <3>1. d \in DOMAIN donation => donation[d] \in DonationRow
      BY RowsOfTables DEF ApiInv
    <3> QED
      BY <1>6, <3>1 DEF Declining, DonationAt, DonationRow
  <2> HIDE DEF d
  <2>4. ASSUME NEW e \in DOMAIN donation', donation'[e].status # "available"
        PROVE  \E q \in DOMAIN proposal' : Live(q)' /\ proposal'[q].donation = e
    <3>1. e # d /\ e \in DOMAIN donation
      BY <2>2, <2>3, <2>4
    <3>2. PICK q \in DOMAIN proposal : Live(q) /\ proposal[q].donation = e
      BY <2>2, <2>4, <3>1 DEF Held
    <3>3. q # p
      BY <3>1, <3>2 DEF d
    <3> QED
      BY <2>1, <3>2, <3>3
  <2>5. ASSUME NEW q \in DOMAIN proposal', proposal'[q].status = "accepted"
        PROVE  \E l \in DOMAIN pickup' : pickup'[l].proposal = q
    <3>1. q # p
      BY <2>1, <2>5
    <3> QED
      BY <2>1, <2>2, <2>5, <3>1 DEF Held
  <2> QED
    BY <2>4, <2>5 DEF Held
<1>7. ASSUME NEW k, NEW row, NEW from, NEW to, Moving(k, row, from, to) PROVE Held'
  <2> DEFINE d == OfPickup(k).donation
             p == pickup[k].proposal
  <2>1. p \in DOMAIN proposal /\ Live(p) /\ proposal[p].donation = d
    BY <1>7 DEF ApiInv, Typed, Carried, Moving, PickupAt, OfPickup
  <2>2. /\ DOMAIN donation' = DOMAIN donation
        /\ \A e \in DOMAIN donation : e # d => donation'[e] = donation[e]
    BY <1>7 DEF Moving, DonationAt
  <2>3. \A l \in DOMAIN pickup : l \in DOMAIN pickup' /\ pickup'[l].proposal = pickup[l].proposal
    <3>1. k \in DOMAIN pickup /\ pickup[k] \in PickupRow
      BY <1>7, RowsOfTables DEF ApiInv, Moving, PickupAt
    <3> QED
      BY <1>7, <3>1 DEF Moving, PickupAt, PickupRow
  <2>4. proposal' = proposal
    BY <1>7 DEF Moving
  <2> HIDE DEF d, p
  <2> QED
    BY <2>1, <2>2, <2>3, <2>4, HeldByChange
<1> QED
  BY <1>1, <1>2, <1>3, <1>4, <1>5, <1>6, <1>7 DEF TablesMove

(* Whatever the requests: a donation that is not available has a proposal   *)
(* that is not rejected, and an accepted proposal has its pickup.           *)
THEOREM NothingLost == Spec => []Held
<1>1. Init => Held
  BY DEF Init, Held
<1>2. ApiInv /\ Held /\ [Next]_apiVars => Held'
  <2> SUFFICES ASSUME ApiInv, Held, [Next]_apiVars PROVE Held'
    OBVIOUS
  <2>1. CASE UNCHANGED apiVars
    BY <2>1 DEF apiVars, Held, Live
  <2>2. CASE Next
    BY <2>2, RequestRows, HeldByMove DEF ApiInv
  <2> QED
    BY <2>1, <2>2
<1> QED
  BY <1>1, <1>2, ApiInductive, PTL DEF Spec

-----------------------------------------------------------------------------
(* Nothing is stuck while the lists are whole                               *)

(* On tables no longer than a page, all lists of all users are whole.       *)
LEMMA PagesWhole ==
  ASSUME ListsFit, ApiInv, NEW u \in Users
  PROVE  LET page == PageOf(u) IN
         /\ Tagged(SentDonations, DonationsOf(u)) /\ Tagged(SentProposals, ProposalsOf(u))
         /\ Tagged(SentPickups, PickupsOf(u))
         /\ Whole(page.donations, SentDonations, DonationsOf(u))
         /\ Whole(page.proposals, SentProposals, ProposalsOf(u))
         /\ Whole(page.pickups, SentPickups, PickupsOf(u))
<1>1. Typed
  BY DEF ApiInv
<1>2. /\ Len(pickup) <= Len(proposal) /\ Len(proposal) <= PageSize
      /\ Len(donation) \in Nat /\ Len(proposal) \in Nat /\ Len(pickup) \in Nat
  BY <1>1, FewPickups, InSeq DEF Typed, ListsFit
<1>4. Len(donation) <= PageSize /\ Len(proposal) <= PageSize /\ Len(pickup) <= PageSize
  BY <1>2, ApiAssumption DEF ListsFit
<1> QED
  BY <1>1, <1>4, DonationList, ProposalList, PickupList DEF PageOf

LEMMA RowShown ==
  ASSUME ListsFit, ApiInv, NEW u \in Users
  PROVE  LET page == PageOf(u) IN
         /\ \A d \in DonationsOf(u) : DonationSent(d) \in ToSet(page.donations)
         /\ \A p \in ProposalsOf(u) : ProposalSent(p) \in ToSet(page.proposals)
         /\ \A k \in PickupsOf(u) : PickupSent(k) \in ToSet(page.pickups)
  BY PagesWhole DEF Whole, SentDonations, SentProposals, SentPickups,
                    DonationsOf, ProposalsOf, PickupsOf

(* A row is no further down than there are ids from its own upwards.        *)
LEMMA RowPosition ==
  ASSUME NEW sent, NEW S, Tagged(sent, S), IsFiniteSet(S), NEW list,
         NewestFirst(list, sent, S), NEW row \in ToSet(list)
  PROVE  \E i \in 1 .. Len(list) : /\ list[i] = row
                                   /\ i <= Cardinality({n \in S : n >= row.id})
<1> DEFINE X == {sent[n] : n \in S}
           T == {n \in S : n >= row.id}
<1>1. list \in Seq(X) /\ \A i, j \in 1 .. Len(list) : i < j => list[i].id > list[j].id
  BY DEF NewestFirst
<1>2. \A x \in X : x.id \in S /\ x.id \in Nat
  BY DEF Tagged
<1> HIDE DEF X
<1>3. PICK i \in 1 .. Len(list) : list[i] = row
  BY <1>1, InSeq
<1>4. Len(list) \in Nat /\ i \in Nat /\ \A j \in 1 .. i : j \in 1 .. Len(list)
  BY <1>1, InSeq
<1>5. \A j \in 1 .. i : list[j].id \in S /\ list[j].id \in Nat
  BY <1>1, <1>2, <1>4, InSeq
<1>6. \A j \in 1 .. i : list[j].id \in T
  <2> SUFFICES ASSUME NEW j \in 1 .. i PROVE list[j].id >= list[i].id
    BY <1>3, <1>5
  <2> QED
    BY <1>1, <1>4, <1>5
<1> DEFINE f == [j \in 1 .. i |-> list[j].id]
<1>7. f \in [1 .. i -> T]
  BY <1>6
<1>8. \A j, l \in 1 .. i : f[j] = f[l] => j = l
  BY <1>1, <1>4, <1>5
<1> HIDE DEF f
<1>9. f \in Injection(1 .. i, T)
  BY <1>7, <1>8 DEF Injection, IsInjective
<1>10. IsFiniteSet(T)
  BY FS_Subset
<1> HIDE DEF T
<1>11. Cardinality(1 .. i) <= Cardinality(T)
  BY <1>9, <1>10, FS_Injection
<1>12. Cardinality(1 .. i) = i
  <2>1. Cardinality(1 .. i) = IF 1 > i THEN 0 ELSE i - 1 + 1
    BY <1>4, FS_Interval
  <2> QED
    BY <1>4, <2>1
<1> QED
  BY <1>3, <1>11, <1>12 DEF T

LEMMA TopbarChoice ==
  ASSUME NEW f \in Filters, NEW found \in Searches \cup {Clear.found}
  PROVE  /\ Topbar(f, found) \in TopbarChoices
         /\ Topbar(f, found).filter = f /\ Topbar(f, found).found = found
<1>1. Topbar(f, found) \in TopbarChoices
  BY DEF TopbarChoices
<1> QED
  BY <1>1 DEF Topbar, Clear

(* Without filter and search everything is found.                           *)
LEMMA ClearChoice ==
  /\ Clear \in TopbarChoices
  /\ Clear.filter = "All" /\ Clear.found = Receivers \cup DonationIds
<1>1. /\ Clear.filter = "All" /\ Clear.found = Receivers \cup DonationIds
      /\ DOMAIN Clear = {"filter", "found", "donation", "receiver"}
  BY DEF Clear, DonationIds
<1>2. Topbar("All", Clear.found) = Clear
  <2> DEFINE c == [Clear EXCEPT !.filter = "All"]
  <2>1. c = Clear
    BY DEF Clear
  <2>2. Topbar("All", Clear.found) = [c EXCEPT !.found = Clear.found]
    BY DEF Topbar
  <2>3. [Clear EXCEPT !.found = Clear.found] = Clear
    BY DEF Clear
  <2> QED
    BY <2>1, <2>2, <2>3
<1>3. "All" \in Filters
  BY DEF Filters
<1> QED
  BY <1>1, <1>2, <1>3, TopbarChoice

LEMMA ClickedRow ==
  ASSUME NEW c \in TopbarChoices, NEW d, NEW r
  PROVE  /\ Clicked(c, d, r).filter = c.filter /\ Clicked(c, d, r).found = c.found
         /\ Clicked(c, d, r).donation = d /\ Clicked(c, d, r).receiver = r
<1>1. PICK f \in Filters, s \in Searches \cup {Clear.found} : c = Topbar(f, s)
  BY DEF TopbarChoices
<1> QED
  BY <1>1 DEF Topbar, Clear, Clicked

(* A search brings the card of an available donation onto the panel.        *)
LEMMA CardClickable ==
  ASSUME ListsFit, ApiInv, NEW v \in Volunteers, NEW d \in DOMAIN donation,
         donation[d].status = "available", Reachable(d)
  PROVE  \E c \in TopbarChoices : d \in ClickableDonations(PageOf(v), c)
<1> DEFINE page == PageOf(v)
           S == DonationsOf(v)
<1>1. PICK found \in Searches \cup {Clear.found} :
         /\ d \in found
         /\ Cardinality({e \in found \cap DOMAIN donation : e >= d}) <= PanelRows
  BY DEF Reachable
<1> DEFINE c == Topbar("Available", found)
<1>2. c \in TopbarChoices /\ c.filter = "Available" /\ c.found = found
  BY TopbarChoice DEF Filters
<1>3. v \in Users /\ Typed
  BY DEF Users, ApiInv
<1>4. /\ IsList(page.donations) /\ IsList(page.receivers)
      /\ \A row \in ToSet(page.donations) : row.id \in S /\ row = DonationSent(row.id)
  BY <1>3, PageRows
<1>5. Tagged(SentDonations, S) /\ NewestFirst(page.donations, SentDonations, S)
  BY <1>3, PagesWhole DEF Whole
<1>6. d \in S /\ DonationSent(d) \in ToSet(page.donations) /\ DonationSent(d).id = d
      /\ DonationSent(d).status = "available"
  BY <1>3, RowShown DEF DonationsOf, DonationSent
<1> HIDE DEF page, c
<1> DEFINE T1 == {row \in ToSet(page.donations) : row.status \in {"available"}}
           T2 == {row \in ToSet(page.donations) : row.id \in found}
           S1 == {n \in S : SentDonations[n] \in T1}
           S2 == {n \in S1 : SentDonations[n] \in T2}
           shown == FilteredDonations(page, c)
<1>7. shown = Kept(Kept(page.donations, T1), T2)
  BY <1>2 DEF FilteredDonations, WithStatus, FilterStatuses
<1>8. Tagged(SentDonations, S2) /\ NewestFirst(shown, SentDonations, S2)
  <2> HIDE DEF T1, T2
  <2>1. Tagged(SentDonations, S1) /\ NewestFirst(Kept(page.donations, T1), SentDonations, S1)
    BY <1>5, ListFiltered
  <2> HIDE DEF S1
  <2> QED
    BY <1>7, <2>1, ListFiltered
<1>9. S2 \subseteq found \cap DOMAIN donation
  <2> SUFFICES ASSUME NEW n \in S2 PROVE n \in found /\ n \in DOMAIN donation
    OBVIOUS
  <2>1. n \in S /\ SentDonations[n] \in T2
    OBVIOUS
  <2> QED
    BY <1>5, <2>1 DEF Tagged, DonationsOf
<1>10. DonationSent(d) \in ToSet(shown)
  <2>1. FilterStatuses(c.filter) = {"available"}
    BY <1>2 DEF FilterStatuses
  <2>2. ToSet(shown) = {row \in ToSet(page.donations) :
                          row.status \in FilterStatuses(c.filter) /\ row.id \in c.found}
    BY <1>4, FilteredRows
  <2> QED
    BY <1>1, <1>2, <1>6, <2>1, <2>2
<1> HIDE DEF shown, S2
<1> DEFINE E == {e \in found \cap DOMAIN donation : e >= d}
           F == {n \in S2 : n >= d}
<1>11. IsFiniteSet(DOMAIN donation)
  BY <1>3, RowsOfTables, SizeOfTable
<1>12. IsFiniteSet(S2) /\ IsFiniteSet(E) /\ F \subseteq E
  <2>1. S2 \subseteq DOMAIN donation /\ E \subseteq DOMAIN donation
    BY <1>9
  <2>2. F \subseteq E
    BY <1>9
  <2> QED
    BY <1>11, <2>1, <2>2, FS_Subset
<1>13. PICK i \in 1 .. Len(shown) : shown[i] = DonationSent(d) /\ i <= Cardinality(F)
  BY <1>6, <1>8, <1>10, <1>12, RowPosition
<1>14. Cardinality(F) <= Cardinality(E) /\ Cardinality(F) \in Nat /\ Cardinality(E) \in Nat
  <2> HIDE DEF E, F
  <2>1. IsFiniteSet(F)
    BY <1>12, FS_Subset
  <2> QED
    BY <1>12, <2>1, FS_Subset, FS_CardinalityType
<1>15. PanelRows \in Nat
  BY ViewsAssumption
<1>16. IsList(shown)
  BY <1>4, FilteredRows DEF shown
<1>17. i \in Nat /\ i <= PanelRows
  <2>1. Cardinality(E) <= PanelRows
    BY <1>1
  <2> HIDE DEF E, F
  <2>2. i \in Nat
    BY <1>16, InSeq DEF IsList
  <2> QED
    BY <1>13, <1>14, <1>15, <2>1, <2>2
<1> DEFINE cards == DonationCards(page, c, TRUE)
<1>18. cards = Upto(shown, PanelRows)
  BY DEF DonationCards, shown
<1> HIDE DEF cards
<1>19. IsList(cards) /\ DonationSent(d) \in ToSet(cards)
  <2>1. /\ cards \in Seq(ToSet(shown))
        /\ Len(cards) = IF Len(shown) < PanelRows THEN Len(shown) ELSE PanelRows
        /\ \A j \in 1 .. Len(cards) : cards[j] = shown[j]
    BY <1>15, <1>16, <1>18, UptoElements DEF IsList
  <2>2. i \in 1 .. Len(cards)
    BY <1>13, <1>15, <1>16, <1>17, <2>1, InSeq DEF IsList
  <2> QED
    BY <1>13, <2>1, <2>2, InSeq, ListsAre
<1>20. DonationSent(d) \in ToSet(WithStatus(cards, {"available"}))
  BY <1>6, <1>19, StatusRows
<1>21. d \in Ids(ToSet(WithStatus(DonationCards(page, c, TRUE), {"available"})))
  BY <1>6, <1>20 DEF Ids, cards
<1>22. d \in ClickableDonations(page, c)
  <2>1. TRUE \in BOOLEAN
    OBVIOUS
  <2> QED
    BY <1>21, <2>1 DEF ClickableDonations
<1> QED
  BY <1>2, <1>22 DEF page

(* The three parties of a proposal, each of whom sees it.                   *)
LEMMA PartiesAre ==
  ASSUME Typed, NEW p \in DOMAIN proposal
  PROVE  /\ DonorOf(p) \in Donors /\ DonorOf(p) \in Users /\ p \in ProposalsOf(DonorOf(p))
         /\ proposal[p].receiver \in Receivers /\ proposal[p].receiver \in Users
         /\ p \in ProposalsOf(proposal[p].receiver)
         /\ proposal[p].volunteer \in Volunteers /\ proposal[p].volunteer \in Users
         /\ p \in ProposalsOf(proposal[p].volunteer)
         /\ proposal[p].status \in {"pending", "accepted", "rejected"}
         /\ proposal[p].donation \in DOMAIN donation
<1>1. proposal[p] \in ProposalRow /\ proposal[p].donation \in DOMAIN donation
  BY InSeq DEF Typed
<1>2. donation[proposal[p].donation] \in DonationRow
  BY <1>1, InSeq DEF Typed
<1>3. /\ DonorOf(p) \in Donors /\ proposal[p].receiver \in Receivers
      /\ proposal[p].volunteer \in Volunteers
      /\ proposal[p].status \in {"pending", "accepted", "rejected"}
  BY <1>1, <1>2 DEF ProposalRow, DonationRow, DonorOf
<1> QED
  BY <1>1, <1>3 DEF Users, ProposalsOf

(* An available donation: any volunteer can click its card and propose      *)
(* it.                                                                      *)
LEMMA AvailableOffered ==
  ASSUME EveryoneServed, ApiInv, NEW d \in DOMAIN donation, donation[d].status = "available"
  PROVE  \E u \in Users : \E ask \in DeskOffers(u, PageOf(u)) : Forward(u, ask, d)
<1>1. PICK v \in Volunteers : TRUE
  BY DEF EveryoneServed
<1> DEFINE page == PageOf(v)
           c == Clicked(Clear, d, 0)
<1>2. ListsFit /\ Receivers # {} /\ Reachable(d) /\ d \in DonationIds
  BY DonationInBound DEF EveryoneServed, ApiInv
<1>3. PICK under \in TopbarChoices : d \in ClickableDonations(page, under)
  BY <1>2, CardClickable
<1>4. v \in Users /\ v \notin Donors /\ v \notin Receivers /\ Typed
  BY RolesAssumption DEF Users, ApiInv
<1>5. /\ IsList(page.donations) /\ IsList(page.receivers)
      /\ page.receivers = ListReceivers /\ ToSet(page.receivers) \subseteq Receivers
  BY <1>4, PageRows
<1>6. d \in DonationsOf(v) /\ DonationSent(d) \in ToSet(page.donations)
      /\ DonationSent(d).id = d /\ DonationSent(d).status = "available"
  BY <1>2, <1>4, RowShown DEF DonationsOf, DonationSent
<1> HIDE DEF page
<1>7. c \in VolunteerChoices(page)
  <2>1. d \in UNION {ClickableDonations(page, x) : x \in TopbarChoices}
    BY <1>3
  <2> QED
    BY <2>1, ClearChoice DEF VolunteerChoices
<1>8. c.filter = "All" /\ c.found = Receivers \cup DonationIds /\ c.donation = d
  BY ClearChoice, ClickedRow
<1> HIDE DEF c
<1>9. DonationSent(d) \in ToSet(AvailableDonations(page, c))
  <2>1. "available" \in FilterStatuses(c.filter)
    BY <1>8 DEF FilterStatuses
  <2>2. DonationSent(d) \in ToSet(FilteredDonations(page, c))
    BY <1>2, <1>5, <1>6, <1>8, <2>1, FilteredRows
  <2> QED
    BY <1>5, <1>6, <2>2, FilteredRows
<1>10. PICK row \in ChosenDonation(page, c) : row.id = d
  <2> DEFINE S == WithId(page.donations, d)
             chosen == Find(AvailableDonations(page, c), S)
  <2>1. DonationSent(d) \in S /\ \A x \in S : x.id = d
    BY <1>6 DEF WithId
  <2> HIDE DEF S
  <2>2. chosen # {} /\ chosen \subseteq S
    BY <1>5, <1>9, <2>1, FilteredRows, FoundRows
  <2>3. chosen = ChosenDonation(page, c)
    BY <1>8, <2>2 DEF ChosenDonation, OrElse, S
  <2> QED
    BY <2>1, <2>2, <2>3
<1>11. PICK r \in ChosenReceiver(page, c) : TRUE
  <2>1. ToSet(page.receivers) \cap c.found # {}
    BY <1>2, <1>5, <1>8, ReceiverList
  <2>2. First(FilteredReceivers(page, c)) # {}
    BY <1>5, <2>1, FilteredRows, FirstRows
  <2> QED
    BY <2>2 DEF ChosenReceiver, OrElse
<1> DEFINE ask == [call |-> "propose", on |-> row.id, to |-> {r}]
<1>12. ask \in CreateOffers(page, c)
  BY <1>10, <1>11 DEF CreateOffers
<1>13. Forward(v, ask, d)
  BY <1>10 DEF Forward
<1> HIDE DEF ask
<1>14. ask \in DeskOffers(v, page)
  <2> HIDE DEF c
  <2>1. ask \in UNION {CreateOffers(page, x) : x \in VolunteerChoices(page)}
    BY <1>7, <1>12
  <2>2. ask \in VolunteerOffers(page)
    BY <2>1 DEF VolunteerOffers
  <2> QED
    BY <1>1, <1>4, <2>2 DEF DeskOffers
<1> QED
  BY <1>4, <1>13, <1>14 DEF page

(* A pending proposal: the donor or the receiver still owes an              *)
(* acceptance, and is offered it.                                           *)
LEMMA AgreementOffered ==
  ASSUME ListsFit, ApiInv, NEW p \in DOMAIN proposal, proposal[p].status = "pending"
  PROVE  \E u \in Users : \E ask \in DeskOffers(u, PageOf(u)) :
            Forward(u, ask, proposal[p].donation)
<1> DEFINE ask == [call |-> "accept", on |-> p, to |-> {}]
           row == ProposalSent(p)
<1>1. Typed /\ Backed
  BY DEF ApiInv
<1>2. /\ row.id = p /\ row.status = "pending"
      /\ row.receiverAccepted = proposal[p].receiverAccepted
  BY DEF ProposalSent
<1>3. ask \in Ask("accept", {row})
  BY <1>2 DEF Ask, Ids
<1>4. CASE ~ proposal[p].donorAccepted
  <2> DEFINE u == DonorOf(p)
             page == PageOf(u)
  <2>1. u \in Donors /\ u \in Users /\ p \in ProposalsOf(u)
    BY <1>1, PartiesAre
  <2>2. row \in ToSet(page.proposals)
    BY <2>1, RowShown
  <2>3. Forward(u, ask, proposal[p].donation)
    BY <1>4, <2>1 DEF Forward
  <2> HIDE DEF u, page, ask, row
  <2>4. ask \in QueueOffers(page)
    BY <1>2, <1>3, <2>2 DEF QueueOffers, Now, Ask, Ids
  <2>5. ask \in DeskOffers(u, page)
    BY <2>1, <2>4, RolesAssumption DEF DeskOffers
  <2> QED
    BY <2>1, <2>3, <2>5 DEF page
<1>5. CASE proposal[p].donorAccepted
  <2> DEFINE u == proposal[p].receiver
             page == PageOf(u)
  <2>1. /\ u \in Receivers /\ u \in Users /\ p \in ProposalsOf(u)
        /\ u \notin Donors /\ u \notin Volunteers
    BY <1>1, PartiesAre, RolesAssumption
  <2>2. row \in ToSet(page.proposals) /\ IsList(page.proposals)
    BY <1>1, <2>1, RowShown, PageRows
  <2>3. ~ proposal[p].receiverAccepted
    BY <1>1, <1>5 DEF Backed, Live, Both
  <2>4. Forward(u, ask, proposal[p].donation)
    BY <2>1, <2>3 DEF Forward
  <2>5. \A x \in ToSet(page.proposals) : x.id = p => x = row
    BY <1>1, <2>1, PageRows
  <2> HIDE DEF u, page, ask, row
  <2>6. p \in InboxIds(page)
    <3>1. p \in Ids(ToSet(InboxOrder(page, TRUE)))
      BY <1>2, <2>2 DEF Ids, InboxOrder
    <3> QED
      BY <3>1 DEF InboxIds
  <2>7. row \in ActiveProposal(page, p)
    <3> DEFINE S == WithId(page.proposals, p)
    <3>1. S = {row}
      BY <1>2, <2>2, <2>5 DEF WithId
    <3> HIDE DEF S
    <3>2. Find(page.proposals, S) = {row}
      BY <2>2, <3>1, FoundRows
    <3> QED
      BY <3>2 DEF ActiveProposal, OrElse, S
  <2>8. ask \in CardOffers(row)
    BY <1>2, <1>3, <2>3 DEF CardOffers
  <2>9. ask \in ReceiverOffers(page)
    <3> DEFINE shown == UNION {ActiveProposal(page, s) : s \in {0} \cup InboxIds(page)}
    <3>1. row \in shown
      BY <2>6, <2>7
    <3> HIDE DEF shown
    <3>2. ask \in UNION {CardOffers(x) : x \in shown}
      BY <2>8, <3>1
    <3> QED
      BY <3>2 DEF ReceiverOffers, shown
  <2>10. ask \in DeskOffers(u, page)
    BY <2>1, <2>9 DEF DeskOffers
  <2> QED
    BY <2>1, <2>4, <2>10 DEF page
<1> QED
  BY <1>4, <1>5

(* The volunteer's panel shows the pickup k, or a newer one of theirs.      *)
LEMMA PickupOffered ==
  ASSUME ListsFit, ApiInv, NEW k \in DOMAIN pickup, pickup[k].status \in UnderWay
  PROVE  \/ BusyVolunteer(OfPickup(k).donation)
         \/ \E u \in Users : \E ask \in DeskOffers(u, PageOf(u)) :
               Forward(u, ask, OfPickup(k).donation)
<1> DEFINE v == OfPickup(k).volunteer
           page == PageOf(v)
           S == {n \in PickupsOf(v) : SentPickups[n] \in
                    {row \in ToSet(page.pickups) : row.status \in UnderWay}}
           shown == WithStatus(page.pickups, UnderWay)
<1>1. Typed /\ pickup[k].proposal \in DOMAIN proposal
  BY DEF ApiInv, Typed
<1>2. /\ v \in Volunteers /\ v \in Users /\ v \notin Donors /\ v \notin Receivers
      /\ k \in PickupsOf(v)
  BY <1>1, PartiesAre, RolesAssumption DEF OfPickup, PickupsOf
<1>3. /\ PickupSent(k) \in ToSet(page.pickups) /\ IsList(page.pickups)
      /\ PickupSent(k).id = k /\ PickupSent(k).status = pickup[k].status
  BY <1>1, <1>2, RowShown, PageRows DEF PickupSent
<1>4. Tagged(SentPickups, PickupsOf(v)) /\ NewestFirst(page.pickups, SentPickups, PickupsOf(v))
  BY <1>2, PagesWhole DEF Whole
<1> HIDE DEF v, page
<1>5. Tagged(SentPickups, S) /\ NewestFirst(shown, SentPickups, S)
  BY <1>4, ListFiltered DEF WithStatus
<1>6. PickupSent(k) \in ToSet(shown) /\ ToSet(shown) \subseteq ToSet(page.pickups)
      /\ IsList(shown) /\ \A row \in ToSet(shown) : row.status \in UnderWay
  BY <1>3, StatusRows
<1> HIDE DEF S, shown
<1>7. PICK row \in ToSet(shown) :
         First(shown) = {row} /\ \A other \in ToSet(shown) : other.id <= row.id
  <2>1. First(shown) # {}
    BY <1>6, FirstRows
  <2> QED
    BY <1>5, <2>1, ListRows
<1>8. /\ row.id \in DOMAIN pickup /\ row = PickupSent(row.id)
      /\ OfPickup(row.id).volunteer = v /\ row.status \in UnderWay
      /\ row.status = pickup[row.id].status /\ row.id >= k
  <2>1. row.id \in DOMAIN pickup /\ row = PickupSent(row.id) /\ OfPickup(row.id).volunteer = v
    BY <1>1, <1>2, <1>6, <1>7, PickupOnPage DEF page
  <2>2. k <= row.id
    BY <1>3, <1>6, <1>7
  <2>3. k \in Nat /\ row.id \in Nat
    BY <1>1, <2>1, InSeq DEF Typed
  <2> QED
    BY <1>6, <1>7, <2>1, <2>2, <2>3 DEF PickupSent
<1>9. row \in ActivePickup(page)
  BY <1>7 DEF ActivePickup, shown
<1>10. CASE row.id = k
  <2> DEFINE call == IF row.status = "assigned" THEN "pick_up" ELSE "deliver"
             ask == [call |-> call, on |-> k, to |-> {}]
  <2>1. ask \in PickupOffers(page)
    BY <1>8, <1>9, <1>10 DEF PickupOffers, Ask, Ids, Now, UnderWay
  <2>2. Forward(v, ask, OfPickup(k).donation)
    BY DEF Forward
  <2> HIDE DEF ask
  <2>3. ask \in DeskOffers(v, page)
    BY <1>2, <2>1 DEF DeskOffers, VolunteerOffers
  <2> QED
    BY <1>2, <2>2, <2>3 DEF page
<1>11. CASE row.id # k
  <2>1. row.id > k
    <3>1. k \in Nat /\ row.id \in Nat
      BY <1>1, <1>8, InSeq DEF Typed
    <3> QED
      BY <1>8, <1>11, <3>1
  <2> QED
    BY <1>8, <2>1 DEF BusyVolunteer, v
<1> QED
  BY <1>10, <1>11

(* While the lists are whole and a search brings each donation onto the     *)
(* panel, somebody's dashboard takes every donation further, or its         *)
(* volunteer is busy with a newer pickup. docs/scope.md promises            *)
(* volunteers all available donations without that condition; listed_out    *)
(* shows what becomes of it when a list is cut short.                       *)
THEOREM NobodyStranded == Spec => [](EveryoneServed => NothingStuck)
<1>1. ASSUME ApiInv, Held, EveryoneServed PROVE NothingStuck
  <2> SUFFICES ASSUME NEW d \in DOMAIN donation, donation[d].status # "delivered",
                      ~ BusyVolunteer(d)
               PROVE  \E u \in Users : \E ask \in DeskOffers(u, PageOf(u)) : Forward(u, ask, d)
    BY DEF NothingStuck
  <2>1. CASE donation[d].status = "available"
    BY <1>1, <2>1, AvailableOffered
  <2>2. CASE donation[d].status # "available"
    <3>1. PICK p \in DOMAIN proposal : Live(p) /\ proposal[p].donation = d
      BY <1>1, <2>2 DEF Held
    <3>2. ListsFit
      BY <1>1 DEF EveryoneServed
    <3>3. CASE proposal[p].status = "pending"
      BY <1>1, <3>1, <3>2, <3>3, AgreementOffered
    <3>4. CASE proposal[p].status = "accepted"
      <4>1. PICK k \in DOMAIN pickup : pickup[k].proposal = p
        BY <1>1, <3>4 DEF Held
      <4>2. pickup[k].status \in UnderWay
        <5>1. donation[d].status = StageOfPickup[pickup[k].status] /\ pickup[k] \in PickupRow
          BY <1>1, <3>1, <4>1, InSeq DEF ApiInv, Carried, Typed, StatusOf
        <5> QED
          BY <5>1 DEF StageOfPickup, UnderWay, PickupRow
      <4>3. OfPickup(k).donation = d
        BY <3>1, <4>1 DEF OfPickup
      <4> QED
        BY <1>1, <3>2, <4>2, <4>3, PickupOffered
    <3> QED
      BY <1>1, <3>1, <3>3, <3>4, PartiesAre DEF ApiInv, Live
  <2> QED
    BY <2>1, <2>2
<1> QED
  BY <1>1, ApiInductive, NothingLost, PTL

-----------------------------------------------------------------------------
(* Sums over finite sets                                                    *)

(* The sets of n elements at most, and the sums g over the sets of D.       *)
Smaller(S, n) == {T \in SUBSET S : Cardinality(T) <= n}
Adds(g, f, D) ==
    g = [T \in D |-> IF T = {} THEN 0
            ELSE LET x == CHOOSE x \in T : TRUE IN f[x] + g[T \ {x}]]

(* A set without the element a sum takes first is one smaller.              *)
LEMMA OneLess ==
  ASSUME NEW S, IsFiniteSet(S), NEW T \in SUBSET S, T # {}
  PROVE  LET x == CHOOSE x \in T : TRUE IN
         /\ x \in T /\ T \ {x} \in SUBSET S
         /\ IsFiniteSet(T) /\ Cardinality(T) \in Nat \ {0}
         /\ Cardinality(T \ {x}) = Cardinality(T) - 1
<1> DEFINE x == CHOOSE x \in T : TRUE
<1>1. x \in T
  OBVIOUS
<1> HIDE DEF x
<1>2. IsFiniteSet(T)
  BY FS_Subset
<1>3. Cardinality(T \ {x}) = Cardinality(T) - 1
  BY <1>1, <1>2, FS_RemoveElement
<1>4. Cardinality(T) \in Nat \ {0}
  BY <1>2, FS_CardinalityType, FS_EmptySet
<1> QED
  BY <1>1, <1>2, <1>3, <1>4 DEF x

(* The sum over a finite set obeys its equation.                            *)
LEMMA SumRecursion ==
  ASSUME NEW f, IsFiniteSet(DOMAIN f)
  PROVE  \E g : Adds(g, f, SUBSET DOMAIN f) /\ SumFunction(f) = g[DOMAIN f]
<1> DEFINE S == DOMAIN f
           N == Cardinality(S)
           P == {n \in Nat : \E g : Adds(g, f, Smaller(S, n))}
<1>1. N \in Nat /\ \A T \in SUBSET S : Cardinality(T) \in Nat /\ Cardinality(T) <= N
  <2> HIDE DEF S
  <2>1. IsFiniteSet(S)
    BY DEF S
  <2> QED
    BY <2>1, FS_Subset, FS_CardinalityType
<1>2. Smaller(S, N) = SUBSET S
  BY <1>1 DEF Smaller
<1>3. 0 \in P
  <2>1. Smaller(S, 0) = {{}}
    <3>1. \A T \in SUBSET S : Cardinality(T) <= 0 => T = {}
      BY <1>1, FS_Subset, FS_EmptySet
    <3>2. Cardinality({}) <= 0
      BY FS_EmptySet
    <3> QED
      BY <3>1, <3>2 DEF Smaller
  <2>2. Adds([T \in {{}} |-> 0], f, {{}})
    BY DEF Adds
  <2> QED
    BY <2>1, <2>2
<1>4. ASSUME NEW n \in 1 .. N, n - 1 \in P PROVE n \in P
  <2>1. PICK g : Adds(g, f, Smaller(S, n - 1))
    BY <1>4
  <2> DEFINE X(T) == CHOOSE x \in T : TRUE
             h == [T \in Smaller(S, n) |->
                      IF Cardinality(T) = n THEN f[X(T)] + g[T \ {X(T)}] ELSE g[T]]
  <2>2. n \in Nat \ {0}
    BY <1>1
  <2>3. \A T \in Smaller(S, n) : Cardinality(T) # n => T \in Smaller(S, n - 1) /\ h[T] = g[T]
    BY <1>1, <2>2 DEF Smaller
  <2>4. \A T \in Smaller(S, n - 1) : T \in Smaller(S, n) /\ h[T] = g[T]
    BY <1>1, <2>2 DEF Smaller
  <2>5. \A T \in Smaller(S, n - 1) : g[T] = IF T = {} THEN 0 ELSE f[X(T)] + g[T \ {X(T)}]
    BY <2>1 DEF Adds
  <2>6. \A T \in Smaller(S, n) : Cardinality(T) = n => h[T] = f[X(T)] + g[T \ {X(T)}]
    OBVIOUS
  <2>7. h = [T \in Smaller(S, n) |-> h[T]]
    OBVIOUS
  <2>8. \A T \in SUBSET S : T # {} =>
          /\ T \ {X(T)} \in SUBSET S
          /\ Cardinality(T \ {X(T)}) = Cardinality(T) - 1
    BY OneLess
  <2>9. \A T \in Smaller(S, n) : T # {} => T \ {X(T)} \in Smaller(S, n - 1)
    BY <1>1, <2>2, <2>8 DEF Smaller
  <2>10. \A T \in Smaller(S, n) : Cardinality(T) = n => T # {}
    BY <2>2, FS_EmptySet
  <2> HIDE DEF h, X
  <2>11. \A T \in Smaller(S, n) : h[T] = IF T = {} THEN 0 ELSE f[X(T)] + h[T \ {X(T)}]
    <3> SUFFICES ASSUME NEW T \in Smaller(S, n)
                 PROVE  h[T] = IF T = {} THEN 0 ELSE f[X(T)] + h[T \ {X(T)}]
      OBVIOUS
    <3>1. CASE Cardinality(T) = n
      BY <2>4, <2>6, <2>9, <2>10, <3>1
    <3>2. CASE Cardinality(T) # n
      BY <2>3, <2>4, <2>5, <2>9, <3>2
    <3> QED
      BY <3>1, <3>2
  <2>12. Adds(h, f, Smaller(S, n))
    BY <2>7, <2>11 DEF Adds, X
  <2> QED
    BY <2>2, <2>12
<1> HIDE DEF P
<1>5. \A n \in 0 .. N : n \in P
  BY <1>1, <1>3, <1>4, Induction
<1>6. N \in P
  BY <1>1, <1>5
<1>7. PICK g : Adds(g, f, SUBSET S)
  BY <1>2, <1>6 DEF P
<1> DEFINE iter == CHOOSE it : Adds(it, f, SUBSET S)
<1>8. Adds(iter, f, SUBSET S)
  BY <1>7
<1>9. SumFunction(f) = iter[S]
  BY Zenon DEF SumFunction, SumFunctionOnSet, FoldFunctionOnSet, MapThenFoldSet, Adds
<1> QED
  BY <1>8, <1>9

(* Elements counted per owner add up to all elements.                       *)
LEMMA SumCounts ==
  ASSUME NEW U, IsFiniteSet(U), NEW A, IsFiniteSet(A), NEW g \in [A -> U],
         NEW f, f = [u \in U |-> Cardinality({a \in A : g[a] = u})]
  PROVE  SumFunction(f) = Cardinality(A)
<1>1. PICK sum : Adds(sum, f, SUBSET U) /\ SumFunction(f) = sum[U]
  <2>1. DOMAIN f = U
    OBVIOUS
  <2> QED
    BY <2>1, SumRecursion
<1> DEFINE In(T) == {a \in A : g[a] \in T}
           N == Cardinality(U)
           P == {n \in Nat : \A T \in SUBSET U : Cardinality(T) = n => sum[T] = Cardinality(In(T))}
<1>2. N \in Nat
  BY FS_CardinalityType
<1>3. 0 \in P
  <2> SUFFICES ASSUME NEW T \in SUBSET U, Cardinality(T) = 0 PROVE sum[T] = Cardinality(In(T))
    OBVIOUS
  <2>1. T = {}
    BY FS_Subset, FS_EmptySet
  <2>2. In(T) = {}
    BY <2>1
  <2>3. sum[T] = 0
    BY <1>1, <2>1 DEF Adds
  <2> QED
    BY <2>2, <2>3, FS_EmptySet
<1>4. ASSUME NEW n \in 1 .. N, n - 1 \in P PROVE n \in P
  <2> SUFFICES ASSUME NEW T \in SUBSET U, Cardinality(T) = n PROVE sum[T] = Cardinality(In(T))
    OBVIOUS
  <2> DEFINE x == CHOOSE x \in T : TRUE
             R == T \ {x}
  <2>1. T # {}
    BY FS_EmptySet
  <2>2. x \in T /\ R \in SUBSET U /\ Cardinality(R) = n - 1
    BY <2>1, OneLess
  <2>3. sum[T] = f[x] + sum[R]
    BY <1>1, <2>1 DEF Adds
  <2> HIDE DEF x
  <2>4. f[x] = Cardinality(In({x}))
    <3>1. {a \in A : g[a] = x} = In({x})
      OBVIOUS
    <3> HIDE DEF In
    <3> QED
      BY <2>2, <3>1
  <2>5. sum[R] = Cardinality(In(R))
    BY <1>4, <2>2
  <2>6. In(T) = In({x}) \cup In(R) /\ In({x}) \cap In(R) = {}
    BY <2>2
  <2>7. IsFiniteSet(In({x})) /\ IsFiniteSet(In(R))
    <3>1. In({x}) \in SUBSET A /\ In(R) \in SUBSET A
      OBVIOUS
    <3> HIDE DEF In
    <3> QED
      BY <3>1, FS_Subset
  <2> HIDE DEF In, R
  <2>8. Cardinality(In(T)) = Cardinality(In({x})) + Cardinality(In(R)) - 0
    BY <2>6, <2>7, FS_Union, FS_EmptySet
  <2>9. Cardinality(In({x})) \in Nat /\ Cardinality(In(R)) \in Nat
    BY <2>7, FS_CardinalityType
  <2> QED
    BY <2>3, <2>4, <2>5, <2>8, <2>9
<1> HIDE DEF P
<1>5. N \in P
  <2>1. \A n \in 0 .. N : n \in P
    BY <1>2, <1>3, <1>4, Induction
  <2> QED
    BY <1>2, <2>1
<1>6. sum[U] = Cardinality(In(U))
  BY <1>5 DEF P
<1>7. In(U) = A
  OBVIOUS
<1> QED
  BY <1>1, <1>6, <1>7

-----------------------------------------------------------------------------
(* Rows counted on pages and on tables                                      *)

(* Sets in bijection are equally large.                                     *)
LEMMA SameCount ==
  ASSUME NEW A, NEW B, IsFiniteSet(A), NEW f, f \in [A -> B],
         \A x, y \in A : f[x] = f[y] => x = y,
         \A b \in B : \E x \in A : f[x] = b
  PROVE  IsFiniteSet(B) /\ Cardinality(B) = Cardinality(A)
<1>1. f \in Bijection(A, B)
  BY DEF Bijection, Injection, Surjection, IsInjective
<1>2. ExistsBijection(A, B)
  BY <1>1 DEF ExistsBijection
<1> QED
  BY <1>2, FS_Bijection

(* A filtered list counts the rows with these statuses.                     *)
LEMMA ListCount ==
  ASSUME NEW sent, NEW S, Tagged(sent, S), NEW list, Whole(list, sent, S), NEW statuses
  PROVE  /\ Len(WithStatus(list, statuses)) = Cardinality({n \in S : sent[n].status \in statuses})
         /\ Len(list) = Cardinality(S) /\ IsFiniteSet(S)
<1> DEFINE T == {row \in ToSet(list) : row.status \in statuses}
           SS == {n \in S : sent[n] \in T}
<1>1. Tagged(sent, SS) /\ Whole(Kept(list, T), sent, SS)
  <2> HIDE DEF T
  <2> QED
    BY ListFiltered DEF Whole
<1>2. SS = {n \in S : sent[n].status \in statuses}
  BY DEF Whole
<1> HIDE DEF SS
<1>3. Len(Kept(list, T)) = Cardinality(SS)
  BY <1>1, ListLength
<1> QED
  BY <1>2, <1>3, ListLength DEF WithStatus

(* The rows on the tables, counted as the pages of a user count them.       *)
DonationsAt(S, statuses) == {d \in S : donation[d].status \in statuses}
ProposalsAt(S, statuses) == {p \in S : proposal[p].status \in statuses}
PickupsAt(S, statuses) == {k \in S : pickup[k].status \in statuses}

LEMMA PageCounts ==
  ASSUME ListsFit, ApiInv, NEW u \in Users, NEW statuses
  PROVE  LET page == PageOf(u) IN
         /\ Len(WithStatus(page.donations, statuses)) = Cardinality(DonationsAt(DonationsOf(u), statuses))
         /\ Len(WithStatus(page.proposals, statuses)) = Cardinality(ProposalsAt(ProposalsOf(u), statuses))
         /\ Len(WithStatus(page.pickups, statuses)) = Cardinality(PickupsAt(PickupsOf(u), statuses))
         /\ Len(page.donations) = Cardinality(DonationsOf(u))
         /\ Len(page.pickups) = Cardinality(PickupsOf(u))
<1> DEFINE page == PageOf(u)
<1>1. /\ Tagged(SentDonations, DonationsOf(u)) /\ Tagged(SentProposals, ProposalsOf(u))
      /\ Tagged(SentPickups, PickupsOf(u))
      /\ Whole(page.donations, SentDonations, DonationsOf(u))
      /\ Whole(page.proposals, SentProposals, ProposalsOf(u))
      /\ Whole(page.pickups, SentPickups, PickupsOf(u))
  BY PagesWhole
<1> HIDE DEF page
<1>2. /\ Len(WithStatus(page.donations, statuses))
           = Cardinality({d \in DonationsOf(u) : SentDonations[d].status \in statuses})
      /\ Len(WithStatus(page.proposals, statuses))
           = Cardinality({p \in ProposalsOf(u) : SentProposals[p].status \in statuses})
      /\ Len(WithStatus(page.pickups, statuses))
           = Cardinality({k \in PickupsOf(u) : SentPickups[k].status \in statuses})
      /\ Len(page.donations) = Cardinality(DonationsOf(u))
      /\ Len(page.pickups) = Cardinality(PickupsOf(u))
  BY <1>1, ListCount
<1>3. /\ \A d \in DonationsOf(u) : SentDonations[d].status = donation[d].status
      /\ \A p \in ProposalsOf(u) : SentProposals[p].status = proposal[p].status
      /\ \A k \in PickupsOf(u) : SentPickups[k].status = pickup[k].status
  BY DEF SentDonations, SentProposals, SentPickups, DonationSent, ProposalSent, PickupSent,
         DonationsOf, ProposalsOf, PickupsOf
<1>4. /\ {d \in DonationsOf(u) : SentDonations[d].status \in statuses}
           = DonationsAt(DonationsOf(u), statuses)
      /\ {p \in ProposalsOf(u) : SentProposals[p].status \in statuses}
           = ProposalsAt(ProposalsOf(u), statuses)
      /\ {k \in PickupsOf(u) : SentPickups[k].status \in statuses}
           = PickupsAt(PickupsOf(u), statuses)
  BY <1>3 DEF DonationsAt, ProposalsAt, PickupsAt
<1> QED
  BY <1>2, <1>4 DEF page

(* Everything that is counted is finite.                                    *)
LEMMA FiniteTables ==
  ASSUME ApiInv
  PROVE  /\ IsFiniteSet(DOMAIN donation) /\ IsFiniteSet(DOMAIN proposal)
         /\ IsFiniteSet(DOMAIN pickup)
         /\ \A S \in SUBSET DOMAIN donation : IsFiniteSet(S)
         /\ \A S \in SUBSET DOMAIN proposal : IsFiniteSet(S)
         /\ \A S \in SUBSET DOMAIN pickup : IsFiniteSet(S)
         /\ IsFiniteSet(Donors) /\ IsFiniteSet(Receivers) /\ IsFiniteSet(Volunteers)
<1>1. /\ IsFiniteSet(DOMAIN donation) /\ IsFiniteSet(DOMAIN proposal)
      /\ IsFiniteSet(DOMAIN pickup)
  BY RowsOfTables, SizeOfTable DEF ApiInv
<1>2. Donors \in SUBSET Users /\ Receivers \in SUBSET Users /\ Volunteers \in SUBSET Users
  BY DEF Users
<1>3. IsFiniteSet(Donors) /\ IsFiniteSet(Receivers) /\ IsFiniteSet(Volunteers)
  BY <1>2, RolesAssumption, FS_Subset
<1>4. /\ \A S \in SUBSET DOMAIN donation : IsFiniteSet(S)
      /\ \A S \in SUBSET DOMAIN proposal : IsFiniteSet(S)
      /\ \A S \in SUBSET DOMAIN pickup : IsFiniteSet(S)
  BY <1>1, FS_Subset
<1> QED
  BY <1>1, <1>3, <1>4

(* Whose rows they are, by role.                                            *)
LEMMA RowsOf ==
  ASSUME Typed
  PROVE  /\ \A u \in Donors : /\ DonationsOf(u) = {d \in DOMAIN donation : donation[d].donor = u}
                              /\ ProposalsOf(u) = {p \in DOMAIN proposal : DonorOf(p) = u}
         /\ \A r \in Receivers : ProposalsOf(r) = {p \in DOMAIN proposal : proposal[p].receiver = r}
         /\ \A v \in Volunteers :
               /\ DonationsOf(v) = DOMAIN donation
               /\ ProposalsOf(v) = {p \in DOMAIN proposal : proposal[p].volunteer = v}
               /\ PickupsOf(v) = {k \in DOMAIN pickup : OfPickup(k).volunteer = v}
<1>1. \A u \in Donors : DonationsOf(u) = {d \in DOMAIN donation : donation[d].donor = u}
  BY RolesAssumption DEF DonationsOf
<1>2. \A p \in DOMAIN proposal : DonorOf(p) \in Donors /\ proposal[p].receiver \in Receivers
                                 /\ proposal[p].volunteer \in Volunteers
  BY PartiesAre
<1>3. \A u \in Donors : ProposalsOf(u) = {p \in DOMAIN proposal : DonorOf(p) = u}
  BY <1>2, RolesAssumption DEF ProposalsOf
<1>4. \A r \in Receivers : ProposalsOf(r) = {p \in DOMAIN proposal : proposal[p].receiver = r}
  BY <1>2, RolesAssumption DEF ProposalsOf
<1>5. \A v \in Volunteers : ProposalsOf(v) = {p \in DOMAIN proposal : proposal[p].volunteer = v}
  BY <1>2, RolesAssumption DEF ProposalsOf
<1>6. \A v \in Volunteers : DonationsOf(v) = DOMAIN donation
  BY DEF DonationsOf
<1>7. \A v \in Volunteers : PickupsOf(v) = {k \in DOMAIN pickup : OfPickup(k).volunteer = v}
  BY <1>5 DEF PickupsOf, OfPickup, Typed
<1> QED
  BY <1>1, <1>3, <1>4, <1>5, <1>6, <1>7

(* Summed over the users of a role, the proposals on their pages are those  *)
(* on the table.                                                            *)
LEMMA ProposalSums ==
  ASSUME ListsFit, ApiInv, NEW statuses
  PROVE  LET Shown(u) == Len(WithStatus(PageOf(u).proposals, statuses))
             all == Cardinality(ProposalsAt(DOMAIN proposal, statuses)) IN
         /\ SumFunction([u \in Donors |-> Shown(u)]) = all
         /\ SumFunction([u \in Receivers |-> Shown(u)]) = all
         /\ SumFunction([u \in Volunteers |-> Shown(u)]) = all
<1> DEFINE C(u) == Len(WithStatus(PageOf(u).proposals, statuses))
           A == ProposalsAt(DOMAIN proposal, statuses)
<1>1. Typed /\ A \in SUBSET DOMAIN proposal
  BY DEF ApiInv, ProposalsAt
<1>2. IsFiniteSet(A)
  BY <1>1, FiniteTables
<1>3. \A u \in Users : C(u) = Cardinality(ProposalsAt(ProposalsOf(u), statuses))
  BY PageCounts
<1> HIDE DEF C
<1>4. \A p \in A : /\ DonorOf(p) \in Donors /\ proposal[p].receiver \in Receivers
                   /\ proposal[p].volunteer \in Volunteers
  BY <1>1, PartiesAre
<1>5. SumFunction([u \in Donors |-> C(u)]) = Cardinality(A)
  <2> DEFINE g == [p \in A |-> DonorOf(p)]
  <2>1. g \in [A -> Donors]
    BY <1>4
  <2>2. \A u \in Donors : u \in Users /\ ProposalsAt(ProposalsOf(u), statuses) = {p \in A : g[p] = u}
    BY <1>1, RowsOf DEF ProposalsAt, Users
  <2> HIDE DEF g, A
  <2>3. [u \in Donors |-> C(u)] = [u \in Donors |-> Cardinality({p \in A : g[p] = u})]
    BY <1>3, <2>2
  <2> QED
    BY <1>2, <2>1, <2>3, FiniteTables, SumCounts
<1>6. SumFunction([u \in Receivers |-> C(u)]) = Cardinality(A)
  <2> DEFINE g == [p \in A |-> proposal[p].receiver]
  <2>1. g \in [A -> Receivers]
    BY <1>4
  <2>2. \A u \in Receivers : u \in Users /\ ProposalsAt(ProposalsOf(u), statuses) = {p \in A : g[p] = u}
    BY <1>1, RowsOf DEF ProposalsAt, Users
  <2> HIDE DEF g, A
  <2>3. [u \in Receivers |-> C(u)] = [u \in Receivers |-> Cardinality({p \in A : g[p] = u})]
    BY <1>3, <2>2
  <2> QED
    BY <1>2, <2>1, <2>3, FiniteTables, SumCounts
<1>7. SumFunction([u \in Volunteers |-> C(u)]) = Cardinality(A)
  <2> DEFINE g == [p \in A |-> proposal[p].volunteer]
  <2>1. g \in [A -> Volunteers]
    BY <1>4
  <2>2. \A u \in Volunteers : u \in Users /\ ProposalsAt(ProposalsOf(u), statuses) = {p \in A : g[p] = u}
    BY <1>1, RowsOf DEF ProposalsAt, Users
  <2> HIDE DEF g, A
  <2>3. [u \in Volunteers |-> C(u)] = [u \in Volunteers |-> Cardinality({p \in A : g[p] = u})]
    BY <1>3, <2>2
  <2> QED
    BY <1>2, <2>1, <2>3, FiniteTables, SumCounts
<1> QED
  BY <1>5, <1>6, <1>7 DEF C

-----------------------------------------------------------------------------
(* The same fact on different screens                                       *)

(* Accepted means accepted by both (Backed), so two ways to say so agree.   *)
LEMMA CardsAgree ==
  ASSUME ApiInv
  PROVE  SameCards
<1>1. Typed /\ Backed
  BY DEF ApiInv
<1>2. ASSUME NEW p \in DOMAIN proposal PROVE QueueBadges(proposal[p]) = CardBadges(proposal[p])
  <2>1. proposal[p] \in ProposalRow
    BY <1>1, RowsOfTables
  <2>2. /\ proposal[p].status \in {"pending", "accepted", "rejected"}
        /\ proposal[p].donorAccepted \in BOOLEAN /\ proposal[p].receiverAccepted \in BOOLEAN
    BY <2>1 DEF ProposalRow
  <2>3. proposal[p].status = "accepted" => proposal[p].donorAccepted /\ proposal[p].receiverAccepted
    BY <1>1 DEF Backed, Live, Both
  <2> QED
    BY <2>2, <2>3 DEF QueueBadges, CardBadges
<1>3. ASSUME NEW r \in Receivers, NEW row \in ToSet(PageOf(r).proposals)
      PROVE  PhoneCardOffers(row) = CardOffers(row)
  <2>1. r \in Users
    BY DEF Users
  <2>2. row.id \in ProposalsOf(r) /\ row = ProposalSent(row.id)
    BY <1>1, <2>1, PageRows
  <2>3. row.status \in {"pending", "accepted", "rejected"}
    BY <1>1, <2>2, PartiesAre DEF ProposalSent, ProposalsOf
  <2> QED
    BY <2>3 DEF PhoneCardOffers, CardOffers
<1>4. ASSUME NEW u \in Users
      PROVE  Unread(PageOf(u)) = Cardinality(ReadOffers(u, PageOf(u)))
  <2> DEFINE page == PageOf(u)
             box == inbox[u]
             I == {i \in 1 .. Len(box) : box[i] \in {FALSE}}
             f == [i \in I |-> [call |-> "read", on |-> i, to |-> {}]]
             listed == DOMAIN page.notifications
                       \cup UNION {NotificationRows(u, page, x) : x \in {"all", "unread"}}
  <2>1. page.notifications = box /\ box \in Seq(BOOLEAN)
    BY <1>1, PageRows DEF Typed
  <2>2. Unread(page) = Cardinality(I)
    BY <2>1, KeptLength DEF Unread, Count
  <2>3. listed = DOMAIN page.notifications
    BY DEF NotificationRows
  <2>4. {j \in listed : ~ page.notifications[j]} = I
    <3>1. listed = 1 .. Len(box)
      BY <2>1, <2>3, InSeq
    <3>2. \A j \in 1 .. Len(box) : box[j] \in BOOLEAN
      BY <2>1, InSeq
    <3>3. \A j \in 1 .. Len(box) : ~ box[j] <=> box[j] \in {FALSE}
      BY Zenon, <3>2
    <3> HIDE DEF listed
    <3> QED
      BY Zenon, <2>1, <3>1, <3>3
  <2> HIDE DEF page, box, I, listed
  <2>5. ReadOffers(u, page) = {[call |-> "read", on |-> i, to |-> {}] : i \in I}
    BY <2>4 DEF ReadOffers, listed
  <2>6. f \in [I -> ReadOffers(u, page)]
    BY <2>5
  <2>7. \A i, j \in I : f[i] = f[j] => i = j
    <3> SUFFICES ASSUME NEW i \in I, NEW j \in I, f[i] = f[j] PROVE i = j
      OBVIOUS
    <3>1. f[i].on = i /\ f[j].on = j
      OBVIOUS
    <3> QED
      BY <3>1
  <2>8. \A ask \in ReadOffers(u, page) : \E i \in I : f[i] = ask
    BY <2>5
  <2>9. IsFiniteSet(I)
    <3>1. I \in SUBSET (1 .. Len(box)) /\ Len(box) \in Nat
      BY <2>1, InSeq DEF I
    <3> QED
      BY <3>1, SizeOfTable, FS_Subset
  <2> HIDE DEF f
  <2> QED
    BY <2>2, <2>6, <2>7, <2>8, <2>9, SameCount DEF page
<1> QED
  BY <1>2, <1>3, <1>4 DEF SameCards

(* A pickup's status is that of its donation (Carried).                     *)
LEMMA StagesAgree ==
  ASSUME ApiInv
  PROVE  SameStage
<1> SUFFICES ASSUME NEW v \in Volunteers, NEW u \in Donors,
                    NEW k \in ActivePickup(PageOf(v)),
                    NEW d \in ToSet(TableRows(PageOf(u), "all")), d.id = k.donation
             PROVE  PickupBadge(PageOf(v)) =
                       {IF d.status = "pickup_assigned" THEN "assigned" ELSE d.status}
  BY DEF SameStage
<1>1. Typed /\ Carried /\ v \in Users /\ u \in Users
  BY DEF ApiInv, Users
<1>2. /\ IsList(PageOf(v).pickups) /\ IsList(PageOf(u).donations)
      /\ \A row \in ToSet(PageOf(u).donations) :
            row.id \in DonationsOf(u) /\ row = DonationSent(row.id)
  BY <1>1, PageRows
<1>3. k \in ToSet(PageOf(v).pickups) /\ k.status \in UnderWay
  BY <1>2, ActiveRow
<1>4. k.id \in DOMAIN pickup /\ k = PickupSent(k.id)
  BY <1>1, <1>3, PickupOnPage
<1>5. \A x \in ActivePickup(PageOf(v)) : x = k
  BY <1>2, StatusRows, FirstRows DEF ActivePickup
<1>6. PickupBadge(PageOf(v)) = {k.status}
  BY <1>5 DEF PickupBadge
<1>7. d \in ToSet(PageOf(u).donations)
  <2> DEFINE T == {x \in ToSet(PageOf(u).donations) : "all" \in {"all", x.status}}
  <2>1. TableRows(PageOf(u), "all") = Kept(PageOf(u).donations, T)
    BY DEF TableRows
  <2> HIDE DEF T
  <2> QED
    BY <1>2, <2>1, KeptElements DEF IsList
<1>8. d.status = donation[d.id].status
  BY <1>2, <1>7 DEF DonationSent
<1>9. k.status = pickup[k.id].status /\ k.donation = OfPickup(k.id).donation
  BY <1>4 DEF PickupSent
<1>10. d.status = StageOfPickup[k.status]
  BY <1>1, <1>4, <1>8, <1>9 DEF Carried, StatusOf, OfPickup
<1> QED
  BY <1>3, <1>6, <1>10 DEF StageOfPickup, UnderWay

(* The four steps of a timeline.                                            *)
LEMMA TimelineDone ==
  ASSUME NEW page
  PROVE  LET ks == ReceiverPickup(page) IN
         /\ Timeline(page)[1] <=> \E p \in TimelineProposal(page) :
                                     p.receiverAccepted \/ p.status = "accepted"
         /\ Timeline(page)[2] <=> ks # {}
         /\ Timeline(page)[3] <=> \E k \in ks : k.status \in {"picked_up", "delivered"}
         /\ Timeline(page)[4] <=> \E k \in ks : k.status = "delivered"
<1>1. \A a, b, c, d : /\ <<a, b, c, d>>[1] = a /\ <<a, b, c, d>>[2] = b
                      /\ <<a, b, c, d>>[3] = c /\ <<a, b, c, d>>[4] = d
  OBVIOUS
<1> QED
  BY Zenon, <1>1 DEF Timeline

(* With a pickup on the timeline its proposal is found, and accepted.       *)
LEMMA TimelinesAgree ==
  ASSUME ListsFit, ApiInv
  PROVE  SameTimelines
<1>1. Typed
  BY DEF ApiInv
<1>2. ASSUME NEW v \in Volunteers PROVE PickupSteps(PageOf(v)) = PhonePickupSteps(PageOf(v))
  <2> DEFINE mine == ActivePickup(PageOf(v))
             phone == PhonePickupSteps(PageOf(v))
             Done(i) == \E k \in mine :
                           \/ i = 1
                           \/ i = 2 /\ k.status \in {"picked_up", "delivered"}
                           \/ i = 3 /\ k.status = "delivered"
  <2>1. phone = [i \in 1 .. 3 |-> Done(i)]
    BY DEF PhonePickupSteps
  <2>2. /\ Done(1) = (mine # {})
        /\ Done(2) = (\E k \in mine : k.status \in {"picked_up", "delivered"})
        /\ Done(3) = (\E k \in mine : k.status = "delivered")
    <3> HIDE DEF mine
    <3>1. Done(1) <=> mine # {}
      <4>1. Done(1) <=> \E k \in mine : TRUE
        OBVIOUS
      <4> HIDE DEF Done
      <4> QED
        BY <4>1
    <3>2. Done(2) <=> \E k \in mine : k.status \in {"picked_up", "delivered"}
      BY SMT
    <3>3. Done(3) <=> \E k \in mine : k.status = "delivered"
      BY SMT
    <3> QED
      BY Zenon, <3>1, <3>2, <3>3
  <2> HIDE DEF phone, Done
  <2>3. phone = <<Done(1), Done(2), Done(3)>>
    BY <2>1
  <2> QED
    BY Zenon, <2>2, <2>3 DEF PickupSteps, phone
<1>3. ASSUME NEW r \in Receivers, NEW k \in ReceiverPickup(PageOf(r))
      PROVE  /\ k.status \in {"assigned", "picked_up", "delivered"}
             /\ k.id \in DOMAIN pickup /\ k = PickupSent(k.id)
             /\ ReceiverPickup(PageOf(r)) = {k}
             /\ TimelineTitle(PageOf(r))
  <2> DEFINE page == PageOf(r)
             p == pickup[k.id].proposal
  <2>1. /\ r \in Users /\ IsList(page.pickups) /\ IsList(page.proposals)
        /\ \A row \in ToSet(page.pickups) : row.id \in PickupsOf(r)
        /\ \A row \in ToSet(page.proposals) : row.id \in ProposalsOf(r) /\ row = ProposalSent(row.id)
    BY <1>1, PageRows DEF Users
  <2> HIDE DEF page
  <2>2. k \in ToSet(page.pickups)
    BY <1>3, <2>1, ActiveRow DEF page
  <2>3. k.id \in DOMAIN pickup /\ k = PickupSent(k.id)
    BY <1>1, <2>1, <2>2, PickupOnPage DEF page
  <2>4. pickup[k.id] \in PickupRow
    BY <1>1, <2>3, RowsOfTables
  <2>5. k.status = pickup[k.id].status /\ k.proposal = p
    BY <2>3 DEF PickupSent
  <2>6. \A x \in ReceiverPickup(page) : x = k
    <3>1. \A x, y \in ActivePickup(page) : x = y
      BY <2>1, StatusRows, FirstRows DEF ActivePickup
    <3>2. \A x, y \in First(page.pickups) : x = y
      BY <2>1, FirstRows
    <3> QED
      BY <1>3, <3>1, <3>2 DEF ReceiverPickup, OrElse, page
  <2>7. ReceiverPickup(page) = {k}
    BY <1>3, <2>6 DEF page
  <2>8. /\ p \in DOMAIN proposal /\ proposal[p].status = "accepted" /\ p \in ProposalsOf(r)
    BY <2>1, <2>2, <2>3 DEF ApiInv, Typed, Carried, PickupsOf
  <2>9. ProposalSent(p) \in ToSet(page.proposals)
    BY <2>1, <2>8, RowShown DEF page
  <2> DEFINE S == UNION {WithId(page.proposals, x.proposal) : x \in ReceiverPickup(page)}
  <2>10. S = {row \in ToSet(page.proposals) : row.id = p}
    BY <2>5, <2>7 DEF WithId
  <2> HIDE DEF S, p
  <2>11. ProposalSent(p) \in S
    BY <2>9, <2>10 DEF ProposalSent
  <2>12. PICK row \in Find(page.proposals, S) : row \in ToSet(page.proposals) /\ row.id = p
    BY <2>1, <2>9, <2>10, <2>11, FoundRows
  <2>13. row \in TimelineProposal(page)
    BY <2>7, <2>12 DEF TimelineProposal, S
  <2>14. row.status = "accepted"
    BY <2>1, <2>8, <2>12 DEF ProposalSent
  <2>15. TimelineTitle(page)
    BY <2>13, <2>14 DEF TimelineTitle
  <2> QED
    BY <2>3, <2>4, <2>5, <2>7, <2>15 DEF PickupRow, page
<1>4. ASSUME NEW r \in Receivers, NEW i \in 2 .. 4, Timeline(PageOf(r))[i]
      PROVE  Timeline(PageOf(r))[i - 1]
  <2> DEFINE page == PageOf(r)
             ks == ReceiverPickup(page)
  <2>1. ks # {} => \E p \in TimelineProposal(page) : p.receiverAccepted \/ p.status = "accepted"
    BY <1>3 DEF TimelineTitle
  <2> HIDE DEF page, ks
  <2>2. CASE i = 2
    BY <1>4, <2>1, <2>2, TimelineDone DEF page, ks
  <2>3. CASE i = 3
    BY <1>4, <2>3, TimelineDone
  <2>4. CASE i = 4
    BY <1>4, <2>4, TimelineDone
  <2> QED
    BY <2>2, <2>3, <2>4
<1>5. ASSUME NEW r \in Receivers, Timeline(PageOf(r))[2]
      PROVE  TimelineTitle(PageOf(r))
  <2>1. ReceiverPickup(PageOf(r)) # {}
    BY <1>5, TimelineDone
  <2> QED
    BY <1>3, <2>1
<1>6. ASSUME NEW r \in Receivers PROVE PhoneTimeline(PageOf(r)) = Timeline(PageOf(r))
  <2> DEFINE ks == ReceiverPickup(PageOf(r))
  <2>1. ks # {} <=> \E k \in ks : k.status \in {"assigned", "picked_up", "delivered"}
    BY <1>3
  <2> QED
    BY <2>1 DEF Timeline, PhoneTimeline
<1>7. ASSUME NEW r \in Receivers, NEW v \in Volunteers,
             ActivePickup(PageOf(v)) # {},
             Ids(ActivePickup(PageOf(v))) = Ids(ReceiverPickup(PageOf(r)))
      PROVE  PickupSteps(PageOf(v)) = Tail(Timeline(PageOf(r)))
  <2> DEFINE mine == ActivePickup(PageOf(v))
             ks == ReceiverPickup(PageOf(r))
  <2>1. v \in Users /\ IsList(PageOf(v).pickups)
    BY <1>1, PageRows DEF Users
  <2>2. PICK k \in mine : TRUE
    BY <1>7
  <2>3. \A x, y \in mine : x = y
    BY <2>1, StatusRows, FirstRows DEF ActivePickup
  <2>4. k = PickupSent(k.id)
    BY <1>1, <2>1, <2>2, ActiveRow, PickupOnPage
  <2>5. PICK l \in ks : l.id = k.id
    BY <1>7, <2>2 DEF Ids
  <2>6. l = k /\ ks = {k}
    BY <1>3, <2>4, <2>5
  <2>7. mine = ks /\ ks # {}
    BY <2>2, <2>3, <2>6
  <2>8. \A a, b, c, d : Tail(<<a, b, c, d>>) = <<b, c, d>>
    OBVIOUS
  <2> HIDE DEF mine, ks
  <2> DEFINE a == \E p \in TimelineProposal(PageOf(r)) : p.receiverAccepted \/ p.status = "accepted"
             b == ks # {}
             c == \E x \in ks : x.status \in {"picked_up", "delivered"}
             d == \E x \in ks : x.status = "delivered"
  <2>9. Timeline(PageOf(r)) = <<a, b, c, d>>
    BY Zenon DEF Timeline, ks
  <2>10. Tail(Timeline(PageOf(r))) = <<b, c, d>>
    <3> HIDE DEF a, b, c, d
    <3> QED
      BY Zenon, <2>8, <2>9
  <2>11. PickupSteps(PageOf(v)) =
          <<mine # {}, \E x \in mine : x.status \in {"picked_up", "delivered"},
            \E x \in mine : x.status = "delivered">>
    BY Zenon DEF PickupSteps, mine
  <2> QED
    BY Zenon, <2>7, <2>10, <2>11
<1> QED
  BY <1>2, <1>4, <1>5, <1>6, <1>7 DEF SameTimelines

(* The clear page shows volunteers every available donation.                *)
LEMMA AvailableCount ==
  ASSUME ListsFit, ApiInv, NEW v \in Volunteers
  PROVE  Len(AvailableDonations(PageOf(v), Clear))
            = Cardinality(DonationsAt(DOMAIN donation, {"available"}))
<1> DEFINE page == PageOf(v)
           S == DonationsOf(v)
           T1 == {row \in ToSet(page.donations) : row.status \in FilterStatuses("All")}
           T2 == {row \in ToSet(page.donations) : row.id \in Clear.found}
           S1 == {n \in S : SentDonations[n] \in T1}
           S2 == {n \in S1 : SentDonations[n] \in T2}
           shown == Kept(Kept(page.donations, T1), T2)
<1>1. v \in Users /\ Typed
  BY DEF Users, ApiInv
<1>2. Tagged(SentDonations, S) /\ Whole(page.donations, SentDonations, S)
  BY <1>1, PagesWhole
<1>3. \A n \in S : SentDonations[n] \in ToSet(page.donations)
  BY <1>2 DEF Whole
<1>4. S = DOMAIN donation
  BY <1>1, RowsOf
<1>5. \A n \in S : /\ SentDonations[n].id = n /\ n \in DonationIds
                   /\ SentDonations[n].status = donation[n].status
  BY <1>1, <1>2, <1>4, DonationInBound DEF Tagged, SentDonations, DonationSent
<1> HIDE DEF page, S
<1>6. Tagged(SentDonations, S1) /\ Whole(Kept(page.donations, T1), SentDonations, S1)
  <2> HIDE DEF T1
  <2> QED
    BY <1>2, ListFiltered DEF Whole
<1>7. Tagged(SentDonations, S2) /\ Whole(shown, SentDonations, S2)
  <2> HIDE DEF T1, T2, S1
  <2> QED
    BY <1>6, ListFiltered DEF Whole
<1>8. AvailableDonations(page, Clear) = WithStatus(shown, {"available"})
  BY ClearChoice DEF AvailableDonations, FilteredDonations, WithStatus
<1>9. {n \in S2 : SentDonations[n].status \in {"available"}}
         = DonationsAt(DOMAIN donation, {"available"})
  <2>1. "available" \in FilterStatuses("All")
    BY DEF FilterStatuses
  <2> QED
    BY <1>3, <1>4, <1>5, <2>1, ClearChoice DEF DonationsAt
<1> HIDE DEF S2, shown
<1> QED
  BY <1>7, <1>8, <1>9, ListCount DEF page

(* Pending proposals and the donations they hold are one to one.            *)
LEMMA PendingHolds ==
  ASSUME ApiInv, Held
  PROVE  Cardinality(DonationsAt(DOMAIN donation, {"proposal_pending"}))
            = Cardinality(ProposalsAt(DOMAIN proposal, {"pending"}))
<1> DEFINE A == ProposalsAt(DOMAIN proposal, {"pending"})
           B == DonationsAt(DOMAIN donation, {"proposal_pending"})
           f == [p \in A |-> proposal[p].donation]
<1>1. Typed /\ Backed
  BY DEF ApiInv
<1>2. \A p \in A : p \in DOMAIN proposal /\ Live(p) /\ proposal[p].status = "pending"
  BY DEF ProposalsAt, Live
<1>3. f \in [A -> B]
  BY <1>1, <1>2 DEF Backed, Typed, DonationsAt, StatusOf
<1>4. \A x, y \in A : f[x] = f[y] => x = y
  BY <1>1, <1>2 DEF Backed
<1>5. ASSUME NEW d \in B PROVE \E p \in A : f[p] = d
  <2>1. d \in DOMAIN donation /\ donation[d].status = "proposal_pending"
    BY DEF DonationsAt
  <2>2. PICK p \in DOMAIN proposal : Live(p) /\ proposal[p].donation = d
    BY <2>1 DEF Held
  <2>3. p \in A
    BY <1>1, <2>1, <2>2 DEF Backed, StatusOf, ProposalsAt
  <2> QED
    BY <2>2, <2>3
<1>6. IsFiniteSet(A)
  <2>1. A \in SUBSET DOMAIN proposal
    BY <1>2
  <2> QED
    BY <2>1, FiniteTables
<1> HIDE DEF A, B, f
<1>7. Cardinality(B) = Cardinality(A)
  BY <1>3, <1>4, <1>5, <1>6, SameCount
<1> QED
  BY <1>7 DEF A, B

(* Pending proposals count once in each role.                               *)
LEMMA PendingAgree ==
  ASSUME ListsFit, ApiInv, Held
  PROVE  SamePending
<1> DEFINE m == Cardinality(ProposalsAt(DOMAIN proposal, {"pending"}))
<1>1. Pending(Donors) = m /\ Pending(Receivers) = m /\ Pending(Volunteers) = m
  BY ProposalSums DEF Pending, PendingCount
<1> HIDE DEF m
<1>2. ASSUME NEW v \in Volunteers
      PROVE  LET page == PageOf(v) IN
             /\ Len(AllDonations(page)) = Glance(page, Clear).available + m
             /\ PhoneVolunteerHero(page, Clear).ready = Glance(page, Clear).available
             /\ SidebarBadge(v, page) \cup {0} = {Glance(page, Clear).available, 0}
  <2> DEFINE page == PageOf(v)
             A == DonationsAt(DOMAIN donation, {"available"})
             B == DonationsAt(DOMAIN donation, {"proposal_pending"})
             C == DonationsAt(DOMAIN donation, {"available", "proposal_pending"})
  <2>1. v \in Users /\ v \notin Receivers /\ v \notin Donors /\ DonationsOf(v) = DOMAIN donation
    BY RowsOf, RolesAssumption DEF Users, ApiInv
  <2>2. Len(AllDonations(page)) = Cardinality(C)
    BY <2>1, PageCounts DEF AllDonations
  <2>3. Len(WithStatus(page.donations, {"available"})) = Cardinality(A)
    BY <2>1, PageCounts
  <2>4. Glance(page, Clear).available = Cardinality(A)
    BY AvailableCount DEF Glance
  <2>5. PhoneVolunteerHero(page, Clear).ready = Glance(page, Clear).available
    BY DEF PhoneVolunteerHero, Glance
  <2> HIDE DEF page
  <2>6. C = A \cup B /\ A \cap B = {} /\ IsFiniteSet(A) /\ IsFiniteSet(B)
    <3>1. C = A \cup B /\ A \cap B = {}
      BY DEF DonationsAt
    <3>2. A \in SUBSET DOMAIN donation /\ B \in SUBSET DOMAIN donation
      BY DEF DonationsAt
    <3> QED
      BY <3>1, <3>2, FiniteTables
  <2>7. Cardinality(B) = m
    BY PendingHolds DEF m
  <2> HIDE DEF A, B, C
  <2>8. Cardinality(C) = Cardinality(A) + m
    <3>1. Cardinality(C) = Cardinality(A) + Cardinality(B) - 0
      BY <2>6, FS_Union, FS_EmptySet
    <3>2. Cardinality(A) \in Nat /\ Cardinality(B) \in Nat
      BY <2>6, FS_CardinalityType
    <3> QED
      BY <2>7, <3>1, <3>2
  <2>9. SidebarBadge(v, page) = {Cardinality(A)} \ {0}
    BY <2>1, <2>3 DEF SidebarBadge
  <2> QED
    BY <2>2, <2>4, <2>5, <2>8, <2>9 DEF page
<1> QED
  BY <1>1, <1>2 DEF SamePending

(* Reported deliveries: a pickup delivered and its donation delivered.      *)
LEMMA DeliveriesAgree ==
  ASSUME ListsFit, ApiInv, Held
  PROVE  SumFunction([v \in Volunteers |-> Reports(PageOf(v)).delivered])
            = SumFunction([u \in Donors |-> DonorHero(PageOf(u)).delivered])
<1> DEFINE A == PickupsAt(DOMAIN pickup, {"delivered"})
           B == DonationsAt(DOMAIN donation, {"delivered"})
           C(v) == Reports(PageOf(v)).delivered
           D(u) == DonorHero(PageOf(u)).delivered
<1>1. Typed /\ Backed /\ Carried
  BY DEF ApiInv
<1>2. IsFiniteSet(A) /\ IsFiniteSet(B)
  <2>1. A \in SUBSET DOMAIN pickup /\ B \in SUBSET DOMAIN donation
    BY DEF PickupsAt, DonationsAt
  <2> QED
    BY <2>1, FiniteTables
<1>3. \A v \in Volunteers :
         C(v) = Cardinality(PickupsAt(PickupsOf(v), {"delivered"}))
  <2> SUFFICES ASSUME NEW v \in Volunteers
               PROVE  C(v) = Cardinality(PickupsAt(PickupsOf(v), {"delivered"}))
    OBVIOUS
  <2>1. v \in Users
    BY DEF Users
  <2>2. C(v) = Len(WithStatus(PageOf(v).pickups, {"delivered"}))
    BY DEF Reports
  <2> QED
    BY <2>1, <2>2, PageCounts
<1>4. \A u \in Donors :
         D(u) = Cardinality(DonationsAt(DonationsOf(u), {"delivered"}))
  <2> SUFFICES ASSUME NEW u \in Donors
               PROVE  D(u) = Cardinality(DonationsAt(DonationsOf(u), {"delivered"}))
    OBVIOUS
  <2>1. u \in Users
    BY DEF Users
  <2>2. D(u) = Len(WithStatus(PageOf(u).donations, {"delivered"}))
    BY DEF DonorHero
  <2> QED
    BY <2>1, <2>2, PageCounts
<1> HIDE DEF C, D
<1>5. SumFunction([v \in Volunteers |-> C(v)]) = Cardinality(A)
  <2> DEFINE g == [k \in A |-> OfPickup(k).volunteer]
  <2>1. g \in [A -> Volunteers]
    BY <1>1, PartiesAre DEF Typed, OfPickup, PickupsAt
  <2>2. \A v \in Volunteers : PickupsAt(PickupsOf(v), {"delivered"}) = {k \in A : g[k] = v}
    BY <1>1, RowsOf DEF PickupsAt
  <2> HIDE DEF g, A
  <2>3. [v \in Volunteers |-> C(v)] = [v \in Volunteers |-> Cardinality({k \in A : g[k] = v})]
    BY <1>3, <2>2
  <2> QED
    BY <1>2, <2>1, <2>3, FiniteTables, SumCounts
<1>6. SumFunction([u \in Donors |-> D(u)]) = Cardinality(B)
  <2> DEFINE g == [d \in B |-> donation[d].donor]
  <2>1. g \in [B -> Donors]
    <3>1. \A d \in DOMAIN donation : donation[d].donor \in Donors
      BY <1>1, RowsOfTables DEF DonationRow
    <3> QED
      BY <3>1 DEF DonationsAt
  <2>2. \A u \in Donors : DonationsAt(DonationsOf(u), {"delivered"}) = {d \in B : g[d] = u}
    BY <1>1, RowsOf DEF DonationsAt
  <2> HIDE DEF g, B
  <2>3. [u \in Donors |-> D(u)] = [u \in Donors |-> Cardinality({d \in B : g[d] = u})]
    BY <1>4, <2>2
  <2> QED
    BY <1>2, <2>1, <2>3, FiniteTables, SumCounts
<1>7. Cardinality(B) = Cardinality(A)
  <2> DEFINE f == [k \in A |-> OfPickup(k).donation]
  <2>1. \A k \in A : /\ k \in DOMAIN pickup /\ pickup[k].status = "delivered"
                     /\ pickup[k].proposal \in DOMAIN proposal /\ Live(pickup[k].proposal)
                     /\ OfPickup(k).donation \in DOMAIN donation
                     /\ StatusOf(pickup[k].proposal) = StageOfPickup["delivered"]
    BY <1>1 DEF Typed, Carried, PickupsAt, Live, OfPickup
  <2>2. f \in [A -> B]
    BY <2>1 DEF DonationsAt, StatusOf, OfPickup, StageOfPickup
  <2>3. \A k, l \in A : f[k] = f[l] => k = l
    BY <1>1, <2>1 DEF Backed, Carried, OfPickup
  <2>4. ASSUME NEW d \in B PROVE \E k \in A : f[k] = d
    <3>1. d \in DOMAIN donation /\ donation[d].status = "delivered"
      BY DEF DonationsAt
    <3>2. PICK p \in DOMAIN proposal : Live(p) /\ proposal[p].donation = d
      BY <3>1 DEF Held
    <3>3. proposal[p].status = "accepted"
      BY <1>1, <3>1, <3>2, PartiesAre DEF Backed, StatusOf, Live
    <3>4. PICK k \in DOMAIN pickup : pickup[k].proposal = p
      BY <3>3 DEF Held
    <3>5. StageOfPickup[pickup[k].status] = "delivered" /\ pickup[k] \in PickupRow
      BY <1>1, <3>1, <3>2, <3>4, RowsOfTables DEF Carried, StatusOf
    <3>6. pickup[k].status = "delivered"
      BY <3>5 DEF StageOfPickup, PickupRow
    <3> QED
      BY <3>2, <3>4, <3>6 DEF PickupsAt, OfPickup
  <2> HIDE DEF A, B, f
  <2> QED
    BY <1>2, <2>2, <2>3, <2>4, SameCount
<1> QED
  BY <1>5, <1>6, <1>7 DEF C, D

(* A volunteer's pickups, accepted proposals and helped donations are as    *)
(* many.                                                                    *)
LEMMA ReportAgrees ==
  ASSUME ListsFit, ApiInv, Held, NEW v \in Volunteers
  PROVE  LET report == Reports(PageOf(v)) IN
         report.pickups = report.accepted /\ report.helped = report.accepted
<1> DEFINE page == PageOf(v)
           A == PickupsOf(v)
           B == ProposalsAt(ProposalsOf(v), {"accepted"})
           C == {k.donation : k \in ToSet(page.pickups)}
<1>1. Typed /\ Backed /\ Carried /\ v \in Users
  BY DEF ApiInv, Users
<1>2. Len(page.pickups) = Cardinality(A) /\ Len(WithStatus(page.proposals, {"accepted"})) = Cardinality(B)
  BY <1>1, PageCounts
<1>3. /\ \A k \in ToSet(page.pickups) : k.id \in A /\ k = PickupSent(k.id)
      /\ \A k \in A : PickupSent(k) \in ToSet(page.pickups)
  BY <1>1, PageRows, RowShown
<1>4. /\ Reports(page).pickups = Len(page.pickups) /\ Reports(page).helped = Cardinality(C)
      /\ Reports(page).accepted = Len(WithStatus(page.proposals, {"accepted"}))
  BY DEF Reports
<1> HIDE DEF page
<1>5. \A k \in A : /\ k \in DOMAIN pickup /\ pickup[k].proposal \in DOMAIN proposal
                   /\ pickup[k].proposal \in ProposalsOf(v)
                   /\ proposal[pickup[k].proposal].status = "accepted"
  BY <1>1 DEF PickupsOf, Carried, Typed
<1>6. IsFiniteSet(A)
  <2>1. A \in SUBSET DOMAIN pickup
    BY DEF PickupsOf
  <2> QED
    BY <2>1, FiniteTables
<1>7. Cardinality(B) = Cardinality(A)
  <2> DEFINE f == [k \in A |-> pickup[k].proposal]
  <2>1. f \in [A -> B]
    BY <1>5 DEF ProposalsAt
  <2>2. \A k, l \in A : f[k] = f[l] => k = l
    BY <1>1, <1>5 DEF Carried
  <2>3. ASSUME NEW p \in B PROVE \E k \in A : f[k] = p
    <3>1. p \in DOMAIN proposal /\ proposal[p].status = "accepted" /\ p \in ProposalsOf(v)
      BY DEF ProposalsAt, ProposalsOf
    <3>2. PICK k \in DOMAIN pickup : pickup[k].proposal = p
      BY <3>1 DEF Held
    <3> QED
      BY <3>1, <3>2 DEF PickupsOf
  <2> HIDE DEF A, B, f
  <2> QED
    BY <1>6, <2>1, <2>2, <2>3, SameCount
<1>8. Cardinality(C) = Cardinality(A)
  <2> DEFINE f == [k \in A |-> OfPickup(k).donation]
  <2>1. \A k \in A : PickupSent(k).donation = OfPickup(k).donation
    BY DEF PickupSent
  <2>2. f \in [A -> C]
    BY <1>3, <2>1
  <2>3. \A k, l \in A : f[k] = f[l] => k = l
    BY <1>1, <1>5 DEF Backed, Carried, OfPickup, Live
  <2>4. \A d \in C : \E k \in A : f[k] = d
    BY <1>3, <2>1
  <2> HIDE DEF A, C, f
  <2> QED
    BY <1>6, <2>2, <2>3, <2>4, SameCount
<1> QED
  BY <1>2, <1>4, <1>7, <1>8 DEF page

LEMMA TableAgrees ==
  ASSUME ListsFit, ApiInv, NEW u \in Donors,
         NEW d \in Ids(ToSet(TableRows(PageOf(u), "all")))
  PROVE  ProposalCount(PageOf(u), d) = Cardinality({p \in DOMAIN proposal : proposal[p].donation = d})
<1> DEFINE page == PageOf(u)
           T == {row \in ToSet(page.donations) : "all" \in {"all", row.status}}
           R == {row \in ToSet(page.proposals) : row.donation = d}
           S == ProposalsOf(u)
           SS == {p \in S : SentProposals[p] \in R}
<1>1. Typed /\ u \in Users
  BY DEF ApiInv, Users
<1>2. /\ IsList(page.donations)
      /\ \A row \in ToSet(page.donations) : row.id \in DonationsOf(u)
  BY <1>1, PageRows
<1>3. Tagged(SentProposals, S) /\ Whole(page.proposals, SentProposals, S)
  BY <1>1, PagesWhole
<1>4. d \in DonationsOf(u)
  <2>1. TableRows(page, "all") = Kept(page.donations, T)
    BY DEF TableRows
  <2> HIDE DEF T
  <2>2. ToSet(Kept(page.donations, T)) = ToSet(page.donations) \cap T
    BY <1>2, KeptElements DEF IsList
  <2> QED
    BY <1>2, <2>1, <2>2 DEF Ids
<1> HIDE DEF page, T
<1>5. Tagged(SentProposals, SS) /\ Whole(Kept(page.proposals, R), SentProposals, SS)
  <2> HIDE DEF R
  <2> QED
    BY <1>3, ListFiltered DEF Whole
<1>6. SS = {p \in DOMAIN proposal : proposal[p].donation = d}
  <2>1. \A p \in S : SentProposals[p] \in ToSet(page.proposals)
    BY <1>3 DEF Whole
  <2>2. \A p \in S : SentProposals[p].donation = proposal[p].donation
    BY DEF SentProposals, ProposalSent, ProposalsOf
  <2>3. \A p \in DOMAIN proposal : proposal[p].donation = d => p \in S
    BY <1>1, <1>4, RowsOf DEF DonorOf
  <2> QED
    BY <2>1, <2>2, <2>3 DEF ProposalsOf
<1> HIDE DEF SS
<1>7. Len(Kept(page.proposals, R)) = Cardinality(SS)
  BY <1>5, ListLength
<1> QED
  BY <1>6, <1>7 DEF ProposalCount, Count, page

(* Deliveries, reports and tables.                                          *)
LEMMA DeedsAgree ==
  ASSUME ListsFit, ApiInv, Held
  PROVE  SameDeeds
  BY DeliveriesAgree, ReportAgrees, TableAgrees DEF SameDeeds

(* Cards with View details are the settled proposals.                       *)
LEMMA DetailsCount ==
  ASSUME ListsFit, ApiInv, NEW u \in Users
  PROVE  Cardinality(QueueDetails(PageOf(u)))
            = Len(WithStatus(PageOf(u).proposals, {"accepted", "rejected"}))
<1> DEFINE page == PageOf(u)
           A == ProposalsAt(ProposalsOf(u), {"accepted", "rejected"})
           B == QueueDetails(page)
           Detail(row) == [id |-> row.id, status |-> row.status,
                           donor |-> row.donorAccepted, receiver |-> row.receiverAccepted]
           f == [p \in A |-> Detail(ProposalSent(p))]
<1>1. Typed
  BY DEF ApiInv
<1>2. Len(WithStatus(page.proposals, {"accepted", "rejected"})) = Cardinality(A)
  BY PageCounts
<1>3. /\ \A row \in ToSet(page.proposals) : row.id \in ProposalsOf(u) /\ row = ProposalSent(row.id)
      /\ \A p \in ProposalsOf(u) : ProposalSent(p) \in ToSet(page.proposals)
  BY <1>1, PageRows, RowShown
<1>4. \A p \in ProposalsOf(u) : /\ p \in DOMAIN proposal
                                /\ ProposalSent(p).status = proposal[p].status
                                /\ proposal[p].status \in {"pending", "accepted", "rejected"}
  BY <1>1, PartiesAre DEF ProposalsOf, ProposalSent
<1> HIDE DEF page
<1> DEFINE R == {row \in ToSet(page.proposals) : row.status # "pending"}
<1>5. B = {Detail(row) : row \in R}
  BY DEF QueueDetails
<1>6. \A p \in A : ProposalSent(p) \in R
  BY <1>3, <1>4 DEF ProposalsAt
<1>7. \A row \in R : row.id \in A /\ row = ProposalSent(row.id)
  BY <1>3, <1>4 DEF ProposalsAt
<1>8. \A p \in A : Detail(ProposalSent(p)).id = p
  BY DEF ProposalSent
<1>9. IsFiniteSet(A)
  <2>1. A \in SUBSET DOMAIN proposal
    BY <1>4 DEF ProposalsAt
  <2> QED
    BY <2>1, FiniteTables
<1> HIDE DEF A, B, R, Detail
<1>10. f \in [A -> B]
  BY <1>5, <1>6
<1>11. \A p, q \in A : f[p] = f[q] => p = q
  BY <1>8
<1>12. \A b \in B : \E p \in A : f[p] = b
  BY <1>5, <1>7
<1> HIDE DEF f
<1>13. Cardinality(B) = Cardinality(A)
  BY <1>9, <1>10, <1>11, <1>12, SameCount
<1> QED
  BY <1>2, <1>13 DEF B, page

(* Counting statuses and counting rows by status is the same.               *)
LEMMA ClosedCount ==
  ASSUME Typed, NEW u \in Users, NEW statuses
  PROVE  Count(AllDeliveries(PageOf(u)), statuses) = Len(WithStatus(PageOf(u).proposals, statuses))
<1> DEFINE list == PageOf(u).proposals
           all == AllDeliveries(PageOf(u))
           T == {row \in ToSet(list) : row.status \in statuses}
           Y == {row.status : row \in ToSet(list)}
<1>1. list \in Seq(ToSet(list))
  BY PageRows DEF IsList
<1>2. all = [i \in DOMAIN list |-> list[i].status]
  BY DEF AllDeliveries
<1> HIDE DEF list, all
<1>3. /\ Len(list) \in Nat /\ DOMAIN list = 1 .. Len(list)
      /\ \A i \in 1 .. Len(list) : list[i] \in ToSet(list)
  BY <1>1, InSeq
<1>4. all \in Seq(Y) /\ Len(all) = Len(list)
  <2>1. all \in [1 .. Len(list) -> Y]
    BY <1>2, <1>3
  <2>2. all \in Seq(Y)
    BY <1>3, <2>1, SeqDef
  <2> HIDE DEF Y
  <2> QED
    BY <1>3, <2>1, <2>2, LenProperties
<1>5. {i \in 1 .. Len(all) : all[i] \in statuses} = {i \in 1 .. Len(list) : list[i] \in T}
  BY <1>2, <1>3, <1>4
<1> HIDE DEF T, Y
<1>6. Len(Kept(all, statuses)) = Len(Kept(list, T))
  <2>1. Len(Kept(all, statuses)) = Cardinality({i \in 1 .. Len(all) : all[i] \in statuses})
    BY <1>4, KeptLength
  <2>2. Len(Kept(list, T)) = Cardinality({i \in 1 .. Len(list) : list[i] \in T})
    BY <1>1, KeptLength
  <2> QED
    BY <1>5, <2>1, <2>2
<1> QED
  BY <1>6 DEF Count, WithStatus, list, all, T

(* The filters of the donor's table divide the list between them.           *)
LEMMA FootersAdd ==
  ASSUME ListsFit, ApiInv, NEW u \in Donors
  PROVE  LET footers == TableFooters(PageOf(u)) IN
         SumFunction([f \in DOMAIN footers |-> footers[f].shown]) = Len(PageOf(u).donations)
<1> DEFINE page == PageOf(u)
           footers == TableFooters(page)
           U == TableStatuses(page)
           S == DonationsOf(u)
           g == [d \in S |-> donation[d].status]
           shown == [x \in DOMAIN footers |-> footers[x].shown]
<1>1. Typed /\ u \in Users
  BY DEF ApiInv, Users
<1>2. /\ Tagged(SentDonations, S) /\ Whole(page.donations, SentDonations, S)
      /\ \A row \in ToSet(page.donations) : row.id \in S /\ row = DonationSent(row.id)
      /\ \A d \in S : d \in DOMAIN donation /\ DonationSent(d) \in ToSet(page.donations)
  BY <1>1, PagesWhole, PageRows, RowShown DEF DonationsOf
<1>3. Len(page.donations) = Cardinality(S)
  BY <1>1, PageCounts
<1>4. shown = [x \in U |-> Len(TableRows(page, x))]
  BY DEF TableFooters
<1> HIDE DEF page, S, footers, shown
<1>5. g \in [S -> U]
  BY <1>2 DEF TableStatuses, DonationSent
<1>6. U = {donation[d].status : d \in S}
  <2>1. \A row \in ToSet(page.donations) : row.id \in S /\ row.status = donation[row.id].status
    BY <1>2 DEF DonationSent
  <2>2. \A d \in S : DonationSent(d).status = donation[d].status
    BY DEF DonationSent
  <2> QED
    BY <1>2, <2>1, <2>2 DEF TableStatuses
<1>7. ASSUME NEW x \in U PROVE Len(TableRows(page, x)) = Cardinality({d \in S : g[d] = x})
  <2> DEFINE T == {row \in ToSet(page.donations) : x \in {"all", row.status}}
             SS == {d \in S : SentDonations[d] \in T}
  <2>1. x # "all"
    <3>1. \A d \in S : donation[d] \in DonationRow
      BY <1>1, <1>2, RowsOfTables
    <3> QED
      BY <1>6, <3>1 DEF DonationRow
  <2>2. Tagged(SentDonations, SS) /\ Whole(Kept(page.donations, T), SentDonations, SS)
    <3> HIDE DEF T
    <3>1. Tagged(SentDonations, S) /\ NewestFirst(page.donations, SentDonations, S)
      BY <1>2 DEF Whole
    <3>2. Whole(page.donations, SentDonations, S)
      BY <1>2
    <3> QED
      BY <3>1, <3>2, ListFiltered
  <2>3. SS = {d \in S : g[d] = x}
    BY <1>2, <2>1 DEF SentDonations, DonationSent
  <2> HIDE DEF SS
  <2>4. Len(Kept(page.donations, T)) = Cardinality(SS)
    BY <2>2, ListLength
  <2> QED
    BY <2>3, <2>4 DEF TableRows
<1>8. IsFiniteSet(S) /\ IsFiniteSet(U)
  <2>1. S \in SUBSET DOMAIN donation
    BY <1>2
  <2>2. IsFiniteSet(S)
    BY <2>1, FiniteTables
  <2>3. g \in Surjection(S, U)
    BY <1>5, <1>6 DEF Surjection
  <2> QED
    BY <2>2, <2>3, FS_Surjection
<1> HIDE DEF U, g
<1>9. shown = [x \in U |-> Cardinality({d \in S : g[d] = x})]
  BY <1>4, <1>7
<1>10. SumFunction(shown) = Cardinality(S)
  BY <1>5, <1>8, <1>9, SumCounts
<1> QED
  BY <1>3, <1>10 DEF shown, footers, page

(* Settled proposals count once in each role.                               *)
LEMMA SettledAgree ==
  ASSUME ListsFit, ApiInv
  PROVE  SameSettled
<1> DEFINE closed == {"accepted", "rejected"}
           Shown(u, statuses) == Len(WithStatus(PageOf(u).proposals, statuses))
           Settled(u) == Cardinality(QueueDetails(PageOf(u)))
           Won(r) == ReceiverStats(PageOf(r)).accepted
           Closed(r) == Count(AllDeliveries(PageOf(r)), closed)
           Reported(v) == Reports(PageOf(v)).accepted
<1>1. \A u \in Donors : Settled(u) = Shown(u, closed)
  BY DetailsCount DEF Users
<1>2. \A r \in Receivers : Closed(r) = Shown(r, closed)
  BY ClosedCount DEF Users, ApiInv
<1>3. \A r \in Receivers : Won(r) = Shown(r, {"accepted"})
  BY DEF ReceiverStats
<1>4. \A v \in Volunteers : Reported(v) = Shown(v, {"accepted"})
  BY DEF Reports
<1>5. /\ SumFunction([u \in Donors |-> Shown(u, closed)])
           = SumFunction([r \in Receivers |-> Shown(r, closed)])
      /\ SumFunction([r \in Receivers |-> Shown(r, {"accepted"})])
           = SumFunction([v \in Volunteers |-> Shown(v, {"accepted"})])
  BY ProposalSums
<1> HIDE DEF closed, Shown, Settled, Won, Closed, Reported
<1>6. /\ [u \in Donors |-> Settled(u)] = [u \in Donors |-> Shown(u, closed)]
      /\ [r \in Receivers |-> Closed(r)] = [r \in Receivers |-> Shown(r, closed)]
      /\ [r \in Receivers |-> Won(r)] = [r \in Receivers |-> Shown(r, {"accepted"})]
      /\ [v \in Volunteers |-> Reported(v)] = [v \in Volunteers |-> Shown(v, {"accepted"})]
  BY <1>1, <1>2, <1>3, <1>4
<1>7. /\ SumFunction([u \in Donors |-> Settled(u)]) = SumFunction([r \in Receivers |-> Closed(r)])
      /\ SumFunction([r \in Receivers |-> Won(r)])
           = SumFunction([v \in Volunteers |-> Reported(v)])
  BY <1>5, <1>6
<1> QED
  BY <1>7, FootersAdd DEF SameSettled, Settled, Closed, Won, Reported, closed

(* While nobody's list is cut short, the fresh pages of all roles agree:    *)
(* badges, pending, settled and delivered counts, table filters, pickup     *)
(* stages and timelines, each computed by a component of its own.           *)
THEOREM OneStory == Spec => [](ListsFit => PagesTellOneStory)
<1>1. ApiInv /\ Held => (ListsFit => PagesTellOneStory)
  BY CardsAgree, PendingAgree, DeedsAgree, SettledAgree, StagesAgree, TimelinesAgree
     DEF PagesTellOneStory
<1> QED
  BY <1>1, ApiInductive, NothingLost, PTL
=============================================================================
