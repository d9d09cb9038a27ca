---------------------------- MODULE SerialProofs ----------------------------
(* What Delivery promises while requests do not overlap, proved on top of   *)
(* IInv (DeliveryProofs) for any number of connections that take turns:     *)
(* OneLiveProposal, StatusesAgree, RejectedHasNoPickup, DeliveryStands,     *)
(* DeliveredOnce, and that Delivery implements Lifecycle.                   *)
EXTENDS DeliverySerial, DeliveryProofs

-----------------------------------------------------------------------------
(* The inductive invariant *)

LiveFor(p, d) == Live(p) /\ proposal[p].donation = d

(* All that the tables tell of one donation: at most one live proposal, at  *)
(* most one pickup, of a live proposal, and the status these stand for.     *)
Tale(d) ==
    /\ \A p, q \in DOMAIN proposal : LiveFor(p, d) /\ LiveFor(q, d) => p = q
    /\ \A k, l \in DOMAIN pickup : pickup[k].donation = d /\ pickup[l].donation = d => k = l
    /\ donation[d].status = "available" <=> \A p \in DOMAIN proposal : ~ LiveFor(p, d)
    /\ donation[d].status = "proposal_pending"
           <=> \E p \in DOMAIN proposal : LiveFor(p, d) /\ Pending(p)
    /\ \A k \in DOMAIN pickup :
           pickup[k].donation = d =>
               /\ Live(pickup[k].proposal)
               /\ donation[d].status = PickupStage[pickup[k].status]

Story == \A d \in DOMAIN donation : Tale(d)

(* What a request reads before it writes.                                   *)
ReadHolds(c) ==
    /\ c.op = "create" => donation[c.donation].status = "available"
    /\ c.op = "reject" => Pending(c.proposal)
    /\ c.op = "pick_up" => pickup[c.pickup].status = "assigned"
    /\ c.op = "deliver" => pickup[c.pickup].status = "picked_up"

Agreed(row) ==
    {side \in {"donor", "receiver"} :
        IF side = "donor" THEN row.donorAccepted ELSE row.receiverAccepted}

(* An acceptance adds one side to what is recorded.                         *)
AddsOneSide(w) ==
    call[w].op = "accept" =>
        \A p \in DOMAIN staged[w].proposal : \E side \in {"donor", "receiver"} :
            Agreed(staged[w].proposal[p]) = Agreed(proposal[p]) \cup {side}

(* A completion is staged with the delivery it reports, to one user.        *)
ReportsDelivery(w) ==
    \A n \in staged[w].notes : n.type = "pickup_completed" =>
        /\ pc[w] = "commit" /\ call[w].op = "deliver"
        /\ staged[w].notes = CompletionNotes(call[w].user, call[w].pickup)

Turn(w) == ReadHolds(call[w]) /\ AddsOneSide(w) /\ ReportsDelivery(w)

(* Reported to nobody before the delivery and to one user after it.         *)
Completed(u, k) == Copies(Note("pickup_completed", u, k))
Reported ==
    /\ \A k \in DOMAIN pickup :
           Completed(pickup[k].receiver, k) + Completed(pickup[k].volunteer, k)
               <= (IF pickup[k].status = "delivered" THEN 1 ELSE 0)
    /\ \A n \in DOMAIN notification : n.type = "pickup_completed" => n.about \in DOMAIN pickup

SInv ==
    /\ Story
    /\ Reported
    /\ \A w \in Workers : Turn(w)

-----------------------------------------------------------------------------
(* What a commit does to the tables *)

NowDonation(d, s) ==
    /\ d \in DOMAIN donation
    /\ DOMAIN donation' = DOMAIN donation
    /\ donation'[d].status = s
    /\ \A e \in DOMAIN donation \ {d} : donation'[e] = donation[e]
NowProposal(p, row) ==
    /\ DOMAIN proposal' = DOMAIN proposal \cup {p}
    /\ proposal'[p] = row
    /\ \A q \in DOMAIN proposal \ {p} : proposal'[q] = proposal[q]
NowPickup(k, row) ==
    /\ DOMAIN pickup' = DOMAIN pickup \cup {k}
    /\ pickup'[k] = row
    /\ \A l \in DOMAIN pickup \ {k} : pickup'[l] = pickup[l]

Listed(d) ==
    /\ d \in Donations \ DOMAIN donation
    /\ DOMAIN donation' = DOMAIN donation \cup {d}
    /\ donation'[d].status = "available"
    /\ \A e \in DOMAIN donation : donation'[e] = donation[e]
    /\ UNCHANGED <<proposal, pickup>>

Proposed(d, p, row) ==
    /\ p \notin DOMAIN proposal
    /\ donation[d].status = "available"
    /\ row.donation = d /\ row.status = "pending" /\ Agreed(row) = {}
    /\ NowDonation(d, "proposal_pending")
    /\ NowProposal(p, row)
    /\ pickup' = pickup

(* One more side agrees to p, whose donation is d.                          *)
AgreedBy(p, side, d, row) ==
    /\ p \in DOMAIN proposal /\ Pending(p) /\ proposal[p].donation = d
    /\ side \in {"donor", "receiver"}
    /\ row.donation = d /\ Agreed(row) = Agreed(proposal[p]) \cup {side}
    /\ NowProposal(p, row)

SideAdded(p, side, d, row) ==
    /\ AgreedBy(p, side, d, row)
    /\ row.status = "pending" /\ Agreed(row) # {"donor", "receiver"}
    /\ UNCHANGED <<donation, pickup>>

Assigned(p, side, d, row, k, task) ==
    /\ AgreedBy(p, side, d, row)
    /\ row.status = "accepted" /\ Agreed(row) = {"donor", "receiver"}
    /\ k \notin DOMAIN pickup
    /\ task.proposal = p /\ task.donation = d /\ task.status = "assigned"
    /\ ~ task.delivered
    /\ NowPickup(k, task)
    /\ NowDonation(d, "pickup_assigned")

Declined(p, d, row) ==
    /\ p \in DOMAIN proposal /\ Pending(p) /\ proposal[p].donation = d
    /\ row.donation = d /\ row.status = "rejected"
    /\ NowProposal(p, row)
    /\ NowDonation(d, "available")
    /\ pickup' = pickup

Moved(k, d, row) ==
    /\ k \in DOMAIN pickup /\ pickup[k].donation = d
    /\ \/ pickup[k].status = "assigned" /\ row.status = "picked_up"
       \/ pickup[k].status = "picked_up" /\ row.status = "delivered"
    /\ row.donation = d /\ row.proposal = pickup[k].proposal
    /\ row.receiver = pickup[k].receiver /\ row.volunteer = pickup[k].volunteer
    /\ row.delivered => row.status = "delivered" \/ pickup[k].delivered
    /\ NowPickup(k, row)
    /\ NowDonation(d, row.status)
    /\ proposal' = proposal

TablesMove ==
    \/ UNCHANGED <<donation, proposal, pickup>>
    \/ \E d : Listed(d)
    \/ \E d, p, row : Proposed(d, p, row)
    \/ \E p, side, d, row : SideAdded(p, side, d, row)
    \/ \E p, side, d, row, k, task : Assigned(p, side, d, row, k, task)
    \/ \E p, d, row : Declined(p, d, row)
    \/ \E k, d, row : Moved(k, d, row)

-----------------------------------------------------------------------------
(* The tables keep telling one story *)

(* Nothing that concerns donation e changes.                                *)
Aside(e) ==
    /\ e \in DOMAIN donation /\ e \in DOMAIN donation' /\ donation'[e] = donation[e]
    /\ \A q \in DOMAIN proposal :
           proposal[q].donation = e => q \in DOMAIN proposal' /\ proposal'[q] = proposal[q]
    /\ \A q \in DOMAIN proposal' :
           proposal'[q].donation = e => q \in DOMAIN proposal /\ proposal[q].donation = e
    /\ \A k \in DOMAIN pickup' :
           pickup'[k].donation = e => k \in DOMAIN pickup /\ pickup'[k] = pickup[k]

LEMMA AsideTale ==
    ASSUME Refs, NEW e, Aside(e), Tale(e)
    PROVE  Tale(e)'
<1>1. \A q \in DOMAIN proposal : LiveFor(q, e) => q \in DOMAIN proposal' /\ LiveFor(q, e)'
    BY DEF Aside, LiveFor, Live
<1>2. \A q \in DOMAIN proposal' : LiveFor(q, e)' =>
          q \in DOMAIN proposal /\ LiveFor(q, e) /\ proposal'[q] = proposal[q]
    BY DEF Aside, LiveFor, Live
<1>3. \A k \in DOMAIN pickup' : pickup'[k].donation = e =>
          k \in DOMAIN pickup /\ pickup[k].donation = e /\ pickup'[k] = pickup[k]
    BY DEF Aside
<1>4. donation'[e] = donation[e]
    BY DEF Aside
<1>5. \A k \in DOMAIN pickup' : pickup'[k].donation = e => Live(pickup[k].proposal)'
    BY <1>3 DEF Tale, Live, Refs, Aside
<1>6. \A p, q \in DOMAIN proposal' : LiveFor(p, e)' /\ LiveFor(q, e)' => p = q
    BY <1>2 DEF Tale
<1>7. \A k, l \in DOMAIN pickup' : pickup'[k].donation = e /\ pickup'[l].donation = e => k = l
    BY <1>3 DEF Tale
<1>8. (\E p \in DOMAIN proposal' : LiveFor(p, e)') <=> (\E p \in DOMAIN proposal : LiveFor(p, e))
    BY <1>1, <1>2
<1>9. (\E p \in DOMAIN proposal' : LiveFor(p, e)' /\ Pending(p)')
          <=> (\E p \in DOMAIN proposal : LiveFor(p, e) /\ Pending(p))
    BY <1>1, <1>2 DEF Pending, Aside, LiveFor
<1> QED BY <1>3, <1>4, <1>5, <1>6, <1>7, <1>8, <1>9 DEF Tale

(* A step that leaves all donations but d aside keeps the story if it keeps *)
(* the tale of d.                                                           *)
LEMMA StoryKept ==
    ASSUME Refs, Story, NEW d, Tale(d)', DOMAIN donation' = DOMAIN donation \cup {d},
           \A e \in DOMAIN donation \ {d} : Aside(e)
    PROVE  Story'
<1>1. ASSUME NEW e \in DOMAIN donation \ {d} PROVE Tale(e)'
    BY <1>1, AsideTale DEF Story
<1> QED BY <1>1 DEF Story

LEMMA ListedStory ==
    ASSUME Refs, Story, NEW d, Listed(d)
    PROVE  Story' /\ \A e \in DOMAIN donation : Aside(e)
<1>1. \A e \in DOMAIN donation : Aside(e)
    BY DEF Listed, Aside
<1>2. (\A p \in DOMAIN proposal : proposal[p].donation # d)
      /\ (\A k \in DOMAIN pickup : pickup[k].donation # d)
    BY DEF Refs, Listed
<1>3. Tale(d)'
    BY <1>2 DEF Listed, Tale, LiveFor, Live
<1> QED BY <1>1, <1>3, StoryKept DEF Listed

LEMMA ProposedStory ==
    ASSUME Refs, Story, NEW d, NEW p, NEW row, Proposed(d, p, row)
    PROVE  Story' /\ \A e \in DOMAIN donation \ {d} : Aside(e)
<1>1. \A e \in DOMAIN donation \ {d} : Aside(e)
    BY DEF Proposed, NowDonation, NowProposal, Aside
<1>2. d \in DOMAIN donation /\ Tale(d)
    BY DEF Proposed, NowDonation, Story
<1>3. \A q \in DOMAIN proposal : ~ LiveFor(q, d)
    BY <1>2 DEF Proposed, Tale
<1>4. LiveFor(p, d)' /\ Pending(p)'
    BY DEF Proposed, NowProposal, LiveFor, Live, Pending
<1>5. \A q \in DOMAIN proposal' \ {p} : ~ LiveFor(q, d)'
    BY <1>3 DEF Proposed, NowProposal, LiveFor, Live
<1>6. \A k \in DOMAIN pickup' : pickup'[k].donation # d
    BY <1>2, <1>3 DEF Proposed, Tale, Refs, LiveFor
<1>7. p \in DOMAIN proposal' /\ donation'[d].status = "proposal_pending"
    BY DEF Proposed, NowProposal, NowDonation
<1>8. Tale(d)'
    BY <1>4, <1>5, <1>6, <1>7 DEF Tale
<1> QED BY <1>1, <1>2, <1>8, StoryKept DEF Proposed, NowDonation

(* While a proposal of d is pending, it is the live one and d has no pickup.*)
LEMMA PendingTale ==
    ASSUME Refs, Story, PickupIffBothAccepted, NEW p \in DOMAIN proposal, Pending(p),
           NEW d, d = proposal[p].donation
    PROVE  /\ d \in DOMAIN donation /\ donation[d].status = "proposal_pending"
           /\ LiveFor(p, d)
           /\ \A q \in DOMAIN proposal \ {p} : ~ LiveFor(q, d)
           /\ \A k \in DOMAIN pickup : pickup[k].donation # d
<1>1. d \in DOMAIN donation
    BY DEF Refs
<1>2. LiveFor(p, d)
    BY DEF LiveFor, Live, Pending
<1>3. Tale(d)
    BY <1>1 DEF Story
<1>4. donation[d].status = "proposal_pending"
    BY <1>2, <1>3 DEF Tale
<1>5. \A k \in DOMAIN pickup : pickup[k].donation # d
  <2>1. ASSUME NEW k \in DOMAIN pickup, pickup[k].donation = d PROVE FALSE
    <3>1. LiveFor(pickup[k].proposal, d) /\ pickup[k].proposal \in DOMAIN proposal
        BY <1>3, <2>1 DEF Tale, LiveFor, Refs
    <3>2. pickup[k].proposal = p
        BY <1>2, <1>3, <3>1 DEF Tale
    <3> QED BY <3>2 DEF PickupIffBothAccepted, HasPickup, Pending
  <2> QED BY <2>1
<1> QED BY <1>1, <1>2, <1>3, <1>4, <1>5 DEF Tale

LEMMA SideAddedStory ==
    ASSUME Refs, Story, PickupIffBothAccepted,
           NEW p, NEW side, NEW d, NEW row, SideAdded(p, side, d, row)
    PROVE  Story' /\ \A e \in DOMAIN donation \ {d} : Aside(e)
<1>1. \A e \in DOMAIN donation \ {d} : Aside(e)
    BY DEF SideAdded, AgreedBy, NowProposal, Aside
<1>2. /\ d \in DOMAIN donation /\ donation[d].status = "proposal_pending"
      /\ \A q \in DOMAIN proposal \ {p} : ~ LiveFor(q, d)
      /\ \A k \in DOMAIN pickup : pickup[k].donation # d
    BY PendingTale DEF SideAdded, AgreedBy
<1>3. LiveFor(p, d)' /\ Pending(p)' /\ p \in DOMAIN proposal'
    BY DEF SideAdded, AgreedBy, NowProposal, LiveFor, Live, Pending
<1>4. \A q \in DOMAIN proposal' \ {p} : ~ LiveFor(q, d)'
    BY <1>2 DEF SideAdded, AgreedBy, NowProposal, LiveFor, Live
<1>5. UNCHANGED <<donation, pickup>>
    BY DEF SideAdded
<1>6. Tale(d)'
    BY <1>2, <1>3, <1>4, <1>5 DEF Tale
<1> QED BY <1>1, <1>2, <1>5, <1>6, StoryKept

LEMMA AssignedStory ==
    ASSUME Refs, Story, PickupIffBothAccepted,
           NEW p, NEW side, NEW d, NEW row, NEW k, NEW task,
           Assigned(p, side, d, row, k, task)
    PROVE  Story' /\ \A e \in DOMAIN donation \ {d} : Aside(e)
<1>1. \A e \in DOMAIN donation \ {d} : Aside(e)
    BY DEF Assigned, AgreedBy, NowProposal, NowPickup, NowDonation, Aside
<1>2. /\ d \in DOMAIN donation
      /\ \A q \in DOMAIN proposal \ {p} : ~ LiveFor(q, d)
      /\ \A l \in DOMAIN pickup : pickup[l].donation # d
    BY PendingTale DEF Assigned, AgreedBy
<1>3. LiveFor(p, d)' /\ ~ Pending(p)' /\ p \in DOMAIN proposal'
    BY DEF Assigned, AgreedBy, NowProposal, LiveFor, Live, Pending
<1>4. \A q \in DOMAIN proposal' \ {p} : ~ LiveFor(q, d)'
    BY <1>2 DEF Assigned, AgreedBy, NowProposal, LiveFor, Live
<1>5. /\ \A l \in DOMAIN pickup' : pickup'[l].donation = d => l = k
      /\ pickup'[k].proposal = p /\ pickup'[k].status = "assigned"
    BY <1>2 DEF Assigned, NowPickup
<1>6. donation'[d].status = "pickup_assigned" /\ DOMAIN donation' = DOMAIN donation
    BY DEF Assigned, NowDonation
<1>7. PickupStage["assigned"] = "pickup_assigned"
    BY DEF PickupStage
<1>8. Live(p)'
    BY <1>3 DEF LiveFor
<1>9. Tale(d)'
    BY <1>3, <1>4, <1>5, <1>6, <1>7, <1>8 DEF Tale, Live
<1> QED BY <1>1, <1>2, <1>6, <1>9, StoryKept

LEMMA DeclinedStory ==
    ASSUME Refs, Story, PickupIffBothAccepted,
           NEW p, NEW d, NEW row, Declined(p, d, row)
    PROVE  Story' /\ \A e \in DOMAIN donation \ {d} : Aside(e)
<1>1. \A e \in DOMAIN donation \ {d} : Aside(e)
    BY DEF Declined, NowProposal, NowDonation, Aside
<1>2. /\ d \in DOMAIN donation
      /\ \A q \in DOMAIN proposal \ {p} : ~ LiveFor(q, d)
      /\ \A k \in DOMAIN pickup : pickup[k].donation # d
    BY PendingTale DEF Declined
<1>3. \A q \in DOMAIN proposal' : ~ LiveFor(q, d)'
    BY <1>2 DEF Declined, NowProposal, LiveFor, Live
<1>4. donation'[d].status = "available" /\ DOMAIN donation' = DOMAIN donation
      /\ pickup' = pickup
    BY DEF Declined, NowDonation
<1>5. Tale(d)'
    BY <1>2, <1>3, <1>4 DEF Tale
<1> QED BY <1>1, <1>2, <1>4, <1>5, StoryKept

LEMMA MovedStory ==
    ASSUME Refs, Story, NEW k, NEW d, NEW row, Moved(k, d, row)
    PROVE  Story' /\ \A e \in DOMAIN donation \ {d} : Aside(e)
<1>1. \A e \in DOMAIN donation \ {d} : Aside(e)
    BY DEF Moved, NowPickup, NowDonation, Aside
<1>2. k \in DOMAIN pickup /\ pickup[k].donation = d /\ d \in DOMAIN donation /\ Tale(d)
    BY DEF Moved, NowDonation, Story
<1>3. /\ Live(pickup[k].proposal)
      /\ donation[d].status = PickupStage[pickup[k].status]
      /\ \A l \in DOMAIN pickup : pickup[l].donation = d => l = k
    BY <1>2 DEF Tale
<1>4. /\ donation[d].status \in {"pickup_assigned", "picked_up"}
      /\ donation'[d].status \in {"picked_up", "delivered"}
      /\ donation'[d].status = PickupStage[pickup'[k].status]
    BY <1>3 DEF Moved, NowDonation, NowPickup, PickupStage
<1>5. /\ \A l \in DOMAIN pickup' : pickup'[l].donation = d => l = k
      /\ pickup'[k].proposal = pickup[k].proposal
    BY <1>3 DEF Moved, NowPickup
<1>6. proposal' = proposal /\ DOMAIN donation' = DOMAIN donation
    BY DEF Moved, NowDonation
<1>7. (\A q \in DOMAIN proposal : LiveFor(q, d)' <=> LiveFor(q, d)) /\ Live(pickup[k].proposal)'
    BY <1>3, <1>6 DEF LiveFor, Live, Moved, NowPickup
<1>8. Tale(d)'
    BY <1>2, <1>3, <1>4, <1>5, <1>6, <1>7 DEF Tale, Pending, LiveFor, Live
<1> QED BY <1>1, <1>2, <1>6, <1>8, StoryKept

-----------------------------------------------------------------------------
(* The tables move one donation at a time *)

(* Who is not being served has no call and has written nothing.             *)
LEMMA IdleIsFree ==
    ASSUME IInv, NEW w \in Workers, pc[w] = "idle"
    PROVE  call[w] = NoCall /\ staged[w] = NoWrites
BY DEF IInv, Tx, IdleTx, CreateTx, AcceptTx, RejectTx, MarkTx, Stamping, Promoting, Clean

(* A write set without rows of a table leaves the table as it is.           *)
LEMMA NothingApplied ==
    ASSUME NEW Ids, NEW Row, NEW t, IsTable(t, Ids, Row)
    PROVE  Applied(NoRow, t) = t
BY DEF IsTable, Applied, NoRow

LEMMA CommitKeeps ==
    ASSUME IInv, NEW w \in Workers, Commit(w)
    PROVE  /\ staged[w].donation = NoRow => donation' = donation
           /\ staged[w].proposal = NoRow => proposal' = proposal
           /\ staged[w].pickup = NoRow => pickup' = pickup
<1>1. /\ IsTable(donation, Donations, DonationRow)
      /\ IsTable(proposal, Proposals, ProposalRow)
      /\ IsTable(pickup, Pickups, PickupRow)
    BY DEF IInv, TypeOK
<1>2. /\ Applied(NoRow, donation) = donation
      /\ Applied(NoRow, proposal) = proposal
      /\ Applied(NoRow, pickup) = pickup
    BY <1>1, NothingApplied
<1> QED BY <1>2 DEF Commit

LEMMA CommitSets ==
    ASSUME IInv, NEW w \in Workers, Commit(w), NEW d \in DOMAIN donation, NEW s,
           Sets(w, d, s)
    PROVE  NowDonation(d, s)
BY CommitTables DEF Sets, NowDonation

LEMMA CommitWritesProposal ==
    ASSUME IInv, NEW w \in Workers, Commit(w), NEW p, NEW row,
           DOMAIN staged[w].proposal = {p}, staged[w].proposal[p] = row
    PROVE  NowProposal(p, row)
BY CommitTables DEF NowProposal

LEMMA CommitWritesPickup ==
    ASSUME IInv, NEW w \in Workers, Commit(w), NEW k, NEW row,
           staged[w].pickup = Only(k, row)
    PROVE  NowPickup(k, row)
<1>1. DOMAIN staged[w].pickup = {k} /\ staged[w].pickup[k] = row
    BY OneRow
<1> QED BY <1>1, CommitTables DEF NowPickup

LEMMA CreateMoves ==
    ASSUME IInv, NEW w \in Workers, Turn(w), Commit(w), CreateTx(w)
    PROVE  \E d, p, row : Proposed(d, p, row)
<1>0. PICK c, row : c = call[w] /\ row = NewProposal(c)
    OBVIOUS
<1>1. /\ c.donation \in DOMAIN donation /\ c.proposal \notin DOMAIN proposal
      /\ donation[c.donation].status = "available"
      /\ staged[w].proposal = Only(c.proposal, row)
      /\ staged[w].pickup = NoRow
      /\ Sets(w, c.donation, "proposal_pending")
    BY <1>0 DEF CreateTx, Commit, Turn, ReadHolds
<1>2. row.donation = c.donation /\ row.status = "pending" /\ Agreed(row) = {}
    BY <1>0 DEF NewProposal, Agreed
<1>3. DOMAIN Only(c.proposal, row) = {c.proposal} /\ Only(c.proposal, row)[c.proposal] = row
    BY OneRow
<1>4. NowProposal(c.proposal, row)
    BY <1>1, <1>3, CommitWritesProposal
<1>5. pickup' = pickup /\ NowDonation(c.donation, "proposal_pending")
    BY <1>1, CommitKeeps, CommitSets
<1>6. Proposed(c.donation, c.proposal, row)
    BY <1>1, <1>2, <1>4, <1>5 DEF Proposed
<1> QED BY <1>6

LEMMA AcceptMoves ==
    ASSUME IInv, NEW w \in Workers, Turn(w), Commit(w), AcceptTx(w)
    PROVE  \/ \E p, side, d, row : SideAdded(p, side, d, row)
           \/ \E p, side, d, row, k, task : Assigned(p, side, d, row, k, task)
<1>0. PICK p, row, d : /\ p = call[w].proposal
                       /\ row = staged[w].proposal[p]
                       /\ d = proposal[p].donation
    OBVIOUS
<1>1. /\ p \in DOMAIN proposal /\ Pending(p)
      /\ DOMAIN staged[w].proposal = {p} /\ SameDeal(proposal[p], row)
      /\ Stamping(w, p) \/ Promoting(w, p)
      /\ call[w].op = "accept" /\ pc[w] = "commit"
    BY <1>0 DEF AcceptTx, Commit
<1>2. PICK side \in {"donor", "receiver"} : Agreed(row) = Agreed(proposal[p]) \cup {side}
    BY <1>0, <1>1 DEF Turn, AddsOneSide
<1>3. NowProposal(p, row)
    BY <1>0, <1>1, CommitWritesProposal
<1>4. row.donation = d
    BY <1>0, <1>1 DEF SameDeal
<1>5. AgreedBy(p, side, d, row)
    BY <1>0, <1>1, <1>2, <1>3, <1>4 DEF AgreedBy
<1>6. BothAccepted(row) <=> Agreed(row) = {"donor", "receiver"}
  <2>1. row \in ProposalRow
      BY <1>0, <1>1 DEF IInv, TypeOK, IsWrites, IsTable
  <2>2. row.donorAccepted <=> "donor" \in Agreed(row)
      BY DEF Agreed
  <2>3. row.receiverAccepted <=> "receiver" \in Agreed(row)
      BY DEF Agreed
  <2>4. Agreed(row) \subseteq {"donor", "receiver"}
      BY DEF Agreed
  <2> QED BY <2>2, <2>3, <2>4 DEF BothAccepted
<1>7. CASE Stamping(w, p)
  <2>1. row.status = "pending" /\ ~ BothAccepted(row)
      BY <1>0, <1>1, <1>7 DEF Stamping
  <2>2. UNCHANGED <<donation, pickup>>
      BY <1>7, CommitKeeps DEF Stamping
  <2>3. SideAdded(p, side, d, row)
      BY <1>5, <1>6, <2>1, <2>2 DEF SideAdded
  <2> QED BY <2>3
<1>8. CASE Promoting(w, p)
  <2>1. /\ row.status = "accepted" /\ BothAccepted(row)
        /\ Sets(w, d, "pickup_assigned")
        /\ \E k \in Pickups \ DOMAIN pickup : staged[w].pickup = Only(k, NewPickup(p))
      BY <1>0, <1>1, <1>4, <1>8 DEF Promoting
  <2>2. PICK k \in Pickups \ DOMAIN pickup : staged[w].pickup = Only(k, NewPickup(p))
      BY <2>1
  <2>3. PICK task : task = NewPickup(p)
      OBVIOUS
  <2>4. task.proposal = p /\ task.donation = d /\ task.status = "assigned" /\ ~ task.delivered
      BY <1>0, <2>3 DEF NewPickup
  <2>5. NowPickup(k, task)
      BY <2>2, <2>3, CommitWritesPickup
  <2>6. d \in DOMAIN donation
      BY <1>0, <1>1 DEF IInv, Refs
  <2>7. NowDonation(d, "pickup_assigned")
      BY <2>1, <2>6, CommitSets
  <2>8. Assigned(p, side, d, row, k, task)
      BY <1>5, <1>6, <2>1, <2>2, <2>4, <2>5, <2>7 DEF Assigned
  <2> QED BY <2>8
<1> QED BY <1>1, <1>7, <1>8

LEMMA RejectMoves ==
    ASSUME IInv, NEW w \in Workers, Turn(w), Commit(w), RejectTx(w)
    PROVE  \E p, d, row : Declined(p, d, row)
<1>0. PICK p, row, d : /\ p = call[w].proposal
                       /\ row = RejectedBy(p, call[w].user)
                       /\ d = proposal[p].donation
    OBVIOUS
<1>1. /\ p \in DOMAIN proposal /\ Pending(p)
      /\ staged[w].proposal = Only(p, row) /\ staged[w].pickup = NoRow
      /\ Sets(w, d, "available")
    BY <1>0 DEF RejectTx, Commit, Turn, ReadHolds
<1>2. d \in DOMAIN donation /\ proposal[p] \in ProposalRow
    BY <1>0, <1>1 DEF IInv, Refs, TypeOK, IsTable
<1>3. row.donation = d /\ row.status = "rejected"
    BY <1>0, <1>2 DEF RejectedBy, ProposalRow
<1>4. DOMAIN Only(p, row) = {p} /\ Only(p, row)[p] = row
    BY OneRow
<1>5. NowProposal(p, row)
    BY <1>1, <1>4, CommitWritesProposal
<1>6. pickup' = pickup /\ NowDonation(d, "available")
    BY <1>1, <1>2, CommitKeeps, CommitSets
<1>7. Declined(p, d, row)
    BY <1>0, <1>1, <1>3, <1>5, <1>6 DEF Declined
<1> QED BY <1>7

LEMMA MarkMoves ==
    ASSUME IInv, NEW w \in Workers, Turn(w), Commit(w), MarkTx(w)
    PROVE  LET k == call[w].pickup IN \E d, row :
               /\ Moved(k, d, row)
               /\ call[w].op = "deliver" => pickup[k].status = "picked_up"
<1>0. PICK k, op, row, d : /\ k = call[w].pickup /\ op = call[w].op
                           /\ row = Marked(op, pickup[k])
                           /\ d = pickup[k].donation
    OBVIOUS
<1>1. /\ k \in DOMAIN pickup /\ op \in {"pick_up", "deliver"}
      /\ staged[w].proposal = NoRow /\ staged[w].pickup = Only(k, row)
      /\ Sets(w, d, row.status)
      /\ pickup[k].status = (IF op = "pick_up" THEN "assigned" ELSE "picked_up")
    BY <1>0 DEF MarkTx, Commit, Turn, ReadHolds
<1>2. d \in DOMAIN donation /\ pickup[k] \in PickupRow
    BY <1>0, <1>1 DEF IInv, Refs, TypeOK, IsTable
<1>3. /\ row.donation = d /\ row.proposal = pickup[k].proposal
      /\ row.receiver = pickup[k].receiver /\ row.volunteer = pickup[k].volunteer
      /\ row.status = (IF op = "pick_up" THEN "picked_up" ELSE "delivered")
      /\ row.delivered => row.status = "delivered" \/ pickup[k].delivered
    BY <1>0, <1>2 DEF Marked, PickupRow
<1>4. NowPickup(k, row)
    BY <1>1, CommitWritesPickup
<1>5. proposal' = proposal /\ NowDonation(d, row.status)
    BY <1>1, <1>2, CommitKeeps, CommitSets
<1>6. Moved(k, d, row) /\ (op = "deliver" => pickup[k].status = "picked_up")
    BY <1>0, <1>1, <1>3, <1>4, <1>5 DEF Moved
<1> QED BY <1>0, <1>6

LEMMA CommitMoves ==
    ASSUME IInv, NEW w \in Workers, Turn(w), Commit(w)
    PROVE  TablesMove
<1>1. Tx(w) /\ ~ IdleTx(w)
    BY DEF IInv, Commit, IdleTx
<1> QED BY <1>1, CreateMoves, AcceptMoves, RejectMoves, MarkMoves DEF Tx, TablesMove

LEMMA StepMoves ==
    ASSUME IInv, SInv, [Next]_vars
    PROVE  TablesMove
<1>1. CASE \E u \in Donors, d \in Donations : CreateDonation(u, d)
  <2>1. PICK u \in Donors, d \in Donations : CreateDonation(u, d)
      BY <1>1
  <2>2. Listed(d)
      BY <2>1 DEF Listed, CreateDonation, Applied, Only
  <2> QED BY <2>2 DEF TablesMove
<1>2. ASSUME NEW w \in Workers, Serve(w) PROVE TablesMove
  <2>1. CASE Commit(w)
      BY <2>1, CommitMoves DEF SInv
  <2>2. CASE ~ Commit(w)
    <3>1. UNCHANGED tables
        BY <1>2, <2>2
           DEF Serve, Start, CreateRead, AcceptBegin, RejectRead, PickUpRead, DeliverRead,
               Begin, Step, CreateWrite, AcceptLock, AcceptRefuse, AcceptStamp,
               AcceptPromote, AcceptAssign, RejectProposal, RejectDonation, MarkPickup,
               MarkDonation, Advance, Rollback, Fail
    <3> QED BY <3>1 DEF tables, TablesMove
  <2> QED BY <2>1, <2>2
<1>3. CASE UNCHANGED vars
    BY <1>3 DEF vars, TablesMove
<1> QED BY <1>1, <1>2, <1>3 DEF Next

LEMMA StoryStep ==
    ASSUME IInv, SInv, [Next]_vars
    PROVE  Story'
<1>1. Refs /\ Story /\ PickupIffBothAccepted
    BY DEF IInv, SInv
<1>2. TablesMove
    BY StepMoves
<1>3. CASE UNCHANGED <<donation, proposal, pickup>>
    BY <1>1, <1>3 DEF Story, Tale, LiveFor, Live, Pending
<1> QED BY <1>1, <1>2, <1>3, ListedStory, ProposedStory, SideAddedStory, AssignedStory,
           DeclinedStory, MovedStory DEF TablesMove

-----------------------------------------------------------------------------
(* Turns: what a request has read holds until it commits *)

(* Whoever is not being served has nothing to hold.                         *)
LEMMA FreeTurn ==
    ASSUME NEW v \in Workers, call'[v] = NoCall, staged'[v] = NoWrites
    PROVE  Turn(v)'
BY DEF Turn, ReadHolds, AddsOneSide, ReportsDelivery, NoCall, NoWrites, NoRow

LEMMA SameTurn ==
    ASSUME NEW v \in Workers, Turn(v), UNCHANGED tables,
           pc'[v] = pc[v], call'[v] = call[v], staged'[v] = staged[v]
    PROVE  Turn(v)'
<1>1. UNCHANGED <<donation, proposal, pickup>>
    BY DEF tables
<1> QED BY <1>1 DEF Turn, ReadHolds, AddsOneSide, ReportsDelivery, Pending, CompletionNotes

(* A statement that stages writes: the reads hold, the writes must fit.     *)
LEMMA StageTurn ==
    ASSUME IInv, SInv, NEW w \in Workers, NEW at, NEW to, Advance(w, at, to),
           NEW d, NEW p, NEW k, NEW notes, Stage(w, d, p, k, notes),
           call[w].op = "accept" =>
               \A q \in DOMAIN p : \E side \in {"donor", "receiver"} :
                   Agreed(p[q]) = Agreed(proposal[q]) \cup {side},
           \A n \in notes : n.type = "pickup_completed" =>
               /\ to = "commit" /\ call[w].op = "deliver"
               /\ notes = CompletionNotes(call[w].user, call[w].pickup)
    PROVE  \A v \in Workers : Turn(v)'
<1>1. /\ UNCHANGED <<donation, proposal, pickup, call>> /\ UNCHANGED tables
      /\ pc'[w] = to /\ staged'[w].proposal = p /\ staged'[w].notes = notes
      /\ \A v \in Workers \ {w} : pc'[v] = pc[v] /\ staged'[v] = staged[v]
    BY DEF Advance, Stage, tables, IInv, TypeOK
<1>2. ReadHolds(call[w])'
    BY <1>1 DEF SInv, Turn, ReadHolds, Pending
<1>3. AddsOneSide(w)'
    BY <1>1 DEF AddsOneSide
<1>4. ReportsDelivery(w)'
    BY <1>1 DEF ReportsDelivery, CompletionNotes
<1>5. ASSUME NEW v \in Workers \ {w} PROVE Turn(v)'
    BY <1>1, <1>5, SameTurn DEF SInv
<1> QED BY <1>2, <1>3, <1>4, <1>5 DEF Turn

LEMMA StampedSides ==
    ASSUME NEW p, proposal[p] \in ProposalRow, NEW u
    PROVE  \E side \in {"donor", "receiver"} :
               Agreed(Stamped(p, u)) = Agreed(proposal[p]) \cup {side}
<1>1. CASE u \in Donors
  <2>1. /\ Stamped(p, u).donorAccepted = TRUE
        /\ Stamped(p, u).receiverAccepted = proposal[p].receiverAccepted
      BY <1>1 DEF Stamped, ProposalRow
  <2> QED BY <2>1 DEF Agreed
<1>2. CASE u \notin Donors
  <2>1. /\ Stamped(p, u).receiverAccepted = TRUE
        /\ Stamped(p, u).donorAccepted = proposal[p].donorAccepted
      BY <1>2 DEF Stamped, ProposalRow
  <2> QED BY <2>1 DEF Agreed
<1> QED BY <1>1, <1>2

LEMMA CreateTurn ==
    ASSUME IInv, SInv, NEW w \in Workers, CreateWrite(w)
    PROVE  \A v \in Workers : Turn(v)'
<1>1. call[w].op = "create"
    BY DEF CreateWrite, Advance, IInv, Tx, IdleTx, CreateTx, AcceptTx, RejectTx, MarkTx,
           Stamping, Promoting
<1>2. PICK c : c = call[w]
    OBVIOUS
<1> DEFINE notes == {Note("proposal_created", donation[c.donation].donor, c.proposal),
                     Note("proposal_created", c.receiver, c.proposal)}
<1>3. \A n \in notes : n.type # "pickup_completed"
    BY DEF Note
<1>4. /\ Advance(w, "create_write", "commit")
      /\ Stage(w, WithStatus(c.donation, "proposal_pending"),
               Only(c.proposal, NewProposal(c)), NoRow, notes)
    BY <1>2 DEF CreateWrite
<1> HIDE DEF notes
<1> QED BY <1>1, <1>3, <1>4, StageTurn

LEMMA StampTurn ==
    ASSUME IInv, SInv, NEW w \in Workers, AcceptStamp(w)
    PROVE  \A v \in Workers : Turn(v)'
<1>1. PICK p, row, notes :
          /\ p = call[w].proposal
          /\ row = Stamped(p, call[w].user)
          /\ notes = {Note("proposal_accepted", row.volunteer, p)}
    OBVIOUS
<1>2. PICK to : Advance(w, "accept_stamp", to) /\ Stage(w, NoRow, Only(p, row), NoRow, notes)
    BY <1>1 DEF AcceptStamp
<1>3. proposal[p] \in ProposalRow
    BY <1>1 DEF AcceptStamp, Advance, IInv, Tx, IdleTx, CreateTx, AcceptTx, RejectTx, MarkTx,
           Stamping, Promoting, TypeOK, IsTable
<1>4. \E side \in {"donor", "receiver"} : Agreed(row) = Agreed(proposal[p]) \cup {side}
    BY <1>1, <1>3, StampedSides
<1>5. DOMAIN Only(p, row) = {p} /\ Only(p, row)[p] = row
    BY OneRow
<1>6. \A n \in notes : n.type # "pickup_completed"
    BY <1>1 DEF Note
<1>7. \A q \in DOMAIN Only(p, row) : \E side \in {"donor", "receiver"} :
          Agreed(Only(p, row)[q]) = Agreed(proposal[q]) \cup {side}
    BY <1>4, <1>5
<1> QED BY <1>2, <1>6, <1>7, StageTurn

LEMMA PromoteTurn ==
    ASSUME IInv, SInv, NEW w \in Workers, AcceptPromote(w)
    PROVE  \A v \in Workers : Turn(v)'
<1>0. pc[w] = "accept_promote"
    BY DEF AcceptPromote, Advance
<1>1. PICK p, old, row, notes :
          /\ p = call[w].proposal
          /\ old = staged[w].proposal[p]
          /\ row = [old EXCEPT !.status = "accepted"]
          /\ notes = staged[w].notes
    OBVIOUS
<1>2. PICK k \in Pickups :
          /\ Advance(w, "accept_promote", "accept_assign")
          /\ Stage(w, NoRow, Only(p, row), Only(k, NewPickup(p)), notes)
    BY <1>1 DEF AcceptPromote, Promoted
<1>3. old \in ProposalRow /\ AcceptTx(w) /\ Stamping(w, p)
    BY <1>0, <1>1, AtPromote
<1>4. p \in DOMAIN staged[w].proposal /\ call[w].op = "accept"
    BY <1>0, <1>1, <1>3 DEF AcceptTx
<1>5. \E side \in {"donor", "receiver"} : Agreed(old) = Agreed(proposal[p]) \cup {side}
    BY <1>1, <1>4 DEF SInv, Turn, AddsOneSide
<1>6. Agreed(row) = Agreed(old)
  <2>1. row.donorAccepted = old.donorAccepted /\ row.receiverAccepted = old.receiverAccepted
      BY <1>1, <1>3 DEF ProposalRow
  <2> QED BY <2>1 DEF Agreed
<1>7. \A n \in notes : n.type # "pickup_completed"
    BY <1>0, <1>1 DEF SInv, Turn, ReportsDelivery
<1>8. DOMAIN Only(p, row) = {p} /\ Only(p, row)[p] = row
    BY OneRow
<1>9. \A q \in DOMAIN Only(p, row) : \E side \in {"donor", "receiver"} :
          Agreed(Only(p, row)[q]) = Agreed(proposal[q]) \cup {side}
    BY <1>5, <1>6, <1>8
<1> QED BY <1>2, <1>7, <1>9, StageTurn

LEMMA AssignTurn ==
    ASSUME IInv, SInv, NEW w \in Workers, AcceptAssign(w)
    PROVE  \A v \in Workers : Turn(v)'
<1>0. pc[w] = "accept_assign"
    BY DEF AcceptAssign, Advance
<1>1. PICK p, new, notes :
          /\ p = call[w].proposal
          /\ new = {Note("pickup_assigned", proposal[p].volunteer, k) :
                        k \in DOMAIN staged[w].pickup}
          /\ notes = staged[w].notes \cup new
    OBVIOUS
<1>4. /\ Advance(w, "accept_assign", "commit")
      /\ Stage(w, WithStatus(proposal[p].donation, "pickup_assigned"), staged[w].proposal,
               staged[w].pickup, notes)
    BY <1>1 DEF AcceptAssign
<1>5. \A n \in new : n.type = "pickup_assigned"
    BY <1>1 DEF Note
<1>2. \A n \in notes : n.type # "pickup_completed"
    BY <1>0, <1>1, <1>5 DEF SInv, Turn, ReportsDelivery
<1>3. call[w].op = "accept" =>
          \A q \in DOMAIN staged[w].proposal : \E side \in {"donor", "receiver"} :
              Agreed(staged[w].proposal[q]) = Agreed(proposal[q]) \cup {side}
    BY DEF SInv, Turn, AddsOneSide
<1> QED BY <1>2, <1>3, <1>4, StageTurn

LEMMA RejectTurn ==
    ASSUME IInv, SInv, NEW w \in Workers, RejectProposal(w) \/ RejectDonation(w)
    PROVE  \A v \in Workers : Turn(v)'
<1>1. call[w].op = "reject"
    BY DEF RejectProposal, RejectDonation, Advance, IInv, Tx, IdleTx, CreateTx, AcceptTx,
           RejectTx, MarkTx, Stamping, Promoting
<1>2. PICK at, to, d, p, k, notes :
          /\ Advance(w, at, to) /\ Stage(w, d, p, k, notes)
          /\ \A n \in notes : n.type # "pickup_completed"
    BY DEF RejectProposal, RejectDonation, Note
<1> QED BY <1>1, <1>2, StageTurn

LEMMA MarkTurn ==
    ASSUME IInv, SInv, NEW w \in Workers, MarkPickup(w) \/ MarkDonation(w)
    PROVE  \A v \in Workers : Turn(v)'
<1>1. call[w].op \in {"pick_up", "deliver"} /\ call[w].pickup \in DOMAIN pickup
    BY DEF MarkPickup, MarkDonation, Advance, IInv, Tx, IdleTx, CreateTx, AcceptTx,
           RejectTx, MarkTx, Stamping, Promoting
<1>2. PICK row : row = pickup[call[w].pickup]
    OBVIOUS
<1>3. row \in PickupRow
    BY <1>1, <1>2 DEF IInv, TypeOK, IsTable
<1>4. Marked(call[w].op, row).status = "delivered" => call[w].op = "deliver"
    BY <1>1, <1>3 DEF Marked, PickupRow
<1>5. PICK at, to, d, p, k, notes :
          /\ Advance(w, at, to) /\ Stage(w, d, p, k, notes)
          /\ notes # {} => to = "commit" /\ call[w].op = "deliver"
                              /\ notes = CompletionNotes(call[w].user, call[w].pickup)
    BY <1>2, <1>4 DEF MarkPickup, MarkDonation
<1> QED BY <1>1, <1>5, StageTurn

LEMMA ReadTurn ==
    ASSUME IInv, SInv, NEW w \in Workers, Start(w)
    PROVE  \A v \in Workers : Turn(v)'
<1>1. PICK c, next : Begin(w, c, next) /\ ReadHolds(c)
  <2>1. CASE CreateRead(w)
    <3>1. PICK v, r, d, p :
              /\ CanPropose(d)
              /\ Begin(w, [op |-> "create", user |-> v, donation |-> d, receiver |-> r,
                           proposal |-> p], "create_write")
        BY <2>1 DEF CreateRead
    <3>2. ReadHolds([op |-> "create", user |-> v, donation |-> d, receiver |-> r,
                     proposal |-> p])
        BY <3>1 DEF CanPropose, ReadHolds
    <3> QED BY <3>1, <3>2
  <2>2. CASE AcceptBegin(w)
    <3>1. PICK u, p : Begin(w, [op |-> "accept", user |-> u, proposal |-> p], "accept_lock")
        BY <2>2 DEF AcceptBegin
    <3>2. ReadHolds([op |-> "accept", user |-> u, proposal |-> p])
        BY DEF ReadHolds
    <3> QED BY <3>1, <3>2
  <2>3. CASE RejectRead(w)
    <3>1. PICK u, p :
              /\ Pending(p)
              /\ Begin(w, [op |-> "reject", user |-> u, proposal |-> p], "reject_proposal")
        BY <2>3 DEF RejectRead, MayReject
    <3>2. ReadHolds([op |-> "reject", user |-> u, proposal |-> p])
        BY <3>1 DEF ReadHolds
    <3> QED BY <3>1, <3>2
  <2>4. CASE PickUpRead(w)
    <3>1. PICK u, k :
              /\ pickup[k].status = "assigned"
              /\ Begin(w, [op |-> "pick_up", user |-> u, pickup |-> k], "mark_pickup")
        BY <2>4 DEF PickUpRead
    <3>2. ReadHolds([op |-> "pick_up", user |-> u, pickup |-> k])
        BY <3>1 DEF ReadHolds
    <3> QED BY <3>1, <3>2
  <2>5. CASE DeliverRead(w)
    <3>1. PICK u, k :
              /\ pickup[k].status = "picked_up"
              /\ Begin(w, [op |-> "deliver", user |-> u, pickup |-> k], "mark_pickup")
        BY <2>5 DEF DeliverRead, Deliverable
    <3>2. ReadHolds([op |-> "deliver", user |-> u, pickup |-> k])
        BY <3>1 DEF ReadHolds
    <3> QED BY <3>1, <3>2
  <2> QED BY <2>1, <2>2, <2>3, <2>4, <2>5 DEF Start
<1>2. /\ UNCHANGED <<donation, proposal, pickup, staged>> /\ UNCHANGED tables
      /\ call'[w] = c /\ staged[w] = NoWrites
      /\ \A v \in Workers \ {w} : pc'[v] = pc[v] /\ call'[v] = call[v]
    BY <1>1, IdleIsFree DEF Begin, tables, IInv, TypeOK
<1>3. Turn(w)'
    BY <1>1, <1>2 DEF Turn, ReadHolds, AddsOneSide, ReportsDelivery, Pending, NoWrites, NoRow
<1>4. ASSUME NEW v \in Workers \ {w} PROVE Turn(v)'
    BY <1>2, <1>4, SameTurn DEF SInv
<1> QED BY <1>3, <1>4

LEMMA LockTurn ==
    ASSUME IInv, SInv, NEW w \in Workers, AcceptLock(w)
    PROVE  \A v \in Workers : Turn(v)'
<1>1. staged[w] = NoWrites
    BY DEF AcceptLock, Advance, IInv, Tx, IdleTx, CreateTx, AcceptTx, RejectTx, MarkTx,
           Stamping, Promoting, Clean
<1>2. /\ UNCHANGED <<donation, proposal, pickup, staged, call>> /\ UNCHANGED tables
      /\ \A v \in Workers \ {w} : pc'[v] = pc[v]
    BY DEF AcceptLock, Advance, tables, IInv, TypeOK
<1>3. Turn(w)'
    BY <1>1, <1>2 DEF SInv, Turn, ReadHolds, AddsOneSide, ReportsDelivery, Pending, NoWrites,
                      NoRow
<1>4. ASSUME NEW v \in Workers \ {w} PROVE Turn(v)'
    BY <1>2, <1>4, SameTurn DEF SInv
<1> QED BY <1>3, <1>4

LEMMA RollbackTurn ==
    ASSUME IInv, SInv, NEW w \in Workers, Rollback(w)
    PROVE  \A v \in Workers : Turn(v)'
<1>1. /\ UNCHANGED tables /\ call'[w] = NoCall /\ staged'[w] = NoWrites
      /\ \A v \in Workers \ {w} :
             pc'[v] = pc[v] /\ call'[v] = call[v] /\ staged'[v] = staged[v]
    BY DEF Rollback, Finish, IInv, TypeOK
<1>2. ASSUME NEW v \in Workers \ {w} PROVE Turn(v)'
    BY <1>1, <1>2, SameTurn DEF SInv
<1> QED BY <1>1, <1>2, FreeTurn

(* The one step that could change what another request has read: but no     *)
(* other request is being served.                                           *)
LEMMA CommitTurn ==
    ASSUME IInv, NoOverlap, NEW w \in Workers, Commit(w)
    PROVE  \A v \in Workers : Turn(v)'
<1>1. pc[w] # "idle" /\ call'[w] = NoCall /\ staged'[w] = NoWrites
      /\ \A v \in Workers \ {w} : call'[v] = call[v] /\ staged'[v] = staged[v]
    BY DEF Commit, Finish, IInv, TypeOK
<1>2. ASSUME NEW v \in Workers \ {w} PROVE Turn(v)'
  <2>1. pc[v] = "idle"
      BY <1>1 DEF NoOverlap
  <2> QED BY <1>1, <2>1, IdleIsFree, FreeTurn
<1> QED BY <1>1, <1>2, FreeTurn

LEMMA DonationTurn ==
    ASSUME IInv, SInv, NEW u \in Donors, NEW d \in Donations, CreateDonation(u, d)
    PROVE  \A v \in Workers : Turn(v)'
<1>1. /\ UNCHANGED <<proposal, pickup, pc, call, staged>>
      /\ \A e \in DOMAIN donation : donation'[e] = donation[e]
    BY DEF CreateDonation, Applied, Only
<1>2. ASSUME NEW v \in Workers PROVE Turn(v)'
  <2>1. call[v].op = "create" => call[v].donation \in DOMAIN donation
      BY DEF IInv, Tx, IdleTx, NoCall, CreateTx, AcceptTx, RejectTx, MarkTx
  <2>2. Turn(v)
      BY DEF SInv
  <2> QED BY <1>1, <2>1, <2>2
          DEF Turn, ReadHolds, AddsOneSide, ReportsDelivery, Pending, CompletionNotes
<1> QED BY <1>2

LEMMA TurnStep ==
    ASSUME IInv, SInv, NoOverlap, [Next]_vars
    PROVE  \A v \in Workers : Turn(v)'
<1>1. CASE \E u \in Donors, d \in Donations : CreateDonation(u, d)
    BY <1>1, DonationTurn
<1>2. ASSUME NEW w \in Workers, Step(w) PROVE \A v \in Workers : Turn(v)'
  <2>1. AcceptRefuse(w) => Rollback(w)
      BY DEF AcceptRefuse
  <2> QED BY <1>2, <2>1, CreateTurn, LockTurn, RollbackTurn, StampTurn, PromoteTurn,
             AssignTurn, RejectTurn, MarkTurn, CommitTurn DEF Step
<1>3. ASSUME NEW w \in Workers, Start(w) \/ Fail(w) PROVE \A v \in Workers : Turn(v)'
    BY <1>3, ReadTurn, RollbackTurn DEF Fail
<1>4. CASE UNCHANGED vars
    BY <1>4, SameTurn DEF vars, tables, SInv
<1> QED BY <1>1, <1>2, <1>3, <1>4 DEF Next, Serve

-----------------------------------------------------------------------------
(* One delivery, one completion *)

(* Without a completion among the new notes the counts stay.                *)
LEMMA CompletedKept ==
    ASSUME TypeOK, NEW notes \in SUBSET Notification, notification' = Posted(notes),
           \A n \in notes : n.type # "pickup_completed"
    PROVE  /\ \A u, k : Completed(u, k)' = Completed(u, k)
           /\ \A n \in DOMAIN notification' :
                  n.type = "pickup_completed" => n \in DOMAIN notification
<1>1. /\ \A n : n \notin notes => Copies(n)' = Copies(n)
      /\ DOMAIN notification' = DOMAIN notification \cup notes
    BY PostedCopies
<1>2. ASSUME NEW u, NEW k PROVE Completed(u, k)' = Completed(u, k)
  <2>1. Note("pickup_completed", u, k) \notin notes
      BY DEF Note
  <2> QED BY <1>1, <2>1 DEF Completed, Copies
<1> QED BY <1>1, <1>2

(* Nothing is reported of a pickup that is not there.                       *)
LEMMA NotReported ==
    ASSUME Reported, NEW k, k \notin DOMAIN pickup, NEW u
    PROVE  Completed(u, k) = 0
<1>1. Note("pickup_completed", u, k) \notin DOMAIN notification
    BY DEF Reported, Note
<1> QED BY <1>1 DEF Completed, Copies

(* A step that keeps the counts keeps what is reported, if the pickups only *)
(* move on and a delivered one stays delivered.                             *)
LEMMA ReportedKept ==
    ASSUME Reported, TypeOK, \A u, k : Completed(u, k)' = Completed(u, k),
           \A n \in DOMAIN notification' :
               n.type = "pickup_completed" => n \in DOMAIN notification,
           DOMAIN pickup \subseteq DOMAIN pickup',
           \A k \in DOMAIN pickup :
               /\ pickup'[k].receiver = pickup[k].receiver
               /\ pickup'[k].volunteer = pickup[k].volunteer
               /\ pickup[k].status = "delivered" => pickup'[k].status = "delivered"
    PROVE  Reported'
<1>1. \A u, k : Completed(u, k) \in Nat
  <2>1. IsTable(notification, Notification, 1 .. NotifCap)
      BY DEF TypeOK
  <2> QED BY <2>1 DEF Completed, Copies, IsTable
<1>2. ASSUME NEW k \in DOMAIN pickup'
      PROVE  Completed(pickup'[k].receiver, k) + Completed(pickup'[k].volunteer, k)
                 <= (IF pickup'[k].status = "delivered" THEN 1 ELSE 0)
  <2>1. CASE k \in DOMAIN pickup
      BY <1>1, <2>1 DEF Reported
  <2>2. CASE k \notin DOMAIN pickup
      BY <2>2, NotReported
  <2> QED BY <2>1, <2>2
<1>3. ASSUME NEW k \in DOMAIN pickup'
      PROVE  (Completed(pickup[k].receiver, k) + Completed(pickup[k].volunteer, k)
                 <= (IF pickup[k].status = "delivered" THEN 1 ELSE 0))'
  <2> DEFINE r == pickup'[k].receiver
             v == pickup'[k].volunteer
  <2>1. Completed(pickup[k].receiver, k)' = Completed(r, k)
      BY DEF Completed, Copies
  <2>2. Completed(pickup[k].volunteer, k)' = Completed(v, k)
      BY DEF Completed, Copies
  <2> QED BY <1>2, <2>1, <2>2
<1>4. \A n \in DOMAIN notification' : n.type = "pickup_completed" => n.about \in DOMAIN pickup'
    BY DEF Reported
<1> QED BY <1>3, <1>4 DEF Reported

LEMMA PickupsOnward ==
    ASSUME TablesMove
    PROVE  /\ DOMAIN pickup \subseteq DOMAIN pickup'
           /\ \A k \in DOMAIN pickup :
                  /\ pickup'[k].receiver = pickup[k].receiver
                  /\ pickup'[k].volunteer = pickup[k].volunteer
                  /\ pickup[k].status = "delivered" => pickup'[k].status = "delivered"
BY DEF TablesMove, Listed, Proposed, SideAdded, Assigned, Declined, Moved, NowPickup

(* The delivery of k, told to one of its two users, who had not heard yet.  *)
LEMMA DeliveryReported ==
    ASSUME IInv, SInv, NEW w \in Workers, Commit(w), NEW n \in staged[w].notes,
           n.type = "pickup_completed"
    PROVE  Reported'
<1>1. PICK k, notes : k = call[w].pickup /\ notes = staged[w].notes
    OBVIOUS
<1>2. call[w].op = "deliver" /\ notes = CompletionNotes(call[w].user, k) /\ Turn(w)
    BY <1>1 DEF SInv, Turn, ReportsDelivery
<1>3. MarkTx(w)
    BY <1>2 DEF IInv, Tx, IdleTx, NoCall, CreateTx, AcceptTx, RejectTx
<1>4. PICK d, row : Moved(k, d, row) /\ pickup[k].status = "picked_up"
    BY <1>1, <1>2, <1>3, MarkMoves
<1>5. /\ k \in DOMAIN pickup /\ DOMAIN pickup' = DOMAIN pickup
      /\ pickup'[k].receiver = pickup[k].receiver
      /\ pickup'[k].volunteer = pickup[k].volunteer
      /\ pickup'[k].status = "delivered"
      /\ \A l \in DOMAIN pickup \ {k} : pickup'[l] = pickup[l]
    BY <1>4 DEF Moved, NowPickup
<1>6. PICK r, v, other : /\ r = pickup[k].receiver /\ v = pickup[k].volunteer
                         /\ other \in {r, v} /\ notes = {Note("pickup_completed", other, k)}
    BY <1>2 DEF CompletionNotes
<1>7. r # v
  <2>1. pickup[k] \in PickupRow
      BY <1>5 DEF IInv, TypeOK, IsTable
  <2> QED BY <1>6, <2>1, RolesAssumption DEF PickupRow
<1>8. /\ \A x : x \notin notes => Copies(x)' = Copies(x)
      /\ \A x \in notes : Copies(x) = 0 => Copies(x)' = 1
      /\ \A x : Copies(x) \in Nat
      /\ DOMAIN notification' = DOMAIN notification \cup notes
    BY <1>1, CommitCopies
<1>9. Completed(r, k) = 0 /\ Completed(v, k) = 0
  <2>1. Completed(r, k) + Completed(v, k) <= 0
      BY <1>4, <1>5, <1>6 DEF SInv, Reported
  <2>2. Completed(r, k) \in Nat /\ Completed(v, k) \in Nat
      BY <1>8 DEF Completed
  <2> QED BY <2>1, <2>2
<1>10. \A u : Completed(u, k)' = (IF u = other THEN 1 ELSE Completed(u, k))
  <2>1. \A u : Note("pickup_completed", u, k) \in notes <=> u = other
      BY <1>6 DEF Note
  <2>2. Copies(Note("pickup_completed", other, k)) = 0
      BY <1>6, <1>9 DEF Completed
  <2> QED BY <1>8, <2>1, <2>2 DEF Completed
<1>11. \A u, l : l # k => Completed(u, l)' = Completed(u, l)
  <2>1. \A u, l : l # k => Note("pickup_completed", u, l) \notin notes
      BY <1>6 DEF Note
  <2> QED BY <1>8, <2>1 DEF Completed
<1>12. ASSUME NEW l \in DOMAIN pickup'
       PROVE  (Completed(pickup[l].receiver, l) + Completed(pickup[l].volunteer, l)
                  <= (IF pickup[l].status = "delivered" THEN 1 ELSE 0))'
  <2>1. CASE l = k
    <3>1. Completed(pickup[k].receiver, k)' + Completed(pickup[k].volunteer, k)' = 1
      <4>1. /\ Completed(pickup[k].receiver, k)' = Completed(r, k)'
            /\ Completed(pickup[k].volunteer, k)' = Completed(v, k)'
          BY <1>5, <1>6 DEF Completed, Copies
      <4> QED BY <1>6, <1>7, <1>9, <1>10, <4>1
    <3> QED BY <1>5, <2>1, <3>1
  <2>2. CASE l # k
    <3>1. /\ Completed(pickup[l].receiver, l)' = Completed(pickup[l].receiver, l)
          /\ Completed(pickup[l].volunteer, l)' = Completed(pickup[l].volunteer, l)
      <4>1. PICK a, b : a = pickup[l].receiver /\ b = pickup[l].volunteer
          OBVIOUS
      <4>2. a = pickup'[l].receiver /\ b = pickup'[l].volunteer
          BY <1>5, <2>2, <4>1
      <4>3. /\ Completed(pickup[l].receiver, l)' = Completed(a, l)'
            /\ Completed(pickup[l].volunteer, l)' = Completed(b, l)'
          BY <4>2 DEF Completed, Copies
      <4> QED BY <1>11, <2>2, <4>1, <4>3
    <3> QED BY <1>5, <2>2, <3>1 DEF SInv, Reported
  <2> QED BY <2>1, <2>2
<1>13. \A x \in DOMAIN notification' : x.type = "pickup_completed" => x.about \in DOMAIN pickup'
    BY <1>5, <1>6, <1>8 DEF SInv, Reported, Note
<1> QED BY <1>12, <1>13 DEF Reported

LEMMA CommitReported ==
    ASSUME IInv, SInv, NEW w \in Workers, Commit(w)
    PROVE  Reported'
<1>1. CASE \E n \in staged[w].notes : n.type = "pickup_completed"
    BY <1>1, DeliveryReported
<1>2. CASE \A n \in staged[w].notes : n.type # "pickup_completed"
  <2>1. TypeOK /\ staged[w].notes \in SUBSET Notification /\ Reported
        /\ notification' = Posted(staged[w].notes)
      BY DEF IInv, SInv, TypeOK, IsWrites, Commit
  <2>2. /\ \A u, k : Completed(u, k)' = Completed(u, k)
        /\ \A n \in DOMAIN notification' :
               n.type = "pickup_completed" => n \in DOMAIN notification
      BY <1>2, <2>1, CompletedKept
  <2>3. TablesMove
      BY CommitMoves DEF SInv
  <2> QED BY <2>1, <2>2, <2>3, PickupsOnward, ReportedKept
<1> QED BY <1>1, <1>2

LEMMA ReportedStep ==
    ASSUME IInv, SInv, [Next]_vars
    PROVE  Reported'
<1>1. CASE \E u \in Donors, d \in Donations : CreateDonation(u, d)
  <2>1. PICK u \in Donors, d \in Donations : CreateDonation(u, d)
      BY <1>1
  <2>2. PICK notes : notes = {Note("donation_created", u, d)}
      OBVIOUS
  <2>3. /\ notes \in SUBSET Notification
        /\ \A n \in notes : n.type # "pickup_completed"
      BY <2>2 DEF Note, Notification, Users, Rows
  <2>4. TypeOK /\ Reported /\ notification' = Posted(notes) /\ pickup' = pickup
      BY <2>1, <2>2 DEF IInv, SInv, CreateDonation
  <2>5. /\ \A x, k : Completed(x, k)' = Completed(x, k)
        /\ \A n \in DOMAIN notification' :
               n.type = "pickup_completed" => n \in DOMAIN notification
      BY <2>3, <2>4, CompletedKept
  <2> QED BY <2>4, <2>5, ReportedKept
<1>2. ASSUME NEW w \in Workers, Serve(w) PROVE Reported'
  <2>1. CASE Commit(w)
      BY <2>1, CommitReported
  <2>2. CASE ~ Commit(w)
    <3>1. UNCHANGED tables
        BY <1>2, <2>2
           DEF Serve, Start, CreateRead, AcceptBegin, RejectRead, PickUpRead, DeliverRead,
               Begin, Step, CreateWrite, AcceptLock, AcceptRefuse, AcceptStamp,
               AcceptPromote, AcceptAssign, RejectProposal, RejectDonation, MarkPickup,
               MarkDonation, Advance, Rollback, Fail
    <3> QED BY <3>1 DEF tables, SInv, Reported, Completed, Copies
  <2> QED BY <2>1, <2>2
<1>3. CASE UNCHANGED vars
    BY <1>3 DEF vars, SInv, Reported, Completed, Copies
<1> QED BY <1>1, <1>2, <1>3 DEF Next

-----------------------------------------------------------------------------
(* The theorems *)

LEMMA InitSerial == Init => SInv
<1> SUFFICES ASSUME Init PROVE SInv
    OBVIOUS
<1>1. DOMAIN donation = {} /\ DOMAIN pickup = {} /\ DOMAIN notification = {}
    BY DEF Init, NoRow
<1>2. \A w \in Workers : Turn(w)
    BY DEF Init, Turn, ReadHolds, AddsOneSide, ReportsDelivery, NoCall, NoWrites, NoRow
<1> QED BY <1>1, <1>2 DEF SInv, Story, Reported

LEMMA SerialStep == IInv /\ SInv /\ NoOverlap /\ [Next]_vars => SInv'
BY StoryStep, ReportedStep, TurnStep DEF SInv

(* SInv is an invariant of every behaviour whose requests do not overlap.   *)
THEOREM SerialInductive == Spec /\ []NoOverlap => []SInv
BY Inductive, InitSerial, SerialStep, PTL DEF Spec

(* While requests do not overlap, a donation has at most one proposal that  *)
(* is pending or accepted: CreateDeliveryProposal's check is enough.        *)
THEOREM SerialOneLive == Spec /\ []NoOverlap => []OneLiveProposal
<1>1. IInv /\ SInv => OneLiveProposal
    BY DEF IInv, SInv, Refs, Story, Tale, LiveFor, OneLiveProposal
<1> QED BY <1>1, Inductive, SerialInductive, PTL

(* While requests do not overlap, the statuses of a donation, its proposals *)
(* and its pickup tell one story.                                           *)
THEOREM SerialStory == Spec /\ []NoOverlap => []StatusesAgree
<1>1. SInv => StatusesAgree
    BY DEF SInv, Story, Tale, LiveFor, StatusesAgree
<1> QED BY <1>1, SerialInductive, PTL

(* While requests do not overlap, a rejected proposal has no pickup.        *)
THEOREM SerialRejected == Spec /\ []NoOverlap => []RejectedHasNoPickup
<1>1. IInv /\ SInv => RejectedHasNoPickup
    BY DEF IInv, SInv, Refs, Story, Tale, Live, RejectedHasNoPickup, HasPickup
<1> QED BY <1>1, Inductive, SerialInductive, PTL

(* While requests do not overlap, a reported delivery is not undone.        *)
THEOREM SerialDeliveryStands == Spec /\ []NoOverlap => []DeliveryStands
<1>1. Init => DeliveryStands
    BY DEF Init, NoRow, DeliveryStands
<1>2. IInv /\ SInv /\ DeliveryStands /\ [Next]_vars => DeliveryStands'
  <2> SUFFICES ASSUME IInv, SInv, DeliveryStands, [Next]_vars PROVE DeliveryStands'
      OBVIOUS
  <2>1. CASE \/ UNCHANGED <<donation, proposal, pickup>>
             \/ \E d : Listed(d)
             \/ \E d, p, row : Proposed(d, p, row)
             \/ \E p, side, d, row : SideAdded(p, side, d, row)
             \/ \E p, d, row : Declined(p, d, row)
    <3>1. pickup' = pickup
        BY <2>1 DEF Listed, Proposed, SideAdded, Declined
    <3> QED BY <3>1 DEF DeliveryStands
  <2>2. ASSUME NEW p, NEW side, NEW d, NEW row, NEW k, NEW task,
               Assigned(p, side, d, row, k, task)
        PROVE  DeliveryStands'
      BY <2>2 DEF Assigned, NowPickup, DeliveryStands
  <2>3. ASSUME NEW k, NEW d, NEW row, Moved(k, d, row)
        PROVE  DeliveryStands'
      BY <2>3 DEF Moved, NowPickup, DeliveryStands
  <2> QED BY <2>1, <2>2, <2>3, StepMoves DEF TablesMove
<1> QED BY <1>1, <1>2, Inductive, SerialInductive, PTL DEF Spec

(* While requests do not overlap, a pickup is reported completed at most    *)
(* once, to one user.                                                       *)
THEOREM SerialDelivered == Spec /\ []NoOverlap => []DeliveredOnce
<1>1. IInv /\ SInv => DeliveredOnce
  <2>1. ASSUME IInv, SInv, NEW k \in DOMAIN pickup
        PROVE  Copies(Note("pickup_completed", pickup[k].receiver, k))
                   + Copies(Note("pickup_completed", pickup[k].volunteer, k)) <= 1
    <3>1. IsTable(notification, Notification, 1 .. NotifCap)
        BY <2>1 DEF IInv, TypeOK
    <3>2. \A n : Copies(n) \in Nat
        BY <3>1 DEF Copies, IsTable
    <3> QED BY <2>1, <3>2 DEF SInv, Reported, Completed
  <2> QED BY <2>1 DEF DeliveredOnce
<1> QED BY <1>1, Inductive, SerialInductive, PTL

-----------------------------------------------------------------------------
(* Delivery implements Lifecycle *)

LifeStage == [d \in Donations |-> StageOf(d)]
LifeConsent == [d \in Donations |-> ConsentOf(d)]

(* Only d moves, from stage and consent a, x to b, y.                       *)
LifeMoves(d, a, x, b, y) ==
    /\ d \in Donations
    /\ LifeStage[d] = a /\ LifeStage' = [LifeStage EXCEPT ![d] = b]
    /\ LifeConsent[d] = x /\ LifeConsent' = [LifeConsent EXCEPT ![d] = y]

LEMMA AsideLife ==
    ASSUME Refs, NEW e, Aside(e)
    PROVE  StageOf(e)' = StageOf(e) /\ ConsentOf(e)' = ConsentOf(e)
<1>1. StageOf(e)' = StageOf(e)
    BY DEF Aside, StageOf
<1>2. ASSUME NEW side \in {"donor", "receiver"}
      PROVE  side \in ConsentOf(e)' <=> side \in ConsentOf(e)
    BY DEF Aside, ConsentOf, Live
<1>3. ConsentOf(e)' \subseteq {"donor", "receiver"} /\ ConsentOf(e) \subseteq {"donor", "receiver"}
    BY DEF ConsentOf
<1> QED BY <1>1, <1>2, <1>3

LEMMA Unlisted ==
    ASSUME Refs, NEW e, e \notin DOMAIN donation
    PROVE  StageOf(e) = "unlisted" /\ ConsentOf(e) = {}
BY DEF Refs, StageOf, ConsentOf

LEMMA UnlistedStays ==
    ASSUME Refs', NEW e, e \notin DOMAIN donation'
    PROVE  StageOf(e)' = "unlisted" /\ ConsentOf(e)' = {}
BY DEF Refs, StageOf, ConsentOf

(* The consent to a donation is what its one live proposal records.         *)
LEMMA ConsentOfLive ==
    ASSUME NEW d, NEW p \in DOMAIN proposal, LiveFor(p, d),
           \A q \in DOMAIN proposal \ {p} : ~ LiveFor(q, d)
    PROVE  ConsentOf(d) = Agreed(proposal[p])
BY DEF ConsentOf, LiveFor, Agreed

LEMMA NoConsent ==
    ASSUME NEW d, \A q \in DOMAIN proposal : ~ LiveFor(q, d)
    PROVE  ConsentOf(d) = {}
BY DEF ConsentOf, LiveFor

LEMMA OnlyMoves ==
    ASSUME IInv, IInv', NEW d \in Donations, DOMAIN donation' = DOMAIN donation \cup {d},
           \A e \in DOMAIN donation \ {d} : Aside(e)
    PROVE  LifeMoves(d, StageOf(d), ConsentOf(d), StageOf(d)', ConsentOf(d)')
<1>1. ASSUME NEW e \in Donations \ {d}
      PROVE  StageOf(e)' = StageOf(e) /\ ConsentOf(e)' = ConsentOf(e)
  <2>1. CASE e \in DOMAIN donation
      BY <2>1, AsideLife DEF IInv
  <2>2. CASE e \notin DOMAIN donation
      BY <2>2, Unlisted, UnlistedStays DEF IInv
  <2> QED BY <2>1, <2>2
<1>2. LifeStage' = [e \in Donations |-> StageOf(e)'] /\ LifeConsent' = [e \in Donations |-> ConsentOf(e)']
    BY DEF LifeStage, LifeConsent
<1>3. LifeStage' = [LifeStage EXCEPT ![d] = StageOf(d)']
    BY <1>1, <1>2 DEF LifeStage
<1>4. LifeConsent' = [LifeConsent EXCEPT ![d] = ConsentOf(d)']
    BY <1>1, <1>2 DEF LifeConsent
<1> QED BY <1>3, <1>4 DEF LifeMoves, LifeStage, LifeConsent

LEMMA ListedLife ==
    ASSUME IInv, IInv', Story, NEW d, Listed(d)
    PROVE  Life!List(d) /\ d \in Donations
<1>1. LifeMoves(d, StageOf(d), ConsentOf(d), StageOf(d)', ConsentOf(d)')
    BY ListedStory, OnlyMoves DEF Listed, IInv
<1>2. StageOf(d) = "unlisted" /\ ConsentOf(d) = {}
    BY Unlisted DEF Listed, IInv
<1>3. StageOf(d)' = "available"
    BY DEF Listed, StageOf
<1>4. ConsentOf(d)' = {}
  <2>1. \A q \in DOMAIN proposal : proposal[q].donation # d
      BY DEF IInv, Refs, Listed
  <2> QED BY <2>1 DEF Listed, ConsentOf
<1>5. LifeMoves(d, "unlisted", {}, "available", {})
    BY <1>1, <1>2, <1>3, <1>4
<1> QED BY <1>5 DEF LifeMoves, LifeStage, LifeConsent, Life!List, Life!Move

LEMMA ProposedLife ==
    ASSUME IInv, IInv', Story, NEW d, NEW p, NEW row, Proposed(d, p, row)
    PROVE  Life!Propose(d) /\ d \in Donations
<1>1. d \in DOMAIN donation /\ d \in Donations /\ Tale(d) /\ DOMAIN donation' = DOMAIN donation
    BY DEF Proposed, NowDonation, Story, IInv, TypeOK, IsTable
<1>2. LifeMoves(d, StageOf(d), ConsentOf(d), StageOf(d)', ConsentOf(d)')
    BY <1>1, ProposedStory, OnlyMoves DEF IInv
<1>3. StageOf(d) = "available" /\ StageOf(d)' = "proposal_pending"
    BY <1>1 DEF StageOf, Proposed, NowDonation
<1>4. \A q \in DOMAIN proposal : ~ LiveFor(q, d)
    BY <1>1 DEF Tale, Proposed
<1>5. ConsentOf(d) = {}
    BY <1>4, NoConsent
<1>6. ConsentOf(d)' = {}
  <2>1. \A q \in DOMAIN proposal' \ {p} : ~ (Live(q)' /\ proposal'[q].donation = d)
      BY <1>4 DEF Proposed, NowProposal, LiveFor, Live
  <2>2. ~ row.donorAccepted /\ ~ row.receiverAccepted /\ proposal'[p] = row
      BY DEF Proposed, Agreed, NowProposal
  <2> QED BY <2>1, <2>2 DEF ConsentOf
<1>7. LifeMoves(d, "available", {}, "proposal_pending", {})
    BY <1>2, <1>3, <1>5, <1>6
<1> QED BY <1>1, <1>7 DEF LifeMoves, LifeStage, LifeConsent, Life!Propose, Life!Move

(* What an acceptance does to the consent.                                  *)
LEMMA AgreedConsent ==
    ASSUME IInv, Story, NEW p, NEW side, NEW d, NEW row, AgreedBy(p, side, d, row),
           row.status \in {"pending", "accepted"}
    PROVE  /\ d \in DOMAIN donation /\ d \in Donations
           /\ donation[d].status = "proposal_pending"
           /\ ConsentOf(d) = Agreed(proposal[p])
           /\ ConsentOf(d)' = Agreed(row)
<1>1. /\ d \in DOMAIN donation /\ donation[d].status = "proposal_pending"
      /\ p \in DOMAIN proposal /\ LiveFor(p, d)
      /\ \A q \in DOMAIN proposal \ {p} : ~ LiveFor(q, d)
    BY PendingTale DEF AgreedBy, IInv
<1>2. d \in Donations
    BY <1>1 DEF IInv, TypeOK, IsTable
<1>3. ConsentOf(d) = Agreed(proposal[p])
    BY <1>1, ConsentOfLive
<1>4. /\ proposal'[p] = row /\ DOMAIN proposal' = DOMAIN proposal
      /\ \A q \in DOMAIN proposal \ {p} : proposal'[q] = proposal[q]
      /\ row.donation = d
    BY <1>1 DEF AgreedBy, NowProposal
<1>5. \A q \in DOMAIN proposal' \ {p} : ~ (Live(q)' /\ proposal'[q].donation = d)
    BY <1>1, <1>4 DEF LiveFor, Live
<1>6. ConsentOf(d)' = Agreed(row)
    BY <1>1, <1>4, <1>5 DEF ConsentOf, Agreed, Live
<1> QED BY <1>1, <1>2, <1>3, <1>6

(* An acceptance of a side that has agreed already changes nothing.         *)
LEMMA SideAddedLife ==
    ASSUME IInv, IInv', Story, NEW p, NEW side, NEW d, NEW row, SideAdded(p, side, d, row)
    PROVE  (Life!Agree(d, side) \/ UNCHANGED Life!vars)
           /\ d \in Donations /\ side \in {"donor", "receiver"}
<1>1. /\ AgreedBy(p, side, d, row) /\ side \in {"donor", "receiver"}
      /\ Agreed(row) # {"donor", "receiver"} /\ donation' = donation
      /\ row.status \in {"pending", "accepted"}
    BY DEF SideAdded, AgreedBy
<1>2. /\ d \in DOMAIN donation /\ d \in Donations
      /\ donation[d].status = "proposal_pending"
      /\ ConsentOf(d) = Agreed(proposal[p])
      /\ ConsentOf(d)' = Agreed(row)
    BY <1>1, AgreedConsent
<1>3. LifeMoves(d, StageOf(d), ConsentOf(d), StageOf(d)', ConsentOf(d)')
    BY <1>1, <1>2, SideAddedStory, OnlyMoves DEF IInv
<1>4. StageOf(d) = "proposal_pending" /\ StageOf(d)' = "proposal_pending"
    BY <1>1, <1>2 DEF StageOf
<1>5. ConsentOf(d)' = ConsentOf(d) \cup {side} /\ ConsentOf(d)' # {"donor", "receiver"}
    BY <1>1, <1>2 DEF AgreedBy
<1>6. CASE side \in ConsentOf(d)
  <2>1. ConsentOf(d)' = ConsentOf(d)
      BY <1>5, <1>6
  <2>2. LifeStage' = LifeStage /\ LifeConsent' = LifeConsent
      BY <1>3, <1>4, <2>1 DEF LifeMoves, LifeStage, LifeConsent
  <2> QED BY <1>1, <1>2, <2>2 DEF LifeStage, LifeConsent, Life!vars
<1>7. CASE side \notin ConsentOf(d)
  <2>1. PICK x : x = ConsentOf(d)
      OBVIOUS
  <2>2. LifeMoves(d, "proposal_pending", x, "proposal_pending", x \cup {side})
      BY <1>3, <1>4, <1>5, <2>1
  <2>3. x \cup {side} # {"donor", "receiver"} /\ side \notin x
      BY <1>5, <1>7, <2>1
  <2>4. Life!Agree(d, side)
      BY <2>2, <2>3 DEF LifeMoves, LifeStage, LifeConsent, Life!Agree, Life!Sides
  <2> QED BY <1>1, <1>2, <2>4
<1> QED BY <1>6, <1>7

LEMMA AssignedLife ==
    ASSUME IInv, IInv', Story,
           NEW p, NEW side, NEW d, NEW row, NEW k, NEW task,
           Assigned(p, side, d, row, k, task)
    PROVE  Life!Agree(d, side) /\ d \in Donations /\ side \in {"donor", "receiver"}
<1>1. /\ AgreedBy(p, side, d, row) /\ side \in {"donor", "receiver"}
      /\ Agreed(row) = {"donor", "receiver"}
      /\ Agreed(row) = Agreed(proposal[p]) \cup {side}
      /\ row.status \in {"pending", "accepted"}
      /\ p \in DOMAIN proposal /\ Pending(p)
    BY DEF Assigned, AgreedBy
<1>2. /\ d \in DOMAIN donation /\ d \in Donations
      /\ donation[d].status = "proposal_pending"
      /\ ConsentOf(d) = Agreed(proposal[p])
      /\ ConsentOf(d)' = Agreed(row)
    BY <1>1, AgreedConsent
<1>3. DOMAIN donation' = DOMAIN donation /\ donation'[d].status = "pickup_assigned"
    BY DEF Assigned, NowDonation
<1>4. LifeMoves(d, StageOf(d), ConsentOf(d), StageOf(d)', ConsentOf(d)')
    BY <1>2, <1>3, AssignedStory, OnlyMoves DEF IInv
<1>5. StageOf(d) = "proposal_pending" /\ StageOf(d)' = "pickup_assigned"
    BY <1>2, <1>3 DEF StageOf
<1>6. side \notin Agreed(proposal[p])
  <2>1. ~ Both(p)
      BY <1>1 DEF IInv, PickupIffBothAccepted, Pending
  <2>2. Agreed(proposal[p]) # {"donor", "receiver"}
      BY <2>1 DEF Both, Agreed
  <2> QED BY <1>1, <2>2
<1>7. PICK x : x = ConsentOf(d)
    OBVIOUS
<1>8. /\ LifeMoves(d, "proposal_pending", x, "pickup_assigned", x \cup {side})
      /\ x \cup {side} = {"donor", "receiver"} /\ side \notin x
    BY <1>1, <1>2, <1>4, <1>5, <1>6, <1>7
<1>9. Life!Agree(d, side)
    BY <1>8 DEF LifeMoves, LifeStage, LifeConsent, Life!Agree, Life!Sides
<1> QED BY <1>1, <1>2, <1>9

LEMMA DeclinedLife ==
    ASSUME IInv, IInv', Story, NEW p, NEW d, NEW row, Declined(p, d, row)
    PROVE  Life!Decline(d) /\ d \in Donations
<1>1. /\ d \in DOMAIN donation /\ donation[d].status = "proposal_pending"
      /\ \A q \in DOMAIN proposal \ {p} : ~ LiveFor(q, d)
    BY PendingTale DEF Declined, IInv
<1>2. d \in Donations /\ DOMAIN donation' = DOMAIN donation
    BY <1>1 DEF IInv, TypeOK, IsTable, Declined, NowDonation
<1>3. LifeMoves(d, StageOf(d), ConsentOf(d), StageOf(d)', ConsentOf(d)')
    BY <1>2, DeclinedStory, OnlyMoves DEF IInv, Declined, NowDonation
<1>4. StageOf(d) = "proposal_pending" /\ StageOf(d)' = "available"
    BY <1>1 DEF StageOf, Declined, NowDonation
<1>5. ConsentOf(d)' = {}
  <2>1. \A q \in DOMAIN proposal' : ~ (Live(q)' /\ proposal'[q].donation = d)
      BY <1>1 DEF Declined, NowProposal, LiveFor, Live
  <2> QED BY <2>1 DEF ConsentOf
<1>6. PICK x : x = ConsentOf(d)
    OBVIOUS
<1>7. LifeMoves(d, "proposal_pending", x, "available", {})
    BY <1>3, <1>4, <1>5, <1>6
<1> QED BY <1>2, <1>7 DEF LifeMoves, LifeStage, LifeConsent, Life!Decline, Life!Move

LEMMA MovedLife ==
    ASSUME IInv, IInv', Story, NEW k, NEW d, NEW row, Moved(k, d, row)
    PROVE  (Life!PickUp(d) \/ Life!HandOver(d)) /\ d \in Donations
<1>1. /\ d \in DOMAIN donation /\ Tale(d) /\ k \in DOMAIN pickup
      /\ pickup[k].donation = d /\ DOMAIN donation' = DOMAIN donation
      /\ donation'[d].status = row.status /\ proposal' = proposal
    BY DEF Moved, NowDonation, Story
<1>2. d \in Donations
    BY <1>1 DEF IInv, TypeOK, IsTable
<1>3. LifeMoves(d, StageOf(d), ConsentOf(d), StageOf(d)', ConsentOf(d)')
    BY <1>1, <1>2, MovedStory, OnlyMoves DEF IInv
<1>4. \/ StageOf(d) = "pickup_assigned" /\ StageOf(d)' = "picked_up"
      \/ StageOf(d) = "picked_up" /\ StageOf(d)' = "delivered"
  <2>1. donation[d].status = PickupStage[pickup[k].status]
      BY <1>1 DEF Tale
  <2> QED BY <1>1, <2>1 DEF Moved, StageOf, PickupStage
<1>5. ConsentOf(d)' = ConsentOf(d)
    BY <1>1 DEF ConsentOf, Live
<1>6. PICK x : x = ConsentOf(d)
    OBVIOUS
<1>7. \/ LifeMoves(d, "pickup_assigned", x, "picked_up", x)
      \/ LifeMoves(d, "picked_up", x, "delivered", x)
    BY <1>3, <1>4, <1>5, <1>6
<1> QED BY <1>2, <1>7
        DEF LifeMoves, LifeStage, LifeConsent, Life!PickUp, Life!HandOver, Life!Move

LEMMA LifeStep ==
    IInv /\ IInv' /\ SInv /\ [Next]_vars => [Life!Next]_(Life!vars)
<1> SUFFICES ASSUME IInv, IInv', SInv, [Next]_vars PROVE Life!Next \/ UNCHANGED Life!vars
    OBVIOUS
<1>1. TablesMove /\ Story
    BY StepMoves DEF SInv
<1>2. CASE UNCHANGED <<donation, proposal, pickup>>
    BY <1>2 DEF Life!vars, StageOf, ConsentOf, Live
<1>3. ASSUME NEW d, Listed(d) PROVE Life!Next
    BY <1>1, <1>3, ListedLife DEF Life!Next
<1>4. ASSUME NEW d, NEW p, NEW row, Proposed(d, p, row) PROVE Life!Next
    BY <1>1, <1>4, ProposedLife DEF Life!Next
<1>5. ASSUME NEW p, NEW side, NEW d, NEW row, SideAdded(p, side, d, row)
      PROVE  Life!Next \/ UNCHANGED Life!vars
    BY <1>1, <1>5, SideAddedLife DEF Life!Next, Life!Sides
<1>6. ASSUME NEW p, NEW side, NEW d, NEW row, NEW k, NEW task,
             Assigned(p, side, d, row, k, task)
      PROVE  Life!Next
    BY <1>1, <1>6, AssignedLife DEF Life!Next, Life!Sides
<1>7. ASSUME NEW p, NEW d, NEW row, Declined(p, d, row) PROVE Life!Next
    BY <1>1, <1>7, DeclinedLife DEF Life!Next
<1>8. ASSUME NEW k, NEW d, NEW row, Moved(k, d, row) PROVE Life!Next
    BY <1>1, <1>8, MovedLife DEF Life!Next
<1> QED BY <1>1, <1>2, <1>3, <1>4, <1>5, <1>6, <1>7, <1>8 DEF TablesMove

LEMMA LifeInit == Init => Life!Init
BY DEF Init, NoRow, Life!Init, StageOf, ConsentOf

(* While requests do not overlap, Delivery implements Lifecycle: each       *)
(* commit is one step of the documented status flow or none.                *)
THEOREM SerialLifecycle == Spec /\ []NoOverlap => ImplementsLifecycle
<1>1. IInv /\ IInv' /\ SInv /\ [Next]_vars => [Life!Next]_(Life!vars)
    BY LifeStep
<1> QED BY <1>1, LifeInit, Inductive, SerialInductive, PTL
        DEF Spec, ImplementsLifecycle, Life!Spec
=============================================================================
