------------------------------ MODULE Delivery ------------------------------
(* The proposal and pickup transactions of the FoodLink store               *)
(* (backend/internal/store/{donations,proposals,pickups}.go), one action    *)
(* per SQL statement that another transaction can observe or wait for.      *)
(*                                                                          *)
(* PostgreSQL under READ COMMITTED is modelled as the code uses it:         *)
(*   - a plain SELECT reads the last committed row (tx.First, no lock);     *)
(*   - UPDATE and SELECT ... FOR UPDATE wait for the row's lock, keep it    *)
(*     until the transaction ends and work on the newest committed row;     *)
(*   - an UPDATE by primary key re-checks nothing the SELECT had checked;   *)
(*   - COMMIT publishes the writes and drops the locks, ROLLBACK drops both.*)
(* Times, locations, texts and contact overrides are left out; a nullable   *)
(* timestamp is the BOOLEAN "it is set".                                    *)
EXTENDS Naturals, FiniteSets

CONSTANTS
    Donors, Receivers, Volunteers,  \* users by role (a receiver has a profile)
    Donations, Proposals, Pickups,  \* ids NewID can draw, by prefix
    Workers,                        \* connections of the pool (db.go)
    None,                           \* SQL NULL, and "no lock holder"
    NotifCap                        \* copies of a notification told apart

Users == Donors \cup Receivers \cup Volunteers
Rows  == Donations \cup Proposals \cup Pickups

(* One role per user; ids of different tables carry different prefixes.     *)
ASSUME RolesAssumption ==
    /\ Donors \cap Receivers = {}
    /\ Donors \cap Volunteers = {}
    /\ Receivers \cap Volunteers = {}
ASSUME IdsAssumption ==
    /\ Donations \cap Proposals = {}
    /\ Donations \cap Pickups = {}
    /\ Proposals \cap Pickups = {}
ASSUME NoneAssumption == None \notin Workers \cup Users
ASSUME CapAssumption == NotifCap \in Nat /\ NotifCap >= 2

VARIABLES
    donation, proposal, pickup,  \* committed tables: functions from ids to rows
    notification,                \* committed notifications, with multiplicity
    pc, call,                    \* per worker: next statement, request served
    staged,                      \* per worker: uncommitted writes
    lock                         \* row -> worker holding its lock, or None

tables == <<donation, proposal, pickup, notification>>
vars   == <<donation, proposal, pickup, notification, pc, call, staged, lock>>

-----------------------------------------------------------------------------
(* Rows, requests and types *)

DonationStatus ==
    {"available", "proposal_pending", "pickup_assigned", "picked_up", "delivered"}
DonationRow == [status : DonationStatus, donor : Donors]

ProposalRow ==
    [status : {"pending", "accepted", "rejected"},
     donation : Donations, receiver : Receivers, volunteer : Volunteers,
     donorAccepted : BOOLEAN, receiverAccepted : BOOLEAN,
     rejectedBy : Users \cup {None}]

PickupRow ==
    [status : {"assigned", "picked_up", "delivered"},
     proposal : Proposals, donation : Donations,
     receiver : Receivers, volunteer : Volunteers,
     pickedUp : BOOLEAN, delivered : BOOLEAN]

Notification ==
    [type : {"donation_created", "proposal_created", "proposal_accepted",
             "proposal_rejected", "pickup_assigned", "pickup_completed"},
     to : Users, about : Rows]

Call ==
    [op : {"create"}, user : Volunteers, donation : Donations,
     receiver : Receivers, proposal : Proposals]
    \cup [op : {"accept", "reject"}, user : Users, proposal : Proposals]
    \cup [op : {"pick_up", "deliver"}, user : Users, pickup : Pickups]
NoCall == [op |-> "none"]

Label ==
    {"idle", "create_write", "accept_lock", "accept_stamp", "accept_promote",
     "accept_assign", "reject_proposal", "reject_donation", "mark_pickup",
     "mark_donation", "commit"}

IsTable(t, Ids, Row) == DOMAIN t \subseteq Ids /\ t \in [DOMAIN t -> Row]
NoRow == [x \in {} |-> {}]
Only(id, row) == [x \in {id} |-> row]

(* The table once the writes are applied: they replace or add rows.         *)
Applied(writes, table) ==
    [id \in DOMAIN writes \cup DOMAIN table |->
        IF id \in DOMAIN writes THEN writes[id] ELSE table[id]]

IsWrites(s) ==
    /\ DOMAIN s = {"donation", "proposal", "pickup", "notes"}
    /\ IsTable(s.donation, Donations, DonationRow)
    /\ IsTable(s.proposal, Proposals, ProposalRow)
    /\ IsTable(s.pickup, Pickups, PickupRow)
    /\ s.notes \subseteq Notification
NoWrites ==
    [donation |-> NoRow, proposal |-> NoRow, pickup |-> NoRow, notes |-> {}]

(* Every table holds rows of its model, every worker is at a known          *)
(* statement with a request of its kind and a write set of rows, and a lock *)
(* is free or held by one worker (models.go, Store methods).                *)
TypeOK ==
    /\ IsTable(donation, Donations, DonationRow)
    /\ IsTable(proposal, Proposals, ProposalRow)
    /\ IsTable(pickup, Pickups, PickupRow)
    /\ IsTable(notification, Notification, 1 .. NotifCap)
    /\ pc \in [Workers -> Label]
    /\ call \in [Workers -> Call \cup {NoCall}]
    /\ DOMAIN staged = Workers /\ \A w \in Workers : IsWrites(staged[w])
    /\ lock \in [Rows -> Workers \cup {None}]

-----------------------------------------------------------------------------
(* The database as the transactions use it *)

Init ==
    /\ donation = NoRow
    /\ proposal = NoRow
    /\ pickup = NoRow
    /\ notification = NoRow
    /\ pc = [w \in Workers |-> "idle"]
    /\ call = [w \in Workers |-> NoCall]
    /\ staged = [w \in Workers |-> NoWrites]
    /\ lock = [r \in Rows |-> None]

(* BEGIN and an unlocked first SELECT: the request leaves only its call.    *)
Begin(w, c, next) ==
    /\ pc[w] = "idle"
    /\ pc' = [pc EXCEPT ![w] = next]
    /\ call' = [call EXCEPT ![w] = c]
    /\ UNCHANGED <<tables, staged, lock>>

(* A statement that needs the row's lock waits until no other holds it.     *)
Acquire(w, row) ==
    /\ lock[row] \in {w, None}
    /\ lock' = [lock EXCEPT ![row] = w]

(* The statement at label "at" is done; the worker goes on at "next".       *)
Advance(w, at, next) ==
    /\ pc[w] = at
    /\ pc' = [pc EXCEPT ![w] = next]
    /\ UNCHANGED <<tables, call>>

(* What the transaction of w has written so far.                            *)
Stage(w, d, p, k, notes) ==
    staged' = [staged EXCEPT ![w] =
        [donation |-> d, proposal |-> p, pickup |-> k, notes |-> notes]]

Unlocked(w) == [r \in Rows |-> IF lock[r] = w THEN None ELSE lock[r]]

(* The transaction of w is over, committed or not, and w is free again.     *)
Finish(w) ==
    /\ pc' = [pc EXCEPT ![w] = "idle"]
    /\ call' = [call EXCEPT ![w] = NoCall]
    /\ staged' = [staged EXCEPT ![w] = NoWrites]
    /\ lock' = Unlocked(w)

Rollback(w) == Finish(w) /\ UNCHANGED tables

Note(type, to, about) == [type |-> type, to |-> to, about |-> about]
Copies(n) == IF n \in DOMAIN notification THEN notification[n] ELSE 0
Capped(i) == IF i < NotifCap THEN i ELSE NotifCap

(* createNotification inserts a row each time; equal ones are counted, and  *)
(* NotifCap stands for "that many or more".                                 *)
Posted(notes) ==
    [n \in DOMAIN notification \cup notes |->
        IF n \in notes THEN Capped(Copies(n) + 1) ELSE notification[n]]

Commit(w) ==
    /\ pc[w] = "commit"
    /\ donation' = Applied(staged[w].donation, donation)
    /\ proposal' = Applied(staged[w].proposal, proposal)
    /\ pickup' = Applied(staged[w].pickup, pickup)
    /\ notification' = Posted(staged[w].notes)
    /\ Finish(w)

(* A statement failed, the connection was lost or the process died.         *)
Fail(w) == pc[w] # "idle" /\ Rollback(w)

-----------------------------------------------------------------------------
(* CreateDonation *)

CreateDonation(u, d) ==
    /\ d \notin DOMAIN donation
    /\ donation' = Applied(Only(d, [status |-> "available", donor |-> u]), donation)
    /\ notification' = Posted({Note("donation_created", u, d)})
    /\ UNCHANGED <<proposal, pickup, pc, call, staged, lock>>

-----------------------------------------------------------------------------
(* CreateDeliveryProposal *)

NewProposalId(p) ==
    /\ p \notin DOMAIN proposal
    /\ \A v \in Workers : call[v].op = "create" => call[v].proposal # p

(* Mutant: an open proposal does not stop the next volunteer.               *)
CanProposeAgain(d) == donation[d].status \in {"available", "proposal_pending"}
CanPropose(d) == donation[d].status = "available"

CreateRead(w) ==
    \E v \in Volunteers, r \in Receivers, d \in DOMAIN donation, p \in Proposals :
        /\ CanPropose(d)
        /\ NewProposalId(p)
        /\ Begin(w, [op |-> "create", user |-> v, donation |-> d,
                     receiver |-> r, proposal |-> p], "create_write")

NewProposal(c) ==
    [status |-> "pending", donation |-> c.donation, receiver |-> c.receiver,
     volunteer |-> c.user, donorAccepted |-> FALSE, receiverAccepted |-> FALSE,
     rejectedBy |-> None]

(* UPDATE donations SET status = s, on the newest committed row.            *)
WithStatus(d, s) == Only(d, [donation[d] EXCEPT !.status = s])

CreateWrite(w) ==
    LET c == call[w] IN
    /\ Advance(w, "create_write", "commit")
    /\ Acquire(w, c.donation)
    /\ Stage(w, WithStatus(c.donation, "proposal_pending"),
             Only(c.proposal, NewProposal(c)), NoRow,
             {Note("proposal_created", donation[c.donation].donor, c.proposal),
              Note("proposal_created", c.receiver, c.proposal)})

-----------------------------------------------------------------------------
(* AcceptDeliveryProposal *)

IsParty(u, p) ==
    u \in {donation[proposal[p].donation].donor, proposal[p].receiver}
Pending(p) == proposal[p].status = "pending"

AcceptBegin(w) ==
    \E u \in Users, p \in DOMAIN proposal :
        Begin(w, [op |-> "accept", user |-> u, proposal |-> p], "accept_lock")

MayAccept(u, p) == Pending(p) /\ IsParty(u, p)

(* Mutant: a plain SELECT.                                                  *)
AcceptLockUnlocked(w) ==
    /\ Advance(w, "accept_lock", "accept_stamp")
    /\ MayAccept(call[w].user, call[w].proposal)
    /\ UNCHANGED <<staged, lock>>
(* SELECT ... FOR UPDATE and the checks on the row it returns.              *)
AcceptLock(w) ==
    /\ Advance(w, "accept_lock", "accept_stamp")
    /\ Acquire(w, call[w].proposal)
    /\ MayAccept(call[w].user, call[w].proposal)
    /\ UNCHANGED staged

(* proposal_not_pending, not_proposal_donor, not_proposal_receiver and      *)
(* role_cannot_accept_proposal: the row, once granted, is let go at once.   *)
AcceptRefuse(w) ==
    /\ pc[w] = "accept_lock"
    /\ lock[call[w].proposal] = None
    /\ ~ MayAccept(call[w].user, call[w].proposal)
    /\ Rollback(w)

Stamped(p, u) ==
    IF u \in Donors THEN [proposal[p] EXCEPT !.donorAccepted = TRUE]
                    ELSE [proposal[p] EXCEPT !.receiverAccepted = TRUE]
(* Mutant: one side is enough.                                              *)
EitherAccepted(row) == row.donorAccepted \/ row.receiverAccepted
BothAccepted(row) == row.donorAccepted /\ row.receiverAccepted

AcceptStamp(w) ==
    LET p   == call[w].proposal
        row == Stamped(p, call[w].user)
    IN
    /\ Advance(w, "accept_stamp",
               IF BothAccepted(row) THEN "accept_promote" ELSE "commit")
    /\ Acquire(w, p)
    /\ Stage(w, NoRow, Only(p, row), NoRow,
             {Note("proposal_accepted", row.volunteer, p)})

(* Mutant: the query filters on the wrong column.                           *)
PickupsById(p) == {k \in DOMAIN pickup : k = p}
PickupsOf(p) == {k \in DOMAIN pickup : pickup[k].proposal = p}
Promoted(w) ==
    LET p == call[w].proposal
    IN  Only(p, [staged[w].proposal[p] EXCEPT !.status = "accepted"])

(* A pickup of the proposal exists already: it is returned and nothing else *)
(* is written. Requests alone never get here (PromotesOnce), so Step has no *)
(* such disjunct; Reseed, where seeding reopens a proposal, adds it.        *)
AcceptExisting(w) ==
    /\ Advance(w, "accept_promote", "commit")
    /\ PickupsOf(call[w].proposal) # {}
    /\ Stage(w, NoRow, Promoted(w), NoRow, staged[w].notes)
    /\ UNCHANGED lock

NewPickup(p) ==
    [status |-> "assigned", proposal |-> p, donation |-> proposal[p].donation,
     receiver |-> proposal[p].receiver, volunteer |-> proposal[p].volunteer,
     pickedUp |-> FALSE, delivered |-> FALSE]
NewPickupId(k) ==
    /\ k \notin DOMAIN pickup
    /\ \A v \in Workers : k \notin DOMAIN staged[v].pickup

(* Mutant: the donation is updated through s.db instead of tx, at once and  *)
(* on a connection of its own. PostgreSQL sees that one wait, but not that  *)
(* the transaction of w waits for it, and finds no circle.                  *)
AcceptPromoteOutside(w) ==
    LET p == call[w].proposal
        d == proposal[p].donation
    IN
    \E k \in Pickups :
        /\ pc[w] = "accept_promote"
        /\ PickupsOf(p) = {}
        /\ NewPickupId(k)
        /\ lock[d] = None
        /\ donation' = Applied(WithStatus(d, "pickup_assigned"), donation)
        /\ Stage(w, NoRow, Promoted(w), Only(k, NewPickup(p)),
                 staged[w].notes \cup {Note("pickup_assigned", proposal[p].volunteer, k)})
        /\ pc' = [pc EXCEPT ![w] = "commit"]
        /\ UNCHANGED <<proposal, pickup, notification, call, lock>>
AcceptPromote(w) ==
    \E k \in Pickups :
        /\ Advance(w, "accept_promote", "accept_assign")
        /\ PickupsOf(call[w].proposal) = {}
        /\ NewPickupId(k)
        /\ Stage(w, NoRow, Promoted(w), Only(k, NewPickup(call[w].proposal)),
                 staged[w].notes)
        /\ UNCHANGED lock

AcceptAssign(w) ==
    LET row == proposal[call[w].proposal]
        d   == row.donation
    IN
    /\ Advance(w, "accept_assign", "commit")
    /\ Acquire(w, d)
    /\ Stage(w, WithStatus(d, "pickup_assigned"), staged[w].proposal, staged[w].pickup,
             staged[w].notes \cup {Note("pickup_assigned", row.volunteer, k) :
                                      k \in DOMAIN staged[w].pickup})

-----------------------------------------------------------------------------
(* RejectDeliveryProposal *)

(* Mutant: the status of the proposal is not looked at.                     *)
MayRejectAny(u, p) == IsParty(u, p)
MayReject(u, p) == Pending(p) /\ IsParty(u, p)

(* Mutant: the donation is locked first, so that it cannot change.          *)
RejectReadLocking(w) ==
    \E u \in Users, p \in DOMAIN proposal :
        /\ MayReject(u, p) /\ pc[w] = "idle"
        /\ pc' = [pc EXCEPT ![w] = "reject_proposal"]
        /\ call' = [call EXCEPT ![w] = [op |-> "reject", user |-> u, proposal |-> p]]
        /\ Acquire(w, proposal[p].donation)
        /\ UNCHANGED <<tables, staged>>
RejectRead(w) ==
    \E u \in Users, p \in DOMAIN proposal :
        /\ MayReject(u, p)
        /\ Begin(w, [op |-> "reject", user |-> u, proposal |-> p], "reject_proposal")

(* Mutant: a status the contract lists and no operation writes.             *)
CanceledBy(p, u) == [proposal[p] EXCEPT !.status = "canceled", !.rejectedBy = u]
RejectedBy(p, u) == [proposal[p] EXCEPT !.status = "rejected", !.rejectedBy = u]

RejectProposal(w) ==
    LET p == call[w].proposal IN
    /\ Advance(w, "reject_proposal", "reject_donation")
    /\ Acquire(w, p)
    /\ Stage(w, NoRow, Only(p, RejectedBy(p, call[w].user)), NoRow, {})

(* Mutant: the donation is not offered again.                               *)
RejectDonationForgotten(w) ==
    /\ Advance(w, "reject_donation", "commit")
    /\ UNCHANGED <<staged, lock>>
RejectDonation(w) ==
    LET p == call[w].proposal
        d == proposal[p].donation
    IN
    /\ Advance(w, "reject_donation", "commit")
    /\ Acquire(w, d)
    /\ Stage(w, WithStatus(d, "available"), staged[w].proposal, NoRow,
             {Note("proposal_rejected", proposal[p].volunteer, p)})

-----------------------------------------------------------------------------
(* MarkPickedUp and MarkDelivered *)

PickUpRead(w) ==
    \E u \in Volunteers, k \in DOMAIN pickup :
        /\ u = pickup[k].volunteer
        /\ pickup[k].status = "assigned"
        /\ Begin(w, [op |-> "pick_up", user |-> u, pickup |-> k], "mark_pickup")

(* Mutants: any undelivered pickup; the timestamp instead of the status.    *)
Undelivered(k) == pickup[k].status # "delivered"
Collected(k) == pickup[k].pickedUp
Deliverable(k) == pickup[k].status = "picked_up"

DeliverRead(w) ==
    \E u \in Volunteers \cup Receivers, k \in DOMAIN pickup :
        /\ u \in {pickup[k].volunteer, pickup[k].receiver}
        /\ Deliverable(k)
        /\ Begin(w, [op |-> "deliver", user |-> u, pickup |-> k], "mark_pickup")

Marked(op, row) ==
    IF op = "pick_up" THEN [row EXCEPT !.status = "picked_up", !.pickedUp = TRUE]
                      ELSE [row EXCEPT !.status = "delivered", !.delivered = TRUE]

MarkPickup(w) ==
    LET k == call[w].pickup IN
    /\ Advance(w, "mark_pickup", "mark_donation")
    /\ Acquire(w, k)
    /\ Stage(w, NoRow, NoRow, Only(k, Marked(call[w].op, pickup[k])), {})

(* Mutant: a delivery the receiver reports notifies nobody.                 *)
VolunteerNotes(u, k) ==
    IF u \in Volunteers THEN {Note("pickup_completed", pickup[k].receiver, k)} ELSE {}
(* Only a delivery notifies, and it notifies the side that did not report.  *)
CompletionNotes(u, k) ==
    LET other == IF u \in Volunteers THEN pickup[k].receiver ELSE pickup[k].volunteer
    IN  {Note("pickup_completed", other, k)}

MarkDonation(w) ==
    LET k == call[w].pickup
        d == pickup[k].donation
        s == Marked(call[w].op, pickup[k]).status
    IN
    /\ Advance(w, "mark_donation", "commit")
    /\ Acquire(w, d)
    /\ Stage(w, WithStatus(d, s), NoRow, staged[w].pickup,
             IF s = "delivered" THEN CompletionNotes(call[w].user, k) ELSE {})

-----------------------------------------------------------------------------
Start(w) ==
    \/ CreateRead(w)
    \/ AcceptBegin(w)
    \/ RejectRead(w)
    \/ PickUpRead(w)
    \/ DeliverRead(w)

Step(w) ==
    \/ CreateWrite(w)
    \/ AcceptLock(w)
    \/ AcceptRefuse(w)
    \/ AcceptStamp(w)
    \/ AcceptPromote(w)
    \/ AcceptAssign(w)
    \/ RejectProposal(w)
    \/ RejectDonation(w)
    \/ MarkPickup(w)
    \/ MarkDonation(w)
    \/ Commit(w)

Serve(w) == Start(w) \/ Step(w) \/ Fail(w)

Next ==
    \/ \E u \in Donors, d \in Donations : CreateDonation(u, d)
    \/ \E w \in Workers : Serve(w)

Spec == Init /\ [][Next]_vars

-----------------------------------------------------------------------------
(* Safety *)

Both(p) == proposal[p].donorAccepted /\ proposal[p].receiverAccepted
HasPickup(p) == \E k \in DOMAIN pickup : pickup[k].proposal = p

(* "Pickup is created when both proposal sides have accepted": a pickup of  *)
(* a proposal is there exactly when both acceptances are recorded, however  *)
(* the two acceptances, their repetitions and a rejection interleave; no    *)
(* acceptance is lost, and no proposal is left pending with both of them.   *)
PickupIffBothAccepted ==
    \A p \in DOMAIN proposal :
        /\ HasPickup(p) <=> Both(p)
        /\ proposal[p].status = "accepted" => Both(p)
        /\ proposal[p].status = "pending" => ~ Both(p)

(* A proposal never leads to two pickups (AcceptDeliveryProposal looks for  *)
(* an existing pickup under the proposal's row lock).                       *)
OnePickupPerProposal ==
    \A k, l \in DOMAIN pickup : pickup[k].proposal = pickup[l].proposal => k = l

(* Whenever Accept comes to make the pickup there is none yet: the row lock *)
(* it has held since it checked the status keeps every other acceptance     *)
(* out, so its existingPickup branch is dead code unless data is seeded     *)
(* again.                                                                   *)
PromotesOnce ==
    \A w \in Workers : pc[w] = "accept_promote" => PickupsOf(call[w].proposal) = {}

Backing(d) ==
    [available        |-> TRUE,
     proposal_pending |-> \E p \in DOMAIN proposal :
                              proposal[p].donation = d /\ Pending(p),
     pickup_assigned  |-> \E k \in DOMAIN pickup :
                              pickup[k].donation = d /\ pickup[k].status = "assigned",
     picked_up        |-> \E k \in DOMAIN pickup :
                              pickup[k].donation = d /\ pickup[k].status = "picked_up",
     delivered        |-> \E k \in DOMAIN pickup :
                              pickup[k].donation = d /\ pickup[k].status = "delivered"]

(* No donation is stranded: the status a volunteer sees is always backed by *)
(* a row that can still move it on (a pending proposal for                  *)
(* proposal_pending, a pickup in the same state for the later ones), though *)
(* proposals, rejections and pickups of one donation may race.              *)
StatusBacked == \A d \in DOMAIN donation : Backing(d)[donation[d].status]

(* Food is never recorded as delivered without having been picked up, even  *)
(* after stale repetitions of either report.                                *)
DeliveredWasPickedUp ==
    \A k \in DOMAIN pickup :
        /\ pickup[k].delivered => pickup[k].pickedUp
        /\ pickup[k].status = "delivered" => pickup[k].delivered

(* The row lock the next statement of w needs, and who holds it.            *)
Needs(w) ==
    LET c == call[w] IN
    CASE pc[w] = "create_write" -> {c.donation}
      [] pc[w] \in {"accept_lock", "accept_stamp", "reject_proposal"} -> {c.proposal}
      [] pc[w] \in {"accept_assign", "reject_donation"} -> {proposal[c.proposal].donation}
      [] pc[w] = "mark_pickup" -> {c.pickup}
      [] pc[w] = "mark_donation" -> {pickup[c.pickup].donation}
      [] OTHER -> {}
WaitsFor(w) == {lock[r] : r \in Needs(w)} \ {w, None}

(* Requests never deadlock, however many overlap: whoever waits for a       *)
(* request that waits itself, waits for one that is about to commit,        *)
(* because every transaction locks its proposal or pickup first and its     *)
(* donation last.                                                           *)
WaitsAreShort ==
    \A w \in Workers : \A v \in WaitsFor(w) : \A x \in WaitsFor(v) : WaitsFor(x) = {}

AtLeast(n, i) == Copies(n) >= i
Stamps(row) ==
    Cardinality({s \in {"donor", "receiver"} :
                    IF s = "donor" THEN row.donorAccepted ELSE row.receiverAccepted})

(* A transition and its notification commit together: both parties heard of *)
(* a proposal once, the volunteer once per acceptance and rejection and     *)
(* exactly once of the pickup, and somebody of a delivery.                  *)
EveryTransitionNotified ==
    /\ \A p \in DOMAIN proposal :
        LET row == proposal[p] IN
        /\ \A u \in {row.receiver, donation[row.donation].donor} :
               Copies(Note("proposal_created", u, p)) = 1
        /\ AtLeast(Note("proposal_accepted", row.volunteer, p), Stamps(row))
        /\ row.status = "rejected" =>
               AtLeast(Note("proposal_rejected", row.volunteer, p), 1)
    /\ \A k \in DOMAIN pickup :
        LET row == pickup[k] IN
        /\ Copies(Note("pickup_assigned", row.volunteer, k)) = 1
        /\ row.delivered => \E u \in {row.volunteer, row.receiver} :
                               AtLeast(Note("pickup_completed", u, k), 1)

(* A committed proposal only moves forward: it is never deleted, a          *)
(* rejection is final, nothing becomes pending again, no acceptance is      *)
(* withdrawn, and a rejection always names the party who made it.           *)
ForwardOnly(old, new) ==
    /\ old.status = "rejected" => new.status = "rejected"
    /\ new.status = "pending" => old.status = "pending"
    /\ old.donorAccepted => new.donorAccepted
    /\ old.receiverAccepted => new.receiverAccepted
    /\ (new.status = "rejected") <=> (new.rejectedBy # None)
ProposalsMoveForward ==
    [][\A p \in DOMAIN proposal :
          p \in DOMAIN proposal' /\ ForwardOnly(proposal[p], proposal'[p])]_vars

-----------------------------------------------------------------------------
(* What holds only while requests do not overlap *)

Live(p) == proposal[p].status \in {"pending", "accepted"}

(* "Another volunteer has already submitted a proposal for that donation    *)
(* ... You cannot select these donations": a donation has at most one       *)
(* proposal that is pending or accepted (CreateDeliveryProposal's check of  *)
(* the donation's status).                                                  *)
OneLiveProposal ==
    \A p, q \in DOMAIN proposal :
        Live(p) /\ Live(q) /\ proposal[p].donation = proposal[q].donation => p = q

(* The donation's status, the proposals' and the pickups' tell one story:   *)
(* available without a live proposal, proposal_pending with a pending one,  *)
(* and from then on the status of the accepted proposal's pickup.           *)
PickupStage == [assigned |-> "pickup_assigned", picked_up |-> "picked_up",
                delivered |-> "delivered"]
StatusesAgree ==
    \A d \in DOMAIN donation :
        LET live == {p \in DOMAIN proposal : Live(p) /\ proposal[p].donation = d} IN
        /\ donation[d].status = "available" <=> live = {}
        /\ donation[d].status = "proposal_pending" <=> \E p \in live : Pending(p)
        /\ \A k \in DOMAIN pickup :
               pickup[k].donation = d =>
                   donation[d].status = PickupStage[pickup[k].status]

(* A rejected proposal has no pickup: rejecting answers 409 once the        *)
(* proposal is accepted (RejectDeliveryProposal's check of the status).     *)
RejectedHasNoPickup ==
    \A p \in DOMAIN proposal : proposal[p].status = "rejected" => ~ HasPickup(p)

(* A delivery that was reported stands: the pickup does not go back to      *)
(* picked_up and the volunteer is not asked to deliver again, because       *)
(* reporting it picked up answers 409 from then on (markPickup's check of   *)
(* the status).                                                             *)
DeliveryStands ==
    \A k \in DOMAIN pickup : pickup[k].delivered => pickup[k].status = "delivered"

(* Delivering again answers 409 invalid_pickup_state: one delivery, one     *)
(* pickup_completed notification (MarkDelivered's check of the status).     *)
DeliveredOnce ==
    \A k \in DOMAIN pickup :
        Copies(Note("pickup_completed", pickup[k].receiver, k))
            + Copies(Note("pickup_completed", pickup[k].volunteer, k)) <= 1

=============================================================================
