---------------------------- MODULE ReseedProofs ----------------------------
(* Theorems about Reseed, for any demo rows and any number of requests that *)
(* run beside the seeding transaction: the tables stay well typed, no       *)
(* acceptance, pickup or delivery is taken back, and a proposal never gets  *)
(* a second pickup. IInv of DeliveryProofs does not hold here (a reseed     *)
(* reopens proposals that have a pickup), so the invariant is another one:  *)
(* what a transaction has written it holds, and what it is to replace has   *)
(* not changed since in what it keeps.                                      *)
EXTENDS Reseed, DeliveryProofs

-----------------------------------------------------------------------------
(* The inductive invariant *)

KeepsAcceptance(old, new) ==
    /\ old.donorAccepted => new.donorAccepted
    /\ old.receiverAccepted => new.receiverAccepted
KeepsReport(old, new) ==
    /\ old.pickedUp => new.pickedUp
    /\ old.delivered => new.delivered
    /\ new.proposal = old.proposal

(* The demo rows are in the tables, each demo pickup with its proposal.     *)
DemoRows ==
    /\ DOMAIN SeedOf \cap Donations \subseteq DOMAIN donation
    /\ DOMAIN SeedOf \cap Proposals \subseteq DOMAIN proposal
    /\ \A k \in DOMAIN SeedOf \cap Pickups :
           k \in DOMAIN pickup /\ pickup[k].proposal = SeedOf[k].proposal

OfDonations ==
    /\ \A p \in DOMAIN proposal : proposal[p].donation \in DOMAIN donation
    /\ \A k \in DOMAIN pickup : pickup[k].donation \in DOMAIN donation

(* A row that is replaced is locked and loses nothing; a new proposal is    *)
(* the one of the call; a new pickup is drawn up alone, under the lock of   *)
(* its proposal, which has none.                                            *)
WritesProposal(w, p) ==
    LET row == staged[w].proposal[p] IN
    /\ row.donation \in DOMAIN donation
    /\ p \in DOMAIN proposal => lock[p] = w /\ KeepsAcceptance(proposal[p], row)
    /\ p \notin DOMAIN proposal => call[w].op = "create" /\ call[w].proposal = p

WritesPickup(w, k) ==
    LET row == staged[w].pickup[k] IN
    /\ row.donation \in DOMAIN donation
    /\ k \in DOMAIN pickup => lock[k] = w /\ KeepsReport(pickup[k], row)
    /\ k \notin DOMAIN pickup =>
           /\ lock[row.proposal] = w
           /\ PickupsOf(row.proposal) = {}
           /\ DOMAIN staged[w].pickup = {k}

(* Where a request is, and what it is about. The seeder serves none, and    *)
(* writes demo rows.                                                        *)
Asks(w) ==
    LET c == call[w] IN
    /\ w = Seeder => pc[w] = "idle" /\ DOMAIN staged[w].pickup \subseteq DOMAIN SeedOf
    /\ pc[w] = "idle" => c = NoCall /\ (w # Seeder => Clean(w))
    /\ c.op = "create" => c.donation \in DOMAIN donation /\ c.proposal \notin DOMAIN proposal
    /\ pc[w] = "create_write" => c.op = "create"
    /\ pc[w] \in {"accept_lock", "accept_stamp", "accept_promote", "accept_assign"} =>
           c.op = "accept" /\ c.proposal \in DOMAIN proposal
    /\ pc[w] \in {"reject_proposal", "reject_donation"} =>
           c.op = "reject" /\ c.proposal \in DOMAIN proposal
    /\ pc[w] \in {"mark_pickup", "mark_donation"} =>
           c.op \in {"pick_up", "deliver"} /\ c.pickup \in DOMAIN pickup
    /\ pc[w] = "accept_promote" => c.proposal \in DOMAIN staged[w].proposal

Task(w) ==
    /\ Asks(w)
    /\ \A p \in DOMAIN staged[w].proposal : WritesProposal(w, p)
    /\ \A k \in DOMAIN staged[w].pickup : WritesPickup(w, k)

RInv ==
    /\ TypeOK
    /\ next \in Nat
    /\ DemoRows
    /\ OfDonations
    /\ OnePickupPerProposal
    /\ FreshIds
    /\ \A w \in Workers : Task(w)

-----------------------------------------------------------------------------
(* Steps that leave the tables alone *)

LEMMA SeederServesNone == Seeder \in Workers /\ API \subseteq Workers /\ Seeder \notin API
BY SeedAssumption DEF API

LEMMA StagedIds ==
    ASSUME TypeOK, NEW w \in Workers
    PROVE  /\ IsWrites(staged[w])
           /\ DOMAIN staged[w].proposal \subseteq Proposals
           /\ DOMAIN staged[w].pickup \subseteq Pickups
           /\ \A p \in DOMAIN staged[w].proposal : staged[w].proposal[p] \in ProposalRow
           /\ \A k \in DOMAIN staged[w].pickup :
                  staged[w].pickup[k] \in PickupRow /\ staged[w].pickup[k].proposal \in Proposals
<1>1. IsWrites(staged[w])
    BY DEF TypeOK
<1>2. \A k \in DOMAIN staged[w].pickup : staged[w].pickup[k] \in PickupRow
    BY <1>1 DEF IsWrites, IsTable
<1> QED BY <1>1, <1>2 DEF IsWrites, IsTable, PickupRow

(* A worker's task stays while it keeps its locks and the tables stay.      *)
LEMMA WritesKept ==
    ASSUME TypeOK, NEW v \in Workers, UNCHANGED tables, staged'[v] = staged[v],
           \A r \in Rows : lock[r] = v => lock'[r] = v
    PROVE  /\ \A p \in DOMAIN staged[v].proposal :
                  WritesProposal(v, p) /\ call'[v] = call[v] => WritesProposal(v, p)'
           /\ \A k \in DOMAIN staged[v].pickup : WritesPickup(v, k) => WritesPickup(v, k)'
<1>1. UNCHANGED <<donation, proposal, pickup>>
    BY DEF tables
<1>2. ASSUME NEW p \in DOMAIN staged[v].proposal, WritesProposal(v, p), call'[v] = call[v]
      PROVE  WritesProposal(v, p)'
  <2>1. p \in Rows
      BY StagedIds DEF Rows
  <2> QED BY <1>1, <1>2, <2>1 DEF WritesProposal
<1>3. ASSUME NEW k \in DOMAIN staged[v].pickup, WritesPickup(v, k)
      PROVE  WritesPickup(v, k)'
  <2>1. k \in Rows /\ staged[v].pickup[k].proposal \in Rows
      BY StagedIds DEF Rows
  <2>2. PICK p : p = staged[v].pickup[k].proposal
      OBVIOUS
  <2>3. PickupsOf(p)' = PickupsOf(p)
      BY <1>1 DEF PickupsOf
  <2> QED BY <1>1, <1>3, <2>1, <2>2, <2>3 DEF WritesPickup
<1> QED BY <1>2, <1>3

LEMMA TaskKept ==
    ASSUME TypeOK, NEW w \in Workers, NEW v \in Workers \ {w}, Local(w), Task(v)
    PROVE  Task(v)'
<1>1. /\ UNCHANGED <<donation, proposal, pickup, pc[v], call[v], staged[v]>>
      /\ \A r \in Rows : lock[r] = v => lock'[r] = v
      /\ UNCHANGED tables
    BY DEF Local, tables
<1>2. Asks(v)'
    BY <1>1 DEF Task, Asks, Clean
<1>3. /\ \A p \in DOMAIN staged[v].proposal : WritesProposal(v, p)'
      /\ \A k \in DOMAIN staged[v].pickup : WritesPickup(v, k)'
    BY <1>1, WritesKept DEF Task
<1> QED BY <1>1, <1>2, <1>3 DEF Task

LEMMA LocalKeeps ==
    ASSUME RInv, NEW w \in Workers, Local(w), TypeOK', Task(w)', FreshIds', next' \in Nat
    PROVE  RInv'
<1>1. \A v \in Workers : Task(v)'
    BY TaskKept DEF RInv
<1>2. UNCHANGED <<donation, proposal, pickup>>
    BY DEF Local, tables
<1>3. DemoRows' /\ OfDonations' /\ OnePickupPerProposal'
    BY <1>2 DEF RInv, DemoRows, OfDonations, OnePickupPerProposal
<1> QED BY <1>1, <1>3 DEF RInv

LEMMA BeginKeeps ==
    ASSUME RInv, NEW w \in API, NEW c \in Call, NEW to \in Label, Begin(w, c, to),
           call'[w] = c /\ pc'[w] = to => Asks(w)',
           c.op = "create" =>
               \A v \in Workers : call[v].op = "create" => call[v].proposal # c.proposal,
           next' \in Nat
    PROVE  RInv'
<1> USE DEF RInv
<1>1. w \in Workers /\ w # Seeder
    BY SeederServesNone
<1>2. Local(w)
    BY <1>1 DEF Begin, Local, TypeOK
<1>3. UNCHANGED <<donation, proposal, pickup, notification, staged, lock>>
    BY DEF Begin, tables
<1>4. TypeOK'
  <2>1. pc' \in [Workers -> Label] /\ call' \in [Workers -> Call \cup {NoCall}]
      BY DEF Begin, TypeOK
  <2> QED BY <1>3, <2>1 DEF TypeOK
<1>5. FreshIds'
    BY <1>1 DEF Begin, FreshIds, TypeOK
<1>6. Task(w)'
  <2>1. Clean(w)
      BY <1>1 DEF Begin, Task, Asks
  <2>2. call'[w] = c /\ pc'[w] = to
      BY <1>1 DEF Begin, TypeOK
  <2>3. DOMAIN staged'[w].proposal = {} /\ DOMAIN staged'[w].pickup = {}
      BY <1>3, <2>1 DEF Clean, NoWrites, NoRow
  <2> QED BY <2>2, <2>3 DEF Task
<1> QED BY <1>1, <1>2, <1>4, <1>5, <1>6, LocalKeeps

LEMMA AdvanceKeeps ==
    ASSUME RInv, NEW w \in API, NEW at, NEW to \in Label, NEW row \in Rows,
           Advance(w, at, to),
           Acquire(w, row) \/ UNCHANGED lock,
           DOMAIN staged' = Workers,
           \A v \in Workers \ {w} : staged'[v] = staged[v],
           IsWrites(staged'[w]),
           \A v \in Workers \ {w} : DOMAIN staged[v].pickup \cap DOMAIN staged'[w].pickup = {},
           Task(w)',
           next' \in Nat
    PROVE  RInv'
<1> USE DEF RInv
<1>1. w \in Workers
    BY SeederServesNone
<1>2. lock' \in [Rows -> Workers \cup {None}]
    BY <1>1 DEF Acquire, TypeOK
<1>3. Local(w)
    BY <1>1, NoneAssumption DEF Advance, Acquire, Local, TypeOK
<1>4. UNCHANGED <<donation, proposal, pickup, notification, call>>
    BY DEF Advance, tables
<1>5. TypeOK'
  <2>1. pc' \in [Workers -> Label]
      BY DEF Advance, TypeOK
  <2>2. \A v \in Workers : IsWrites(staged'[v])
      BY DEF TypeOK
  <2> QED BY <1>2, <1>4, <2>1, <2>2 DEF TypeOK
<1>6. FreshIds'
    BY <1>4 DEF FreshIds
<1> QED BY <1>1, <1>3, <1>5, <1>6, LocalKeeps

(* A statement that only writes a donation, or nothing: w holds what it     *)
(* held.                                                                    *)
LEMMA HoldsOn ==
    ASSUME RInv, NEW w \in API, NEW row \in Rows, Acquire(w, row) \/ UNCHANGED lock
    PROVE  \A r \in Rows : lock[r] = w => lock'[r] = w
BY DEF RInv, TypeOK, Acquire

LEMMA RollbackKeeps ==
    ASSUME RInv, NEW w \in Workers, Rollback(w), next' \in Nat
    PROVE  RInv'
<1> USE DEF RInv
<1>1. lock' \in [Rows -> Workers \cup {None}]
    BY DEF Rollback, Finish, Unlocked, TypeOK
<1>2. Local(w)
    BY DEF Rollback, Finish, Unlocked, Local, TypeOK
<1>3. staged'[w] = NoWrites /\ call'[w] = NoCall /\ pc'[w] = "idle"
    BY DEF Rollback, Finish, TypeOK
<1>4. Task(w)'
  <2>1. DOMAIN NoWrites.proposal = {} /\ DOMAIN NoWrites.pickup = {} /\ NoCall.op = "none"
      BY DEF NoWrites, NoRow, NoCall
  <2>2. Asks(w)'
      BY <1>3, <2>1 DEF Asks, Clean
  <2> QED BY <1>3, <2>1, <2>2 DEF Task
<1>5. TypeOK'
  <2>1. UNCHANGED <<donation, proposal, pickup, notification>>
      BY DEF Rollback, tables
  <2>2. pc' \in [Workers -> Label] /\ call' \in [Workers -> Call \cup {NoCall}]
      BY DEF Rollback, Finish, TypeOK, Label
  <2>3. DOMAIN staged' = Workers /\ \A v \in Workers : IsWrites(staged'[v])
      BY EmptyWrites DEF Rollback, Finish, TypeOK
  <2> QED BY <1>1, <2>1, <2>2, <2>3 DEF TypeOK
<1>6. FreshIds'
    BY <1>2, <1>3 DEF FreshIds, Local, NoCall, NoWrites, NoRow
<1> QED BY <1>2, <1>4, <1>5, <1>6, LocalKeeps

-----------------------------------------------------------------------------
(* Requests *)

LEMMA StartKeeps ==
    ASSUME RInv, NEW w \in API, Start(w), UNCHANGED next
    PROVE  RInv'
<1> USE DEF RInv
<1>1. CASE CreateRead(w)
  <2>1. PICK v \in Volunteers, r \in Receivers, d \in DOMAIN donation, p \in Proposals :
            /\ NewProposalId(p)
            /\ Begin(w, [op |-> "create", user |-> v, donation |-> d,
                         receiver |-> r, proposal |-> p], "create_write")
      BY <1>1 DEF CreateRead
  <2> DEFINE c == [op |-> "create", user |-> v, donation |-> d, receiver |-> r, proposal |-> p]
  <2>2. c \in Call
      BY DEF Call, TypeOK, IsTable
  <2>3. UNCHANGED <<donation, proposal, staged>> /\ w # Seeder
      BY <2>1, SeederServesNone DEF Begin, tables
  <2>4. ASSUME call'[w] = c, pc'[w] = "create_write" PROVE Asks(w)'
      BY <2>1, <2>3, <2>4 DEF Asks, NewProposalId
  <2>5. \A x \in Workers : call[x].op = "create" => call[x].proposal # p
      BY <2>1 DEF NewProposalId
  <2> QED BY <2>1, <2>2, <2>4, <2>5, BeginKeeps DEF Label
<1>2. CASE AcceptBegin(w) \/ RejectRead(w)
  <2>1. PICK u \in Users, p \in DOMAIN proposal, op \in {"accept", "reject"} :
            Begin(w, [op |-> op, user |-> u, proposal |-> p],
                  IF op = "accept" THEN "accept_lock" ELSE "reject_proposal")
      BY <1>2 DEF AcceptBegin, RejectRead
  <2> DEFINE c == [op |-> op, user |-> u, proposal |-> p]
             to == IF op = "accept" THEN "accept_lock" ELSE "reject_proposal"
  <2>2. c \in Call /\ to \in Label
      BY DEF Call, TypeOK, IsTable, Label
  <2>3. UNCHANGED <<donation, proposal, staged>> /\ w # Seeder
      BY <2>1, SeederServesNone DEF Begin, tables
  <2>4. ASSUME call'[w] = c, pc'[w] = to PROVE Asks(w)'
      BY <2>3, <2>4 DEF Asks
  <2> QED BY <2>1, <2>2, <2>4, BeginKeeps
<1>3. CASE PickUpRead(w) \/ DeliverRead(w)
  <2>1. PICK u \in Users, k \in DOMAIN pickup, op \in {"pick_up", "deliver"} :
            Begin(w, [op |-> op, user |-> u, pickup |-> k], "mark_pickup")
      BY <1>3 DEF PickUpRead, DeliverRead, Users
  <2> DEFINE c == [op |-> op, user |-> u, pickup |-> k]
  <2>2. c \in Call
      BY DEF Call, TypeOK, IsTable
  <2>3. UNCHANGED <<donation, pickup, staged>> /\ w # Seeder
      BY <2>1, SeederServesNone DEF Begin, tables
  <2>4. ASSUME call'[w] = c, pc'[w] = "mark_pickup" PROVE Asks(w)'
      BY <2>3, <2>4 DEF Asks
  <2> QED BY <2>1, <2>2, <2>4, BeginKeeps DEF Label
<1> QED BY <1>1, <1>2, <1>3 DEF Start

(* What the call of a worker at a label names.                              *)
LEMMA CallOf ==
    ASSUME RInv, NEW w \in API
    PROVE  LET c == call[w] IN
           /\ w \in Workers /\ w # Seeder
           /\ c.op = "create" =>
                  /\ c.user \in Volunteers /\ c.receiver \in Receivers
                  /\ c.proposal \in Proposals \ DOMAIN proposal
                  /\ c.donation \in DOMAIN donation
           /\ c.op \in {"accept", "reject", "pick_up", "deliver"} => c.user \in Users
           /\ pc[w] \in {"accept_lock", "accept_stamp", "accept_promote", "accept_assign",
                         "reject_proposal", "reject_donation"} =>
                  /\ c.op \in {"accept", "reject"}
                  /\ c.proposal \in DOMAIN proposal
                  /\ c.proposal \in Proposals
                  /\ proposal[c.proposal] \in ProposalRow
                  /\ proposal[c.proposal].donation \in DOMAIN donation
           /\ pc[w] \in {"mark_pickup", "mark_donation"} =>
                  /\ c.op \in {"pick_up", "deliver"}
                  /\ c.pickup \in DOMAIN pickup
                  /\ c.pickup \in Pickups
                  /\ pickup[c.pickup] \in PickupRow
                  /\ pickup[c.pickup].donation \in DOMAIN donation
<1>1. w \in Workers /\ w # Seeder
    BY SeederServesNone
<1>2. call[w] \in Call \cup {NoCall}
    BY <1>1 DEF RInv, TypeOK
<1>3. call[w].op = "create" =>
          /\ call[w].user \in Volunteers /\ call[w].receiver \in Receivers
          /\ call[w].proposal \in Proposals
    BY <1>2 DEF Call, NoCall
<1>4. call[w].op \in {"accept", "reject", "pick_up", "deliver"} => call[w].user \in Users
    BY <1>2 DEF Call, NoCall
<1>5. Asks(w)
    BY <1>1 DEF RInv, Task
<1>6. IsTable(proposal, Proposals, ProposalRow) /\ IsTable(pickup, Pickups, PickupRow)
    BY DEF RInv, TypeOK
<1> QED BY <1>1, <1>3, <1>4, <1>5, <1>6 DEF Asks, RInv, OfDonations, IsTable

LEMMA DonationRows ==
    ASSUME RInv, NEW d \in DOMAIN donation
    PROVE  d \in Donations /\ d \in Rows
BY DEF RInv, TypeOK, IsTable, Rows

LEMMA CreateWriteKeeps ==
    ASSUME RInv, NEW w \in API, CreateWrite(w), UNCHANGED next
    PROVE  RInv'
<1> DEFINE c == call[w]
           notes == {Note("proposal_created", donation[c.donation].donor, c.proposal),
                     Note("proposal_created", c.receiver, c.proposal)}
           set == WithStatus(c.donation, "proposal_pending")
           new == Only(c.proposal, NewProposal(c))
<1>0. TypeOK /\ next \in Nat
    BY DEF RInv
<1>1. /\ Advance(w, "create_write", "commit")
      /\ Acquire(w, c.donation)
      /\ Stage(w, set, new, NoRow, notes)
    BY DEF CreateWrite
<1>2. /\ w \in Workers /\ w # Seeder
      /\ c.op = "create" /\ c.user \in Volunteers /\ c.receiver \in Receivers
      /\ c.proposal \in Proposals \ DOMAIN proposal
      /\ c.donation \in DOMAIN donation
  <2>1. pc[w] = "create_write" /\ w \in Workers
      BY <1>1, SeederServesNone DEF Advance
  <2>2. Asks(w)
      BY <2>1 DEF RInv, Task
  <2> QED BY <2>1, <2>2, CallOf DEF Asks
<1>3. c.donation \in Donations /\ c.donation \in Rows
    BY <1>2, DonationRows
<1>4. IsTable(set, Donations, DonationRow) /\ donation[c.donation].donor \in Users
    BY <1>0, <1>2, WithStatusType DEF DonationStatus
<1>5. NewProposal(c) \in ProposalRow
    BY <1>2, <1>3 DEF NewProposal, ProposalRow
<1>6. IsTable(new, Proposals, ProposalRow)
    BY <1>2, <1>5, OneRowTable
<1>7. notes \subseteq Notification
    BY <1>2, <1>4 DEF Notification, Note, Users, Rows
<1> HIDE DEF set, notes
<1>8. /\ DOMAIN staged' = Workers
      /\ \A v \in Workers \ {w} : staged'[v] = staged[v]
      /\ staged'[w].proposal = new
      /\ staged'[w].pickup = NoRow
      /\ IsWrites(staged'[w])
  <2> HIDE DEF new
  <2> QED BY <1>0, <1>1, <1>2, <1>4, <1>6, <1>7, EmptyTable, Staged
<1>9. Task(w)'
  <2>1. UNCHANGED <<donation, proposal, call>> /\ pc'[w] = "commit"
      BY <1>0, <1>1, <1>2 DEF Advance, tables, TypeOK
  <2>2. Asks(w)'
      BY <1>2, <2>1 DEF Asks
  <2>3. DOMAIN new = {c.proposal} /\ new[c.proposal] = NewProposal(c)
      BY OneRow
  <2>4. NewProposal(c).donation = c.donation
      BY DEF NewProposal
  <2>5. \A p \in DOMAIN staged'[w].proposal : WritesProposal(w, p)'
      BY <1>2, <1>8, <2>1, <2>3, <2>4 DEF WritesProposal
  <2>6. DOMAIN staged'[w].pickup = {}
      BY <1>8 DEF NoRow
  <2> QED BY <2>2, <2>5, <2>6 DEF Task
<1>10. DOMAIN staged'[w].pickup = {} /\ "commit" \in Label /\ next' \in Nat
    BY <1>0, <1>8 DEF NoRow, Label
<1> QED BY <1>1, <1>3, <1>8, <1>9, <1>10, AdvanceKeeps

(* A proposal row a statement stages continues the one it had staged, or    *)
(* rewrites a stored one; a pickup row likewise, or it is a new one.        *)
StagesProposal(w, p, row) ==
    \/ /\ p \in DOMAIN staged[w].proposal
       /\ KeepsAcceptance(staged[w].proposal[p], row)
       /\ row.donation = staged[w].proposal[p].donation
    \/ /\ p \in DOMAIN proposal
       /\ lock'[p] = w
       /\ KeepsAcceptance(proposal[p], row)
       /\ row.donation \in DOMAIN donation

StagesPickup(w, k, row) ==
    \/ /\ k \in DOMAIN pickup
       /\ lock'[k] = w
       /\ KeepsReport(pickup[k], row)
       /\ row.donation \in DOMAIN donation
    \/ /\ k \notin DOMAIN pickup
       /\ lock'[row.proposal] = w
       /\ PickupsOf(row.proposal) = {}
       /\ row.donation \in DOMAIN donation

StagesPickups(w, rows) ==
    \/ rows = staged[w].pickup
    \/ /\ \A k \in DOMAIN rows : StagesPickup(w, k, rows[k]) /\ DOMAIN rows = {k}
       /\ \A v \in Workers \ {w} : DOMAIN staged[v].pickup \cap DOMAIN rows = {}

LEMMA StatementKeeps ==
    ASSUME RInv, NEW w \in API, NEW at, NEW to \in Label, NEW row \in Rows,
           Advance(w, at, to), Acquire(w, row) \/ UNCHANGED lock, UNCHANGED next,
           NEW d, NEW p, NEW k, NEW notes, Stage(w, d, p, k, notes),
           IsTable(d, Donations, DonationRow),
           IsTable(p, Proposals, ProposalRow),
           IsTable(k, Pickups, PickupRow),
           notes \subseteq Notification,
           \A id \in DOMAIN p : StagesProposal(w, id, p[id]),
           StagesPickups(w, k),
           to = "accept_promote" => call[w].proposal \in DOMAIN p,
           to \in {"accept_promote", "accept_assign"} => at \in {"accept_stamp", "accept_promote"},
           to \in {"reject_donation"} => at = "reject_proposal",
           to \in {"mark_donation"} => at = "mark_pickup",
           to \in {"accept_promote", "accept_assign", "reject_donation", "mark_donation", "commit"}
    PROVE  RInv'
<1>1. w \in Workers /\ w # Seeder /\ TypeOK /\ next' \in Nat
    BY SeederServesNone DEF RInv
<1>2. /\ DOMAIN staged' = Workers
      /\ \A v \in Workers \ {w} : staged'[v] = staged[v]
      /\ staged'[w].proposal = p
      /\ staged'[w].pickup = k
      /\ IsWrites(staged'[w])
    BY <1>1, Staged
<1>3. UNCHANGED <<donation, proposal, pickup, call>> /\ pc[w] = at /\ pc'[w] = to
    BY <1>1 DEF Advance, tables, TypeOK
<1>4. \A r \in Rows : lock[r] = w => lock'[r] = w
    BY HoldsOn
<1>5. Task(w)
    BY <1>1 DEF RInv
<1>6. Asks(w)'
    BY <1>1, <1>2, <1>3, <1>5 DEF Task, Asks
<1>7. ASSUME NEW id \in DOMAIN p PROVE WritesProposal(w, id)'
  <2>1. id \in Rows
      BY DEF IsTable, Rows
  <2>2. CASE /\ id \in DOMAIN staged[w].proposal
             /\ KeepsAcceptance(staged[w].proposal[id], p[id])
             /\ p[id].donation = staged[w].proposal[id].donation
    <3>1. WritesProposal(w, id)
        BY <1>5, <2>2 DEF Task
    <3> QED BY <1>2, <1>3, <1>4, <2>1, <2>2, <3>1 DEF WritesProposal, KeepsAcceptance
  <2>3. CASE /\ id \in DOMAIN proposal
             /\ lock'[id] = w
             /\ KeepsAcceptance(proposal[id], p[id])
             /\ p[id].donation \in DOMAIN donation
      BY <1>2, <1>3, <2>3 DEF WritesProposal
  <2> QED BY <2>2, <2>3 DEF StagesProposal
<1>8. ASSUME NEW id \in DOMAIN k PROVE WritesPickup(w, id)'
  <2>1. k[id].proposal \in Rows /\ id \in Rows
      BY DEF IsTable, PickupRow, Rows
  <2>2. PICK q : q = k[id].proposal
      OBVIOUS
  <2>3. PickupsOf(q)' = PickupsOf(q)
      BY <1>3 DEF PickupsOf
  <2>4. CASE k = staged[w].pickup
    <3>1. WritesPickup(w, id)
        BY <1>5, <2>4 DEF Task
    <3> QED BY <1>2, <1>3, <1>4, <2>1, <2>2, <2>3, <2>4, <3>1 DEF WritesPickup
  <2>5. CASE StagesPickup(w, id, k[id]) /\ DOMAIN k = {id}
      BY <1>2, <1>3, <2>2, <2>3, <2>5 DEF WritesPickup, StagesPickup
  <2> QED BY <2>4, <2>5 DEF StagesPickups
<1>9. Task(w)'
    BY <1>2, <1>6, <1>7, <1>8 DEF Task
<1>10. \A v \in Workers \ {w} : DOMAIN staged[v].pickup \cap DOMAIN staged'[w].pickup = {}
    BY <1>1, <1>2 DEF RInv, FreshIds, StagesPickups
<1> QED BY <1>1, <1>2, <1>9, <1>10, AdvanceKeeps

(* No other worker has written a stored pickup whose lock w gets.           *)
LEMMA PickupApart ==
    ASSUME RInv, NEW w \in Workers, NEW k \in DOMAIN pickup, lock[k] \in {w, None}
    PROVE  \A v \in Workers \ {w} : k \notin DOMAIN staged[v].pickup
BY NoneAssumption DEF RInv, Task, WritesPickup

LEMMA NothingStaged ==
    ASSUME NEW w
    PROVE
    /\ DOMAIN NoRow = {}
    /\ StagesPickups(w, NoRow)
    /\ IsTable(NoRow, Donations, DonationRow)
    /\ IsTable(NoRow, Proposals, ProposalRow)
    /\ IsTable(NoRow, Pickups, PickupRow)
BY EmptyTable DEF StagesPickups

LEMMA AcceptLockKeeps ==
    ASSUME RInv, NEW w \in API, AcceptLock(w), UNCHANGED next
    PROVE  RInv'
<1> DEFINE p == call[w].proposal
<1>1. /\ w \in Workers /\ w # Seeder /\ p \in Rows
      /\ Advance(w, "accept_lock", "accept_stamp") /\ Acquire(w, p) /\ UNCHANGED staged
    BY CallOf DEF AcceptLock, Advance, Rows
<1>2. TypeOK /\ Task(w) /\ next' \in Nat
    BY <1>1 DEF RInv
<1>3. UNCHANGED tables /\ UNCHANGED <<donation, proposal, pickup, call>>
      /\ pc[w] = "accept_lock" /\ pc'[w] = "accept_stamp"
    BY <1>1, <1>2 DEF Advance, tables, TypeOK
<1>4. Asks(w)'
    BY <1>1, <1>2, <1>3 DEF Task, Asks
<1>5. /\ \A q \in DOMAIN staged[w].proposal : WritesProposal(w, q)'
      /\ \A k \in DOMAIN staged[w].pickup : WritesPickup(w, k)'
    BY <1>1, <1>2, <1>3, WritesKept, HoldsOn DEF Task
<1>6. Task(w)'
    BY <1>1, <1>4, <1>5 DEF Task
<1>7. \A v \in Workers \ {w} : DOMAIN staged[v].pickup \cap DOMAIN staged'[w].pickup = {}
    BY <1>1 DEF RInv, FreshIds
<1>8. DOMAIN staged' = Workers /\ IsWrites(staged'[w])
    BY <1>1, <1>2 DEF TypeOK
<1> QED BY <1>1, <1>2, <1>6, <1>7, <1>8, AdvanceKeeps DEF Label

LEMMA AcceptStampKeeps ==
    ASSUME RInv, NEW w \in API, AcceptStamp(w), UNCHANGED next
    PROVE  RInv'
<1> DEFINE p == call[w].proposal
           new == Stamped(p, call[w].user)
           to == IF BothAccepted(new) THEN "accept_promote" ELSE "commit"
           notes == {Note("proposal_accepted", new.volunteer, p)}
<1>1. /\ Advance(w, "accept_stamp", to) /\ Acquire(w, p)
      /\ Stage(w, NoRow, Only(p, new), NoRow, notes)
    BY DEF AcceptStamp
<1>2. /\ p \in DOMAIN proposal /\ p \in Proposals /\ p \in Rows
      /\ proposal[p] \in ProposalRow /\ proposal[p].donation \in DOMAIN donation
    BY <1>1, CallOf DEF Advance, Rows
<1>3. new \in ProposalRow /\ KeepsAcceptance(proposal[p], new)
      /\ new.donation = proposal[p].donation
    BY <1>2 DEF Stamped, ProposalRow, KeepsAcceptance
<1>4. notes \subseteq Notification
    BY <1>2, <1>3 DEF Note, Notification, ProposalRow, Users
<1>5. lock'[p] = w
    BY <1>1, <1>2 DEF Acquire, RInv, TypeOK
<1>6. to \in {"accept_promote", "commit"} /\ to \in Label
    BY DEF Label
<1> HIDE DEF new, notes, to
<1>7. DOMAIN Only(p, new) = {p} /\ Only(p, new)[p] = new
    BY OneRow
<1>8. IsTable(Only(p, new), Proposals, ProposalRow)
    BY <1>2, <1>3, OneRowTable
<1>9. \A id \in DOMAIN Only(p, new) : StagesProposal(w, id, Only(p, new)[id])
    BY <1>2, <1>3, <1>5, <1>7 DEF StagesProposal
<1> QED BY <1>1, <1>2, <1>4, <1>6, <1>7, <1>8, <1>9, NothingStaged, StatementKeeps

(* What Accept has staged when it comes to promote the proposal.            *)
LEMMA PromotedRow ==
    ASSUME RInv, NEW w \in API, pc[w] = "accept_promote"
    PROVE  LET p == call[w].proposal
               new == [staged[w].proposal[p] EXCEPT !.status = "accepted"]
           IN  /\ p \in DOMAIN proposal /\ p \in Proposals /\ lock[p] = w
               /\ proposal[p] \in ProposalRow /\ proposal[p].donation \in DOMAIN donation
               /\ Promoted(w) = Only(p, new)
               /\ IsTable(Promoted(w), Proposals, ProposalRow)
               /\ DOMAIN Promoted(w) = {p}
               /\ StagesProposal(w, p, Promoted(w)[p])
<1> DEFINE p == call[w].proposal
           r == staged[w].proposal[p]
           new == [r EXCEPT !.status = "accepted"]
<1>1. /\ p \in DOMAIN proposal /\ p \in Proposals /\ w \in Workers
      /\ proposal[p] \in ProposalRow /\ proposal[p].donation \in DOMAIN donation
    BY CallOf
<1>2. Task(w) /\ TypeOK
    BY <1>1 DEF RInv
<1>3. p \in DOMAIN staged[w].proposal /\ WritesProposal(w, p)
    BY <1>2 DEF Task, Asks
<1>4. r \in ProposalRow
    BY <1>1, <1>2, <1>3, StagedIds
<1>5. new \in ProposalRow /\ KeepsAcceptance(r, new) /\ new.donation = r.donation
    BY <1>4 DEF ProposalRow, KeepsAcceptance
<1>6. lock[p] = w
    BY <1>1, <1>3 DEF WritesProposal
<1>7. StagesProposal(w, p, new)
    BY <1>3, <1>5 DEF StagesProposal
<1>8. Promoted(w) = Only(p, new)
    BY DEF Promoted
<1> HIDE DEF new
<1>9. DOMAIN Only(p, new) = {p} /\ Only(p, new)[p] = new
    BY OneRow
<1>10. IsTable(Only(p, new), Proposals, ProposalRow)
    BY <1>1, <1>5, OneRowTable
<1> QED BY <1>1, <1>6, <1>7, <1>8, <1>9, <1>10 DEF new

LEMMA AcceptPromoteKeeps ==
    ASSUME RInv, NEW w \in API, AcceptPromote(w), UNCHANGED next
    PROVE  RInv'
<1> DEFINE p == call[w].proposal
           row == NewPickup(p)
<1>1. PICK k \in Pickups :
          /\ Advance(w, "accept_promote", "accept_assign")
          /\ PickupsOf(p) = {}
          /\ NewPickupId(k)
          /\ Stage(w, NoRow, Promoted(w), Only(k, row), staged[w].notes)
          /\ UNCHANGED lock
    BY DEF AcceptPromote
<1>2. /\ p \in DOMAIN proposal /\ p \in Proposals /\ lock[p] = w /\ p \in Rows
      /\ proposal[p] \in ProposalRow /\ proposal[p].donation \in DOMAIN donation
      /\ IsTable(Promoted(w), Proposals, ProposalRow)
      /\ DOMAIN Promoted(w) = {p}
      /\ StagesProposal(w, p, Promoted(w)[p])
    BY <1>1, PromotedRow DEF Advance, Rows
<1>3. row \in PickupRow /\ row.proposal = p /\ row.donation = proposal[p].donation
    BY <1>2 DEF NewPickup, PickupRow, ProposalRow
<1>4. staged[w].notes \subseteq Notification
    BY SeederServesNone DEF RInv, TypeOK, IsWrites
<1> HIDE DEF row
<1>5. DOMAIN Only(k, row) = {k} /\ Only(k, row)[k] = row
    BY OneRow
<1>6. IsTable(Only(k, row), Pickups, PickupRow)
    BY <1>3, OneRowTable
<1>7. StagesPickup(w, k, row)
  <2>1. k \notin DOMAIN pickup /\ lock'[p] = w
      BY <1>1, <1>2 DEF NewPickupId
  <2> QED BY <1>1, <1>2, <1>3, <2>1 DEF StagesPickup
<1>8. \A v \in Workers \ {w} : DOMAIN staged[v].pickup \cap DOMAIN Only(k, row) = {}
    BY <1>1, <1>5 DEF NewPickupId
<1>9. /\ \A id \in DOMAIN Only(k, row) :
             StagesPickup(w, id, Only(k, row)[id]) /\ DOMAIN Only(k, row) = {id}
      /\ \A v \in Workers \ {w} : DOMAIN staged[v].pickup \cap DOMAIN Only(k, row) = {}
    BY <1>5, <1>7, <1>8
<1>10. /\ "accept_assign" \in Label
       /\ \A id \in DOMAIN Promoted(w) : StagesProposal(w, id, Promoted(w)[id])
    BY <1>2 DEF Label
<1>11. StagesPickups(w, Only(k, row))
    BY <1>9 DEF StagesPickups
<1> QED BY <1>1, <1>2, <1>4, <1>6, <1>10, <1>11, NothingStaged, StatementKeeps

LEMMA AcceptExistingKeeps ==
    ASSUME RInv, NEW w \in API, AcceptExisting(w), UNCHANGED next
    PROVE  RInv'
<1> DEFINE p == call[w].proposal
<1>1. /\ Advance(w, "accept_promote", "commit")
      /\ Stage(w, NoRow, Promoted(w), NoRow, staged[w].notes)
      /\ UNCHANGED lock
    BY DEF AcceptExisting
<1>2. /\ p \in Rows
      /\ IsTable(Promoted(w), Proposals, ProposalRow)
      /\ DOMAIN Promoted(w) = {p}
      /\ StagesProposal(w, p, Promoted(w)[p])
    BY <1>1, PromotedRow DEF Advance, Rows
<1>3. staged[w].notes \subseteq Notification
    BY SeederServesNone DEF RInv, TypeOK, IsWrites
<1>4. /\ "commit" \in Label
      /\ \A id \in DOMAIN Promoted(w) : StagesProposal(w, id, Promoted(w)[id])
    BY <1>2 DEF Label
<1> QED BY <1>1, <1>2, <1>3, <1>4, NothingStaged, StatementKeeps

(* What is staged goes on as it is.                                         *)
LEMMA StagedGoesOn ==
    ASSUME RInv, NEW w \in API
    PROVE  /\ IsTable(staged[w].proposal, Proposals, ProposalRow)
           /\ IsTable(staged[w].pickup, Pickups, PickupRow)
           /\ staged[w].notes \subseteq Notification
           /\ StagesPickups(w, staged[w].pickup)
           /\ \A p \in DOMAIN staged[w].proposal :
                  StagesProposal(w, p, staged[w].proposal[p])
           /\ DOMAIN staged[w].pickup \subseteq Pickups
<1>1. IsWrites(staged[w])
    BY SeederServesNone DEF RInv, TypeOK
<1>2. \A p \in DOMAIN staged[w].proposal : StagesProposal(w, p, staged[w].proposal[p])
    BY DEF StagesProposal, KeepsAcceptance
<1> QED BY <1>1, <1>2 DEF IsWrites, IsTable, StagesPickups

LEMMA AcceptAssignKeeps ==
    ASSUME RInv, NEW w \in API, AcceptAssign(w), UNCHANGED next
    PROVE  RInv'
<1> DEFINE p == call[w].proposal
           d == proposal[p].donation
           set == WithStatus(d, "pickup_assigned")
           new == {Note("pickup_assigned", proposal[p].volunteer, k) :
                       k \in DOMAIN staged[w].pickup}
           notes == staged[w].notes \cup new
<1>1. /\ Advance(w, "accept_assign", "commit") /\ Acquire(w, d)
      /\ Stage(w, set, staged[w].proposal, staged[w].pickup, notes)
    BY DEF AcceptAssign
<1>2. /\ proposal[p] \in ProposalRow /\ d \in DOMAIN donation /\ TypeOK
    BY <1>1, CallOf DEF Advance, RInv
<1>3. d \in Rows
    BY <1>2, DonationRows
<1>4. notes \subseteq Notification
  <2>1. proposal[p].volunteer \in Users
      BY <1>2 DEF ProposalRow, Users
  <2>2. new \subseteq Notification
      BY <2>1, StagedGoesOn DEF Note, Notification, Rows
  <2> QED BY <2>2, StagedGoesOn
<1>5. IsTable(set, Donations, DonationRow)
    BY <1>2, WithStatusType DEF DonationStatus
<1> HIDE DEF set, notes
<1> QED BY <1>1, <1>3, <1>4, <1>5, StagedGoesOn, StatementKeeps DEF Label

LEMMA RejectProposalKeeps ==
    ASSUME RInv, NEW w \in API, RejectProposal(w), UNCHANGED next
    PROVE  RInv'
<1> DEFINE p == call[w].proposal
           new == RejectedBy(p, call[w].user)
<1>1. /\ Advance(w, "reject_proposal", "reject_donation") /\ Acquire(w, p)
      /\ Stage(w, NoRow, Only(p, new), NoRow, {})
    BY DEF RejectProposal
<1>2. /\ p \in DOMAIN proposal /\ p \in Proposals /\ p \in Rows
      /\ proposal[p] \in ProposalRow /\ proposal[p].donation \in DOMAIN donation
      /\ call[w].user \in Users
    BY <1>1, CallOf DEF Advance, Rows
<1>3. new \in ProposalRow /\ KeepsAcceptance(proposal[p], new)
      /\ new.donation = proposal[p].donation
    BY <1>2 DEF RejectedBy, ProposalRow, KeepsAcceptance
<1>4. lock'[p] = w
    BY <1>1, <1>2 DEF Acquire, RInv, TypeOK
<1> HIDE DEF new
<1>5. DOMAIN Only(p, new) = {p} /\ Only(p, new)[p] = new
    BY OneRow
<1>6. IsTable(Only(p, new), Proposals, ProposalRow)
    BY <1>2, <1>3, OneRowTable
<1>7. \A id \in DOMAIN Only(p, new) : StagesProposal(w, id, Only(p, new)[id])
    BY <1>2, <1>3, <1>4, <1>5 DEF StagesProposal
<1> QED BY <1>1, <1>2, <1>6, <1>7, NothingStaged, StatementKeeps DEF Label

LEMMA RejectDonationKeeps ==
    ASSUME RInv, NEW w \in API, RejectDonation(w), UNCHANGED next
    PROVE  RInv'
<1> DEFINE p == call[w].proposal
           d == proposal[p].donation
           set == WithStatus(d, "available")
           notes == {Note("proposal_rejected", proposal[p].volunteer, p)}
<1>1. /\ Advance(w, "reject_donation", "commit") /\ Acquire(w, d)
      /\ Stage(w, set, staged[w].proposal, NoRow, notes)
    BY DEF RejectDonation
<1>2. /\ p \in Rows /\ proposal[p] \in ProposalRow /\ d \in DOMAIN donation /\ TypeOK
    BY <1>1, CallOf DEF Advance, RInv, Rows
<1>3. d \in Rows
    BY <1>2, DonationRows
<1>4. notes \subseteq Notification
  <2>1. proposal[p].volunteer \in Users
      BY <1>2 DEF ProposalRow, Users
  <2> QED BY <1>2, <2>1 DEF Note, Notification
<1>5. IsTable(set, Donations, DonationRow)
    BY <1>2, WithStatusType DEF DonationStatus
<1> HIDE DEF set, notes
<1> QED BY <1>1, <1>3, <1>4, <1>5, StagedGoesOn, NothingStaged, StatementKeeps DEF Label

LEMMA MarkPickupKeeps ==
    ASSUME RInv, NEW w \in API, MarkPickup(w), UNCHANGED next
    PROVE  RInv'
<1> DEFINE k == call[w].pickup
           new == Marked(call[w].op, pickup[k])
<1>1. /\ Advance(w, "mark_pickup", "mark_donation") /\ Acquire(w, k)
      /\ Stage(w, NoRow, NoRow, Only(k, new), {})
    BY DEF MarkPickup
<1>2. /\ k \in DOMAIN pickup /\ k \in Pickups /\ k \in Rows
      /\ pickup[k] \in PickupRow /\ pickup[k].donation \in DOMAIN donation
      /\ call[w].op \in {"pick_up", "deliver"}
    BY <1>1, CallOf DEF Advance, Rows
<1>3. new \in PickupRow /\ KeepsReport(pickup[k], new)
      /\ new.donation = pickup[k].donation
    BY <1>2 DEF Marked, PickupRow, KeepsReport
<1>4. lock'[k] = w /\ lock[k] \in {w, None}
    BY <1>1, <1>2 DEF Acquire, RInv, TypeOK
<1> HIDE DEF new
<1>5. DOMAIN Only(k, new) = {k} /\ Only(k, new)[k] = new
    BY OneRow
<1>6. IsTable(Only(k, new), Pickups, PickupRow)
    BY <1>2, <1>3, OneRowTable
<1>7. StagesPickups(w, Only(k, new))
  <2>1. StagesPickup(w, k, new)
      BY <1>2, <1>3, <1>4 DEF StagesPickup
  <2>2. \A v \in Workers \ {w} : DOMAIN staged[v].pickup \cap DOMAIN Only(k, new) = {}
      BY <1>2, <1>4, <1>5, PickupApart, SeederServesNone
  <2> QED BY <1>5, <2>1, <2>2 DEF StagesPickups
<1> QED BY <1>1, <1>2, <1>6, <1>7, NothingStaged, StatementKeeps DEF Label

LEMMA MarkDonationKeeps ==
    ASSUME RInv, NEW w \in API, MarkDonation(w), UNCHANGED next
    PROVE  RInv'
<1> DEFINE k == call[w].pickup
           s == Marked(call[w].op, pickup[k]).status
           d == pickup[k].donation
           set == WithStatus(d, s)
           notes == IF s = "delivered" THEN CompletionNotes(call[w].user, k) ELSE {}
<1>1. /\ Advance(w, "mark_donation", "commit") /\ Acquire(w, d)
      /\ Stage(w, set, NoRow, staged[w].pickup, notes)
    BY DEF MarkDonation
<1>2. /\ k \in Rows /\ pickup[k] \in PickupRow /\ d \in DOMAIN donation /\ TypeOK
      /\ call[w].op \in {"pick_up", "deliver"}
    BY <1>1, CallOf DEF Advance, RInv, Rows
<1>3. d \in Rows /\ s \in DonationStatus
    BY <1>2, DonationRows, MarkedType
<1>4. notes \subseteq Notification
  <2>1. pickup[k].volunteer \in Users /\ pickup[k].receiver \in Users
      BY <1>2 DEF PickupRow, Users
  <2> QED BY <1>2, <2>1 DEF CompletionNotes, Note, Notification
<1>5. IsTable(set, Donations, DonationRow)
    BY <1>2, <1>3, WithStatusType
<1> HIDE DEF set, notes
<1> QED BY <1>1, <1>3, <1>4, <1>5, StagedGoesOn, NothingStaged, StatementKeeps DEF Label

-----------------------------------------------------------------------------
(* Seeding *)

(* What Assign makes of a row: a row of the table that loses nothing.       *)
LEMMA OverwrittenDonation ==
    ASSUME NEW old \in DonationRow, NEW seed \in DonationRow
    PROVE  Overwritten(old, seed) \in DonationRow
<1>1. DOMAIN old = {"status", "donor"}
    BY DEF DonationRow
<1> QED BY <1>1 DEF Overwritten, DonationRow

LEMMA OverwrittenProposal ==
    ASSUME NEW old \in ProposalRow, NEW seed \in ProposalRow
    PROVE  LET row == Overwritten(old, seed) IN
           /\ row \in ProposalRow
           /\ KeepsAcceptance(old, row)
           /\ row.donation \in {old.donation, seed.donation}
<1>1. DOMAIN old = {"status", "donation", "receiver", "volunteer", "donorAccepted",
                    "receiverAccepted", "rejectedBy"}
    BY DEF ProposalRow
<1>2. Overwritten(old, seed) =
          [status |-> IF seed.status = None THEN old.status ELSE seed.status,
           donation |-> IF seed.donation = None THEN old.donation ELSE seed.donation,
           receiver |-> IF seed.receiver = None THEN old.receiver ELSE seed.receiver,
           volunteer |-> IF seed.volunteer = None THEN old.volunteer ELSE seed.volunteer,
           donorAccepted |-> old.donorAccepted \/ seed.donorAccepted,
           receiverAccepted |-> old.receiverAccepted \/ seed.receiverAccepted,
           rejectedBy |-> IF seed.rejectedBy = None THEN old.rejectedBy ELSE seed.rejectedBy]
    BY <1>1 DEF Overwritten
<1> QED BY <1>2 DEF ProposalRow, KeepsAcceptance

LEMMA OverwrittenPickup ==
    ASSUME NEW old \in PickupRow, NEW seed \in PickupRow, old.proposal = seed.proposal
    PROVE  LET row == Overwritten(old, seed) IN
           /\ row \in PickupRow
           /\ KeepsReport(old, row)
           /\ row.donation \in {old.donation, seed.donation}
<1>1. DOMAIN old = {"status", "proposal", "donation", "receiver", "volunteer",
                    "pickedUp", "delivered"}
    BY DEF PickupRow
<1>2. Overwritten(old, seed) =
          [status |-> IF seed.status = None THEN old.status ELSE seed.status,
           proposal |-> IF seed.proposal = None THEN old.proposal ELSE seed.proposal,
           donation |-> IF seed.donation = None THEN old.donation ELSE seed.donation,
           receiver |-> IF seed.receiver = None THEN old.receiver ELSE seed.receiver,
           volunteer |-> IF seed.volunteer = None THEN old.volunteer ELSE seed.volunteer,
           pickedUp |-> old.pickedUp \/ seed.pickedUp,
           delivered |-> old.delivered \/ seed.delivered]
    BY <1>1 DEF Overwritten
<1> QED BY <1>2 DEF PickupRow, KeepsReport

(* The row seeding is at, and the write sets once it is written.            *)
LEMMA SeedWritten ==
    ASSUME RInv, SeedWrite
    PROVE  LET r == SeedRows[next]
               s == staged[Seeder]
               t == staged'[Seeder]
           IN
           /\ r \in Rows /\ r \in DOMAIN SeedOf
           /\ UNCHANGED <<tables, pc, call>> /\ Acquire(Seeder, r) /\ next' \in Nat
           /\ lock'[r] = Seeder /\ (\A x \in Rows : lock[x] = Seeder => lock'[x] = Seeder)
           /\ DOMAIN staged' = Workers
           /\ \A v \in Workers \ {Seeder} : staged'[v] = staged[v]
           /\ DOMAIN t = DOMAIN s /\ t.notes = s.notes
           /\ t.donation = IF r \in Donations THEN Applied(Assign(donation, r), s.donation)
                                              ELSE s.donation
           /\ t.proposal = IF r \in Proposals THEN Applied(Assign(proposal, r), s.proposal)
                                              ELSE s.proposal
           /\ t.pickup = IF r \in Pickups THEN Applied(Assign(pickup, r), s.pickup)
                                          ELSE s.pickup
<1> DEFINE r == SeedRows[next]
<1>1. next \in Nat /\ TypeOK /\ Seeder \in Workers
    BY SeederServesNone DEF RInv
<1>2. next \in 1 .. Len(SeedRows) /\ next' \in Nat
    BY <1>1, SeedAssumption DEF SeedWrite, Seeding
<1>3. r \in Rows /\ r \in DOMAIN SeedOf
  <2>1. SeedRows \in Seq(Rows) /\ next \in DOMAIN SeedRows
      BY <1>2, SeedAssumption
  <2> QED BY <2>1, SeedAssumption
<1>4. /\ UNCHANGED <<tables, pc, call>> /\ Acquire(Seeder, r)
    BY DEF SeedWrite
<1>5. lock'[r] = Seeder /\ \A x \in Rows : lock[x] = Seeder => lock'[x] = Seeder
    BY <1>1, <1>3, <1>4 DEF Acquire, TypeOK
<1>6. DOMAIN staged = Workers /\ DOMAIN staged[Seeder] = {"donation", "proposal", "pickup", "notes"}
    BY <1>1 DEF TypeOK, IsWrites
<1> HIDE DEF r
<1>7. staged' = [staged EXCEPT
         ![Seeder].donation = IF r \in Donations THEN Applied(Assign(donation, r), @) ELSE @,
         ![Seeder].proposal = IF r \in Proposals THEN Applied(Assign(proposal, r), @) ELSE @,
         ![Seeder].pickup   = IF r \in Pickups THEN Applied(Assign(pickup, r), @) ELSE @]
    BY DEF SeedWrite, r
<1> QED BY <1>1, <1>2, <1>3, <1>4, <1>5, <1>6, <1>7 DEF r

LEMMA SeedWriteTypes ==
    ASSUME RInv, SeedWrite
    PROVE  IsWrites(staged'[Seeder])
<1> DEFINE r == SeedRows[next]
           s == staged[Seeder]
           t == staged'[Seeder]
<1>1. TypeOK /\ IsWrites(s)
    BY SeederServesNone DEF RInv, TypeOK
<1>2. r \in DOMAIN SeedOf
    BY SeedWritten
<1>3. /\ DOMAIN t = DOMAIN s /\ t.notes = s.notes
      /\ t.donation = IF r \in Donations THEN Applied(Assign(donation, r), s.donation)
                                         ELSE s.donation
      /\ t.proposal = IF r \in Proposals THEN Applied(Assign(proposal, r), s.proposal)
                                         ELSE s.proposal
      /\ t.pickup = IF r \in Pickups THEN Applied(Assign(pickup, r), s.pickup)
                                     ELSE s.pickup
    BY SeedWritten
<1>4. /\ IsTable(s.donation, Donations, DonationRow)
      /\ IsTable(s.proposal, Proposals, ProposalRow)
      /\ IsTable(s.pickup, Pickups, PickupRow)
    BY <1>1 DEF IsWrites
<1> HIDE DEF r, s, t
<1>5. IsTable(t.donation, Donations, DonationRow)
  <2>1. CASE r \in Donations
    <3>1. donation[r] \in DonationRow /\ SeedOf[r] \in DonationRow
        BY <1>1, <1>2, <2>1, DemoAssumption DEF RInv, DemoRows, TypeOK, IsTable
    <3>2. IsTable(Assign(donation, r), Donations, DonationRow)
        BY <2>1, <3>1, OverwrittenDonation, OneRowTable DEF Assign
    <3> QED BY <1>3, <1>4, <2>1, <3>2, OverlayTable
  <2> QED BY <1>3, <1>4, <2>1
<1>6. IsTable(t.proposal, Proposals, ProposalRow)
  <2>1. CASE r \in Proposals
    <3>1. proposal[r] \in ProposalRow /\ SeedOf[r] \in ProposalRow
        BY <1>1, <1>2, <2>1, DemoAssumption DEF RInv, DemoRows, TypeOK, IsTable
    <3>2. IsTable(Assign(proposal, r), Proposals, ProposalRow)
        BY <2>1, <3>1, OverwrittenProposal, OneRowTable DEF Assign
    <3> QED BY <1>3, <1>4, <2>1, <3>2, OverlayTable
  <2> QED BY <1>3, <1>4, <2>1
<1>7. IsTable(t.pickup, Pickups, PickupRow)
  <2>1. CASE r \in Pickups
    <3>1. /\ pickup[r] \in PickupRow /\ SeedOf[r] \in PickupRow
          /\ pickup[r].proposal = SeedOf[r].proposal
        BY <1>1, <1>2, <2>1, DemoAssumption DEF RInv, DemoRows, TypeOK, IsTable
    <3>2. IsTable(Assign(pickup, r), Pickups, PickupRow)
        BY <2>1, <3>1, OverwrittenPickup, OneRowTable DEF Assign
    <3> QED BY <1>3, <1>4, <2>1, <3>2, OverlayTable
  <2> QED BY <1>3, <1>4, <2>1
<1>8. DOMAIN t = {"donation", "proposal", "pickup", "notes"} /\ t.notes \subseteq Notification
    BY <1>1, <1>3 DEF IsWrites
<1>9. IsWrites(t)
    BY <1>5, <1>6, <1>7, <1>8 DEF IsWrites
<1> QED BY <1>9 DEF t

(* The demo proposal being written, and the ones written before.            *)
LEMMA SeedWritesProposals ==
    ASSUME RInv, SeedWrite, NEW p \in DOMAIN staged'[Seeder].proposal
    PROVE  WritesProposal(Seeder, p)'
<1> DEFINE r == SeedRows[next]
           old == staged[Seeder].proposal
           new == staged'[Seeder].proposal
           row == Overwritten(proposal[r], SeedOf[r])
<1>1. /\ TypeOK /\ Seeder \in Workers /\ r \in DOMAIN SeedOf
      /\ UNCHANGED <<donation, proposal, call>>
      /\ lock'[r] = Seeder /\ (\A x \in Rows : lock[x] = Seeder => lock'[x] = Seeder)
      /\ new = IF r \in Proposals THEN Applied(Only(r, row), old) ELSE old
    BY SeederServesNone, SeedWritten DEF RInv, Assign, tables
<1>2. \A q \in DOMAIN old : WritesProposal(Seeder, q) /\ q \in Rows
    BY <1>1, StagedIds DEF RInv, Task, Rows
<1> HIDE DEF r, old, new, row
<1>0. /\ r \in Proposals => /\ DOMAIN new = {r} \cup DOMAIN old
                           /\ new[r] = row
                           /\ \A x \in DOMAIN old \ {r} : new[x] = old[x]
      /\ r \notin Proposals => new = old
  <2>1. /\ DOMAIN Applied(Only(r, row), old) = {r} \cup DOMAIN old
        /\ Applied(Only(r, row), old)[r] = row
        /\ \A x \in DOMAIN old \ {r} : Applied(Only(r, row), old)[x] = old[x]
      BY DEF Applied, Only
  <2> QED BY <1>1, <2>1
<1>3. CASE r \in Proposals /\ p = r
  <2>1. /\ r \in DOMAIN proposal /\ proposal[r] \in ProposalRow /\ SeedOf[r] \in ProposalRow
        /\ proposal[r].donation \in DOMAIN donation /\ SeedOf[r].donation \in DOMAIN donation
    <3>1. r \in DOMAIN proposal /\ SeedOf[r] \in ProposalRow /\ SeedOf[r].donation \in DOMAIN SeedOf
        BY <1>1, <1>3, DemoAssumption DEF RInv, DemoRows
    <3>2. SeedOf[r].donation \in Donations
        BY <3>1 DEF ProposalRow
    <3> QED BY <1>1, <3>1, <3>2 DEF RInv, DemoRows, OfDonations, TypeOK, IsTable
  <2>2. KeepsAcceptance(proposal[r], row) /\ row.donation \in DOMAIN donation
      BY <2>1, OverwrittenProposal DEF row
  <2>3. new[p] = row
      BY <1>0, <1>3
  <2> QED BY <1>1, <1>3, <2>1, <2>2, <2>3 DEF WritesProposal, new
<1>4. CASE ~ (r \in Proposals /\ p = r)
  <2>1. p \in DOMAIN old /\ new[p] = old[p]
      BY <1>0, <1>4 DEF new
  <2> QED BY <1>1, <1>2, <2>1 DEF WritesProposal, new, old
<1> QED BY <1>3, <1>4

(* The demo pickup being written, and the ones written before.              *)
LEMMA SeedWritesPickups ==
    ASSUME RInv, SeedWrite
    PROVE  /\ \A k \in DOMAIN staged'[Seeder].pickup : WritesPickup(Seeder, k)'
           /\ DOMAIN staged'[Seeder].pickup \subseteq DOMAIN SeedOf
           /\ \A v \in Workers \ {Seeder} :
                  DOMAIN staged[v].pickup \cap DOMAIN staged'[Seeder].pickup = {}
<1> DEFINE r == SeedRows[next]
           old == staged[Seeder].pickup
           new == staged'[Seeder].pickup
           row == Overwritten(pickup[r], SeedOf[r])
<1>1. /\ TypeOK /\ Seeder \in Workers /\ r \in DOMAIN SeedOf /\ lock[r] \in {Seeder, None}
      /\ UNCHANGED <<donation, proposal, pickup, call>>
      /\ lock'[r] = Seeder /\ (\A x \in Rows : lock[x] = Seeder => lock'[x] = Seeder)
      /\ new = IF r \in Pickups THEN Applied(Only(r, row), old) ELSE old
    BY SeederServesNone, SeedWritten DEF RInv, Assign, tables, Acquire
<1>2. \A k \in DOMAIN old :
          /\ WritesPickup(Seeder, k) /\ k \in Pickups /\ k \in Rows
          /\ k \in DOMAIN SeedOf /\ k \in DOMAIN pickup
    BY <1>1, StagedIds DEF RInv, Task, Asks, DemoRows, Rows
<1> HIDE DEF r, old, new, row
<1>0. /\ r \in Pickups => /\ DOMAIN new = {r} \cup DOMAIN old
                           /\ new[r] = row
                           /\ \A x \in DOMAIN old \ {r} : new[x] = old[x]
      /\ r \notin Pickups => new = old
  <2>1. /\ DOMAIN Applied(Only(r, row), old) = {r} \cup DOMAIN old
        /\ Applied(Only(r, row), old)[r] = row
        /\ \A x \in DOMAIN old \ {r} : Applied(Only(r, row), old)[x] = old[x]
      BY DEF Applied, Only
  <2> QED BY <1>1, <2>1
<1>3. r \in Pickups =>
          /\ r \in DOMAIN pickup /\ pickup[r] \in PickupRow /\ SeedOf[r] \in PickupRow
          /\ pickup[r].proposal = SeedOf[r].proposal
          /\ pickup[r].donation \in DOMAIN donation /\ SeedOf[r].donation \in DOMAIN donation
  <2> SUFFICES ASSUME r \in Pickups
               PROVE  /\ r \in DOMAIN pickup /\ pickup[r] \in PickupRow /\ SeedOf[r] \in PickupRow
                      /\ pickup[r].proposal = SeedOf[r].proposal
                      /\ pickup[r].donation \in DOMAIN donation
                      /\ SeedOf[r].donation \in DOMAIN donation
      OBVIOUS
  <2>1. /\ r \in DOMAIN pickup /\ SeedOf[r] \in PickupRow /\ SeedOf[r].donation \in DOMAIN SeedOf
        /\ pickup[r].proposal = SeedOf[r].proposal
      BY <1>1, DemoAssumption DEF RInv, DemoRows
  <2>2. SeedOf[r].donation \in Donations
      BY <2>1 DEF PickupRow
  <2> QED BY <1>1, <2>1, <2>2 DEF RInv, DemoRows, OfDonations, TypeOK, IsTable
<1>4. ASSUME NEW k \in DOMAIN new PROVE WritesPickup(Seeder, k)' /\ k \in DOMAIN SeedOf
  <2>1. CASE r \in Pickups /\ k = r
    <3>1. KeepsReport(pickup[r], row) /\ row.donation \in DOMAIN donation
        BY <1>3, <2>1, OverwrittenPickup DEF row
    <3>2. new[k] = row
        BY <1>0, <2>1
    <3> QED BY <1>1, <1>3, <2>1, <3>1, <3>2 DEF WritesPickup, new
  <2>2. CASE ~ (r \in Pickups /\ k = r)
    <3>1. k \in DOMAIN old /\ new[k] = old[k]
        BY <1>0, <2>2
    <3> QED BY <1>1, <1>2, <3>1 DEF WritesPickup, new, old
  <2> QED BY <2>1, <2>2
<1>5. ASSUME NEW v \in Workers \ {Seeder} PROVE DOMAIN staged[v].pickup \cap DOMAIN new = {}
  <2>1. DOMAIN staged[v].pickup \cap DOMAIN old = {}
      BY <1>1 DEF RInv, FreshIds, old
  <2>2. r \in Pickups => r \notin DOMAIN staged[v].pickup
      BY <1>1, <1>3, PickupApart
  <2>3. DOMAIN new \subseteq DOMAIN old \cup {r} /\ (r \notin Pickups => new = old)
      BY <1>0
  <2> QED BY <2>1, <2>2, <2>3
<1> QED BY <1>4, <1>5 DEF new

LEMMA SeedWriteKeeps ==
    ASSUME RInv, SeedWrite
    PROVE  RInv'
<1>1. /\ TypeOK /\ Seeder \in Workers
      /\ UNCHANGED <<tables, pc, call>> /\ next' \in Nat /\ Acquire(Seeder, SeedRows[next])
      /\ (\A x \in Rows : lock[x] = Seeder => lock'[x] = Seeder)
      /\ DOMAIN staged' = Workers
      /\ \A v \in Workers \ {Seeder} : staged'[v] = staged[v]
      /\ SeedRows[next] \in Rows
    BY SeederServesNone, SeedWritten DEF RInv
<1>2. UNCHANGED <<donation, proposal, pickup, notification>>
    BY <1>1 DEF tables
<1>3. lock' \in [Rows -> Workers \cup {None}]
    BY <1>1 DEF Acquire, TypeOK
<1>4. TypeOK'
  <2>1. \A v \in Workers : IsWrites(staged'[v])
      BY <1>1, SeedWriteTypes DEF TypeOK
  <2> QED BY <1>1, <1>2, <1>3, <2>1 DEF TypeOK
<1>5. Local(Seeder)
    BY <1>1, NoneAssumption DEF Local, Acquire, TypeOK
<1>6. Task(Seeder)'
  <2>1. Asks(Seeder)
      BY <1>1 DEF RInv, Task
  <2>2. Asks(Seeder)'
      BY <1>1, <1>2, <2>1, SeedWritesPickups DEF Asks
  <2> QED BY <2>2, SeedWritesProposals, SeedWritesPickups DEF Task
<1>7. FreshIds'
  <2>1. UNCHANGED call
      BY <1>1
  <2> QED BY <1>1, <2>1, SeedWritesPickups DEF RInv, FreshIds
<1> QED BY <1>1, <1>4, <1>5, <1>6, <1>7, LocalKeeps

-----------------------------------------------------------------------------
(* Commits, of a request and of the seeding run *)

Publishes(w) ==
    /\ donation' = Applied(staged[w].donation, donation)
    /\ proposal' = Applied(staged[w].proposal, proposal)
    /\ pickup' = Applied(staged[w].pickup, pickup)
    /\ Finish(w)

LEMMA Published ==
    ASSUME NEW w, Publishes(w)
    PROVE  LET s == staged[w] IN
           /\ DOMAIN donation' = DOMAIN s.donation \cup DOMAIN donation
           /\ DOMAIN proposal' = DOMAIN s.proposal \cup DOMAIN proposal
           /\ \A p \in DOMAIN s.proposal : proposal'[p] = s.proposal[p]
           /\ \A p \in DOMAIN proposal \ DOMAIN s.proposal : proposal'[p] = proposal[p]
           /\ DOMAIN pickup' = DOMAIN s.pickup \cup DOMAIN pickup
           /\ \A k \in DOMAIN s.pickup : pickup'[k] = s.pickup[k]
           /\ \A k \in DOMAIN pickup \ DOMAIN s.pickup : pickup'[k] = pickup[k]
BY DEF Publishes, Applied

(* No stored row loses an acceptance, a report or its proposal.             *)
LEMMA NothingLost ==
    ASSUME RInv, NEW w \in Workers, Publishes(w)
    PROVE  /\ \A p \in DOMAIN proposal :
                  p \in DOMAIN proposal' /\ KeepsAcceptance(proposal[p], proposal'[p])
           /\ \A k \in DOMAIN pickup :
                  k \in DOMAIN pickup' /\ KeepsReport(pickup[k], pickup'[k])
<1>1. Task(w)
    BY DEF RInv
<1>2. ASSUME NEW p \in DOMAIN proposal
      PROVE  p \in DOMAIN proposal' /\ KeepsAcceptance(proposal[p], proposal'[p])
  <2>1. CASE p \in DOMAIN staged[w].proposal
    <3>1. KeepsAcceptance(proposal[p], staged[w].proposal[p])
        BY <1>1, <2>1 DEF Task, WritesProposal
    <3>2. p \in DOMAIN proposal' /\ proposal'[p] = staged[w].proposal[p]
        BY <2>1, Published
    <3> QED BY <3>1, <3>2 DEF KeepsAcceptance
  <2>2. CASE p \notin DOMAIN staged[w].proposal
    <3>1. p \in DOMAIN proposal' /\ proposal'[p] = proposal[p]
        BY <2>2, Published
    <3> QED BY <3>1 DEF KeepsAcceptance
  <2> QED BY <2>1, <2>2
<1>3. ASSUME NEW k \in DOMAIN pickup
      PROVE  k \in DOMAIN pickup' /\ KeepsReport(pickup[k], pickup'[k])
  <2>1. CASE k \in DOMAIN staged[w].pickup
    <3>1. KeepsReport(pickup[k], staged[w].pickup[k])
        BY <1>1, <2>1 DEF Task, WritesPickup
    <3>2. k \in DOMAIN pickup' /\ pickup'[k] = staged[w].pickup[k]
        BY <2>1, Published
    <3> QED BY <3>1, <3>2 DEF KeepsReport
  <2>2. CASE k \notin DOMAIN staged[w].pickup
    <3>1. k \in DOMAIN pickup' /\ pickup'[k] = pickup[k]
        BY <2>2, Published
    <3> QED BY <3>1 DEF KeepsReport
  <2> QED BY <2>1, <2>2
<1> QED BY <1>2, <1>3

(* A proposal that gets a pickup by the commit is locked by its worker, had *)
(* none, and gets no other.                                                 *)
LEMMA NewPickupsAlone ==
    ASSUME RInv, NEW w \in Workers, Publishes(w),
           NEW k \in DOMAIN pickup', k \notin DOMAIN pickup
    PROVE  /\ lock[pickup'[k].proposal] = w
           /\ PickupsOf(pickup'[k].proposal) = {}
           /\ \A l \in DOMAIN pickup' \ {k} :
                  l \in DOMAIN pickup /\ pickup'[l].proposal = pickup[l].proposal
<1>1. k \in DOMAIN staged[w].pickup /\ pickup'[k] = staged[w].pickup[k]
    BY Published
<1>2. WritesPickup(w, k)
    BY <1>1 DEF RInv, Task
<1>3. /\ lock[staged[w].pickup[k].proposal] = w
      /\ PickupsOf(staged[w].pickup[k].proposal) = {}
      /\ DOMAIN staged[w].pickup = {k}
    BY <1>2 DEF WritesPickup
<1>4. \A l \in DOMAIN pickup' \ {k} :
          l \in DOMAIN pickup /\ pickup'[l].proposal = pickup[l].proposal
    BY <1>3, Published
<1> QED BY <1>1, <1>3, <1>4

LEMMA PickupsStayUnique ==
    ASSUME RInv, NEW w \in Workers, Publishes(w)
    PROVE  OnePickupPerProposal'
<1> SUFFICES ASSUME NEW k \in DOMAIN pickup', NEW l \in DOMAIN pickup',
                    pickup'[k].proposal = pickup'[l].proposal, k # l
             PROVE  FALSE
    BY DEF OnePickupPerProposal
<1>1. ASSUME NEW x \in DOMAIN pickup', NEW y \in DOMAIN pickup', x # y, x \notin DOMAIN pickup,
             pickup'[x].proposal = pickup'[y].proposal
      PROVE  FALSE
  <2>1. PickupsOf(pickup'[x].proposal) = {} /\ y \in DOMAIN pickup
        /\ pickup'[y].proposal = pickup[y].proposal
      BY <1>1, NewPickupsAlone
  <2>2. y \in PickupsOf(pickup'[x].proposal)
      BY <1>1, <2>1 DEF PickupsOf
  <2> QED BY <2>1, <2>2
<1>2. CASE k \in DOMAIN pickup /\ l \in DOMAIN pickup
  <2>1. pickup'[k].proposal = pickup[k].proposal /\ pickup'[l].proposal = pickup[l].proposal
      BY <1>2, NothingLost DEF KeepsReport
  <2> QED BY <1>2, <2>1 DEF RInv, OnePickupPerProposal
<1> QED BY <1>1, <1>2

(* What another worker is doing stays right, because it holds its rows.     *)
LEMMA OthersKeepTask ==
    ASSUME RInv, NEW w \in Workers, NEW v \in Workers \ {w}, Publishes(w)
    PROVE  Task(v)'
<1>1. TypeOK /\ Task(v) /\ Task(w)
    BY DEF RInv
<1>2. /\ UNCHANGED <<pc[v], call[v], staged[v]>>
      /\ \A r \in Rows : lock[r] = v => lock'[r] = v
    BY <1>1 DEF Publishes, Finish, Unlocked, TypeOK
<1>3. DOMAIN donation \subseteq DOMAIN donation' /\ DOMAIN proposal \subseteq DOMAIN proposal'
      /\ DOMAIN pickup \subseteq DOMAIN pickup'
    BY Published
<1>4. \A p \in DOMAIN proposal' \ DOMAIN proposal : call[w].op = "create" /\ call[w].proposal = p
  <2> SUFFICES ASSUME NEW p \in DOMAIN proposal' \ DOMAIN proposal
               PROVE  call[w].op = "create" /\ call[w].proposal = p
      OBVIOUS
  <2>1. p \in DOMAIN staged[w].proposal
      BY Published
  <2>2. WritesProposal(w, p)
      BY <1>1, <2>1 DEF Task
  <2> QED BY <2>2 DEF WritesProposal
<1>5. call[v].op = "create" => call[v].proposal \notin DOMAIN proposal'
    BY <1>1, <1>4 DEF RInv, FreshIds, Task, Asks
<1>6. Asks(v)'
    BY <1>1, <1>2, <1>3, <1>5 DEF Task, Asks, Clean
<1>7. ASSUME NEW p \in DOMAIN staged[v].proposal PROVE WritesProposal(v, p)'
  <2>1. WritesProposal(v, p) /\ p \in Rows
      BY <1>1, StagedIds DEF Task, Rows
  <2>2. CASE p \in DOMAIN proposal
    <3>1. lock[p] = v
        BY <2>1, <2>2 DEF WritesProposal
    <3>2. p \notin DOMAIN staged[w].proposal
        BY <1>1, <2>2, <3>1 DEF Task, WritesProposal
    <3>3. proposal'[p] = proposal[p] /\ p \in DOMAIN proposal'
        BY <2>2, <3>2, Published
    <3> QED BY <1>2, <1>3, <2>1, <2>2, <3>3 DEF WritesProposal
  <2>3. CASE p \notin DOMAIN proposal
    <3>1. call[v].op = "create" /\ call[v].proposal = p
        BY <2>1, <2>3 DEF WritesProposal
    <3>2. p \notin DOMAIN proposal'
        BY <1>5, <3>1
    <3> QED BY <1>2, <1>3, <2>1, <3>1, <3>2 DEF WritesProposal
  <2> QED BY <2>2, <2>3
<1>8. ASSUME NEW k \in DOMAIN staged[v].pickup PROVE WritesPickup(v, k)'
  <2>1. WritesPickup(v, k) /\ k \in Rows /\ staged[v].pickup[k].proposal \in Rows
      BY <1>1, StagedIds DEF Task, Rows
  <2>2. k \notin DOMAIN staged[w].pickup
      BY DEF RInv, FreshIds
  <2>3. CASE k \in DOMAIN pickup
    <3>1. pickup'[k] = pickup[k] /\ k \in DOMAIN pickup'
        BY <2>2, <2>3, Published
    <3> QED BY <1>2, <1>3, <2>1, <2>3, <3>1 DEF WritesPickup
  <2>4. CASE k \notin DOMAIN pickup
    <3>1. PICK q : q = staged[v].pickup[k].proposal
        OBVIOUS
    <3>2. lock[q] = v /\ PickupsOf(q) = {} /\ DOMAIN staged[v].pickup = {k}
        BY <2>1, <2>4, <3>1 DEF WritesPickup
    <3>3. ASSUME NEW l \in DOMAIN pickup', pickup'[l].proposal = q PROVE FALSE
      <4>1. CASE l \in DOMAIN pickup
        <5>1. pickup[l].proposal = q
            BY <3>3, <4>1, NothingLost DEF KeepsReport
        <5> QED BY <3>2, <4>1, <5>1 DEF PickupsOf
      <4>2. CASE l \notin DOMAIN pickup
          BY <3>2, <3>3, <4>2, NewPickupsAlone
      <4> QED BY <4>1, <4>2
    <3>4. PickupsOf(q)' = {}
        BY <3>3 DEF PickupsOf
    <3>5. k \notin DOMAIN pickup'
        BY <2>2, <2>4, Published
    <3> QED BY <1>2, <1>3, <2>1, <3>1, <3>2, <3>4, <3>5 DEF WritesPickup
  <2> QED BY <2>3, <2>4
<1> QED BY <1>2, <1>6, <1>7, <1>8 DEF Task

LEMMA PublishKeeps ==
    ASSUME RInv, NEW w \in Workers, Publishes(w), next' \in Nat,
           IsTable(notification', Notification, 1 .. NotifCap)
    PROVE  RInv'
<1>1. TypeOK /\ Task(w) /\ IsWrites(staged[w])
    BY DEF RInv, TypeOK
<1>2. /\ staged'[w] = NoWrites /\ call'[w] = NoCall /\ pc'[w] = "idle"
      /\ \A v \in Workers \ {w} : UNCHANGED <<pc[v], call[v], staged[v]>>
    BY <1>1 DEF Publishes, Finish, TypeOK
<1>3. TypeOK'
  <2>1. /\ IsTable(donation', Donations, DonationRow)
        /\ IsTable(proposal', Proposals, ProposalRow)
        /\ IsTable(pickup', Pickups, PickupRow)
      BY <1>1, OverlayTable DEF Publishes, TypeOK, IsWrites
  <2>2. pc' \in [Workers -> Label] /\ call' \in [Workers -> Call \cup {NoCall}]
      BY <1>1 DEF Publishes, Finish, TypeOK, Label
  <2>3. DOMAIN staged' = Workers /\ \A v \in Workers : IsWrites(staged'[v])
      BY <1>1, EmptyWrites DEF Publishes, Finish, TypeOK
  <2>4. lock' \in [Rows -> Workers \cup {None}]
      BY <1>1 DEF Publishes, Finish, Unlocked, TypeOK
  <2> QED BY <2>1, <2>2, <2>3, <2>4 DEF TypeOK
<1>4. DemoRows'
  <2>1. \A k \in DOMAIN pickup : k \in DOMAIN pickup' /\ pickup'[k].proposal = pickup[k].proposal
      BY NothingLost DEF KeepsReport
  <2>2. DOMAIN donation \subseteq DOMAIN donation' /\ DOMAIN proposal \subseteq DOMAIN proposal'
      BY Published
  <2> QED BY <2>1, <2>2 DEF RInv, DemoRows
<1>5. OfDonations'
  <2>1. DOMAIN donation \subseteq DOMAIN donation'
      BY Published
  <2>2. ASSUME NEW p \in DOMAIN proposal' PROVE proposal'[p].donation \in DOMAIN donation
    <3>1. CASE p \in DOMAIN staged[w].proposal
      <4>1. WritesProposal(w, p)
          BY <1>1, <3>1 DEF Task
      <4>2. proposal'[p] = staged[w].proposal[p]
          BY <3>1, Published
      <4> QED BY <4>1, <4>2 DEF WritesProposal
    <3>2. CASE p \notin DOMAIN staged[w].proposal
      <4>1. p \in DOMAIN proposal /\ proposal'[p] = proposal[p]
          BY <3>2, Published
      <4> QED BY <4>1 DEF RInv, OfDonations
    <3> QED BY <3>1, <3>2
  <2>3. ASSUME NEW k \in DOMAIN pickup' PROVE pickup'[k].donation \in DOMAIN donation
    <3>1. CASE k \in DOMAIN staged[w].pickup
      <4>1. WritesPickup(w, k)
          BY <1>1, <3>1 DEF Task
      <4>2. pickup'[k] = staged[w].pickup[k]
          BY <3>1, Published
      <4> QED BY <4>1, <4>2 DEF WritesPickup
    <3>2. CASE k \notin DOMAIN staged[w].pickup
      <4>1. k \in DOMAIN pickup /\ pickup'[k] = pickup[k]
          BY <3>2, Published
      <4> QED BY <4>1 DEF RInv, OfDonations
    <3> QED BY <3>1, <3>2
  <2> QED BY <2>1, <2>2, <2>3 DEF OfDonations
<1>6. Task(w)'
  <2>1. /\ DOMAIN NoWrites.proposal = {} /\ DOMAIN NoWrites.pickup = {}
        /\ NoCall.op = "none"
      BY DEF NoWrites, NoRow, NoCall
  <2>2. Asks(w)'
      BY <1>2, <2>1 DEF Asks, Clean
  <2> QED BY <1>2, <2>1, <2>2 DEF Task
<1>7. FreshIds'
    BY <1>2 DEF RInv, FreshIds, NoCall, NoWrites, NoRow
<1> QED BY <1>3, <1>4, <1>5, <1>6, <1>7, OthersKeepTask, PickupsStayUnique DEF RInv

-----------------------------------------------------------------------------
(* The theorems *)

LEMMA ReseedStarts == ReseedInit => RInv
<1> SUFFICES ASSUME ReseedInit PROVE RInv
    OBVIOUS
<1> DEFINE Demo(Ids) == Ids \cap DOMAIN SeedOf
<1>1. /\ DOMAIN donation = Demo(Donations) /\ \A d \in Demo(Donations) : donation[d] = SeedOf[d]
      /\ DOMAIN proposal = Demo(Proposals) /\ \A p \in Demo(Proposals) : proposal[p] = SeedOf[p]
      /\ DOMAIN pickup = Demo(Pickups) /\ \A k \in Demo(Pickups) : pickup[k] = SeedOf[k]
    BY DEF ReseedInit, Seeds
<1>2. /\ \A d \in Demo(Donations) : SeedOf[d] \in DonationRow
      /\ \A p \in Demo(Proposals) :
             SeedOf[p] \in ProposalRow /\ SeedOf[p].donation \in DOMAIN SeedOf
      /\ \A k \in Demo(Pickups) :
             SeedOf[k] \in PickupRow /\ SeedOf[k].donation \in DOMAIN SeedOf
      /\ \A k, l \in Demo(Pickups) : SeedOf[k].proposal = SeedOf[l].proposal => k = l
    BY DemoAssumption
<1>3. TypeOK
  <2>1. /\ IsTable(donation, Donations, DonationRow)
        /\ IsTable(proposal, Proposals, ProposalRow)
        /\ IsTable(pickup, Pickups, PickupRow)
        /\ IsTable(notification, Notification, 1 .. NotifCap)
    <3>1. donation = Seeds(Donations) /\ proposal = Seeds(Proposals) /\ pickup = Seeds(Pickups)
          /\ notification = NoRow
        BY DEF ReseedInit
    <3> QED BY <1>2, <3>1, EmptyTable DEF Seeds, IsTable
  <2>2. /\ pc \in [Workers -> Label] /\ call \in [Workers -> Call \cup {NoCall}]
        /\ lock \in [Rows -> Workers \cup {None}]
      BY DEF ReseedInit, Label
  <2>3. DOMAIN staged = Workers /\ \A w \in Workers : IsWrites(staged[w])
      BY EmptyWrites DEF ReseedInit
  <2> QED BY <2>1, <2>2, <2>3 DEF TypeOK
<1>4. DemoRows
    BY <1>1 DEF DemoRows
<1>5. OfDonations
    BY <1>1, <1>2 DEF OfDonations, ProposalRow, PickupRow
<1>6. OnePickupPerProposal
    BY <1>1, <1>2 DEF OnePickupPerProposal
<1>7. FreshIds /\ \A w \in Workers : Task(w)
    BY DEF ReseedInit, FreshIds, Task, Asks, Clean, NoCall, NoWrites, NoRow
<1>8. next \in Nat
    BY DEF ReseedInit
<1> QED BY <1>3, <1>4, <1>5, <1>6, <1>7, <1>8 DEF RInv

LEMMA CommitPublishes ==
    ASSUME RInv, NEW w \in API, Commit(w), UNCHANGED next
    PROVE  RInv'
<1>1. w \in Workers /\ TypeOK /\ staged[w].notes \subseteq Notification /\ next' \in Nat
    BY SeederServesNone DEF RInv, TypeOK, IsWrites
<1>2. IsTable(notification', Notification, 1 .. NotifCap)
    BY <1>1, PostedTable DEF Commit
<1> QED BY <1>1, <1>2, PublishKeeps DEF Commit, Publishes

LEMMA SeedCommitPublishes ==
    ASSUME RInv, SeedCommit
    PROVE  RInv' /\ Publishes(Seeder)
<1>1. Publishes(Seeder) /\ UNCHANGED notification /\ next' \in Nat
    BY DEF SeedCommit, Publishes
<1> QED BY <1>1, SeederServesNone, PublishKeeps DEF RInv, TypeOK

(* A step of the tables publishes the writes of one worker.                 *)
LEMMA ReseedStep ==
    ASSUME RInv, [ReseedNext]_seedVars
    PROVE  /\ RInv'
           /\ UNCHANGED <<proposal, pickup>> \/ \E w \in Workers : Publishes(w)
<1>1. CASE UNCHANGED seedVars \/ SeedBegin
  <2>1. UNCHANGED <<donation, proposal, pickup, notification, pc, call, staged, lock>>
        /\ next' \in Nat
      BY <1>1 DEF SeedBegin, RInv, seedVars, vars
  <2>2. TypeOK'
      BY <2>1 DEF RInv, TypeOK
  <2>3. \A w \in Workers : Task(w)'
    <3> SUFFICES ASSUME NEW w \in Workers PROVE Task(w)'
        OBVIOUS
    <3>1. Task(w) /\ Asks(w) /\ TypeOK /\ UNCHANGED tables
        BY <2>1 DEF RInv, Task, tables
    <3>2. Asks(w)'
        BY <2>1, <3>1 DEF Asks, Clean
    <3> QED BY <2>1, <3>1, <3>2, WritesKept DEF Task
  <2> QED BY <2>1, <2>2, <2>3 DEF RInv, DemoRows, OfDonations, OnePickupPerProposal, FreshIds
<1>2. CASE SeedStep
  <2>1. CASE SeedWrite
      BY <2>1, SeedWriteKeeps DEF SeedWrite, tables
  <2>2. CASE SeedCommit
      BY <2>2, SeedCommitPublishes, SeederServesNone
  <2> QED BY <1>2, <2>1, <2>2 DEF SeedStep
<1>3. ASSUME NEW w \in Workers, Rollback(w), next' \in Nat
      PROVE  RInv' /\ UNCHANGED <<proposal, pickup>>
    BY <1>3, RollbackKeeps DEF Rollback, tables
<1>4. CASE SeedFail \/ BreakDeadlock
  <2>1. next \in Nat /\ Seeder \in Workers /\ API \subseteq Workers
      BY SeederServesNone DEF RInv
  <2>2. \E w \in Workers : Rollback(w) /\ next' \in Nat
      BY <1>4, <2>1 DEF SeedFail, BreakDeadlock
  <2> QED BY <1>3, <2>2
<1>5. ASSUME NEW w \in API, ServeAPI(w) \/ ServeExisting(w)
      PROVE  RInv' /\ (UNCHANGED <<proposal, pickup>> \/ Publishes(w))
  <2>1. UNCHANGED next /\ next' \in Nat /\ w \in Workers
      BY <1>5, SeederServesNone DEF ServeAPI, ServeExisting, RInv
  <2>2. CASE Start(w)
    <3>1. UNCHANGED <<proposal, pickup>>
        BY <2>2 DEF Start, CreateRead, AcceptBegin, RejectRead, PickUpRead, DeliverRead,
                    Begin, tables
    <3> QED BY <2>1, <2>2, <3>1, StartKeeps
  <2>3. CASE Fail(w) \/ AcceptRefuse(w)
      BY <1>3, <2>1, <2>3 DEF Fail, AcceptRefuse
  <2>4. CASE Commit(w)
      BY <2>1, <2>4, CommitPublishes DEF Commit, Publishes
  <2>5. CASE \/ CreateWrite(w) \/ AcceptLock(w) \/ AcceptStamp(w) \/ AcceptPromote(w)
             \/ AcceptExisting(w) \/ AcceptAssign(w)
    <3>1. UNCHANGED <<proposal, pickup>>
        BY <2>5 DEF CreateWrite, AcceptLock, AcceptStamp, AcceptPromote, AcceptExisting,
                    AcceptAssign, Advance, tables
    <3> QED BY <2>1, <2>5, <3>1, CreateWriteKeeps, AcceptLockKeeps, AcceptStampKeeps,
               AcceptPromoteKeeps, AcceptExistingKeeps, AcceptAssignKeeps
  <2>6. CASE \/ RejectProposal(w) \/ RejectDonation(w) \/ MarkPickup(w) \/ MarkDonation(w)
    <3>1. UNCHANGED <<proposal, pickup>>
        BY <2>6 DEF RejectProposal, RejectDonation, MarkPickup, MarkDonation, Advance, tables
    <3> QED BY <2>1, <2>6, <3>1, RejectProposalKeeps, RejectDonationKeeps, MarkPickupKeeps,
               MarkDonationKeeps
  <2> QED BY <1>5, <2>2, <2>3, <2>4, <2>5, <2>6 DEF ServeAPI, ServeExisting, Serve, Step
<1> QED BY <1>1, <1>2, <1>4, <1>5, SeederServesNone DEF ReseedNext

(* RInv is an invariant of the requests and the seeding runs, in any order  *)
(* and with any of them failing or rolled back to break a deadlock.         *)
THEOREM ReseedInductive == ReseedSpec => []RInv
<1>1. RInv /\ [ReseedNext]_seedVars => RInv'
    BY ReseedStep
<1> QED BY <1>1, ReseedStarts, PTL DEF ReseedSpec

(* Seeding a database that is in use leaves every row and every write set   *)
(* of its type (SeedDemoData beside the store's methods).                   *)
THEOREM ReseedTypeCorrect == ReseedSpec => []TypeOK
<1>1. RInv => TypeOK
    BY DEF RInv
<1> QED BY <1>1, ReseedInductive, PTL

(* A proposal never gets a second pickup, although a reseed reopens         *)
(* proposals that have one: accept looks for it under the proposal's lock   *)
(* (AcceptDeliveryProposal, existingPickup).                                *)
THEOREM ReseedPickupsUnique == ReseedSpec => []OnePickupPerProposal
<1>1. RInv => OnePickupPerProposal
    BY DEF RInv
<1> QED BY <1>1, ReseedInductive, PTL

(* No acceptance, pickup or delivery that was recorded is taken back, by a  *)
(* request or by seeding again over it: whoever rewrites a row holds its    *)
(* lock since it read it, and Assign skips what the seed leaves empty.      *)
THEOREM ReseedWithdrawsNothing == ReseedSpec => NothingWithdrawn
<1> DEFINE NoneLost ==
        /\ \A p \in DOMAIN proposal :
              /\ proposal[p].donorAccepted => proposal'[p].donorAccepted
              /\ proposal[p].receiverAccepted => proposal'[p].receiverAccepted
        /\ \A k \in DOMAIN pickup :
              /\ pickup[k].pickedUp => pickup'[k].pickedUp
              /\ pickup[k].delivered => pickup'[k].delivered
<1>1. RInv /\ [ReseedNext]_seedVars => [NoneLost]_seedVars
  <2> SUFFICES ASSUME RInv, [ReseedNext]_seedVars PROVE NoneLost
      OBVIOUS
  <2>1. CASE UNCHANGED <<proposal, pickup>>
      BY <2>1
  <2>2. CASE \E w \in Workers : Publishes(w)
      BY <2>2, NothingLost DEF KeepsAcceptance, KeepsReport
  <2> QED BY <2>1, <2>2, ReseedStep
<1> QED BY <1>1, ReseedInductive, PTL DEF ReseedSpec, NothingWithdrawn
=============================================================================
