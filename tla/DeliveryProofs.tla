--------------------------- MODULE DeliveryProofs ---------------------------
(* Proofs about Delivery, for every set of users, ids and connections:      *)
(* TypeOK, PickupIffBothAccepted, OnePickupPerProposal and StatusBacked are *)
(* invariants. None of them is inductive: IInv adds what every transaction  *)
(* in flight has read, staged and locked, label by label. On top of it:     *)
(* requests never wait in a circle, what is delivered was picked up, a      *)
(* committed proposal only moves forward, and every transition commits with *)
(* its notifications.                                                       *)
EXTENDS Delivery, FiniteSetTheorems, TLAPS

-----------------------------------------------------------------------------
(* The inductive invariant *)

(* Rows refer to rows that exist.                                           *)
Refs ==
    /\ \A p \in DOMAIN proposal : proposal[p].donation \in DOMAIN donation
    /\ \A k \in DOMAIN pickup :
           /\ pickup[k].proposal \in DOMAIN proposal
           /\ pickup[k].donation = proposal[pickup[k].proposal].donation

Clean(w) == staged[w] = NoWrites

(* The staged donation write is d's, with status s.                         *)
Sets(w, d, s) ==
    /\ DOMAIN staged[w].donation = {d}
    /\ staged[w].donation[d].status = s

IdleTx(w) == pc[w] = "idle" /\ call[w] = NoCall /\ Clean(w)

CreateTx(w) ==
    LET c == call[w] IN
    /\ c.op = "create"
    /\ c.donation \in DOMAIN donation
    /\ c.proposal \notin DOMAIN proposal
    /\ \/ pc[w] = "create_write" /\ Clean(w)
       \/ /\ pc[w] = "commit"
          /\ staged[w].proposal = Only(c.proposal, NewProposal(c))
          /\ staged[w].pickup = NoRow
          /\ Sets(w, c.donation, "proposal_pending")

(* What a statement of Accept may change in the proposal it has locked.     *)
SameDeal(old, new) ==
    /\ new.donation = old.donation
    /\ new.receiver = old.receiver
    /\ new.volunteer = old.volunteer

(* The acceptance is stamped and the other side's is still missing, or the  *)
(* proposal is about to be promoted.                                        *)
Stamping(w, p) ==
    LET r == staged[w].proposal[p] IN
    /\ pc[w] \in {"accept_promote", "commit"}
    /\ r.status = "pending"
    /\ BothAccepted(r) <=> (pc[w] = "accept_promote")
    /\ staged[w].pickup = NoRow
    /\ staged[w].donation = NoRow

(* The proposal is promoted and its pickup drawn up.                        *)
Promoting(w, p) ==
    LET r == staged[w].proposal[p] IN
    /\ pc[w] \in {"accept_assign", "commit"}
    /\ r.status = "accepted"
    /\ BothAccepted(r)
    /\ \E k \in Pickups \ DOMAIN pickup : staged[w].pickup = Only(k, NewPickup(p))
    /\ pc[w] = "accept_assign" => staged[w].donation = NoRow
    /\ pc[w] = "commit" => Sets(w, r.donation, "pickup_assigned")

AcceptTx(w) ==
    LET p == call[w].proposal IN
    /\ call[w].op = "accept"
    /\ p \in DOMAIN proposal
    /\ \/ pc[w] = "accept_lock" /\ Clean(w)
       \/ /\ lock[p] = w
          /\ Pending(p)
          /\ \/ pc[w] = "accept_stamp" /\ Clean(w)
             \/ /\ DOMAIN staged[w].proposal = {p}
                /\ SameDeal(proposal[p], staged[w].proposal[p])
                /\ Stamping(w, p) \/ Promoting(w, p)

RejectTx(w) ==
    LET p == call[w].proposal
        s == staged[w]
    IN
    /\ call[w].op = "reject"
    /\ p \in DOMAIN proposal
    /\ \/ pc[w] = "reject_proposal" /\ Clean(w)
       \/ /\ pc[w] \in {"reject_donation", "commit"}
          /\ lock[p] = w
          /\ s.proposal = Only(p, RejectedBy(p, call[w].user))
          /\ s.pickup = NoRow
          /\ pc[w] = "commit" => Sets(w, proposal[p].donation, "available")

MarkTx(w) ==
    LET k == call[w].pickup
        s == staged[w]
        r == Marked(call[w].op, pickup[k])
    IN
    /\ call[w].op \in {"pick_up", "deliver"}
    /\ k \in DOMAIN pickup
    /\ \/ pc[w] = "mark_pickup" /\ Clean(w)
       \/ /\ pc[w] \in {"mark_donation", "commit"}
          /\ lock[k] = w
          /\ s.proposal = NoRow
          /\ s.pickup = Only(k, r)
          /\ pc[w] = "commit" => Sets(w, pickup[k].donation, r.status)

Tx(w) == IdleTx(w) \/ CreateTx(w) \/ AcceptTx(w) \/ RejectTx(w) \/ MarkTx(w)

(* Ids drawn by two transactions differ.                                    *)
FreshIds ==
    \A v, w \in Workers : v # w =>
        /\ call[v].op = "create" /\ call[w].op = "create"
              => call[v].proposal # call[w].proposal
        /\ DOMAIN staged[v].pickup \cap DOMAIN staged[w].pickup = {}

IInv ==
    /\ TypeOK
    /\ Refs
    /\ FreshIds
    /\ \A w \in Workers : Tx(w)
    /\ PickupIffBothAccepted
    /\ OnePickupPerProposal
    /\ StatusBacked

-----------------------------------------------------------------------------
(* Tables *)

LEMMA EmptyTable ==
    ASSUME NEW Ids, NEW Row
    PROVE  IsTable(NoRow, Ids, Row) /\ DOMAIN NoRow = {}
BY DEF IsTable, NoRow

LEMMA OneRow ==
    ASSUME NEW id, NEW row
    PROVE  /\ DOMAIN Only(id, row) = {id}
           /\ Only(id, row)[id] = row
BY DEF Only

LEMMA OneRowTable ==
    ASSUME NEW Ids, NEW Row, NEW id \in Ids, NEW row \in Row
    PROVE  IsTable(Only(id, row), Ids, Row)
BY DEF IsTable, Only

LEMMA OverlayTable ==
    ASSUME NEW Ids, NEW Row, NEW t, NEW u, IsTable(t, Ids, Row), IsTable(u, Ids, Row)
    PROVE  IsTable(Applied(u, t), Ids, Row)
BY DEF IsTable, Applied

LEMMA PostedTable ==
    ASSUME TypeOK, NEW notes \in SUBSET Notification
    PROVE  IsTable(Posted(notes), Notification, 1 .. NotifCap)
<1>1. IsTable(notification, Notification, 1 .. NotifCap)
    BY DEF TypeOK
<1>2. ASSUME NEW n PROVE Capped(Copies(n) + 1) \in 1 .. NotifCap
  <2>1. Copies(n) \in 0 .. NotifCap
      BY <1>1, CapAssumption DEF Copies, IsTable
  <2> QED BY <2>1, CapAssumption DEF Capped
<1> QED BY <1>1, <1>2 DEF IsTable, Posted

-----------------------------------------------------------------------------
(* Steps that leave the tables alone *)

(* Only w moves: the tables stay, and so does all the others hold.          *)
Local(w) ==
    /\ UNCHANGED tables
    /\ \A v \in Workers \ {w} :
           /\ pc'[v] = pc[v]
           /\ call'[v] = call[v]
           /\ staged'[v] = staged[v]
           /\ \A r \in Rows : lock[r] = v => lock'[r] = v

LEMMA OthersUndisturbed ==
    ASSUME TypeOK, NEW w \in Workers, NEW v \in Workers \ {w}, Local(w), Tx(v)
    PROVE  Tx(v)'
<1> DEFINE p == call[v].proposal
           k == call[v].pickup
<1>1. /\ UNCHANGED <<donation, proposal, pickup, pc[v], call[v], staged[v]>>
      /\ \A r \in Rows : lock[r] = v => lock'[r] = v
    BY DEF Local, tables
<1>2. CASE IdleTx(v)
    BY <1>1, <1>2 DEF Tx, IdleTx, Clean
<1>3. CASE CreateTx(v)
    BY <1>1, <1>3 DEF Tx, CreateTx, Clean, Sets
<1>4. CASE AcceptTx(v)
  <2>1. p \in Rows
      BY <1>4 DEF AcceptTx, TypeOK, IsTable, Rows
  <2>2. lock[p] = v => lock'[p] = v
      BY <1>1, <2>1
  <2>3. Stamping(v, p) => Stamping(v, p)'
      BY <1>1 DEF Stamping
  <2>4. Promoting(v, p) => Promoting(v, p)'
      BY <1>1 DEF Promoting, Sets, NewPickup
  <2>5. AcceptTx(v)'
      BY <1>1, <1>4, <2>2, <2>3, <2>4 DEF AcceptTx, Clean, Pending
  <2> QED BY <2>5 DEF Tx
<1>5. CASE RejectTx(v)
  <2>1. p \in Rows
      BY <1>5 DEF RejectTx, TypeOK, IsTable, Rows
  <2>2. lock[p] = v => lock'[p] = v
      BY <1>1, <2>1
  <2>3. RejectTx(v)'
      BY <1>1, <1>5, <2>2 DEF RejectTx, Clean, Sets, RejectedBy
  <2> QED BY <2>3 DEF Tx
<1>6. CASE MarkTx(v)
  <2>1. k \in Rows
      BY <1>6 DEF MarkTx, TypeOK, IsTable, Rows
  <2>2. lock[k] = v => lock'[k] = v
      BY <1>1, <2>1
  <2>3. MarkTx(v)'
      BY <1>1, <1>6, <2>2 DEF MarkTx, Clean, Sets, Marked
  <2> QED BY <2>3 DEF Tx
<1> QED BY <1>2, <1>3, <1>4, <1>5, <1>6 DEF Tx

LEMMA LocalStep ==
    ASSUME IInv, NEW w \in Workers, Local(w), TypeOK', Tx(w)', FreshIds'
    PROVE  IInv'
<1>1. \A v \in Workers : Tx(v)'
    BY OthersUndisturbed DEF IInv
<1>2. UNCHANGED <<donation, proposal, pickup>>
    BY DEF Local, tables
<1>3. /\ Refs'
      /\ PickupIffBothAccepted'
      /\ OnePickupPerProposal'
      /\ StatusBacked'
    BY <1>2 DEF IInv, Refs, PickupIffBothAccepted, HasPickup, Both, OnePickupPerProposal,
                StatusBacked, Backing, Pending
<1> QED BY <1>1, <1>3 DEF IInv

LEMMA BeginStep ==
    ASSUME IInv, NEW w \in Workers, NEW c \in Call, NEW to \in Label,
           Begin(w, c, to), Tx(w)',
           c.op = "create" =>
               \A v \in Workers : call[v].op = "create" => call[v].proposal # c.proposal
    PROVE  IInv'
<1> USE DEF IInv
<1>1. Local(w)
    BY DEF Begin, Local, TypeOK
<1>2. TypeOK'
  <2>1. UNCHANGED <<donation, proposal, pickup, notification, staged, lock>>
      BY DEF Begin, tables
  <2>2. pc' \in [Workers -> Label] /\ call' \in [Workers -> Call \cup {NoCall}]
      BY DEF Begin, TypeOK
  <2> QED BY <2>1, <2>2 DEF TypeOK
<1>3. FreshIds'
    BY DEF Begin, FreshIds, TypeOK
<1> QED BY <1>1, <1>2, <1>3, LocalStep

LEMMA AdvanceStep ==
    ASSUME IInv, NEW w \in Workers, NEW at, NEW to \in Label, NEW row \in Rows,
           Advance(w, at, to),
           Acquire(w, row) \/ UNCHANGED lock,
           DOMAIN staged' = Workers,
           \A v \in Workers \ {w} : staged'[v] = staged[v],
           IsWrites(staged'[w]),
           \A v \in Workers \ {w} : DOMAIN staged[v].pickup \cap DOMAIN staged'[w].pickup = {},
           Tx(w)'
    PROVE  IInv'
<1> USE DEF IInv
<1>1. lock' \in [Rows -> Workers \cup {None}]
    BY DEF Acquire, TypeOK
<1>2. Local(w)
    BY NoneAssumption DEF Advance, Acquire, Local, TypeOK
<1>3. TypeOK'
  <2>1. UNCHANGED <<donation, proposal, pickup, notification, call>>
      BY DEF Advance, tables
  <2>2. pc' \in [Workers -> Label]
      BY DEF Advance, TypeOK
  <2>3. \A v \in Workers : IsWrites(staged'[v])
      BY DEF TypeOK
  <2> QED BY <1>1, <2>1, <2>2, <2>3 DEF TypeOK
<1>4. FreshIds'
  <2>1. UNCHANGED call
      BY DEF Advance
  <2> QED BY <2>1 DEF FreshIds
<1> QED BY <1>2, <1>3, <1>4, LocalStep

(* The write set a statement leaves behind.                                 *)
LEMMA Staged ==
    ASSUME TypeOK, NEW w \in Workers, NEW d, NEW p, NEW k, NEW notes,
           Stage(w, d, p, k, notes)
    PROVE  /\ DOMAIN staged' = Workers
           /\ \A v \in Workers \ {w} : staged'[v] = staged[v]
           /\ staged'[w].donation = d
           /\ staged'[w].proposal = p
           /\ staged'[w].pickup = k
           /\ staged'[w].notes = notes
           /\ /\ IsTable(d, Donations, DonationRow)
              /\ IsTable(p, Proposals, ProposalRow)
              /\ IsTable(k, Pickups, PickupRow)
              /\ notes \subseteq Notification
              => IsWrites(staged'[w])
<1>1. DOMAIN staged' = Workers /\ \A v \in Workers \ {w} : staged'[v] = staged[v]
    BY DEF Stage, TypeOK
<1>2. staged'[w] = [donation |-> d, proposal |-> p, pickup |-> k, notes |-> notes]
    BY DEF Stage, TypeOK
<1> QED BY <1>1, <1>2 DEF IsWrites

LEMMA EmptyWrites == IsWrites(NoWrites)
BY EmptyTable DEF IsWrites, NoWrites

LEMMA RollbackStep ==
    ASSUME IInv, NEW w \in Workers, Rollback(w)
    PROVE  IInv'
<1> USE DEF IInv
<1>1. lock' \in [Rows -> Workers \cup {None}]
    BY DEF Rollback, Finish, Unlocked, TypeOK
<1>2. Local(w)
    BY DEF Rollback, Finish, Unlocked, Local, TypeOK
<1>3. staged'[w] = NoWrites /\ call'[w] = NoCall /\ pc'[w] = "idle"
    BY DEF Rollback, Finish, TypeOK
<1>4. Tx(w)'
    BY <1>3 DEF Tx, IdleTx, Clean
<1>5. TypeOK'
  <2>1. UNCHANGED <<donation, proposal, pickup, notification>>
      BY DEF Rollback, tables
  <2>2. pc' \in [Workers -> Label] /\ call' \in [Workers -> Call \cup {NoCall}]
      BY DEF Rollback, Finish, TypeOK, Label
  <2>3. DOMAIN staged' = Workers /\ \A v \in Workers : IsWrites(staged'[v])
      BY EmptyWrites DEF Rollback, Finish, TypeOK
  <2> QED BY <1>1, <2>1, <2>2, <2>3 DEF TypeOK
<1>6. FreshIds'
    BY <1>2, <1>3 DEF FreshIds, Local, NoCall, NoWrites, NoRow
<1> QED BY <1>2, <1>4, <1>5, <1>6, LocalStep

-----------------------------------------------------------------------------
(* The first statement of each request *)

LEMMA IdleIsClean ==
    ASSUME IInv, NEW w \in Workers, pc[w] = "idle"
    PROVE  Clean(w)
BY DEF IInv, Tx, IdleTx, CreateTx, AcceptTx, RejectTx, MarkTx, Stamping, Promoting

LEMMA StartStep ==
    ASSUME IInv, NEW w \in Workers, Start(w)
    PROVE  IInv'
<1> USE DEF IInv
<1>1. CASE CreateRead(w)
  <2>1. PICK v \in Volunteers, r \in Receivers, d \in DOMAIN donation, p \in Proposals :
            /\ NewProposalId(p)
            /\ Begin(w, [op |-> "create", user |-> v, donation |-> d,
                         receiver |-> r, proposal |-> p], "create_write")
      BY <1>1 DEF CreateRead
  <2> DEFINE c == [op |-> "create", user |-> v, donation |-> d,
                   receiver |-> r, proposal |-> p]
  <2>2. c \in Call
      BY DEF Call, TypeOK, IsTable
  <2>3. Tx(w)'
    <3>1. call'[w] = c /\ pc'[w] = "create_write" /\ staged'[w] = staged[w]
          /\ UNCHANGED <<donation, proposal>>
        BY <2>1 DEF Begin, TypeOK, tables
    <3>2. Clean(w)
        BY <2>1, IdleIsClean DEF Begin
    <3>3. CreateTx(w)'
        BY <2>1, <3>1, <3>2 DEF CreateTx, Clean, NewProposalId
    <3> QED BY <3>3 DEF Tx
  <2>4. \A x \in Workers : call[x].op = "create" => call[x].proposal # c.proposal
      BY <2>1 DEF NewProposalId
  <2> QED BY <2>1, <2>2, <2>3, <2>4, BeginStep DEF Label
<1>2. CASE AcceptBegin(w)
  <2>1. PICK u \in Users, p \in DOMAIN proposal :
            Begin(w, [op |-> "accept", user |-> u, proposal |-> p], "accept_lock")
      BY <1>2 DEF AcceptBegin
  <2> DEFINE c == [op |-> "accept", user |-> u, proposal |-> p]
  <2>2. c \in Call
      BY DEF Call, TypeOK, IsTable
  <2>3. Tx(w)'
    <3>1. call'[w] = c /\ pc'[w] = "accept_lock" /\ staged'[w] = staged[w]
          /\ UNCHANGED proposal
        BY <2>1 DEF Begin, TypeOK, tables
    <3>2. Clean(w)
        BY <2>1, IdleIsClean DEF Begin
    <3>3. AcceptTx(w)'
        BY <3>1, <3>2 DEF AcceptTx, Clean
    <3> QED BY <3>3 DEF Tx
  <2> QED BY <2>1, <2>2, <2>3, BeginStep DEF Label
<1>3. CASE RejectRead(w)
  <2>1. PICK u \in Users, p \in DOMAIN proposal :
            Begin(w, [op |-> "reject", user |-> u, proposal |-> p], "reject_proposal")
      BY <1>3 DEF RejectRead
  <2> DEFINE c == [op |-> "reject", user |-> u, proposal |-> p]
  <2>2. c \in Call
      BY DEF Call, TypeOK, IsTable
  <2>3. Tx(w)'
    <3>1. call'[w] = c /\ pc'[w] = "reject_proposal" /\ staged'[w] = staged[w]
          /\ UNCHANGED proposal
        BY <2>1 DEF Begin, TypeOK, tables
    <3>2. Clean(w)
        BY <2>1, IdleIsClean DEF Begin
    <3>3. RejectTx(w)'
        BY <3>1, <3>2 DEF RejectTx, Clean
    <3> QED BY <3>3 DEF Tx
  <2> QED BY <2>1, <2>2, <2>3, BeginStep DEF Label
<1>4. CASE PickUpRead(w) \/ DeliverRead(w)
  <2>1. PICK op \in {"pick_up", "deliver"}, u \in Users, k \in DOMAIN pickup :
            Begin(w, [op |-> op, user |-> u, pickup |-> k], "mark_pickup")
      BY <1>4 DEF PickUpRead, DeliverRead, Users
  <2> DEFINE c == [op |-> op, user |-> u, pickup |-> k]
  <2>2. c \in Call
      BY DEF Call, TypeOK, IsTable
  <2>3. Tx(w)'
    <3>1. call'[w] = c /\ pc'[w] = "mark_pickup" /\ staged'[w] = staged[w]
          /\ UNCHANGED pickup
        BY <2>1 DEF Begin, TypeOK, tables
    <3>2. Clean(w)
        BY <2>1, IdleIsClean DEF Begin
    <3>3. MarkTx(w)'
        BY <3>1, <3>2 DEF MarkTx, Clean
    <3> QED BY <3>3 DEF Tx
  <2> QED BY <2>1, <2>2, <2>3, BeginStep DEF Label
<1> QED BY <1>1, <1>2, <1>3, <1>4 DEF Start

-----------------------------------------------------------------------------
(* CreateDeliveryProposal *)

LEMMA WithStatusType ==
    ASSUME TypeOK, NEW d \in DOMAIN donation, NEW s \in DonationStatus
    PROVE  /\ IsTable(WithStatus(d, s), Donations, DonationRow)
           /\ DOMAIN WithStatus(d, s) = {d}
           /\ WithStatus(d, s)[d].status = s
           /\ donation[d].donor \in Users
<1>1. d \in Donations /\ donation[d] \in DonationRow
    BY DEF TypeOK, IsTable
<1>2. [donation[d] EXCEPT !.status = s] \in DonationRow
    BY <1>1 DEF DonationRow
<1>3. [donation[d] EXCEPT !.status = s].status = s
    BY <1>1 DEF DonationRow
<1> DEFINE set == [donation[d] EXCEPT !.status = s]
<1>4. WithStatus(d, s) = Only(d, set)
    BY DEF WithStatus
<1>5. donation[d].donor \in Users
    BY <1>1 DEF DonationRow, Users
<1> HIDE DEF set
<1>6. IsTable(Only(d, set), Donations, DonationRow)
    BY <1>1, <1>2, OneRowTable DEF set
<1>7. DOMAIN Only(d, set) = {d} /\ Only(d, set)[d] = set
    BY OneRow
<1> QED BY <1>3, <1>4, <1>5, <1>6, <1>7 DEF set

LEMMA CreateWriteStep ==
    ASSUME IInv, NEW w \in Workers, CreateWrite(w)
    PROVE  IInv'
<1> USE DEF IInv
<1> DEFINE c == call[w]
           d == c.donation
           set == WithStatus(d, "proposal_pending")
           row == NewProposal(c)
           notes == {Note("proposal_created", donation[d].donor, c.proposal),
                     Note("proposal_created", c.receiver, c.proposal)}
<1>1. CreateTx(w)
    BY DEF CreateWrite, Advance, Tx, IdleTx, CreateTx, AcceptTx, RejectTx, MarkTx,
           Stamping, Promoting
<1>2. /\ c.user \in Volunteers /\ c.receiver \in Receivers
      /\ c.proposal \in Proposals /\ d \in DOMAIN donation
      /\ d \in Rows /\ c.proposal \in Rows
    BY <1>1 DEF CreateTx, TypeOK, Call, NoCall, IsTable, Rows
<1>3. IsTable(Only(c.proposal, row), Proposals, ProposalRow)
  <2>1. row \in ProposalRow
      BY <1>2 DEF NewProposal, ProposalRow, TypeOK, IsTable
  <2> QED BY <1>2, <2>1, OneRowTable
<1>4. notes \subseteq Notification
  <2>1. donation[d].donor \in Users
      BY <1>2, WithStatusType DEF DonationStatus
  <2>2. c.receiver \in Users
      BY <1>2 DEF Users
  <2> QED BY <1>2, <2>1, <2>2 DEF Note, Notification
<1>5. /\ IsTable(set, Donations, DonationRow)
      /\ DOMAIN set = {d}
      /\ set[d].status = "proposal_pending"
    BY <1>2, WithStatusType DEF DonationStatus
<1>6. Stage(w, set, Only(c.proposal, row), NoRow, notes)
    BY DEF CreateWrite
<1> HIDE DEF set, row, notes
<1>7. /\ DOMAIN staged' = Workers
      /\ \A v \in Workers \ {w} : staged'[v] = staged[v]
      /\ staged'[w].donation = set
      /\ staged'[w].proposal = Only(c.proposal, row)
      /\ staged'[w].pickup = NoRow
      /\ IsWrites(staged'[w])
    BY <1>3, <1>4, <1>5, <1>6, EmptyTable, Staged
<1>8. Tx(w)'
  <2>1. UNCHANGED <<donation, proposal, call>> /\ pc'[w] = "commit"
      BY DEF CreateWrite, Advance, tables, TypeOK
  <2>2. CreateTx(w)'
      BY <1>1, <1>5, <1>7, <2>1 DEF CreateTx, Sets, row
  <2> QED BY <2>2 DEF Tx
<1>9. Advance(w, "create_write", "commit") /\ Acquire(w, d)
    BY DEF CreateWrite
<1> QED BY <1>2, <1>7, <1>8, <1>9, EmptyTable, AdvanceStep DEF Label

-----------------------------------------------------------------------------
(* AcceptDeliveryProposal *)

LEMMA AcceptLockStep ==
    ASSUME IInv, NEW w \in Workers, AcceptLock(w)
    PROVE  IInv'
<1> USE DEF IInv
<1> DEFINE p == call[w].proposal
<1>1. AcceptTx(w) /\ Clean(w)
    BY DEF AcceptLock, Advance, Tx, IdleTx, CreateTx, AcceptTx, RejectTx, MarkTx,
           Stamping, Promoting
<1>2. p \in DOMAIN proposal /\ p \in Rows
    BY <1>1 DEF AcceptTx, TypeOK, IsTable, Rows
<1>3. Tx(w)'
  <2>1. /\ UNCHANGED <<proposal, call, staged>>
        /\ pc'[w] = "accept_stamp"
        /\ lock'[p] = w
      BY <1>2 DEF AcceptLock, Advance, Acquire, tables, TypeOK
  <2>2. Pending(p)
      BY DEF AcceptLock, MayAccept
  <2>3. AcceptTx(w)'
      BY <1>1, <2>1, <2>2 DEF AcceptTx, Clean, Pending
  <2> QED BY <2>3 DEF Tx
<1>4. Advance(w, "accept_lock", "accept_stamp") /\ Acquire(w, p) /\ staged' = staged
    BY DEF AcceptLock
<1>5. IsWrites(staged'[w]) /\ DOMAIN staged' = Workers
    BY <1>4 DEF TypeOK
<1>6. \A v \in Workers \ {w} : DOMAIN staged[v].pickup \cap DOMAIN staged'[w].pickup = {}
    BY <1>4 DEF FreshIds
<1> QED BY <1>2, <1>3, <1>4, <1>5, <1>6, AdvanceStep DEF Label

LEMMA AcceptStampStep ==
    ASSUME IInv, NEW w \in Workers, AcceptStamp(w)
    PROVE  IInv'
<1> USE DEF IInv
<1> DEFINE p == call[w].proposal
           new == Stamped(p, call[w].user)
           to == IF BothAccepted(new) THEN "accept_promote" ELSE "commit"
           notes == {Note("proposal_accepted", new.volunteer, p)}
<1>1. AcceptTx(w) /\ lock[p] = w /\ Pending(p)
    BY DEF AcceptStamp, Advance, Tx, IdleTx, CreateTx, AcceptTx, RejectTx, MarkTx,
           Stamping, Promoting
<1>2. p \in DOMAIN proposal /\ p \in Rows /\ p \in Proposals /\ proposal[p] \in ProposalRow
    BY <1>1 DEF AcceptTx, TypeOK, IsTable, Rows
<1>3. /\ new \in ProposalRow
      /\ SameDeal(proposal[p], new)
      /\ new.status = "pending"
    BY <1>1, <1>2 DEF Stamped, ProposalRow, SameDeal, Pending
<1>4. notes \subseteq Notification
    BY <1>2, <1>3 DEF Note, Notification, ProposalRow, Users
<1>5. Stage(w, NoRow, Only(p, new), NoRow, notes) /\ Advance(w, "accept_stamp", to)
      /\ Acquire(w, p)
    BY DEF AcceptStamp
<1> HIDE DEF new, notes
<1>6. /\ DOMAIN staged' = Workers
      /\ \A v \in Workers \ {w} : staged'[v] = staged[v]
      /\ staged'[w].donation = NoRow
      /\ staged'[w].proposal = Only(p, new)
      /\ staged'[w].pickup = NoRow
      /\ IsWrites(staged'[w])
  <2>1. IsTable(Only(p, new), Proposals, ProposalRow)
      BY <1>2, <1>3, OneRowTable
  <2> QED BY <1>4, <1>5, <2>1, EmptyTable, Staged
<1>7. Tx(w)'
  <2>1. /\ UNCHANGED <<proposal, call>>
        /\ pc'[w] = to
        /\ lock'[p] = w
      BY <1>2, <1>5 DEF Advance, Acquire, tables, TypeOK
  <2>2. staged'[w].proposal[p] = new /\ DOMAIN staged'[w].proposal = {p}
      BY <1>6, OneRow
  <2>3. Stamping(w, p)'
      BY <1>3, <1>6, <2>1, <2>2 DEF Stamping
  <2>4. AcceptTx(w)'
      BY <1>1, <1>3, <2>1, <2>2, <2>3 DEF AcceptTx, Pending
  <2> QED BY <2>4 DEF Tx
<1> QED BY <1>2, <1>5, <1>6, <1>7, EmptyTable, AdvanceStep DEF Label

(* What Accept has staged when it comes to promote the proposal.            *)
LEMMA AtPromote ==
    ASSUME IInv, NEW w \in Workers, pc[w] = "accept_promote"
    PROVE  LET p == call[w].proposal
               r == staged[w].proposal[p]
           IN  /\ AcceptTx(w) /\ Stamping(w, p)
               /\ lock[p] = w /\ Pending(p)
               /\ p \in DOMAIN proposal /\ p \in Proposals /\ p \in Rows
               /\ r \in ProposalRow /\ SameDeal(proposal[p], r) /\ BothAccepted(r)
               /\ ~ HasPickup(p)
<1> USE DEF IInv
<1> DEFINE p == call[w].proposal
           r == staged[w].proposal[p]
<1>1. /\ AcceptTx(w) /\ Stamping(w, p) /\ lock[p] = w /\ Pending(p)
      /\ p \in DOMAIN proposal
      /\ DOMAIN staged[w].proposal = {p} /\ SameDeal(proposal[p], r)
    BY DEF Tx, IdleTx, CreateTx, AcceptTx, RejectTx, MarkTx, Promoting
<1>2. p \in Proposals /\ p \in Rows
    BY <1>1 DEF TypeOK, IsTable, Rows
<1>3. r \in ProposalRow /\ BothAccepted(r)
    BY <1>1 DEF TypeOK, IsWrites, IsTable, Stamping
<1>4. ~ HasPickup(p)
    BY <1>1 DEF PickupIffBothAccepted, Pending
<1> QED BY <1>1, <1>2, <1>3, <1>4

LEMMA AcceptPromoteStep ==
    ASSUME IInv, NEW w \in Workers, AcceptPromote(w)
    PROVE  IInv'
<1> USE DEF IInv
<1> DEFINE p == call[w].proposal
           r == staged[w].proposal[p]
           new == [r EXCEPT !.status = "accepted"]
<1>1. pc[w] = "accept_promote"
    BY DEF AcceptPromote, Advance
<1>2. PICK k \in Pickups :
          /\ Advance(w, "accept_promote", "accept_assign")
          /\ NewPickupId(k)
          /\ Stage(w, NoRow, Only(p, new), Only(k, NewPickup(p)), staged[w].notes)
          /\ UNCHANGED lock
    BY DEF AcceptPromote, Promoted
<1>3. /\ AcceptTx(w) /\ Stamping(w, p)
      /\ lock[p] = w /\ Pending(p)
      /\ p \in DOMAIN proposal /\ p \in Proposals /\ p \in Rows
      /\ r \in ProposalRow /\ SameDeal(proposal[p], r) /\ BothAccepted(r)
    BY <1>1, AtPromote
<1>4. /\ new \in ProposalRow /\ SameDeal(proposal[p], new) /\ BothAccepted(new)
      /\ new.status = "accepted"
    BY <1>3 DEF ProposalRow, SameDeal, BothAccepted
<1>5. NewPickup(p) \in PickupRow
  <2>1. proposal[p] \in ProposalRow
      BY <1>3 DEF TypeOK, IsTable
  <2> QED BY <1>3, <2>1 DEF NewPickup, PickupRow, ProposalRow
<1>6. staged[w].notes \subseteq Notification
    BY DEF TypeOK, IsWrites
<1> HIDE DEF new
<1>7. /\ DOMAIN staged' = Workers
      /\ \A v \in Workers \ {w} : staged'[v] = staged[v]
      /\ staged'[w].donation = NoRow
      /\ staged'[w].proposal = Only(p, new)
      /\ staged'[w].pickup = Only(k, NewPickup(p))
      /\ IsWrites(staged'[w])
  <2>1. IsTable(Only(p, new), Proposals, ProposalRow)
      BY <1>3, <1>4, OneRowTable
  <2>2. IsTable(Only(k, NewPickup(p)), Pickups, PickupRow)
      BY <1>5, OneRowTable
  <2> QED BY <1>2, <1>6, <2>1, <2>2, EmptyTable, Staged
<1>8. Tx(w)'
  <2>1. UNCHANGED <<proposal, pickup, call, lock>> /\ pc'[w] = "accept_assign"
      BY <1>2 DEF Advance, tables, TypeOK
  <2>2. staged'[w].proposal[p] = new /\ DOMAIN staged'[w].proposal = {p}
    <3>1. DOMAIN Only(p, new) = {p} /\ Only(p, new)[p] = new
        BY OneRow
    <3> QED BY <1>7, <3>1
  <2>3. k \notin DOMAIN pickup
      BY <1>2 DEF NewPickupId
  <2>4. NewPickup(p)' = NewPickup(p)
      BY <2>1 DEF NewPickup
  <2>5. Promoting(w, p)'
      BY <1>4, <1>7, <2>1, <2>2, <2>3, <2>4 DEF Promoting
  <2>6. AcceptTx(w)'
      BY <1>3, <1>4, <2>1, <2>2, <2>5 DEF AcceptTx, Pending
  <2> QED BY <2>6 DEF Tx
<1>9. \A v \in Workers \ {w} : DOMAIN staged[v].pickup \cap DOMAIN staged'[w].pickup = {}
  <2>1. DOMAIN staged'[w].pickup = {k}
    <3>1. DOMAIN Only(k, NewPickup(p)) = {k}
        BY OneRow
    <3> QED BY <1>7, <3>1
  <2> QED BY <1>2, <2>1 DEF NewPickupId
<1> QED BY <1>2, <1>3, <1>7, <1>8, <1>9, AdvanceStep DEF Label

LEMMA AcceptAssignStep ==
    ASSUME IInv, NEW w \in Workers, AcceptAssign(w)
    PROVE  IInv'
<1> USE DEF IInv
<1> DEFINE p == call[w].proposal
           d == proposal[p].donation
           r == staged[w].proposal[p]
           set == WithStatus(d, "pickup_assigned")
           new == {Note("pickup_assigned", proposal[p].volunteer, k) :
                       k \in DOMAIN staged[w].pickup}
           notes == staged[w].notes \cup new
<1>1. pc[w] = "accept_assign"
    BY DEF AcceptAssign, Advance
<1>2. /\ AcceptTx(w) /\ Promoting(w, p) /\ lock[p] = w /\ Pending(p)
      /\ p \in DOMAIN proposal
      /\ DOMAIN staged[w].proposal = {p} /\ SameDeal(proposal[p], r)
    BY <1>1 DEF Tx, IdleTx, CreateTx, AcceptTx, RejectTx, MarkTx, Stamping
<1>3. d \in DOMAIN donation /\ d \in Rows /\ p \in Rows /\ proposal[p] \in ProposalRow
    BY <1>2 DEF Refs, TypeOK, IsTable, Rows
<1>4. notes \subseteq Notification
  <2>1. DOMAIN staged[w].pickup \subseteq Pickups /\ staged[w].notes \subseteq Notification
      BY DEF TypeOK, IsWrites, IsTable
  <2>2. proposal[p].volunteer \in Users
      BY <1>3 DEF ProposalRow, Users
  <2>3. new \subseteq Notification
      BY <2>1, <2>2 DEF Note, Notification, Rows
  <2> QED BY <2>1, <2>3
<1>5. /\ IsTable(set, Donations, DonationRow)
      /\ DOMAIN set = {d}
      /\ set[d].status = "pickup_assigned"
    BY <1>3, WithStatusType DEF DonationStatus
<1>6. /\ Stage(w, set, staged[w].proposal, staged[w].pickup, notes)
      /\ Advance(w, "accept_assign", "commit")
      /\ Acquire(w, d)
    BY DEF AcceptAssign
<1>7. IsTable(staged[w].proposal, Proposals, ProposalRow)
      /\ IsTable(staged[w].pickup, Pickups, PickupRow)
    BY DEF TypeOK, IsWrites
<1> HIDE DEF set, notes
<1>8. /\ DOMAIN staged' = Workers
      /\ \A v \in Workers \ {w} : staged'[v] = staged[v]
      /\ staged'[w].donation = set
      /\ staged'[w].proposal = staged[w].proposal
      /\ staged'[w].pickup = staged[w].pickup
      /\ IsWrites(staged'[w])
    BY <1>4, <1>5, <1>6, <1>7, Staged
<1>9. Tx(w)'
  <2>1. UNCHANGED <<proposal, pickup, call>> /\ pc'[w] = "commit" /\ lock'[p] = w
      BY <1>2, <1>3, <1>6 DEF Advance, Acquire, tables, TypeOK
  <2>2. r.donation = d
      BY <1>2 DEF SameDeal
  <2>3. NewPickup(p)' = NewPickup(p)
      BY <2>1 DEF NewPickup
  <2>4. Promoting(w, p)'
      BY <1>2, <1>5, <1>8, <2>1, <2>2, <2>3 DEF Promoting, Sets
  <2>5. AcceptTx(w)'
      BY <1>2, <1>8, <2>1, <2>4 DEF AcceptTx, Pending
  <2> QED BY <2>5 DEF Tx
<1>10. \A v \in Workers \ {w} : DOMAIN staged[v].pickup \cap DOMAIN staged'[w].pickup = {}
    BY <1>8 DEF FreshIds
<1> QED BY <1>3, <1>6, <1>8, <1>9, <1>10, AdvanceStep DEF Label

-----------------------------------------------------------------------------
(* RejectDeliveryProposal *)

LEMMA RejectProposalStep ==
    ASSUME IInv, NEW w \in Workers, RejectProposal(w)
    PROVE  IInv'
<1> USE DEF IInv
<1> DEFINE p == call[w].proposal
           new == RejectedBy(p, call[w].user)
<1>1. RejectTx(w)
    BY DEF RejectProposal, Advance, Tx, IdleTx, CreateTx, AcceptTx, RejectTx, MarkTx,
           Stamping, Promoting
<1>2. p \in DOMAIN proposal /\ p \in Rows /\ p \in Proposals /\ proposal[p] \in ProposalRow
    BY <1>1 DEF RejectTx, TypeOK, IsTable, Rows
<1>3. new \in ProposalRow
  <2>1. call[w].user \in Users
      BY <1>1 DEF RejectTx, TypeOK, Call, NoCall
  <2> QED BY <1>2, <2>1 DEF RejectedBy, ProposalRow
<1>4. /\ Stage(w, NoRow, Only(p, new), NoRow, {})
      /\ Advance(w, "reject_proposal", "reject_donation")
      /\ Acquire(w, p)
    BY DEF RejectProposal
<1>5. /\ DOMAIN staged' = Workers
      /\ \A v \in Workers \ {w} : staged'[v] = staged[v]
      /\ staged'[w].proposal = Only(p, new)
      /\ staged'[w].pickup = NoRow
      /\ IsWrites(staged'[w])
  <2>1. IsTable(Only(p, new), Proposals, ProposalRow)
      BY <1>2, <1>3, OneRowTable
  <2> HIDE DEF new
  <2> QED BY <1>4, <2>1, EmptyTable, Staged
<1>6. Tx(w)'
  <2>1. UNCHANGED <<proposal, call>> /\ pc'[w] = "reject_donation" /\ lock'[p] = w
      BY <1>2, <1>4 DEF Advance, Acquire, tables, TypeOK
  <2>2. RejectTx(w)'
      BY <1>1, <1>5, <2>1 DEF RejectTx, RejectedBy
  <2> QED BY <2>2 DEF Tx
<1> QED BY <1>2, <1>4, <1>5, <1>6, EmptyTable, AdvanceStep DEF Label

LEMMA RejectDonationStep ==
    ASSUME IInv, NEW w \in Workers, RejectDonation(w)
    PROVE  IInv'
<1> USE DEF IInv
<1> DEFINE p == call[w].proposal
           d == proposal[p].donation
           set == WithStatus(d, "available")
           notes == {Note("proposal_rejected", proposal[p].volunteer, p)}
<1>1. RejectTx(w) /\ lock[p] = w
      /\ staged[w].proposal = Only(p, RejectedBy(p, call[w].user))
    BY DEF RejectDonation, Advance, Tx, IdleTx, CreateTx, AcceptTx, RejectTx, MarkTx,
           Stamping, Promoting
<1>2. /\ p \in DOMAIN proposal /\ p \in Rows /\ proposal[p] \in ProposalRow
      /\ d \in DOMAIN donation /\ d \in Rows
    BY <1>1 DEF RejectTx, Refs, TypeOK, IsTable, Rows
<1>3. notes \subseteq Notification
  <2>1. proposal[p].volunteer \in Users
      BY <1>2 DEF ProposalRow, Users
  <2> QED BY <1>2, <2>1 DEF Note, Notification
<1>4. /\ IsTable(set, Donations, DonationRow)
      /\ DOMAIN set = {d}
      /\ set[d].status = "available"
    BY <1>2, WithStatusType DEF DonationStatus
<1>5. /\ Stage(w, set, staged[w].proposal, NoRow, notes)
      /\ Advance(w, "reject_donation", "commit")
      /\ Acquire(w, d)
    BY DEF RejectDonation
<1>6. IsTable(staged[w].proposal, Proposals, ProposalRow)
    BY DEF TypeOK, IsWrites
<1> HIDE DEF set, notes
<1>7. /\ DOMAIN staged' = Workers
      /\ \A v \in Workers \ {w} : staged'[v] = staged[v]
      /\ staged'[w].donation = set
      /\ staged'[w].proposal = staged[w].proposal
      /\ staged'[w].pickup = NoRow
      /\ IsWrites(staged'[w])
    BY <1>3, <1>4, <1>5, <1>6, EmptyTable, Staged
<1>8. Tx(w)'
  <2>1. UNCHANGED <<proposal, call>> /\ pc'[w] = "commit" /\ lock'[p] = w
      BY <1>1, <1>2, <1>5 DEF Advance, Acquire, tables, TypeOK
  <2>2. RejectTx(w)'
      BY <1>1, <1>4, <1>7, <2>1 DEF RejectTx, RejectedBy, Sets
  <2> QED BY <2>2 DEF Tx
<1> QED BY <1>2, <1>5, <1>7, <1>8, EmptyTable, AdvanceStep DEF Label

-----------------------------------------------------------------------------
(* MarkPickedUp and MarkDelivered *)

LEMMA MarkedType ==
    ASSUME NEW row \in PickupRow, NEW op \in {"pick_up", "deliver"}
    PROVE  /\ Marked(op, row) \in PickupRow
           /\ Marked(op, row).status \in DonationStatus
           /\ Marked(op, row).proposal = row.proposal
           /\ Marked(op, row).donation = row.donation
BY DEF Marked, PickupRow, DonationStatus

(* A stored pickup that a transaction has written is locked by it.          *)
LEMMA WrittenPickupLocked ==
    ASSUME IInv, NEW v \in Workers, NEW k \in DOMAIN pickup, k \in DOMAIN staged[v].pickup
    PROVE  lock[k] = v
<1>1. Tx(v)
    BY DEF IInv
<1>2. DOMAIN NoRow = {} /\ NoWrites.pickup = NoRow
    BY DEF NoRow, NoWrites
<1>3. CASE IdleTx(v) \/ CreateTx(v) \/ RejectTx(v)
    BY <1>2, <1>3 DEF IdleTx, CreateTx, RejectTx, Clean
<1>4. CASE AcceptTx(v)
  <2>1. PICK l \in Pickups \ DOMAIN pickup :
            staged[v].pickup = Only(l, NewPickup(call[v].proposal))
      BY <1>2, <1>4 DEF AcceptTx, Clean, Stamping, Promoting
  <2>2. DOMAIN Only(l, NewPickup(call[v].proposal)) = {l}
      BY OneRow
  <2> QED BY <2>1, <2>2
<1>5. CASE MarkTx(v)
  <2> DEFINE l == call[v].pickup
             r == Marked(call[v].op, pickup[l])
  <2>1. lock[l] = v /\ staged[v].pickup = Only(l, r)
      BY <1>2, <1>5 DEF MarkTx, Clean
  <2>2. DOMAIN Only(l, r) = {l}
      BY OneRow
  <2> QED BY <2>1, <2>2
<1> QED BY <1>1, <1>3, <1>4, <1>5 DEF Tx

LEMMA MarkPickupStep ==
    ASSUME IInv, NEW w \in Workers, MarkPickup(w)
    PROVE  IInv'
<1> USE DEF IInv
<1> DEFINE k == call[w].pickup
           new == Marked(call[w].op, pickup[k])
<1>1. MarkTx(w)
    BY DEF MarkPickup, Advance, Tx, IdleTx, CreateTx, AcceptTx, RejectTx, MarkTx,
           Stamping, Promoting
<1>2. k \in DOMAIN pickup /\ k \in Rows /\ k \in Pickups /\ pickup[k] \in PickupRow
    BY <1>1 DEF MarkTx, TypeOK, IsTable, Rows
<1>3. new \in PickupRow
    BY <1>1, <1>2, MarkedType DEF MarkTx
<1>4. /\ Stage(w, NoRow, NoRow, Only(k, new), {})
      /\ Advance(w, "mark_pickup", "mark_donation")
      /\ Acquire(w, k)
    BY DEF MarkPickup
<1>5. /\ DOMAIN staged' = Workers
      /\ \A v \in Workers \ {w} : staged'[v] = staged[v]
      /\ staged'[w].proposal = NoRow
      /\ staged'[w].pickup = Only(k, new)
      /\ IsWrites(staged'[w])
  <2>1. IsTable(Only(k, new), Pickups, PickupRow)
      BY <1>2, <1>3, OneRowTable
  <2> HIDE DEF new
  <2> QED BY <1>4, <2>1, EmptyTable, Staged
<1>6. Tx(w)'
  <2>1. UNCHANGED <<pickup, call>> /\ pc'[w] = "mark_donation" /\ lock'[k] = w
      BY <1>2, <1>4 DEF Advance, Acquire, tables, TypeOK
  <2>2. MarkTx(w)'
      BY <1>1, <1>5, <2>1 DEF MarkTx, Marked
  <2> QED BY <2>2 DEF Tx
<1>7. \A v \in Workers \ {w} : DOMAIN staged[v].pickup \cap DOMAIN staged'[w].pickup = {}
  <2>1. DOMAIN staged'[w].pickup = {k}
    <3>1. DOMAIN Only(k, new) = {k}
        BY OneRow
    <3> QED BY <1>5, <3>1
  <2>2. ASSUME NEW v \in Workers \ {w} PROVE k \notin DOMAIN staged[v].pickup
    <3>1. lock[k] # v
        BY <1>4, NoneAssumption DEF Acquire
    <3> QED BY <1>2, <3>1, WrittenPickupLocked
  <2> QED BY <2>1, <2>2
<1> QED BY <1>2, <1>4, <1>5, <1>6, <1>7, AdvanceStep DEF Label

LEMMA MarkDonationStep ==
    ASSUME IInv, NEW w \in Workers, MarkDonation(w)
    PROVE  IInv'
<1> USE DEF IInv
<1> DEFINE k == call[w].pickup
           r == Marked(call[w].op, pickup[k])
           d == pickup[k].donation
           set == WithStatus(d, r.status)
           notes == IF r.status = "delivered" THEN CompletionNotes(call[w].user, k) ELSE {}
<1>1. MarkTx(w) /\ lock[k] = w /\ staged[w].proposal = NoRow /\ staged[w].pickup = Only(k, r)
    BY DEF MarkDonation, Advance, Tx, IdleTx, CreateTx, AcceptTx, RejectTx, MarkTx,
           Stamping, Promoting
<1>2. /\ k \in DOMAIN pickup /\ k \in Rows /\ pickup[k] \in PickupRow
      /\ d \in DOMAIN donation /\ d \in Rows
    BY <1>1 DEF MarkTx, Refs, TypeOK, IsTable, Rows
<1>3. r.status \in DonationStatus
    BY <1>1, <1>2, MarkedType DEF MarkTx
<1>4. notes \subseteq Notification
  <2>1. pickup[k].volunteer \in Users /\ pickup[k].receiver \in Users
      BY <1>2 DEF PickupRow, Users
  <2> QED BY <1>2, <2>1 DEF CompletionNotes, Note, Notification
<1>5. /\ IsTable(set, Donations, DonationRow)
      /\ DOMAIN set = {d}
      /\ set[d].status = r.status
    BY <1>2, <1>3, WithStatusType
<1>6. /\ Stage(w, set, NoRow, staged[w].pickup, notes)
      /\ Advance(w, "mark_donation", "commit")
      /\ Acquire(w, d)
    BY DEF MarkDonation
<1>7. IsTable(staged[w].pickup, Pickups, PickupRow)
    BY DEF TypeOK, IsWrites
<1> HIDE DEF set, notes
<1>8. /\ DOMAIN staged' = Workers
      /\ \A v \in Workers \ {w} : staged'[v] = staged[v]
      /\ staged'[w].donation = set
      /\ staged'[w].proposal = NoRow
      /\ staged'[w].pickup = staged[w].pickup
      /\ IsWrites(staged'[w])
    BY <1>4, <1>5, <1>6, <1>7, EmptyTable, Staged
<1>9. Tx(w)'
  <2>1. UNCHANGED <<pickup, call>> /\ pc'[w] = "commit" /\ lock'[k] = w
      BY <1>1, <1>2, <1>6 DEF Advance, Acquire, tables, TypeOK
  <2>2. MarkTx(w)'
      BY <1>1, <1>5, <1>8, <2>1 DEF MarkTx, Sets
  <2> QED BY <2>2 DEF Tx
<1>10. \A v \in Workers \ {w} : DOMAIN staged[v].pickup \cap DOMAIN staged'[w].pickup = {}
    BY <1>8 DEF FreshIds
<1> QED BY <1>2, <1>6, <1>8, <1>9, <1>10, AdvanceStep DEF Label

-----------------------------------------------------------------------------
(* Commit *)

(* A stored proposal that a transaction has written is locked by it, and a  *)
(* new one has the id its call drew.                                        *)
LEMMA WrittenProposalLocked ==
    ASSUME IInv, NEW v \in Workers, NEW p \in DOMAIN staged[v].proposal
    PROVE  IF p \in DOMAIN proposal THEN lock[p] = v
                                    ELSE call[v].op = "create" /\ p = call[v].proposal
<1> DEFINE q == call[v].proposal
<1>1. Tx(v)
    BY DEF IInv
<1>2. DOMAIN NoRow = {} /\ NoWrites.proposal = NoRow
    BY DEF NoRow, NoWrites
<1>3. CASE IdleTx(v) \/ MarkTx(v)
    BY <1>2, <1>3 DEF IdleTx, MarkTx, Clean
<1>4. CASE CreateTx(v)
  <2>1. call[v].op = "create" /\ staged[v].proposal = Only(q, NewProposal(call[v]))
        /\ q \notin DOMAIN proposal
      BY <1>2, <1>4 DEF CreateTx, Clean
  <2>2. DOMAIN Only(q, NewProposal(call[v])) = {q}
      BY OneRow
  <2> QED BY <2>1, <2>2
<1>5. CASE AcceptTx(v)
    BY <1>2, <1>5 DEF AcceptTx, Clean
<1>6. CASE RejectTx(v)
  <2>1. lock[q] = v /\ staged[v].proposal = Only(q, RejectedBy(q, call[v].user))
        /\ q \in DOMAIN proposal
      BY <1>2, <1>6 DEF RejectTx, Clean
  <2>2. DOMAIN Only(q, RejectedBy(q, call[v].user)) = {q}
      BY OneRow
  <2> QED BY <2>1, <2>2
<1> QED BY <1>1, <1>3, <1>4, <1>5, <1>6 DEF Tx

(* The tables after a commit: what was written, then what was there.        *)
LEMMA CommitTables ==
    ASSUME NEW w \in Workers, Commit(w)
    PROVE  LET s == staged[w] IN
           /\ /\ DOMAIN donation' = DOMAIN s.donation \cup DOMAIN donation
              /\ \A d \in DOMAIN s.donation : donation'[d] = s.donation[d]
              /\ \A d \in DOMAIN donation \ DOMAIN s.donation : donation'[d] = donation[d]
           /\ /\ DOMAIN proposal' = DOMAIN s.proposal \cup DOMAIN proposal
              /\ \A p \in DOMAIN s.proposal : proposal'[p] = s.proposal[p]
              /\ \A p \in DOMAIN proposal \ DOMAIN s.proposal : proposal'[p] = proposal[p]
           /\ /\ DOMAIN pickup' = DOMAIN s.pickup \cup DOMAIN pickup
              /\ \A k \in DOMAIN s.pickup : pickup'[k] = s.pickup[k]
              /\ \A k \in DOMAIN pickup \ DOMAIN s.pickup : pickup'[k] = pickup[k]
BY DEF Commit, Applied

LEMMA CommitOthers ==
    ASSUME IInv, NEW w \in Workers, NEW v \in Workers \ {w}, Commit(w)
    PROVE  Tx(v)'
<1> USE DEF IInv
<1> DEFINE c == call[v]
           p == c.proposal
           k == c.pickup
<1>1. /\ UNCHANGED <<pc[v], call[v], staged[v]>>
      /\ \A r \in Rows : lock[r] = v => lock'[r] = v
    BY DEF Commit, Finish, Unlocked, TypeOK
<1>2. /\ DOMAIN donation \subseteq DOMAIN donation'
      /\ DOMAIN proposal \subseteq DOMAIN proposal'
      /\ DOMAIN pickup \subseteq DOMAIN pickup'
    BY CommitTables
<1>3. p \in DOMAIN proposal /\ lock[p] = v => proposal'[p] = proposal[p]
  <2>1. w # v
      OBVIOUS
  <2>2. p \in DOMAIN proposal /\ p \in DOMAIN staged[w].proposal => lock[p] = w
      BY WrittenProposalLocked
  <2>3. p \in DOMAIN proposal /\ p \notin DOMAIN staged[w].proposal
            => proposal'[p] = proposal[p]
      BY CommitTables
  <2> QED BY <2>1, <2>2, <2>3
<1>4. k \in DOMAIN pickup /\ lock[k] = v => pickup'[k] = pickup[k]
  <2>1. w # v
      OBVIOUS
  <2>2. k \in DOMAIN pickup /\ k \in DOMAIN staged[w].pickup => lock[k] = w
      BY WrittenPickupLocked
  <2>3. k \in DOMAIN pickup /\ k \notin DOMAIN staged[w].pickup => pickup'[k] = pickup[k]
      BY CommitTables
  <2> QED BY <2>1, <2>2, <2>3
<1>5. CASE IdleTx(v)
    BY <1>1, <1>5 DEF Tx, IdleTx, Clean
<1>6. CASE CreateTx(v)
  <2>1. p \notin DOMAIN proposal'
    <3>1. p \notin DOMAIN proposal /\ c.op = "create"
        BY <1>6 DEF CreateTx
    <3>2. call[w].op = "create" => call[w].proposal # p
        BY <3>1 DEF FreshIds
    <3>3. p \notin DOMAIN staged[w].proposal
        BY <3>1, <3>2, WrittenProposalLocked
    <3> QED BY <3>1, <3>3, CommitTables
  <2>2. CreateTx(v)'
      BY <1>1, <1>2, <1>6, <2>1 DEF CreateTx, Clean, Sets, NewProposal
  <2> QED BY <2>2 DEF Tx
<1>7. CASE AcceptTx(v)
  <2>1. p \in DOMAIN proposal /\ p \in Rows
      BY <1>7 DEF AcceptTx, TypeOK, IsTable, Rows
  <2>2. lock[p] = v => lock'[p] = v /\ proposal'[p] = proposal[p]
      BY <1>1, <1>3, <2>1
  <2>3. Stamping(v, p) => Stamping(v, p)'
      BY <1>1 DEF Stamping
  <2>4. ASSUME lock[p] = v, Promoting(v, p) PROVE Promoting(v, p)'
    <3>1. PICK l \in Pickups \ DOMAIN pickup : staged[v].pickup = Only(l, NewPickup(p))
        BY <2>4 DEF Promoting
    <3>2. DOMAIN Only(l, NewPickup(p)) = {l}
        BY OneRow
    <3>3. l \notin DOMAIN staged[w].pickup
        BY <3>1, <3>2 DEF FreshIds
    <3>4. l \notin DOMAIN pickup'
        BY <3>1, <3>3, CommitTables
    <3>5. NewPickup(p)' = NewPickup(p)
        BY <1>1, <2>2, <2>4 DEF NewPickup
    <3>6. staged'[v].pickup = Only(l, NewPickup(p)')
        BY <1>1, <3>1, <3>5
    <3> QED BY <1>1, <2>4, <3>1, <3>4, <3>6 DEF Promoting, Sets
  <2>5. AcceptTx(v)'
      BY <1>1, <1>2, <1>7, <2>1, <2>2, <2>3, <2>4 DEF AcceptTx, Clean, Pending
  <2> QED BY <2>5 DEF Tx
<1>8. CASE RejectTx(v)
  <2>1. p \in DOMAIN proposal /\ p \in Rows
      BY <1>8 DEF RejectTx, TypeOK, IsTable, Rows
  <2>2. lock[p] = v => lock'[p] = v /\ proposal'[p] = proposal[p]
      BY <1>1, <1>3, <2>1
  <2>3. RejectTx(v)'
      BY <1>1, <1>2, <1>8, <2>1, <2>2 DEF RejectTx, Clean, Sets, RejectedBy
  <2> QED BY <2>3 DEF Tx
<1>9. CASE MarkTx(v)
  <2>1. k \in DOMAIN pickup /\ k \in Rows
      BY <1>9 DEF MarkTx, TypeOK, IsTable, Rows
  <2>2. lock[k] = v => lock'[k] = v /\ pickup'[k] = pickup[k]
      BY <1>1, <1>4, <2>1
  <2>3. MarkTx(v)'
      BY <1>1, <1>2, <1>9, <2>1, <2>2 DEF MarkTx, Clean, Sets, Marked
  <2> QED BY <2>3 DEF Tx
<1> QED BY <1>5, <1>6, <1>7, <1>8, <1>9 DEF Tx, IInv

(* A commit preserves IInv if it preserves what relates the tables.         *)
LEMMA CommitFrame ==
    ASSUME IInv, NEW w \in Workers, Commit(w),
           Refs', PickupIffBothAccepted', OnePickupPerProposal', StatusBacked'
    PROVE  IInv'
<1> USE DEF IInv
<1>1. staged'[w] = NoWrites /\ call'[w] = NoCall /\ pc'[w] = "idle"
    BY DEF Commit, Finish, TypeOK
<1>2. \A v \in Workers \ {w} : staged'[v] = staged[v] /\ call'[v] = call[v]
    BY DEF Commit, Finish, TypeOK
<1>3. \A v \in Workers : Tx(v)'
  <2>1. Tx(w)'
      BY <1>1 DEF Tx, IdleTx, Clean
  <2> QED BY <2>1, CommitOthers
<1>4. FreshIds'
    BY <1>1, <1>2 DEF FreshIds, NoCall, NoWrites, NoRow
<1>5. TypeOK'
  <2>1. IsWrites(staged[w])
      BY DEF TypeOK
  <2>2. IsTable(donation', Donations, DonationRow)
    <3>1. IsTable(staged[w].donation, Donations, DonationRow)
          /\ IsTable(donation, Donations, DonationRow)
        BY <2>1 DEF IsWrites, TypeOK
    <3>2. donation' = Applied(staged[w].donation, donation)
        BY DEF Commit
    <3> QED BY <3>1, <3>2, OverlayTable
  <2>3. IsTable(proposal', Proposals, ProposalRow)
    <3>1. IsTable(staged[w].proposal, Proposals, ProposalRow)
          /\ IsTable(proposal, Proposals, ProposalRow)
        BY <2>1 DEF IsWrites, TypeOK
    <3>2. proposal' = Applied(staged[w].proposal, proposal)
        BY DEF Commit
    <3> QED BY <3>1, <3>2, OverlayTable
  <2>4. IsTable(pickup', Pickups, PickupRow)
    <3>1. IsTable(staged[w].pickup, Pickups, PickupRow)
          /\ IsTable(pickup, Pickups, PickupRow)
        BY <2>1 DEF IsWrites, TypeOK
    <3>2. pickup' = Applied(staged[w].pickup, pickup)
        BY DEF Commit
    <3> QED BY <3>1, <3>2, OverlayTable
  <2>5. IsTable(notification', Notification, 1 .. NotifCap)
    <3>1. staged[w].notes \subseteq Notification
        BY <2>1 DEF IsWrites
    <3>2. notification' = Posted(staged[w].notes)
        BY DEF Commit
    <3> QED BY <3>1, <3>2, PostedTable
  <2>6. pc' \in [Workers -> Label] /\ call' \in [Workers -> Call \cup {NoCall}]
      BY DEF Commit, Finish, TypeOK, Label
  <2>7. DOMAIN staged' = Workers /\ \A v \in Workers : IsWrites(staged'[v])
      BY EmptyWrites DEF Commit, Finish, TypeOK
  <2>8. lock' \in [Rows -> Workers \cup {None}]
      BY DEF Commit, Finish, Unlocked, TypeOK
  <2> QED BY <2>2, <2>3, <2>4, <2>5, <2>6, <2>7, <2>8 DEF TypeOK
<1> QED BY <1>3, <1>4, <1>5

(* A donation keeps what backs its status while its pending proposals and   *)
(* its pickups stay as they are.                                            *)
Kept(d) ==
    /\ \A p \in DOMAIN proposal : proposal[p].donation = d /\ Pending(p) =>
           /\ p \in DOMAIN proposal'
           /\ proposal'[p].donation = d /\ proposal'[p].status = "pending"
    /\ \A k \in DOMAIN pickup : pickup[k].donation = d =>
           /\ k \in DOMAIN pickup'
           /\ pickup'[k].donation = d /\ pickup'[k].status = pickup[k].status

LEMMA KeptBacking ==
    ASSUME TypeOK, StatusBacked, NEW d \in DOMAIN donation,
           donation'[d] = donation[d], Kept(d)
    PROVE  Backing(d)'[donation'[d].status]
<1> DEFINE s == donation[d].status
<1>1. s \in DonationStatus
    BY DEF TypeOK, IsTable, DonationRow
<1>2. Backing(d)[s]
    BY DEF StatusBacked
<1>3. CASE s = "available"
    BY <1>3 DEF Backing
<1>4. CASE s = "proposal_pending"
    BY <1>2, <1>4 DEF Backing, Kept, Pending
<1>5. CASE s = "pickup_assigned"
    BY <1>2, <1>5 DEF Backing, Kept
<1>6. CASE s = "picked_up"
    BY <1>2, <1>6 DEF Backing, Kept
<1>7. CASE s = "delivered"
    BY <1>2, <1>7 DEF Backing, Kept
<1> QED BY <1>1, <1>3, <1>4, <1>5, <1>6, <1>7 DEF DonationStatus

LEMMA CommitCreate ==
    ASSUME IInv, NEW w \in Workers, Commit(w), CreateTx(w)
    PROVE  IInv'
<1> USE DEF IInv
<1>0. PICK p, d, new : /\ p = call[w].proposal
                       /\ d = call[w].donation
                       /\ new = NewProposal(call[w])
    OBVIOUS
<1>1. /\ d \in DOMAIN donation /\ p \notin DOMAIN proposal
      /\ staged[w].proposal = Only(p, new) /\ staged[w].pickup = NoRow
      /\ Sets(w, d, "proposal_pending")
    BY <1>0 DEF CreateTx, Commit
<1>2. /\ new.donation = d /\ new.status = "pending"
      /\ new.donorAccepted = FALSE /\ new.receiverAccepted = FALSE
    BY <1>0 DEF NewProposal
<1>3. /\ DOMAIN proposal' = {p} \cup DOMAIN proposal
      /\ proposal'[p] = new
      /\ \A q \in DOMAIN proposal : proposal'[q] = proposal[q]
  <2>1. DOMAIN Only(p, new) = {p} /\ Only(p, new)[p] = new
      BY OneRow
  <2> QED BY <1>1, <2>1, CommitTables
<1>4. DOMAIN pickup' = DOMAIN pickup /\ \A k \in DOMAIN pickup : pickup'[k] = pickup[k]
  <2>1. DOMAIN NoRow = {}
      BY DEF NoRow
  <2> QED BY <1>1, <2>1, CommitTables
<1>5. /\ DOMAIN donation' = DOMAIN donation
      /\ donation'[d].status = "proposal_pending"
      /\ \A e \in DOMAIN donation \ {d} : donation'[e] = donation[e]
    BY <1>1, CommitTables DEF Sets
<1>6. Refs'
    BY <1>1, <1>2, <1>3, <1>4, <1>5 DEF Refs
<1>7. PickupIffBothAccepted'
  <2>1. \A k \in DOMAIN pickup : pickup[k].proposal # p
      BY <1>1 DEF Refs
  <2>2. \A q \in DOMAIN proposal : HasPickup(q)' <=> HasPickup(q)
      BY <1>4 DEF HasPickup
  <2>3. ~ HasPickup(p)'
      BY <1>4, <2>1 DEF HasPickup, Commit, Finish
  <2> QED BY <1>2, <1>3, <2>2, <2>3 DEF PickupIffBothAccepted, Both
<1>8. OnePickupPerProposal'
    BY <1>4 DEF OnePickupPerProposal
<1>9. StatusBacked'
  <2>1. Backing(d)'["proposal_pending"]
      BY <1>2, <1>3 DEF Backing, Pending
  <2>2. ASSUME NEW e \in DOMAIN donation \ {d} PROVE Backing(e)'[donation'[e].status]
    <3>1. Kept(e)
        BY <1>3, <1>4 DEF Kept, Pending
    <3> QED BY <1>5, <3>1, KeptBacking
  <2> QED BY <1>1, <1>5, <2>1, <2>2 DEF StatusBacked
<1> QED BY <1>6, <1>7, <1>8, <1>9, CommitFrame

LEMMA CommitStamp ==
    ASSUME IInv, NEW w \in Workers, Commit(w), AcceptTx(w), Stamping(w, call[w].proposal)
    PROVE  IInv'
<1> USE DEF IInv
<1>0. PICK p, new : p = call[w].proposal /\ new = staged[w].proposal[p]
    OBVIOUS
<1>1. /\ p \in DOMAIN proposal /\ Pending(p)
      /\ DOMAIN staged[w].proposal = {p} /\ SameDeal(proposal[p], new)
      /\ new.status = "pending" /\ ~ BothAccepted(new)
      /\ staged[w].pickup = NoRow /\ staged[w].donation = NoRow
    BY <1>0 DEF AcceptTx, Stamping, Commit, Clean, NoWrites, NoRow
<1>2. /\ DOMAIN proposal' = DOMAIN proposal
      /\ proposal'[p] = new
      /\ \A q \in DOMAIN proposal \ {p} : proposal'[q] = proposal[q]
    BY <1>0, <1>1, CommitTables
<1>3. /\ DOMAIN pickup' = DOMAIN pickup /\ \A k \in DOMAIN pickup : pickup'[k] = pickup[k]
      /\ DOMAIN donation' = DOMAIN donation
      /\ \A e \in DOMAIN donation : donation'[e] = donation[e]
  <2>1. DOMAIN NoRow = {}
      BY DEF NoRow
  <2> QED BY <1>1, <2>1, CommitTables
<1>4. Refs'
    BY <1>1, <1>2, <1>3 DEF Refs, SameDeal
<1>5. PickupIffBothAccepted'
  <2>1. \A q \in DOMAIN proposal : HasPickup(q)' <=> HasPickup(q)
      BY <1>3 DEF HasPickup
  <2>2. ~ HasPickup(p)
      BY <1>1 DEF PickupIffBothAccepted, Pending
  <2>3. ~ Both(p)'
      BY <1>1, <1>2 DEF Both, BothAccepted
  <2>4. \A q \in DOMAIN proposal \ {p} : Both(q)' <=> Both(q)
      BY <1>2 DEF Both
  <2> QED BY <1>1, <1>2, <2>1, <2>2, <2>3, <2>4 DEF PickupIffBothAccepted
<1>6. OnePickupPerProposal'
    BY <1>3 DEF OnePickupPerProposal
<1>7. StatusBacked'
  <2>1. ASSUME NEW e \in DOMAIN donation PROVE Backing(e)'[donation'[e].status]
    <3>1. Kept(e)
        BY <1>1, <1>2, <1>3 DEF Kept, Pending, SameDeal
    <3> QED BY <1>3, <3>1, KeptBacking
  <2> QED BY <1>3, <2>1 DEF StatusBacked
<1> QED BY <1>4, <1>5, <1>6, <1>7, CommitFrame

LEMMA CommitPromote ==
    ASSUME IInv, NEW w \in Workers, Commit(w), AcceptTx(w), Promoting(w, call[w].proposal)
    PROVE  IInv'
<1> USE DEF IInv
<1>0. PICK p, d, new : /\ p = call[w].proposal
                       /\ new = staged[w].proposal[p]
                       /\ d = new.donation
    OBVIOUS
<1>1. /\ p \in DOMAIN proposal /\ Pending(p)
      /\ DOMAIN staged[w].proposal = {p} /\ SameDeal(proposal[p], new)
      /\ new.status = "accepted" /\ BothAccepted(new)
      /\ Sets(w, d, "pickup_assigned")
    BY <1>0 DEF AcceptTx, Promoting, Commit
<1>2. PICK k \in Pickups \ DOMAIN pickup : staged[w].pickup = Only(k, NewPickup(p))
    BY <1>0 DEF Promoting
<1>3. PICK task : task = NewPickup(p)
    OBVIOUS
<1>4. d \in DOMAIN donation /\ task.proposal = p /\ task.donation = d /\ task.status = "assigned"
    BY <1>0, <1>1, <1>3 DEF NewPickup, SameDeal, Refs
<1>5. /\ DOMAIN proposal' = DOMAIN proposal
      /\ proposal'[p] = new
      /\ \A q \in DOMAIN proposal \ {p} : proposal'[q] = proposal[q]
    BY <1>0, <1>1, CommitTables
<1>6. /\ DOMAIN pickup' = {k} \cup DOMAIN pickup
      /\ pickup'[k] = task
      /\ \A l \in DOMAIN pickup : pickup'[l] = pickup[l]
  <2>1. DOMAIN Only(k, task) = {k} /\ Only(k, task)[k] = task
      BY OneRow
  <2> QED BY <1>2, <1>3, <2>1, CommitTables
<1>7. /\ DOMAIN donation' = DOMAIN donation
      /\ donation'[d].status = "pickup_assigned"
      /\ \A e \in DOMAIN donation \ {d} : donation'[e] = donation[e]
    BY <1>1, <1>4, CommitTables DEF Sets
<1>8. ~ HasPickup(p)
    BY <1>1 DEF PickupIffBothAccepted, Pending
<1>9. Refs'
    BY <1>0, <1>1, <1>4, <1>5, <1>6, <1>7 DEF Refs, SameDeal
<1>10. PickupIffBothAccepted'
  <2>1. HasPickup(p)'
      BY <1>4, <1>6 DEF HasPickup
  <2>2. \A q \in DOMAIN proposal \ {p} : HasPickup(q)' <=> HasPickup(q)
      BY <1>2, <1>4, <1>6 DEF HasPickup
  <2>3. Both(p)'
      BY <1>1, <1>5 DEF Both, BothAccepted
  <2>4. \A q \in DOMAIN proposal \ {p} : Both(q)' <=> Both(q)
      BY <1>5 DEF Both
  <2> QED BY <1>1, <1>5, <2>1, <2>2, <2>3, <2>4 DEF PickupIffBothAccepted
<1>11. OnePickupPerProposal'
    BY <1>2, <1>4, <1>6, <1>8 DEF OnePickupPerProposal, HasPickup
<1>12. StatusBacked'
  <2>1. Backing(d)'["pickup_assigned"]
      BY <1>4, <1>6 DEF Backing
  <2>2. ASSUME NEW e \in DOMAIN donation \ {d} PROVE Backing(e)'[donation'[e].status]
    <3>1. proposal[p].donation # e
        BY <1>0, <1>1 DEF SameDeal
    <3>2. Kept(e)
        BY <1>2, <1>5, <1>6, <3>1 DEF Kept, Pending
    <3> QED BY <1>7, <3>2, KeptBacking
  <2> QED BY <1>7, <2>1, <2>2 DEF StatusBacked
<1> QED BY <1>9, <1>10, <1>11, <1>12, CommitFrame

LEMMA CommitReject ==
    ASSUME IInv, NEW w \in Workers, Commit(w), RejectTx(w)
    PROVE  IInv'
<1> USE DEF IInv
<1>0. PICK p, d, new : /\ p = call[w].proposal
                       /\ d = proposal[p].donation
                       /\ new = RejectedBy(p, call[w].user)
    OBVIOUS
<1>1. /\ p \in DOMAIN proposal /\ d \in DOMAIN donation /\ proposal[p] \in ProposalRow
      /\ staged[w].proposal = Only(p, new) /\ staged[w].pickup = NoRow
      /\ Sets(w, d, "available")
    BY <1>0 DEF RejectTx, Commit, Refs, TypeOK, IsTable
<1>2. /\ new.donation = d /\ new.status = "rejected"
      /\ new.donorAccepted = proposal[p].donorAccepted
      /\ new.receiverAccepted = proposal[p].receiverAccepted
    BY <1>0, <1>1 DEF RejectedBy, ProposalRow
<1>3. /\ DOMAIN proposal' = DOMAIN proposal
      /\ proposal'[p] = new
      /\ \A q \in DOMAIN proposal \ {p} : proposal'[q] = proposal[q]
  <2>1. DOMAIN Only(p, new) = {p} /\ Only(p, new)[p] = new
      BY OneRow
  <2>2. DOMAIN staged[w].proposal = {p} /\ staged[w].proposal[p] = new
      BY <1>1, <2>1
  <2> QED BY <1>1, <2>2, CommitTables
<1>4. DOMAIN pickup' = DOMAIN pickup /\ \A k \in DOMAIN pickup : pickup'[k] = pickup[k]
  <2>1. DOMAIN NoRow = {}
      BY DEF NoRow
  <2> QED BY <1>1, <2>1, CommitTables
<1>5. /\ DOMAIN donation' = DOMAIN donation
      /\ donation'[d].status = "available"
      /\ \A e \in DOMAIN donation \ {d} : donation'[e] = donation[e]
    BY <1>1, CommitTables DEF Sets
<1>6. Refs'
    BY <1>0, <1>2, <1>3, <1>4, <1>5 DEF Refs
<1>7. PickupIffBothAccepted'
  <2>1. \A q \in DOMAIN proposal : HasPickup(q)' <=> HasPickup(q)
      BY <1>4 DEF HasPickup
  <2>2. \A q \in DOMAIN proposal : Both(q)' <=> Both(q)
      BY <1>2, <1>3 DEF Both
  <2> QED BY <1>2, <1>3, <2>1, <2>2 DEF PickupIffBothAccepted
<1>8. OnePickupPerProposal'
    BY <1>4 DEF OnePickupPerProposal
<1>9. StatusBacked'
  <2>1. Backing(d)'["available"]
      BY DEF Backing
  <2>2. ASSUME NEW e \in DOMAIN donation \ {d} PROVE Backing(e)'[donation'[e].status]
    <3>1. Kept(e)
        BY <1>0, <1>3, <1>4 DEF Kept, Pending
    <3> QED BY <1>5, <3>1, KeptBacking
  <2> QED BY <1>5, <2>1, <2>2 DEF StatusBacked
<1> QED BY <1>6, <1>7, <1>8, <1>9, CommitFrame

LEMMA CommitMark ==
    ASSUME IInv, NEW w \in Workers, Commit(w), MarkTx(w)
    PROVE  IInv'
<1> USE DEF IInv
<1>0. PICK k, d, new : /\ k = call[w].pickup
                       /\ d = pickup[k].donation
                       /\ new = Marked(call[w].op, pickup[k])
    OBVIOUS
<1>1. /\ k \in DOMAIN pickup /\ d \in DOMAIN donation /\ pickup[k] \in PickupRow
      /\ staged[w].proposal = NoRow /\ staged[w].pickup = Only(k, new)
      /\ Sets(w, d, new.status) /\ call[w].op \in {"pick_up", "deliver"}
    BY <1>0 DEF MarkTx, Commit, Refs, TypeOK, IsTable
<1>2. /\ new.proposal = pickup[k].proposal /\ new.donation = d
      /\ new.status \in {"picked_up", "delivered"}
    BY <1>0, <1>1 DEF Marked, PickupRow
<1>3. /\ DOMAIN pickup' = DOMAIN pickup
      /\ pickup'[k] = new
      /\ \A l \in DOMAIN pickup \ {k} : pickup'[l] = pickup[l]
  <2>1. DOMAIN Only(k, new) = {k} /\ Only(k, new)[k] = new
      BY OneRow
  <2>2. DOMAIN staged[w].pickup = {k} /\ staged[w].pickup[k] = new
      BY <1>1, <2>1
  <2> QED BY <1>1, <2>2, CommitTables
<1>4. DOMAIN proposal' = DOMAIN proposal
      /\ \A q \in DOMAIN proposal : proposal'[q] = proposal[q]
  <2>1. DOMAIN NoRow = {}
      BY DEF NoRow
  <2> QED BY <1>1, <2>1, CommitTables
<1>5. /\ DOMAIN donation' = DOMAIN donation
      /\ donation'[d].status = new.status
      /\ \A e \in DOMAIN donation \ {d} : donation'[e] = donation[e]
    BY <1>1, CommitTables DEF Sets
<1>6. \A l \in DOMAIN pickup : /\ pickup'[l].proposal = pickup[l].proposal
                               /\ pickup'[l].donation = pickup[l].donation
    BY <1>0, <1>2, <1>3
<1>7. Refs'
    BY <1>3, <1>4, <1>5, <1>6 DEF Refs
<1>8. PickupIffBothAccepted'
  <2>1. \A q \in DOMAIN proposal : HasPickup(q)' <=> HasPickup(q)
      BY <1>3, <1>6 DEF HasPickup
  <2> QED BY <1>4, <2>1 DEF PickupIffBothAccepted, Both
<1>9. OnePickupPerProposal'
    BY <1>3, <1>6 DEF OnePickupPerProposal
<1>10. StatusBacked'
  <2>1. Backing(d)'[new.status]
    <3>1. \E l \in DOMAIN pickup' : pickup'[l].donation = d /\ pickup'[l].status = new.status
        BY <1>1, <1>2, <1>3
    <3> QED BY <1>2, <3>1 DEF Backing
  <2>2. ASSUME NEW e \in DOMAIN donation \ {d} PROVE Backing(e)'[donation'[e].status]
    <3>1. Kept(e)
        BY <1>0, <1>3, <1>4 DEF Kept, Pending
    <3> QED BY <1>5, <3>1, KeptBacking
  <2> QED BY <1>5, <2>1, <2>2 DEF StatusBacked
<1> QED BY <1>7, <1>8, <1>9, <1>10, CommitFrame

LEMMA CommitStep ==
    ASSUME IInv, NEW w \in Workers, Commit(w)
    PROVE  IInv'
<1>1. pc[w] = "commit" /\ Tx(w)
    BY DEF Commit, IInv
<1>2. CASE AcceptTx(w)
  <2>1. Stamping(w, call[w].proposal) \/ Promoting(w, call[w].proposal)
      BY <1>1, <1>2 DEF AcceptTx
  <2> QED BY <1>2, <2>1, CommitStamp, CommitPromote
<1>3. ~ IdleTx(w)
    BY <1>1 DEF IdleTx
<1> QED BY <1>1, <1>2, <1>3, CommitCreate, CommitReject, CommitMark DEF Tx

-----------------------------------------------------------------------------
(* CreateDonation *)

LEMMA TxKept ==
    ASSUME NEW w \in Workers, Tx(w), DOMAIN donation \subseteq DOMAIN donation',
           UNCHANGED <<proposal, pickup, pc, call, staged, lock>>
    PROVE  Tx(w)'
<1>1. CreateTx(w) => CreateTx(w)'
    BY DEF CreateTx, Clean, Sets
<1>2. Stamping(w, call[w].proposal) => Stamping(w, call[w].proposal)'
    BY DEF Stamping
<1>3. Promoting(w, call[w].proposal) => Promoting(w, call[w].proposal)'
    BY DEF Promoting, Sets, NewPickup
<1>4. AcceptTx(w) => AcceptTx(w)'
    BY <1>2, <1>3 DEF AcceptTx, Clean, Pending
<1>5. RejectTx(w) => RejectTx(w)'
    BY DEF RejectTx, Clean, Sets, RejectedBy
<1>6. MarkTx(w) => MarkTx(w)'
    BY DEF MarkTx, Clean, Sets, Marked
<1>7. IdleTx(w) => IdleTx(w)'
    BY DEF IdleTx, Clean
<1> QED BY <1>1, <1>4, <1>5, <1>6, <1>7 DEF Tx

LEMMA CreateDonationStep ==
    ASSUME IInv, NEW u \in Donors, NEW d \in Donations, CreateDonation(u, d)
    PROVE  IInv'
<1> USE DEF IInv
<1>1. PICK new : new = [status |-> "available", donor |-> u]
    OBVIOUS
<1>2. new \in DonationRow /\ new.status = "available"
    BY <1>1 DEF DonationRow, DonationStatus
<1>3. /\ d \notin DOMAIN donation
      /\ DOMAIN donation' = {d} \cup DOMAIN donation
      /\ donation'[d] = new
      /\ \A e \in DOMAIN donation : donation'[e] = donation[e]
    BY <1>1 DEF CreateDonation, Applied, Only
<1>4. UNCHANGED <<proposal, pickup, pc, call, staged, lock>>
    BY DEF CreateDonation
<1>5. TypeOK'
  <2>1. IsTable(donation', Donations, DonationRow)
    <3>1. IsTable(Only(d, new), Donations, DonationRow)
        BY <1>2, OneRowTable
    <3> QED BY <1>1, <3>1, OverlayTable DEF CreateDonation, TypeOK
  <2>2. IsTable(notification', Notification, 1 .. NotifCap)
    <3>1. {Note("donation_created", u, d)} \subseteq Notification
        BY DEF Note, Notification, Users, Rows
    <3> QED BY <3>1, PostedTable DEF CreateDonation
  <2> QED BY <1>4, <2>1, <2>2 DEF TypeOK
<1>6. \A w \in Workers : Tx(w)'
    BY <1>3, <1>4, TxKept
<1>7. /\ Refs'
      /\ FreshIds'
      /\ PickupIffBothAccepted'
      /\ OnePickupPerProposal'
    BY <1>3, <1>4 DEF Refs, FreshIds, PickupIffBothAccepted, HasPickup, Both,
                      OnePickupPerProposal
<1>8. StatusBacked'
  <2>1. Backing(d)'["available"]
      BY DEF Backing
  <2>2. ASSUME NEW e \in DOMAIN donation PROVE Backing(e)'[donation'[e].status]
    <3>1. Kept(e)
        BY <1>4 DEF Kept, Pending
    <3> QED BY <1>3, <3>1, KeptBacking
  <2> QED BY <1>2, <1>3, <2>1, <2>2 DEF StatusBacked
<1> QED BY <1>5, <1>6, <1>7, <1>8

-----------------------------------------------------------------------------
(* The theorems *)

LEMMA InitLemma == Init => IInv
<1> SUFFICES ASSUME Init PROVE IInv
    OBVIOUS
<1>1. DOMAIN NoRow = {}
    BY DEF NoRow
<1>2. TypeOK
    BY <1>1, EmptyTable, EmptyWrites DEF Init, TypeOK, Label
<1>3. \A w \in Workers : Tx(w)
    BY DEF Init, Tx, IdleTx, Clean
<1>4. FreshIds
    BY <1>1 DEF Init, FreshIds, NoCall, NoWrites
<1>5. Refs /\ PickupIffBothAccepted /\ OnePickupPerProposal /\ StatusBacked
    BY <1>1 DEF Init, Refs, PickupIffBothAccepted, OnePickupPerProposal, StatusBacked
<1> QED BY <1>2, <1>3, <1>4, <1>5 DEF IInv

LEMMA StepLemma == IInv /\ [Next]_vars => IInv'
<1> SUFFICES ASSUME IInv, [Next]_vars PROVE IInv'
    OBVIOUS
<1>1. CASE \E u \in Donors, d \in Donations : CreateDonation(u, d)
    BY <1>1, CreateDonationStep
<1>2. ASSUME NEW w \in Workers, Serve(w) PROVE IInv'
  <2>1. CASE Start(w)
      BY <2>1, StartStep
  <2>2. CASE Step(w)
    <3>1. AcceptRefuse(w) => Rollback(w)
        BY DEF AcceptRefuse
    <3> QED BY <2>2, <3>1, CreateWriteStep, AcceptLockStep, RollbackStep, AcceptStampStep,
               AcceptPromoteStep, AcceptAssignStep, RejectProposalStep,
               RejectDonationStep, MarkPickupStep, MarkDonationStep, CommitStep DEF Step
  <2>3. CASE Fail(w)
      BY <2>3, RollbackStep DEF Fail
  <2> QED BY <1>2, <2>1, <2>2, <2>3 DEF Serve
<1>3. CASE UNCHANGED vars
  <2>1. UNCHANGED <<donation, proposal, pickup, notification, pc, call, staged, lock>>
      BY <1>3 DEF vars
  <2>2. TypeOK'
      BY <2>1 DEF IInv, TypeOK
  <2>3. \A w \in Workers : Tx(w)'
      BY <2>1, TxKept DEF IInv
  <2>4. Refs' /\ FreshIds' /\ PickupIffBothAccepted' /\ OnePickupPerProposal'
      BY <2>1 DEF IInv, Refs, FreshIds, PickupIffBothAccepted, HasPickup, Both,
                  OnePickupPerProposal
  <2>5. StatusBacked'
      BY <2>1 DEF IInv, StatusBacked, Backing, Pending
  <2> QED BY <2>2, <2>3, <2>4, <2>5 DEF IInv
<1> QED BY <1>1, <1>2, <1>3 DEF Next

(* IInv is an inductive invariant of the transactions of Delivery.          *)
THEOREM Inductive == Spec => []IInv
BY InitLemma, StepLemma, PTL DEF Spec

(* Every reachable state is well typed: the tables hold rows of their model *)
(* and each worker a request that fits the statement it is at.              *)
THEOREM TypeCorrect == Spec => []TypeOK
<1>1. IInv => TypeOK
    BY DEF IInv
<1> QED BY <1>1, Inductive, PTL

(* A pickup of a proposal is there exactly when both sides have accepted,   *)
(* for any number of proposals, connections and overlapping requests.       *)
THEOREM PickupsNeedBoth == Spec => []PickupIffBothAccepted
<1>1. IInv => PickupIffBothAccepted
    BY DEF IInv
<1> QED BY <1>1, Inductive, PTL

(* The row lock of AcceptDeliveryProposal is enough: two acceptances never  *)
(* make two pickups of one proposal.                                        *)
THEOREM PickupsUnique == Spec => []OnePickupPerProposal
<1>1. IInv => OnePickupPerProposal
    BY DEF IInv
<1> QED BY <1>1, Inductive, PTL

(* The existingPickup branch of AcceptDeliveryProposal is dead code without *)
(* reseeding: a proposal about to be promoted is pending and has no pickup. *)
THEOREM PromotedOnce == Spec => []PromotesOnce
<1>1. IInv => PromotesOnce
  <2>1. ASSUME IInv, NEW w \in Workers, pc[w] = "accept_promote"
        PROVE  PickupsOf(call[w].proposal) = {}
      BY <2>1, AtPromote DEF PickupsOf, HasPickup
  <2> QED BY <2>1 DEF PromotesOnce
<1> QED BY <1>1, Inductive, PTL

(* No interleaving strands a donation in a status nothing can move on.      *)
THEOREM NothingStranded == Spec => []StatusBacked
<1>1. IInv => StatusBacked
    BY DEF IInv
<1> QED BY <1>1, Inductive, PTL

-----------------------------------------------------------------------------
(* The order of the locks *)

(* Where a transaction may hold a lock.                                     *)
Late == {"accept_stamp", "accept_promote", "accept_assign", "reject_donation",
         "mark_donation", "commit"}

(* A donation is locked last: who holds one only has to commit.             *)
LocksHeld ==
    \A w \in Workers, r \in Rows :
        lock[r] = w => /\ pc[w] \in Late
                       /\ r \in Donations => pc[w] = "commit"

LEMMA LockTaken ==
    ASSUME TypeOK, LocksHeld, NEW w \in Workers, NEW row \in Rows, NEW at, NEW to \in Late,
           Advance(w, at, to), Acquire(w, row), at # "commit",
           row \in Donations => to = "commit"
    PROVE  LocksHeld'
<1> SUFFICES ASSUME NEW v \in Workers, NEW r \in Rows, lock'[r] = v
             PROVE  pc'[v] \in Late /\ (r \in Donations => pc'[v] = "commit")
    BY DEF LocksHeld
<1>1. /\ pc[w] = at /\ pc'[w] = to
      /\ v # w => pc'[v] = pc[v]
    BY DEF Advance, TypeOK
<1>2. IF r = row THEN v = w ELSE lock[r] = v
    BY DEF Acquire, TypeOK
<1>3. CASE v = w
    BY <1>1, <1>2, <1>3 DEF LocksHeld
<1>4. CASE v # w
    BY <1>1, <1>2, <1>4 DEF LocksHeld
<1> QED BY <1>3, <1>4

LEMMA LocksKept ==
    ASSUME TypeOK, LocksHeld, NEW w \in Workers, UNCHANGED lock,
           \A v \in Workers \ {w} : pc'[v] = pc[v],
           \/ pc[w] = "idle"
           \/ pc[w] = "accept_promote" /\ pc'[w] \in Late
    PROVE  LocksHeld'
<1> SUFFICES ASSUME NEW v \in Workers, NEW r \in Rows, lock'[r] = v
             PROVE  pc'[v] \in Late /\ (r \in Donations => pc'[v] = "commit")
    BY DEF LocksHeld
<1>1. pc[v] \in Late /\ (r \in Donations => pc[v] = "commit")
    BY DEF LocksHeld
<1> QED BY <1>1 DEF Late

LEMMA LocksDropped ==
    ASSUME TypeOK, LocksHeld, NEW w \in Workers, Finish(w)
    PROVE  LocksHeld'
<1> SUFFICES ASSUME NEW v \in Workers, NEW r \in Rows, lock'[r] = v
             PROVE  pc'[v] \in Late /\ (r \in Donations => pc'[v] = "commit")
    BY DEF LocksHeld
<1>1. v # w /\ lock[r] = v
    BY NoneAssumption DEF Finish, Unlocked
<1>2. pc'[v] = pc[v]
    BY <1>1 DEF Finish, TypeOK
<1> QED BY <1>1, <1>2 DEF LocksHeld

(* A request's rows, by the label it is at.                                 *)
LEMMA RowsOfCall ==
    ASSUME IInv, NEW w \in Workers
    PROVE  /\ pc[w] = "create_write" => call[w].donation \in Donations
           /\ pc[w] \in {"accept_lock", "accept_stamp", "reject_proposal"}
                 => call[w].proposal \in Proposals
           /\ pc[w] \in {"accept_assign", "reject_donation"}
                 => proposal[call[w].proposal].donation \in Donations
           /\ pc[w] = "mark_pickup" => call[w].pickup \in Pickups
           /\ pc[w] = "mark_donation" => pickup[call[w].pickup].donation \in Donations
<1>1. Tx(w) /\ TypeOK
    BY DEF IInv
<1>2. CASE IdleTx(w)
    BY <1>2 DEF IdleTx
<1>3. CASE CreateTx(w)
    BY <1>1, <1>3 DEF CreateTx, TypeOK, IsTable
<1>4. CASE AcceptTx(w)
    BY <1>1, <1>4 DEF AcceptTx, Stamping, Promoting, TypeOK, IsTable, ProposalRow
<1>5. CASE RejectTx(w)
    BY <1>1, <1>5 DEF RejectTx, TypeOK, IsTable, ProposalRow
<1>6. CASE MarkTx(w)
    BY <1>1, <1>6 DEF MarkTx, TypeOK, IsTable, PickupRow
<1> QED BY <1>1, <1>2, <1>3, <1>4, <1>5, <1>6 DEF Tx

LEMMA StartLocks ==
    ASSUME IInv, LocksHeld, NEW w \in Workers, Start(w)
    PROVE  LocksHeld'
<1>1. PICK c, next : Begin(w, c, next)
    BY DEF Start, CreateRead, AcceptBegin, RejectRead, PickUpRead, DeliverRead
<1>2. /\ UNCHANGED lock /\ pc[w] = "idle"
      /\ \A v \in Workers \ {w} : pc'[v] = pc[v]
    BY <1>1 DEF Begin, IInv, TypeOK
<1> QED BY <1>2, LocksKept DEF IInv

LEMMA StepLocks ==
    ASSUME IInv, LocksHeld, NEW w \in Workers, Step(w)
    PROVE  LocksHeld'
<1> USE DEF Late, Rows
<1>1. TypeOK
    BY DEF IInv
<1>2. CASE CreateWrite(w)
  <2>1. Advance(w, "create_write", "commit") /\ Acquire(w, call[w].donation)
      BY <1>2 DEF CreateWrite
  <2>2. call[w].donation \in Rows
      BY <2>1, RowsOfCall DEF Advance
  <2> QED BY <1>1, <2>1, <2>2, LockTaken
<1>3. CASE AcceptLock(w)
  <2>1. Advance(w, "accept_lock", "accept_stamp") /\ Acquire(w, call[w].proposal)
      BY <1>3 DEF AcceptLock
  <2>2. call[w].proposal \in Rows \ Donations
      BY <2>1, RowsOfCall, IdsAssumption DEF Advance
  <2> QED BY <1>1, <2>1, <2>2, LockTaken
<1>4. CASE AcceptStamp(w)
  <2>1. PICK to \in {"accept_promote", "commit"} :
            Advance(w, "accept_stamp", to) /\ Acquire(w, call[w].proposal)
      BY <1>4 DEF AcceptStamp
  <2>2. call[w].proposal \in Rows \ Donations
      BY <2>1, RowsOfCall, IdsAssumption DEF Advance
  <2> QED BY <1>1, <2>1, <2>2, LockTaken
<1>5. CASE AcceptPromote(w)
  <2>1. UNCHANGED lock /\ Advance(w, "accept_promote", "accept_assign")
      BY <1>5 DEF AcceptPromote
  <2>2. /\ pc[w] = "accept_promote" /\ pc'[w] \in Late
        /\ \A v \in Workers \ {w} : pc'[v] = pc[v]
      BY <1>1, <2>1 DEF Advance, TypeOK
  <2> QED BY <1>1, <2>1, <2>2, LocksKept
<1>6. CASE AcceptAssign(w)
  <2>1. /\ Advance(w, "accept_assign", "commit")
        /\ Acquire(w, proposal[call[w].proposal].donation)
      BY <1>6 DEF AcceptAssign
  <2>2. proposal[call[w].proposal].donation \in Rows
      BY <2>1, RowsOfCall DEF Advance
  <2> QED BY <1>1, <2>1, <2>2, LockTaken
<1>7. CASE RejectProposal(w)
  <2>1. /\ Advance(w, "reject_proposal", "reject_donation")
        /\ Acquire(w, call[w].proposal)
      BY <1>7 DEF RejectProposal
  <2>2. call[w].proposal \in Rows \ Donations
      BY <2>1, RowsOfCall, IdsAssumption DEF Advance
  <2> QED BY <1>1, <2>1, <2>2, LockTaken
<1>8. CASE RejectDonation(w)
  <2>1. /\ Advance(w, "reject_donation", "commit")
        /\ Acquire(w, proposal[call[w].proposal].donation)
      BY <1>8 DEF RejectDonation
  <2>2. proposal[call[w].proposal].donation \in Rows
      BY <2>1, RowsOfCall DEF Advance
  <2> QED BY <1>1, <2>1, <2>2, LockTaken
<1>9. CASE MarkPickup(w)
  <2>1. Advance(w, "mark_pickup", "mark_donation") /\ Acquire(w, call[w].pickup)
      BY <1>9 DEF MarkPickup
  <2>2. call[w].pickup \in Rows \ Donations
      BY <2>1, RowsOfCall, IdsAssumption DEF Advance
  <2> QED BY <1>1, <2>1, <2>2, LockTaken
<1>10. CASE MarkDonation(w)
  <2>1. /\ Advance(w, "mark_donation", "commit")
        /\ Acquire(w, pickup[call[w].pickup].donation)
      BY <1>10 DEF MarkDonation
  <2>2. pickup[call[w].pickup].donation \in Rows
      BY <2>1, RowsOfCall DEF Advance
  <2> QED BY <1>1, <2>1, <2>2, LockTaken
<1>11. CASE AcceptRefuse(w) \/ Commit(w)
  <2>1. Finish(w)
      BY <1>11 DEF AcceptRefuse, Rollback, Commit
  <2> QED BY <1>1, <2>1, LocksDropped
<1> QED BY <1>2, <1>3, <1>4, <1>5, <1>6, <1>7, <1>8, <1>9, <1>10, <1>11 DEF Step

LEMMA LockStep == IInv /\ LocksHeld /\ [Next]_vars => LocksHeld'
<1> SUFFICES ASSUME IInv, LocksHeld, [Next]_vars PROVE LocksHeld'
    OBVIOUS
<1>1. CASE \E u \in Donors, d \in Donations : CreateDonation(u, d)
    BY <1>1 DEF CreateDonation, LocksHeld
<1>2. ASSUME NEW w \in Workers, Serve(w) PROVE LocksHeld'
  <2>1. Fail(w) => Finish(w)
      BY DEF Fail, Rollback
  <2> QED BY <1>2, <2>1, StartLocks, StepLocks, LocksDropped DEF Serve, IInv
<1>3. CASE UNCHANGED vars
    BY <1>3 DEF vars, LocksHeld
<1> QED BY <1>1, <1>2, <1>3 DEF Next

(* A worker that holds a lock waits at most for a donation.                 *)
LEMMA HolderWaits ==
    ASSUME IInv, NEW v \in Workers, pc[v] \in Late
    PROVE  /\ Needs(v) \subseteq Donations \/ WaitsFor(v) = {}
           /\ pc[v] = "commit" => WaitsFor(v) = {}
<1>1. Tx(v)
    BY DEF IInv
<1>2. CASE pc[v] = "accept_stamp"
  <2>1. lock[call[v].proposal] = v
      BY <1>1, <1>2 DEF Tx, IdleTx, CreateTx, AcceptTx, RejectTx, MarkTx
  <2>2. Needs(v) = {call[v].proposal}
      BY <1>2 DEF Needs
  <2> QED BY <1>2, <2>1, <2>2 DEF WaitsFor
<1>3. CASE pc[v] \in {"accept_promote", "commit"}
    BY <1>3 DEF Needs, WaitsFor
<1>4. CASE pc[v] \in {"accept_assign", "reject_donation"}
  <2>1. Needs(v) = {proposal[call[v].proposal].donation}
      BY <1>4 DEF Needs
  <2> QED BY <1>4, <2>1, RowsOfCall
<1>5. CASE pc[v] = "mark_donation"
  <2>1. Needs(v) = {pickup[call[v].pickup].donation}
      BY <1>5 DEF Needs
  <2> QED BY <1>5, <2>1, RowsOfCall
<1> QED BY <1>2, <1>3, <1>4, <1>5 DEF Late

LEMMA NeedsRows ==
    ASSUME IInv, NEW w \in Workers
    PROVE  Needs(w) \subseteq Rows
BY RowsOfCall DEF Needs, Rows

LEMMA HoldersFound ==
    ASSUME IInv, LocksHeld, NEW w \in Workers, NEW v \in WaitsFor(w)
    PROVE  /\ v \in Workers /\ pc[v] \in Late
           /\ Needs(w) \subseteq Donations => pc[v] = "commit"
<1>1. PICK r \in Needs(w) : v = lock[r] /\ v # None
    BY DEF WaitsFor
<1>2. r \in Rows
    BY NeedsRows
<1>3. v \in Workers
    BY <1>1, <1>2 DEF IInv, TypeOK
<1> QED BY <1>1, <1>2, <1>3 DEF LocksHeld

(* No set of overlapping requests deadlocks, whatever their number, because *)
(* proposals and pickups are locked before their donation.                  *)
THEOREM NoDeadlock == Spec => []WaitsAreShort
<1>1. Init => LocksHeld
    BY NoneAssumption DEF Init, LocksHeld
<1>2. IInv /\ LocksHeld => WaitsAreShort
  <2> SUFFICES ASSUME IInv, LocksHeld, NEW w \in Workers, NEW v \in WaitsFor(w),
                      NEW x \in WaitsFor(v)
               PROVE  WaitsFor(x) = {}
      BY DEF WaitsAreShort
  <2>1. v \in Workers /\ pc[v] \in Late
      BY HoldersFound
  <2>2. Needs(v) \subseteq Donations
      BY <2>1, HolderWaits
  <2>3. x \in Workers /\ pc[x] = "commit"
      BY <2>1, <2>2, HoldersFound
  <2> QED BY <2>3, HolderWaits DEF Late
<1> QED BY <1>1, <1>2, LockStep, Inductive, PTL DEF Spec

-----------------------------------------------------------------------------
(* Picked up before delivered *)

PickedRow(row) ==
    /\ row.status = "picked_up" => row.pickedUp
    /\ row.status = "delivered" => row.delivered
    /\ row.delivered => row.pickedUp

(* A report of a delivery in flight is about food that was picked up: it    *)
(* read so, and no later write takes it back.                               *)
Reporting(w) == call[w].op = "deliver" => pickup[call[w].pickup].pickedUp
PickedFirst ==
    /\ \A k \in DOMAIN pickup : PickedRow(pickup[k])
    /\ \A w \in Workers : Reporting(w)

(* What a transaction has staged for the pickups.                           *)
LEMMA StagedPickups ==
    ASSUME IInv, NEW w \in Workers
    PROVE  \/ staged[w].pickup = NoRow
           \/ \E k \in Pickups \ DOMAIN pickup, p \in DOMAIN proposal :
                  staged[w].pickup = Only(k, NewPickup(p))
           \/ /\ call[w].op \in {"pick_up", "deliver"}
              /\ call[w].pickup \in DOMAIN pickup
              /\ staged[w].pickup
                    = Only(call[w].pickup, Marked(call[w].op, pickup[call[w].pickup]))
<1>1. Tx(w)
    BY DEF IInv
<1>2. Clean(w) => staged[w].pickup = NoRow
    BY DEF Clean, NoWrites
<1>3. AcceptTx(w) => \/ staged[w].pickup = NoRow
                     \/ \E k \in Pickups \ DOMAIN pickup, p \in DOMAIN proposal :
                            staged[w].pickup = Only(k, NewPickup(p))
    BY <1>2 DEF AcceptTx, Stamping, Promoting
<1> QED BY <1>1, <1>2, <1>3 DEF Tx, IdleTx, CreateTx, RejectTx, MarkTx

LEMMA MarkedPicked ==
    ASSUME NEW op \in {"pick_up", "deliver"}, NEW row \in PickupRow, PickedRow(row),
           op = "deliver" => row.pickedUp
    PROVE  PickedRow(Marked(op, row)) /\ Marked(op, row).pickedUp
BY DEF Marked, PickedRow, PickupRow

LEMMA CommitPicked ==
    ASSUME IInv, PickedFirst, NEW w \in Workers, Commit(w)
    PROVE  PickedFirst'
<1> DEFINE new == staged[w].pickup
<1>1. pickup' = Applied(new, pickup)
    BY DEF Commit
<1>2. ASSUME NEW k \in DOMAIN new
      PROVE  PickedRow(new[k]) /\ (k \in DOMAIN pickup => new[k].pickedUp)
  <2>1. CASE new = NoRow
      BY <1>2, <2>1, EmptyTable
  <2>2. ASSUME NEW l \in Pickups \ DOMAIN pickup, NEW p \in DOMAIN proposal,
               new = Only(l, NewPickup(p))
        PROVE  PickedRow(new[k]) /\ k \notin DOMAIN pickup
    <3>1. k = l /\ new[k] = NewPickup(p)
        BY <1>2, <2>2 DEF Only
    <3> QED BY <3>1 DEF NewPickup, PickedRow
  <2>3. ASSUME call[w].op \in {"pick_up", "deliver"}, call[w].pickup \in DOMAIN pickup,
               new = Only(call[w].pickup, Marked(call[w].op, pickup[call[w].pickup]))
        PROVE  PickedRow(new[k]) /\ new[k].pickedUp
    <3>1. k = call[w].pickup /\ new[k] = Marked(call[w].op, pickup[k])
        BY <1>2, <2>3 DEF Only
    <3>2. pickup[k] \in PickupRow
        BY <2>3, <3>1 DEF IInv, TypeOK, IsTable
    <3>3. PickedRow(pickup[k]) /\ (call[w].op = "deliver" => pickup[k].pickedUp)
        BY <2>3, <3>1 DEF PickedFirst, Reporting
    <3> QED BY <2>3, <3>1, <3>2, <3>3, MarkedPicked
  <2> QED BY <2>1, <2>2, <2>3, StagedPickups
<1>3. ASSUME NEW k \in DOMAIN pickup'
      PROVE  PickedRow(pickup'[k])
    BY <1>1, <1>2 DEF Applied, PickedFirst
<1>4. ASSUME NEW v \in Workers
      PROVE  Reporting(v)'
  <2>1. call'[v] = IF v = w THEN NoCall ELSE call[v]
      BY DEF Commit, Finish, IInv, TypeOK
  <2>2. CASE v = w
      BY <2>1, <2>2 DEF Reporting, NoCall
  <2>3. ASSUME v # w, call[v].op = "deliver"
        PROVE  pickup'[call[v].pickup].pickedUp
    <3>1. call[v].pickup \in DOMAIN pickup
        BY <2>3 DEF IInv, Tx, IdleTx, CreateTx, AcceptTx, RejectTx, MarkTx, NoCall
    <3>2. pickup[call[v].pickup].pickedUp
        BY <2>3 DEF PickedFirst, Reporting
    <3> QED BY <1>1, <1>2, <3>1, <3>2 DEF Applied
  <2> QED BY <2>1, <2>2, <2>3 DEF Reporting
<1> QED BY <1>3, <1>4 DEF PickedFirst

(* Steps that leave the pickups alone and begin no report of a delivery.    *)
LEMMA PickedKept ==
    ASSUME PickedFirst, pickup' = pickup,
           \A v \in Workers : call'[v] = call[v] \/ Reporting(v)'
    PROVE  PickedFirst'
BY DEF PickedFirst, Reporting

LEMMA StartPicked ==
    ASSUME IInv, PickedFirst, NEW w \in Workers, Start(w)
    PROVE  PickedFirst'
<1>1. ASSUME NEW c, NEW to, Begin(w, c, to), c.op = "deliver" => pickup[c.pickup].pickedUp
      PROVE  PickedFirst'
  <2>1. pickup' = pickup /\ call' = [call EXCEPT ![w] = c]
      BY <1>1 DEF Begin, tables
  <2>2. \A v \in Workers : call'[v] = IF v = w THEN c ELSE call[v]
      BY <2>1 DEF IInv, TypeOK
  <2>3. \A v \in Workers : call'[v] = call[v] \/ Reporting(v)'
      BY <1>1, <2>1, <2>2 DEF Reporting
  <2> QED BY <2>1, <2>3, PickedKept
<1>2. CASE CreateRead(w)
    BY <1>1, <1>2 DEF CreateRead
<1>3. CASE AcceptBegin(w) \/ RejectRead(w)
    BY <1>1, <1>3 DEF AcceptBegin, RejectRead
<1>4. CASE PickUpRead(w)
    BY <1>1, <1>4 DEF PickUpRead
<1>5. CASE DeliverRead(w)
  <2>1. PICK u \in Volunteers \cup Receivers, k \in DOMAIN pickup :
            /\ Deliverable(k)
            /\ Begin(w, [op |-> "deliver", user |-> u, pickup |-> k], "mark_pickup")
      BY <1>5 DEF DeliverRead
  <2>2. pickup[k].pickedUp
      BY <2>1 DEF Deliverable, PickedFirst, PickedRow
  <2> QED BY <1>1, <2>1, <2>2
<1> QED BY <1>2, <1>3, <1>4, <1>5 DEF Start

LEMMA RollbackPicked ==
    ASSUME IInv, PickedFirst, NEW w \in Workers, Rollback(w)
    PROVE  PickedFirst'
<1>1. pickup' = pickup /\ call' = [call EXCEPT ![w] = NoCall]
    BY DEF Rollback, Finish, tables
<1>2. \A v \in Workers : call'[v] = call[v] \/ Reporting(v)'
    BY <1>1 DEF Reporting, NoCall, IInv, TypeOK
<1> QED BY <1>1, <1>2, PickedKept

LEMMA PickedStep == IInv /\ PickedFirst /\ [Next]_vars => PickedFirst'
<1> SUFFICES ASSUME IInv, PickedFirst, [Next]_vars PROVE PickedFirst'
    OBVIOUS
<1>1. CASE \E u \in Donors, d \in Donations : CreateDonation(u, d)
    BY <1>1, PickedKept DEF CreateDonation
<1>2. ASSUME NEW w \in Workers, Step(w) PROVE PickedFirst'
  <2>1. CASE Commit(w)
      BY <2>1, CommitPicked
  <2>2. CASE AcceptRefuse(w)
      BY <2>2, RollbackPicked DEF AcceptRefuse
  <2>3. CASE ~ Commit(w) /\ ~ AcceptRefuse(w)
    <3>1. \E at, to : Advance(w, at, to)
        BY <1>2, <2>3 DEF Step, CreateWrite, AcceptLock, AcceptStamp, AcceptPromote,
                          AcceptAssign, RejectProposal, RejectDonation, MarkPickup,
                          MarkDonation
    <3>2. pickup' = pickup /\ call' = call
        BY <3>1 DEF Advance, tables
    <3> QED BY <3>2, PickedKept
  <2> QED BY <2>1, <2>2, <2>3
<1>3. CASE \E w \in Workers : Serve(w)
    BY <1>2, <1>3, StartPicked, RollbackPicked DEF Serve, Fail
<1>4. CASE UNCHANGED vars
    BY <1>4, PickedKept DEF vars
<1> QED BY <1>1, <1>3, <1>4 DEF Next

(* However reports overlap and repeat, stale reads included, what is        *)
(* recorded as delivered has been recorded as picked up before.             *)
THEOREM PickedUpFirst == Spec => []DeliveredWasPickedUp
<1>1. Init => PickedFirst
    BY EmptyTable DEF Init, PickedFirst, Reporting, NoCall
<1>2. PickedFirst => DeliveredWasPickedUp
    BY DEF PickedFirst, PickedRow, DeliveredWasPickedUp
<1> QED BY <1>1, <1>2, PickedStep, Inductive, PTL DEF Spec

-----------------------------------------------------------------------------
(* Proposals only move forward *)

Named(row) == (row.status = "rejected") <=> (row.rejectedBy # None)
Forwarding(w) ==
    \A p \in DOMAIN staged[w].proposal :
        /\ Named(staged[w].proposal[p])
        /\ p \in DOMAIN proposal => ForwardOnly(proposal[p], staged[w].proposal[p])
MovingForward ==
    /\ \A p \in DOMAIN proposal : Named(proposal[p])
    /\ \A w \in Workers : Forwarding(w)

LEMMA SameIsForward ==
    ASSUME NEW row, Named(row)
    PROVE  ForwardOnly(row, row)
BY DEF Named, ForwardOnly

(* A statement that leaves the table alone and stages rows that are ahead.  *)
LEMMA ForwardKept ==
    ASSUME MovingForward, NEW w \in Workers, proposal' = proposal,
           \A v \in Workers \ {w} : staged'[v].proposal = staged[v].proposal,
           Forwarding(w)'
    PROVE  MovingForward'
BY DEF MovingForward, Forwarding

LEMMA ForwardStaged ==
    ASSUME IInv, MovingForward, NEW w \in Workers, NEW at, NEW to, Advance(w, at, to),
           NEW d, NEW new, NEW k, NEW notes, Stage(w, d, new, k, notes),
           \A p \in DOMAIN new :
               /\ Named(new[p])
               /\ p \in DOMAIN proposal => ForwardOnly(proposal[p], new[p])
    PROVE  MovingForward'
<1>1. /\ \A v \in Workers \ {w} : staged'[v] = staged[v]
      /\ staged'[w].proposal = new
    BY DEF Stage, IInv, TypeOK
<1>2. proposal' = proposal
    BY DEF Advance, tables
<1>3. Forwarding(w)'
    BY <1>1, <1>2 DEF Forwarding
<1> QED BY <1>1, <1>2, <1>3, ForwardKept

LEMMA StampForward ==
    ASSUME IInv, MovingForward, NEW w \in Workers, AcceptStamp(w)
    PROVE  MovingForward'
<1> DEFINE p == call[w].proposal
           row == Stamped(p, call[w].user)
<1>1. p \in DOMAIN proposal /\ Pending(p)
    BY DEF IInv, AcceptStamp, Advance, Tx, IdleTx, CreateTx, AcceptTx, RejectTx, MarkTx
<1>2. proposal[p] \in ProposalRow /\ Named(proposal[p])
    BY <1>1 DEF IInv, TypeOK, IsTable, MovingForward
<1>3. Named(row) /\ ForwardOnly(proposal[p], row)
    BY <1>1, <1>2 DEF Stamped, Named, ForwardOnly, ProposalRow, Pending
<1>4. /\ \E to : Advance(w, "accept_stamp", to)
      /\ \E notes : Stage(w, NoRow, Only(p, row), NoRow, notes)
    BY DEF AcceptStamp
<1>5. DOMAIN Only(p, row) = {p} /\ Only(p, row)[p] = row
    BY OneRow
<1> HIDE DEF row
<1> QED BY <1>3, <1>4, <1>5, ForwardStaged

LEMMA PromoteForward ==
    ASSUME IInv, MovingForward, NEW w \in Workers, AcceptPromote(w)
    PROVE  MovingForward'
<1> DEFINE p == call[w].proposal
           old == staged[w].proposal[p]
           row == [old EXCEPT !.status = "accepted"]
<1>1. pc[w] = "accept_promote" /\ Advance(w, "accept_promote", "accept_assign")
    BY DEF AcceptPromote, Advance
<1>2. /\ AcceptTx(w) /\ Stamping(w, p) /\ Pending(p) /\ p \in DOMAIN proposal
      /\ old \in ProposalRow
    BY <1>1, AtPromote
<1>3. p \in DOMAIN staged[w].proposal
    BY <1>1, <1>2 DEF AcceptTx
<1>4. Named(old) /\ ForwardOnly(proposal[p], old)
    BY <1>2, <1>3 DEF MovingForward, Forwarding
<1>5. old.status = "pending" /\ proposal[p].status = "pending"
    BY <1>2 DEF Stamping, Pending
<1>6. Named(row) /\ ForwardOnly(proposal[p], row)
    BY <1>2, <1>4, <1>5 DEF Named, ForwardOnly, ProposalRow
<1>7. \E k, notes : Stage(w, NoRow, Only(p, row), k, notes)
    BY DEF AcceptPromote, Promoted
<1>8. DOMAIN Only(p, row) = {p} /\ Only(p, row)[p] = row
    BY OneRow
<1> HIDE DEF row
<1> QED BY <1>1, <1>6, <1>7, <1>8, ForwardStaged

LEMMA RejectForward ==
    ASSUME IInv, MovingForward, NEW w \in Workers, RejectProposal(w)
    PROVE  MovingForward'
<1> DEFINE p == call[w].proposal
           row == RejectedBy(p, call[w].user)
<1>1. /\ Advance(w, "reject_proposal", "reject_donation")
      /\ Stage(w, NoRow, Only(p, row), NoRow, {})
    BY DEF RejectProposal
<1>2. RejectTx(w)
    BY <1>1 DEF Advance, IInv, Tx, IdleTx, CreateTx, AcceptTx, MarkTx, Stamping, Promoting
<1>3. proposal[p] \in ProposalRow /\ call[w].user \in Users
    BY <1>2 DEF RejectTx, IInv, TypeOK, IsTable, Call, NoCall
<1>4. Named(row) /\ ForwardOnly(proposal[p], row)
    BY <1>3, NoneAssumption DEF RejectedBy, Named, ForwardOnly, ProposalRow
<1>5. DOMAIN Only(p, row) = {p} /\ Only(p, row)[p] = row
    BY OneRow
<1> HIDE DEF row
<1> QED BY <1>1, <1>4, <1>5, ForwardStaged

LEMMA CreateForward ==
    ASSUME IInv, MovingForward, NEW w \in Workers, CreateWrite(w)
    PROVE  MovingForward'
<1> DEFINE p == call[w].proposal
           row == NewProposal(call[w])
<1>1. Advance(w, "create_write", "commit")
    BY DEF CreateWrite
<1>2. p \notin DOMAIN proposal
    BY <1>1 DEF Advance, IInv, Tx, IdleTx, CreateTx, AcceptTx, RejectTx, MarkTx,
                Stamping, Promoting
<1>3. Named(row)
    BY DEF NewProposal, Named
<1>4. \E d, notes : Stage(w, d, Only(p, row), NoRow, notes)
    BY DEF CreateWrite
<1>5. DOMAIN Only(p, row) = {p} /\ Only(p, row)[p] = row
    BY OneRow
<1> HIDE DEF row
<1> QED BY <1>1, <1>2, <1>3, <1>4, <1>5, ForwardStaged

(* The other statements stage no proposal, or the one staged before.        *)
LEMMA OtherForward ==
    ASSUME IInv, MovingForward, NEW w \in Workers,
           AcceptAssign(w) \/ RejectDonation(w) \/ MarkPickup(w) \/ MarkDonation(w)
    PROVE  MovingForward'
<1>1. \A p \in DOMAIN staged[w].proposal :
          /\ Named(staged[w].proposal[p])
          /\ p \in DOMAIN proposal => ForwardOnly(proposal[p], staged[w].proposal[p])
    BY DEF MovingForward, Forwarding
<1>2. CASE AcceptAssign(w) \/ RejectDonation(w)
  <2>1. /\ \E at, to : Advance(w, at, to)
        /\ \E d, k, notes : Stage(w, d, staged[w].proposal, k, notes)
      BY <1>2 DEF AcceptAssign, RejectDonation
  <2> QED BY <1>1, <2>1, ForwardStaged
<1>3. CASE MarkPickup(w) \/ MarkDonation(w)
  <2>1. /\ \E at, to : Advance(w, at, to)
        /\ \E d, k, notes : Stage(w, d, NoRow, k, notes)
      BY <1>3 DEF MarkPickup, MarkDonation
  <2>2. DOMAIN NoRow = {}
      BY DEF NoRow
  <2> QED BY <2>1, <2>2, ForwardStaged
<1> QED BY <1>2, <1>3

(* What a commit does to a row, and to what others have staged for it.      *)
LEMMA CommitForward ==
    ASSUME IInv, MovingForward, NEW w \in Workers, Commit(w)
    PROVE  /\ MovingForward'
           /\ \A p \in DOMAIN proposal :
                  p \in DOMAIN proposal' /\ ForwardOnly(proposal[p], proposal'[p])
<1> DEFINE new == staged[w].proposal
<1>1. /\ DOMAIN proposal' = DOMAIN new \cup DOMAIN proposal
      /\ \A p \in DOMAIN new : proposal'[p] = new[p]
      /\ \A p \in DOMAIN proposal \ DOMAIN new : proposal'[p] = proposal[p]
    BY CommitTables
<1>2. \A p \in DOMAIN new :
          Named(new[p]) /\ (p \in DOMAIN proposal => ForwardOnly(proposal[p], new[p]))
    BY DEF MovingForward, Forwarding
<1>3. \A p \in DOMAIN proposal' : Named(proposal'[p])
    BY <1>1, <1>2 DEF MovingForward
<1>4. ASSUME NEW v \in Workers PROVE Forwarding(v)'
  <2>1. staged'[v] = IF v = w THEN NoWrites ELSE staged[v]
      BY DEF Commit, Finish, IInv, TypeOK
  <2>2. CASE v = w
      BY <2>1, <2>2 DEF Forwarding, NoWrites, NoRow
  <2>3. CASE v # w
    <3>1. staged'[v].proposal = staged[v].proposal
        BY <2>1, <2>3
    <3>2. ASSUME NEW p \in DOMAIN staged[v].proposal, p \in DOMAIN new PROVE FALSE
      <4>1. CASE p \in DOMAIN proposal
          BY <2>3, <3>2, <4>1, WrittenProposalLocked
      <4>2. CASE p \notin DOMAIN proposal
          BY <2>3, <3>2, <4>2, WrittenProposalLocked DEF IInv, FreshIds
      <4> QED BY <4>1, <4>2
    <3>3. \A p \in DOMAIN staged[v].proposal :
              /\ Named(staged[v].proposal[p])
              /\ p \in DOMAIN proposal => ForwardOnly(proposal[p], staged[v].proposal[p])
        BY DEF MovingForward, Forwarding
    <3> QED BY <1>1, <3>1, <3>2, <3>3 DEF Forwarding
  <2> QED BY <2>2, <2>3
<1>5. ASSUME NEW p \in DOMAIN proposal
      PROVE  p \in DOMAIN proposal' /\ ForwardOnly(proposal[p], proposal'[p])
    BY <1>1, <1>2, SameIsForward DEF MovingForward
<1> QED BY <1>3, <1>4, <1>5 DEF MovingForward

LEMMA RollbackForward ==
    ASSUME IInv, MovingForward, NEW w \in Workers, Rollback(w)
    PROVE  MovingForward'
<1>1. proposal' = proposal /\ staged' = [staged EXCEPT ![w] = NoWrites]
    BY DEF Rollback, Finish, tables
<1>2. /\ \A v \in Workers \ {w} : staged'[v] = staged[v]
      /\ staged'[w].proposal = NoRow
    BY <1>1 DEF IInv, TypeOK, NoWrites
<1>3. Forwarding(w)'
    BY <1>2 DEF Forwarding, NoRow
<1> QED BY <1>1, <1>2, <1>3, ForwardKept

LEMMA UnstagedForward ==
    ASSUME MovingForward, proposal' = proposal, staged' = staged
    PROVE  MovingForward'
BY DEF MovingForward, Forwarding

LEMMA ForwardStep ==
    ASSUME IInv, MovingForward, [Next]_vars
    PROVE  /\ MovingForward'
           /\ proposal' = proposal \/ \E w \in Workers : Commit(w)
<1>1. CASE \E u \in Donors, d \in Donations : CreateDonation(u, d)
    BY <1>1, UnstagedForward DEF CreateDonation
<1>2. ASSUME NEW w \in Workers, Start(w) \/ AcceptLock(w)
      PROVE  MovingForward' /\ proposal' = proposal
  <2>1. proposal' = proposal /\ staged' = staged
      BY <1>2 DEF Start, CreateRead, AcceptBegin, RejectRead, PickUpRead, DeliverRead,
                  Begin, AcceptLock, Advance, tables
  <2> QED BY <2>1, UnstagedForward
<1>3. ASSUME NEW w \in Workers, AcceptRefuse(w) \/ Fail(w)
      PROVE  MovingForward' /\ proposal' = proposal
  <2>1. Rollback(w)
      BY <1>3 DEF AcceptRefuse, Fail
  <2> QED BY <2>1, RollbackForward DEF Rollback, tables
<1>4. ASSUME NEW w \in Workers, Step(w)
      PROVE  MovingForward' /\ (proposal' = proposal \/ Commit(w))
  <2>1. CASE Commit(w)
      BY <2>1, CommitForward
  <2>2. CASE AcceptLock(w) \/ AcceptRefuse(w)
      BY <1>2, <1>3, <2>2
  <2>3. CASE ~ Commit(w) /\ ~ AcceptLock(w) /\ ~ AcceptRefuse(w)
    <3>1. MovingForward'
        BY <1>4, <2>3, CreateForward, StampForward, PromoteForward, RejectForward,
           OtherForward DEF Step
    <3>2. \E at, to : Advance(w, at, to)
        BY <1>4, <2>3 DEF Step, CreateWrite, AcceptStamp, AcceptPromote, AcceptAssign,
                          RejectProposal, RejectDonation, MarkPickup, MarkDonation
    <3> QED BY <3>1, <3>2 DEF Advance, tables
  <2> QED BY <2>1, <2>2, <2>3
<1>5. CASE \E w \in Workers : Serve(w)
    BY <1>2, <1>3, <1>4, <1>5 DEF Serve
<1>6. CASE UNCHANGED vars
    BY <1>6, UnstagedForward DEF vars
<1> QED BY <1>1, <1>5, <1>6 DEF Next

(* No interleaving deletes or reopens a proposal, revives a rejected one or *)
(* withdraws an acceptance, though Reject acts on a row it read unlocked.   *)
THEOREM ForwardAlways == Spec => ProposalsMoveForward
<1>1. Init => MovingForward
  <2>1. DOMAIN NoRow = {} /\ NoWrites.proposal = NoRow
      BY DEF NoRow, NoWrites
  <2> QED BY <2>1 DEF Init, MovingForward, Forwarding
<1>2. IInv /\ MovingForward /\ [Next]_vars => MovingForward'
    BY ForwardStep
<1>3. IInv /\ MovingForward /\ [Next]_vars
          => [\A p \in DOMAIN proposal :
                 p \in DOMAIN proposal' /\ ForwardOnly(proposal[p], proposal'[p])]_vars
  <2> SUFFICES ASSUME IInv, MovingForward, [Next]_vars, NEW p \in DOMAIN proposal
               PROVE  p \in DOMAIN proposal' /\ ForwardOnly(proposal[p], proposal'[p])
      OBVIOUS
  <2>1. CASE proposal' = proposal
      BY <2>1, SameIsForward DEF MovingForward
  <2>2. CASE \E w \in Workers : Commit(w)
      BY <2>2, CommitForward
  <2> QED BY <2>1, <2>2, ForwardStep
<1> QED BY <1>1, <1>2, <1>3, Inductive, PTL DEF Spec, ProposalsMoveForward
-----------------------------------------------------------------------------
(* Notifications: a transaction in flight has staged, beside each row it    *)
(* will write, the notifications that row calls for, and no notification    *)
(* about a proposal or a pickup is there before the row itself.             *)

Committing(w) == pc[w] = "commit"

(* The proposal rows w has staged, and what it tells about them.            *)
TellsProposal(w, p) ==
    LET row   == staged[w].proposal[p]
        old   == proposal[p]
        notes == staged[w].notes
    IN
    /\ p \notin DOMAIN proposal =>
           /\ row.donation \in DOMAIN donation
           /\ Note("proposal_created", row.receiver, p) \in notes
           /\ Note("proposal_created", donation[row.donation].donor, p) \in notes
           /\ Stamps(row) = 0
           /\ row.status = "pending"
    /\ p \in DOMAIN proposal =>
           /\ SameDeal(old, row)
           /\ \/ Stamps(row) <= Stamps(old)
              \/ /\ Stamps(row) <= Stamps(old) + 1
                 /\ Note("proposal_accepted", row.volunteer, p) \in notes
           /\ row.status = "rejected" /\ Committing(w) =>
                  Note("proposal_rejected", row.volunteer, p) \in notes

(* The pickup rows w has staged, and what it tells about them.              *)
TellsPickup(w, k) ==
    LET row   == staged[w].pickup[k]
        old   == pickup[k]
        notes == staged[w].notes
    IN
    /\ k \notin DOMAIN pickup =>
           /\ ~ row.delivered
           /\ Committing(w) => Note("pickup_assigned", row.volunteer, k) \in notes
    /\ k \in DOMAIN pickup =>
           /\ row.volunteer = old.volunteer
           /\ row.receiver = old.receiver
           /\ row.delivered /\ Committing(w) =>
                  \/ old.delivered
                  \/ Note("pickup_completed", row.volunteer, k) \in notes
                  \/ Note("pickup_completed", row.receiver, k) \in notes

(* A note about a new row is staged by the transaction that adds the row.   *)
NewsOf(w, n) ==
    /\ n.type = "proposal_created" =>
           n.about \in DOMAIN staged[w].proposal \ DOMAIN proposal
    /\ n.type = "pickup_assigned" =>
           n.about \in DOMAIN staged[w].pickup \ DOMAIN pickup

SameDonor(w, d) ==
    d \in DOMAIN donation /\ staged[w].donation[d].donor = donation[d].donor

Tells(w) ==
    /\ \A d \in DOMAIN staged[w].donation : SameDonor(w, d)
    /\ \A p \in DOMAIN staged[w].proposal : TellsProposal(w, p)
    /\ \A k \in DOMAIN staged[w].pickup : TellsPickup(w, k)
    /\ \A n \in staged[w].notes : NewsOf(w, n)

(* No note is posted before the row it announces.                           *)
NotEarly ==
    \A n \in DOMAIN notification :
        /\ n.type = "proposal_created" => n.about \in DOMAIN proposal
        /\ n.type = "pickup_assigned" => n.about \in DOMAIN pickup

Telling ==
    /\ EveryTransitionNotified
    /\ NotEarly
    /\ \A w \in Workers : Tells(w)

(* EveryTransitionNotified, row by row.                                     *)
ProposalTold(p) ==
    LET row == proposal[p] IN
    /\ Copies(Note("proposal_created", row.receiver, p)) = 1
    /\ Copies(Note("proposal_created", donation[row.donation].donor, p)) = 1
    /\ Stamps(row) <= Copies(Note("proposal_accepted", row.volunteer, p))
    /\ row.status = "rejected" => 1 <= Copies(Note("proposal_rejected", row.volunteer, p))

PickupTold(k) ==
    LET row == pickup[k] IN
    /\ Copies(Note("pickup_assigned", row.volunteer, k)) = 1
    /\ row.delivered =>
           \/ 1 <= Copies(Note("pickup_completed", row.volunteer, k))
           \/ 1 <= Copies(Note("pickup_completed", row.receiver, k))

-----------------------------------------------------------------------------
(* Counting acceptances and copies *)

LEMMA StampsValue ==
    ASSUME NEW row, row.donorAccepted \in BOOLEAN, row.receiverAccepted \in BOOLEAN
    PROVE  Stamps(row) = (IF row.donorAccepted THEN 1 ELSE 0)
                            + (IF row.receiverAccepted THEN 1 ELSE 0)
<1> DEFINE S == {s \in {"donor", "receiver"} :
                    IF s = "donor" THEN row.donorAccepted ELSE row.receiverAccepted}
<1>1. S = (IF row.donorAccepted THEN {"donor"} ELSE {})
             \cup (IF row.receiverAccepted THEN {"receiver"} ELSE {})
    OBVIOUS
<1>2. /\ IsFiniteSet({}) /\ Cardinality({}) = 0
      /\ \A x : IsFiniteSet({x}) /\ Cardinality({x}) = 1
    BY FS_EmptySet, FS_Singleton
<1>3. Cardinality({"donor"} \cup {"receiver"}) = 2
  <2>1. IsFiniteSet({"donor"}) /\ Cardinality({"donor"}) = 1 /\ "receiver" \notin {"donor"}
      BY <1>2
  <2>2. Cardinality({"donor"} \cup {"receiver"}) = Cardinality({"donor"}) + 1
      BY <2>1, FS_AddElement, Zenon
  <2> QED BY <2>1, <2>2
<1>4. Stamps(row) = Cardinality(S)
    BY DEF Stamps
<1>5. CASE row.donorAccepted /\ row.receiverAccepted
    BY <1>1, <1>3, <1>4, <1>5
<1>6. CASE row.donorAccepted /\ ~ row.receiverAccepted
  <2>1. S = {"donor"}
      BY <1>1, <1>6
  <2> QED BY <1>2, <1>4, <1>6, <2>1
<1>7. CASE ~ row.donorAccepted /\ row.receiverAccepted
  <2>1. S = {"receiver"}
      BY <1>1, <1>7
  <2> QED BY <1>2, <1>4, <1>7, <2>1
<1>8. CASE ~ row.donorAccepted /\ ~ row.receiverAccepted
  <2>1. S = {}
      BY <1>1, <1>8
  <2> QED BY <1>2, <1>4, <1>8, <2>1
<1> QED BY <1>5, <1>6, <1>7, <1>8

LEMMA StampsOfRow ==
    ASSUME NEW row \in ProposalRow
    PROVE  /\ Stamps(row) = (IF row.donorAccepted THEN 1 ELSE 0)
                               + (IF row.receiverAccepted THEN 1 ELSE 0)
           /\ Stamps(row) \in 0 .. 2
<1>1. row.donorAccepted \in BOOLEAN /\ row.receiverAccepted \in BOOLEAN
    BY DEF ProposalRow
<1> QED BY <1>1, StampsValue

(* Posting never loses a copy, adds one of each note, and touches no other. *)
LEMMA PostedCopies ==
    ASSUME TypeOK, NEW notes \in SUBSET Notification, notification' = Posted(notes)
    PROVE  /\ \A n : Copies(n) \in Nat /\ Copies(n)' \in Nat
           /\ \A n : n \notin notes => Copies(n)' = Copies(n)
           /\ \A n \in notes : Copies(n) = 0 => Copies(n)' = 1
           /\ \A n \in notes, i \in 0 .. 2 : i <= Copies(n) + 1 => i <= Copies(n)'
           /\ \A n, i \in 0 .. 2 : i <= Copies(n) => i <= Copies(n)'
           /\ DOMAIN notification' = DOMAIN notification \cup notes
<1>1. IsTable(notification, Notification, 1 .. NotifCap)
    BY DEF TypeOK
<1>2. ASSUME NEW n PROVE Copies(n) \in 0 .. NotifCap
    BY <1>1, CapAssumption DEF Copies, IsTable
<1>3. ASSUME NEW n
      PROVE  Copies(n)' = IF n \in notes THEN Capped(Copies(n) + 1) ELSE Copies(n)
    BY DEF Posted, Copies
<1>4. ASSUME NEW c \in 0 .. NotifCap
      PROVE  /\ Capped(c + 1) \in 0 .. NotifCap
             /\ c = 0 => Capped(c + 1) = 1
             /\ \A i \in 0 .. 2 : i <= c + 1 => i <= Capped(c + 1)
    BY CapAssumption DEF Capped
<1>5. DOMAIN notification' = DOMAIN notification \cup notes
    BY DEF Posted
<1>6. \A n : Copies(n) \in Nat /\ Copies(n)' \in Nat
    BY <1>2, <1>3, <1>4, CapAssumption
<1>7. \A n : n \notin notes => Copies(n)' = Copies(n)
    BY <1>3
<1>8. ASSUME NEW n \in notes
      PROVE  /\ Copies(n) = 0 => Copies(n)' = 1
             /\ \A i \in 0 .. 2 : i <= Copies(n) + 1 => i <= Copies(n)'
    BY <1>2, <1>3, <1>4
<1>9. ASSUME NEW n, NEW i \in 0 .. 2, i <= Copies(n)
      PROVE  i <= Copies(n)'
  <2>1. CASE n \in notes
      BY <1>6, <1>8, <1>9, <2>1
  <2> QED BY <1>7, <1>9, <2>1
<1> QED BY <1>5, <1>6, <1>7, <1>8, <1>9

LEMMA RowByRow ==
    ASSUME \A n : Copies(n) \in Nat
    PROVE  EveryTransitionNotified
              <=> /\ \A p \in DOMAIN proposal : ProposalTold(p)
                  /\ \A k \in DOMAIN pickup : PickupTold(k)
BY DEF EveryTransitionNotified, ProposalTold, PickupTold, AtLeast

-----------------------------------------------------------------------------
(* Statements: what they stage, they tell *)

LEMMA TellingKept ==
    ASSUME Telling, NEW w \in Workers, UNCHANGED tables,
           \A v \in Workers \ {w} : pc'[v] = pc[v] /\ staged'[v] = staged[v],
           Tells(w)'
    PROVE  Telling'
<1>1. UNCHANGED <<donation, proposal, pickup, notification>>
    BY DEF tables
<1>2. EveryTransitionNotified' /\ NotEarly'
    BY <1>1 DEF Telling, EveryTransitionNotified, AtLeast, Copies, NotEarly
<1>3. ASSUME NEW v \in Workers \ {w} PROVE Tells(v)'
    BY <1>1, <1>3 DEF Telling, Tells, SameDonor, NewsOf, TellsProposal, TellsPickup,
                      Committing
<1> QED BY <1>2, <1>3 DEF Telling

LEMMA TellsNothing ==
    ASSUME NEW w \in Workers, staged'[w] = NoWrites
    PROVE  Tells(w)'
BY DEF Tells, NoWrites, NoRow

LEMMA StageTelling ==
    ASSUME IInv, Telling, NEW w \in Workers, NEW at, NEW to, Advance(w, at, to),
           NEW d, NEW p, NEW k, NEW notes, Stage(w, d, p, k, notes), Tells(w)'
    PROVE  Telling'
<1>1. /\ \A v \in Workers \ {w} : staged'[v] = staged[v] /\ pc'[v] = pc[v]
      /\ UNCHANGED tables
    BY DEF Advance, Stage, IInv, TypeOK
<1> QED BY <1>1, TellingKept

(* What a statement leaves for its transaction to tell.                     *)
LEMMA AfterStage ==
    ASSUME IInv, NEW w \in Workers, NEW at, NEW to, Advance(w, at, to),
           NEW d, NEW p, NEW k, NEW notes, Stage(w, d, p, k, notes)
    PROVE  /\ pc[w] = at /\ pc'[w] = to
           /\ UNCHANGED <<donation, proposal, pickup>>
           /\ staged'[w].donation = d /\ staged'[w].proposal = p
           /\ staged'[w].pickup = k /\ staged'[w].notes = notes
           /\ DOMAIN NoRow = {}
BY DEF Advance, Stage, IInv, TypeOK, tables, NoRow

(* Every UPDATE of a donation keeps its donor.                              *)
LEMMA DonorKept ==
    ASSUME NEW w \in Workers, NEW d \in DOMAIN donation, donation[d] \in DonationRow,
           NEW s, staged'[w].donation = WithStatus(d, s), donation' = donation
    PROVE  \A e \in DOMAIN staged'[w].donation : SameDonor(w, e)'
<1>1. DOMAIN WithStatus(d, s) = {d} /\ WithStatus(d, s)[d].donor = donation[d].donor
    BY DEF WithStatus, Only, DonationRow
<1> QED BY <1>1 DEF SameDonor

LEMMA CreateTells ==
    ASSUME IInv, Telling, NEW w \in Workers, CreateWrite(w)
    PROVE  Telling'
<1>0. PICK c : c = call[w]
    OBVIOUS
<1> DEFINE p == c.proposal
           d == c.donation
           row == NewProposal(c)
           notes == {Note("proposal_created", donation[d].donor, p),
                     Note("proposal_created", c.receiver, p)}
<1>1. /\ Advance(w, "create_write", "commit")
      /\ Stage(w, WithStatus(d, "proposal_pending"), Only(p, row), NoRow, notes)
    BY <1>0 DEF CreateWrite
<1>2. d \in DOMAIN donation /\ p \notin DOMAIN proposal /\ donation[d] \in DonationRow
    BY <1>0, <1>1 DEF Advance, IInv, Tx, IdleTx, CreateTx, AcceptTx, RejectTx, MarkTx,
                Stamping, Promoting, TypeOK, IsTable
<1>3. /\ row.donation = d /\ row.receiver = c.receiver /\ row.status = "pending"
      /\ row.donorAccepted = FALSE /\ row.receiverAccepted = FALSE
    BY DEF NewProposal
<1>4. Stamps(row) = 0
  <2>1. row.donorAccepted \in BOOLEAN /\ row.receiverAccepted \in BOOLEAN
      BY <1>3
  <2> QED BY <1>3, <2>1, StampsValue
<1>5. DOMAIN Only(p, row) = {p} /\ Only(p, row)[p] = row
    BY OneRow
<1>6. /\ UNCHANGED <<donation, proposal, pickup>>
      /\ staged'[w].donation = WithStatus(d, "proposal_pending")
      /\ staged'[w].proposal = Only(p, row)
      /\ staged'[w].pickup = NoRow /\ staged'[w].notes = notes /\ DOMAIN NoRow = {}
    BY <1>1, AfterStage
<1>7. TellsProposal(w, p)'
  <2> HIDE DEF row
  <2> QED BY <1>2, <1>3, <1>4, <1>5, <1>6 DEF TellsProposal
<1>8. \A e \in DOMAIN staged'[w].donation : SameDonor(w, e)'
    BY <1>2, <1>6, DonorKept
<1>9. \A n \in notes : NewsOf(w, n)'
    BY <1>2, <1>5, <1>6 DEF NewsOf, Note
<1>10. Tells(w)'
    BY <1>5, <1>6, <1>7, <1>8, <1>9 DEF Tells
<1> QED BY <1>1, <1>10, StageTelling

LEMMA StampTells ==
    ASSUME IInv, Telling, NEW w \in Workers, AcceptStamp(w)
    PROVE  Telling'
<1>0. PICK c : c = call[w]
    OBVIOUS
<1> DEFINE p == c.proposal
           old == proposal[p]
           row == Stamped(p, c.user)
           notes == {Note("proposal_accepted", row.volunteer, p)}
<1>1. PICK to : /\ Advance(w, "accept_stamp", to)
                /\ Stage(w, NoRow, Only(p, row), NoRow, notes)
    BY <1>0 DEF AcceptStamp
<1>2. p \in DOMAIN proposal /\ Pending(p) /\ old \in ProposalRow
    BY <1>0, <1>1 DEF Advance, IInv, Tx, IdleTx, CreateTx, AcceptTx, RejectTx, MarkTx,
                Stamping, Promoting, TypeOK, IsTable
<1>3. /\ row \in ProposalRow /\ SameDeal(old, row) /\ row.status = "pending"
      /\ \/ row.receiverAccepted = old.receiverAccepted
         \/ row.donorAccepted = old.donorAccepted
    BY <1>2 DEF Stamped, ProposalRow, SameDeal, Pending
<1>4. Stamps(row) <= Stamps(old) + 1
  <2> HIDE DEF row
  <2> QED BY <1>2, <1>3, StampsOfRow
<1>5. DOMAIN Only(p, row) = {p} /\ Only(p, row)[p] = row
    BY OneRow
<1>6. /\ UNCHANGED <<donation, proposal, pickup>>
      /\ staged'[w].donation = NoRow /\ staged'[w].proposal = Only(p, row)
      /\ staged'[w].pickup = NoRow /\ staged'[w].notes = notes /\ DOMAIN NoRow = {}
    BY <1>1, AfterStage
<1>7. TellsProposal(w, p)'
  <2> HIDE DEF row
  <2> QED BY <1>2, <1>3, <1>4, <1>5, <1>6 DEF TellsProposal, SameDeal
<1>8. \A n \in notes : NewsOf(w, n)'
    BY DEF NewsOf, Note
<1>9. Tells(w)'
  <2> HIDE DEF row
  <2> QED BY <1>5, <1>6, <1>7, <1>8 DEF Tells
<1> QED BY <1>1, <1>9, StageTelling

LEMMA PromoteTells ==
    ASSUME IInv, Telling, NEW w \in Workers, AcceptPromote(w)
    PROVE  Telling'
<1>0. PICK c : c = call[w]
    OBVIOUS
<1> DEFINE p == c.proposal
           old == staged[w].proposal[p]
           row == [old EXCEPT !.status = "accepted"]
           notes == staged[w].notes
<1>1. PICK k \in Pickups :
          /\ NewPickupId(k)
          /\ Advance(w, "accept_promote", "accept_assign")
          /\ Stage(w, NoRow, Only(p, row), Only(k, NewPickup(p)), notes)
    BY <1>0 DEF AcceptPromote, Promoted
<1>2. /\ p \in DOMAIN proposal /\ old \in ProposalRow /\ AcceptTx(w)
      /\ k \notin DOMAIN pickup
    BY <1>0, <1>1, AtPromote DEF Advance, NewPickupId
<1>3. /\ p \in DOMAIN staged[w].proposal
      /\ staged[w].pickup = NoRow
    BY <1>0, <1>1, <1>2, AtPromote DEF Advance, AcceptTx, Stamping
<1>4. TellsProposal(w, p) /\ \A n \in notes : NewsOf(w, n)
    BY <1>3 DEF Telling, Tells
<1>5. /\ row \in ProposalRow /\ row.status = "accepted"
      /\ row.volunteer = old.volunteer
      /\ SameDeal(old, row)
      /\ row.donorAccepted = old.donorAccepted
      /\ row.receiverAccepted = old.receiverAccepted
    BY <1>2 DEF ProposalRow, SameDeal
<1>6. Stamps(row) = Stamps(old)
  <2> HIDE DEF row, old
  <2> QED BY <1>2, <1>5, StampsOfRow
<1>7. /\ DOMAIN Only(p, row) = {p} /\ Only(p, row)[p] = row
      /\ DOMAIN Only(k, NewPickup(p)) = {k} /\ Only(k, NewPickup(p))[k] = NewPickup(p)
    BY OneRow
<1>8. /\ pc'[w] = "accept_assign" /\ UNCHANGED <<donation, proposal, pickup>>
      /\ staged'[w].donation = NoRow /\ staged'[w].proposal = Only(p, row)
      /\ staged'[w].pickup = Only(k, NewPickup(p)) /\ staged'[w].notes = notes
      /\ DOMAIN NoRow = {}
    BY <1>1, AfterStage
<1>9. TellsProposal(w, p)'
  <2> HIDE DEF row
  <2> QED BY <1>2, <1>4, <1>5, <1>6, <1>7, <1>8 DEF TellsProposal, SameDeal
<1>10. TellsPickup(w, k)'
  <2>1. ~ NewPickup(p).delivered
      BY DEF NewPickup
  <2> QED BY <1>2, <1>7, <1>8, <2>1 DEF TellsPickup, Committing
<1>11. ASSUME NEW n \in notes PROVE NewsOf(w, n)'
  <2>1. /\ n.type # "proposal_created"
        /\ n.type # "pickup_assigned"
    <3>1. DOMAIN staged[w].proposal = {p}
        BY <1>0, <1>1, <1>2 DEF Advance, AcceptTx, Stamping
    <3> QED BY <1>2, <1>3, <1>4, <1>8, <3>1 DEF NewsOf
  <2> QED BY <2>1 DEF NewsOf
<1>12. Tells(w)'
  <2> HIDE DEF row, notes
  <2> QED BY <1>7, <1>8, <1>9, <1>10, <1>11 DEF Tells
<1> QED BY <1>1, <1>12, StageTelling

LEMMA AssignTells ==
    ASSUME IInv, Telling, NEW w \in Workers, AcceptAssign(w)
    PROVE  Telling'
<1>0. PICK c : c = call[w]
    OBVIOUS
<1> DEFINE p == c.proposal
           d == proposal[p].donation
           new == {Note("pickup_assigned", proposal[p].volunteer, k) :
                       k \in DOMAIN staged[w].pickup}
           notes == staged[w].notes \cup new
<1>1. /\ Advance(w, "accept_assign", "commit")
      /\ Stage(w, WithStatus(d, "pickup_assigned"), staged[w].proposal,
               staged[w].pickup, notes)
    BY <1>0 DEF AcceptAssign
<1>2. /\ p \in DOMAIN proposal /\ DOMAIN staged[w].proposal = {p}
      /\ staged[w].proposal[p].status = "accepted"
      /\ \E k \in Pickups \ DOMAIN pickup : staged[w].pickup = Only(k, NewPickup(p))
    BY <1>0, <1>1 DEF Advance, IInv, Tx, IdleTx, CreateTx, AcceptTx, RejectTx, MarkTx,
                      Stamping, Promoting
<1>3. d \in DOMAIN donation /\ donation[d] \in DonationRow
    BY <1>2 DEF IInv, Refs, TypeOK, IsTable
<1>4. PICK k \in Pickups \ DOMAIN pickup : staged[w].pickup = Only(k, NewPickup(p))
    BY <1>2
<1>5. /\ DOMAIN staged[w].pickup = {k}
      /\ staged[w].pickup[k].volunteer = proposal[p].volunteer
  <2>1. /\ DOMAIN Only(k, NewPickup(p)) = {k}
        /\ Only(k, NewPickup(p))[k] = NewPickup(p)
      BY OneRow
  <2>2. NewPickup(p).volunteer = proposal[p].volunteer
      BY DEF NewPickup
  <2> QED BY <1>4, <2>1, <2>2
<1>6. TellsProposal(w, p) /\ TellsPickup(w, k) /\ \A n \in staged[w].notes : NewsOf(w, n)
    BY <1>2, <1>5 DEF Telling, Tells
<1>7. /\ UNCHANGED <<donation, proposal, pickup>>
      /\ staged'[w].donation = WithStatus(d, "pickup_assigned")
      /\ staged'[w].proposal = staged[w].proposal
      /\ staged'[w].pickup = staged[w].pickup /\ staged'[w].notes = notes
    BY <1>1, AfterStage
<1>8. TellsProposal(w, p)'
    BY <1>2, <1>6, <1>7 DEF TellsProposal
<1>9. TellsPickup(w, k)'
    BY <1>4, <1>5, <1>6, <1>7 DEF TellsPickup
<1>10. ASSUME NEW n \in notes PROVE NewsOf(w, n)'
  <2>1. CASE n \in staged[w].notes
      BY <1>6, <1>7, <2>1 DEF NewsOf
  <2>2. CASE n = Note("pickup_assigned", proposal[p].volunteer, k)
      BY <1>4, <1>5, <1>7, <2>2 DEF NewsOf, Note
  <2> QED BY <1>5, <1>10, <2>1, <2>2
<1>11. \A e \in DOMAIN staged'[w].donation : SameDonor(w, e)'
    BY <1>3, <1>7, DonorKept
<1>12. Tells(w)'
  <2> HIDE DEF notes
  <2> QED BY <1>2, <1>5, <1>7, <1>8, <1>9, <1>10, <1>11 DEF Tells
<1> QED BY <1>1, <1>12, StageTelling

LEMMA RejectTells ==
    ASSUME IInv, Telling, NEW w \in Workers, RejectProposal(w)
    PROVE  Telling'
<1>0. PICK c : c = call[w]
    OBVIOUS
<1> DEFINE p == c.proposal
           old == proposal[p]
           row == RejectedBy(p, c.user)
<1>1. /\ Advance(w, "reject_proposal", "reject_donation")
      /\ Stage(w, NoRow, Only(p, row), NoRow, {})
    BY <1>0 DEF RejectProposal
<1>2. p \in DOMAIN proposal /\ old \in ProposalRow
    BY <1>0, <1>1 DEF Advance, IInv, Tx, IdleTx, CreateTx, AcceptTx, RejectTx, MarkTx,
                      Stamping, Promoting, TypeOK, IsTable
<1>3. /\ SameDeal(old, row)
      /\ row.donorAccepted = old.donorAccepted
      /\ row.receiverAccepted = old.receiverAccepted
    BY <1>2 DEF RejectedBy, ProposalRow, SameDeal
<1>4. Stamps(row) <= Stamps(old)
  <2>1. row.donorAccepted \in BOOLEAN /\ row.receiverAccepted \in BOOLEAN
      BY <1>2, <1>3 DEF ProposalRow
  <2> HIDE DEF row
  <2> QED BY <1>2, <1>3, <2>1, StampsValue, StampsOfRow
<1>5. DOMAIN Only(p, row) = {p} /\ Only(p, row)[p] = row
    BY OneRow
<1>6. /\ pc'[w] = "reject_donation" /\ UNCHANGED <<donation, proposal, pickup>>
      /\ staged'[w].donation = NoRow /\ staged'[w].proposal = Only(p, row)
      /\ staged'[w].pickup = NoRow /\ staged'[w].notes = {} /\ DOMAIN NoRow = {}
    BY <1>1, AfterStage
<1>7. TellsProposal(w, p)'
  <2> HIDE DEF row
  <2> QED BY <1>2, <1>3, <1>4, <1>5, <1>6 DEF TellsProposal, SameDeal, Committing
<1>8. Tells(w)'
  <2> HIDE DEF row
  <2> QED BY <1>5, <1>6, <1>7 DEF Tells
<1> QED BY <1>1, <1>8, StageTelling

LEMMA ReopenTells ==
    ASSUME IInv, Telling, NEW w \in Workers, RejectDonation(w)
    PROVE  Telling'
<1>0. PICK c : c = call[w]
    OBVIOUS
<1> DEFINE p == c.proposal
           d == proposal[p].donation
           row == staged[w].proposal[p]
           notes == {Note("proposal_rejected", proposal[p].volunteer, p)}
<1>1. /\ Advance(w, "reject_donation", "commit")
      /\ Stage(w, WithStatus(d, "available"), staged[w].proposal, NoRow, notes)
    BY <1>0 DEF RejectDonation
<1>2. p \in DOMAIN proposal /\ staged[w].proposal = Only(p, RejectedBy(p, c.user))
    BY <1>0, <1>1 DEF Advance, IInv, Tx, IdleTx, CreateTx, AcceptTx, RejectTx, MarkTx,
                      Stamping, Promoting
<1>3. /\ DOMAIN staged[w].proposal = {p}
      /\ row = RejectedBy(p, c.user)
    BY <1>2, OneRow
<1>4. proposal[p] \in ProposalRow /\ d \in DOMAIN donation /\ donation[d] \in DonationRow
    BY <1>2 DEF IInv, Refs, TypeOK, IsTable
<1>5. /\ SameDeal(proposal[p], row)
      /\ row.donorAccepted = proposal[p].donorAccepted
      /\ row.receiverAccepted = proposal[p].receiverAccepted
    BY <1>3, <1>4 DEF RejectedBy, ProposalRow, SameDeal
<1>6. Stamps(row) <= Stamps(proposal[p])
  <2>1. row.donorAccepted \in BOOLEAN /\ row.receiverAccepted \in BOOLEAN
      BY <1>4, <1>5 DEF ProposalRow
  <2> HIDE DEF row
  <2> QED BY <1>4, <1>5, <2>1, StampsValue, StampsOfRow
<1>7. /\ UNCHANGED <<donation, proposal, pickup>>
      /\ staged'[w].donation = WithStatus(d, "available")
      /\ staged'[w].proposal = staged[w].proposal
      /\ staged'[w].pickup = NoRow /\ staged'[w].notes = notes /\ DOMAIN NoRow = {}
    BY <1>1, AfterStage
<1>8. TellsProposal(w, p)'
    BY <1>2, <1>5, <1>6, <1>7 DEF TellsProposal, SameDeal
<1>9. \A n \in notes : NewsOf(w, n)'
    BY DEF NewsOf, Note
<1>10. \A e \in DOMAIN staged'[w].donation : SameDonor(w, e)'
    BY <1>4, <1>7, DonorKept
<1>11. Tells(w)'
    BY <1>3, <1>7, <1>8, <1>9, <1>10 DEF Tells
<1> QED BY <1>1, <1>11, StageTelling

LEMMA MarkTells ==
    ASSUME IInv, Telling, NEW w \in Workers, MarkPickup(w)
    PROVE  Telling'
<1>0. PICK c : c = call[w]
    OBVIOUS
<1> DEFINE k == c.pickup
           row == Marked(c.op, pickup[k])
<1>1. /\ Advance(w, "mark_pickup", "mark_donation")
      /\ Stage(w, NoRow, NoRow, Only(k, row), {})
    BY <1>0 DEF MarkPickup
<1>2. k \in DOMAIN pickup /\ pickup[k] \in PickupRow
    BY <1>0, <1>1 DEF Advance, IInv, Tx, IdleTx, CreateTx, AcceptTx, RejectTx, MarkTx,
                      Stamping, Promoting, TypeOK, IsTable
<1>3. row.volunteer = pickup[k].volunteer /\ row.receiver = pickup[k].receiver
    BY <1>2 DEF Marked, PickupRow
<1>4. DOMAIN Only(k, row) = {k} /\ Only(k, row)[k] = row
    BY OneRow
<1>5. /\ pc'[w] = "mark_donation" /\ UNCHANGED <<donation, proposal, pickup>>
      /\ staged'[w].donation = NoRow /\ staged'[w].proposal = NoRow
      /\ staged'[w].pickup = Only(k, row) /\ staged'[w].notes = {} /\ DOMAIN NoRow = {}
    BY <1>1, AfterStage
<1>6. TellsPickup(w, k)'
  <2> HIDE DEF row
  <2> QED BY <1>2, <1>3, <1>4, <1>5 DEF TellsPickup, Committing
<1>7. Tells(w)'
  <2> HIDE DEF row
  <2> QED BY <1>4, <1>5, <1>6 DEF Tells
<1> QED BY <1>1, <1>7, StageTelling

LEMMA CompleteTells ==
    ASSUME IInv, Telling, NEW w \in Workers, MarkDonation(w)
    PROVE  Telling'
<1>0. PICK c : c = call[w]
    OBVIOUS
<1> DEFINE k == c.pickup
           d == pickup[k].donation
           row == Marked(c.op, pickup[k])
           notes == IF row.status = "delivered" THEN CompletionNotes(c.user, k) ELSE {}
<1>1. /\ Advance(w, "mark_donation", "commit")
      /\ Stage(w, WithStatus(d, row.status), NoRow, staged[w].pickup, notes)
    BY <1>0 DEF MarkDonation
<1>2. /\ k \in DOMAIN pickup /\ c.op \in {"pick_up", "deliver"}
      /\ staged[w].pickup = Only(k, row)
    BY <1>0, <1>1 DEF Advance, IInv, Tx, IdleTx, CreateTx, AcceptTx, RejectTx, MarkTx,
                      Stamping, Promoting
<1>3. DOMAIN staged[w].pickup = {k} /\ staged[w].pickup[k] = row
  <2>1. DOMAIN Only(k, row) = {k} /\ Only(k, row)[k] = row
      BY OneRow
  <2> HIDE DEF row
  <2> QED BY <1>2, <2>1
<1>4. pickup[k] \in PickupRow /\ d \in DOMAIN donation /\ donation[d] \in DonationRow
    BY <1>2 DEF IInv, Refs, TypeOK, IsTable
<1>5. /\ row.volunteer = pickup[k].volunteer /\ row.receiver = pickup[k].receiver
      /\ row.delivered => pickup[k].delivered \/ row.status = "delivered"
    BY <1>2, <1>4 DEF Marked, PickupRow
<1>6. /\ UNCHANGED <<donation, proposal, pickup>>
      /\ staged'[w].donation = WithStatus(d, row.status)
      /\ staged'[w].proposal = NoRow
      /\ staged'[w].pickup = staged[w].pickup /\ staged'[w].notes = notes
      /\ DOMAIN NoRow = {}
    BY <1>1, AfterStage
<1>7. row.status = "delivered" =>
          \/ Note("pickup_completed", row.volunteer, k) \in notes
          \/ Note("pickup_completed", row.receiver, k) \in notes
    BY <1>5 DEF CompletionNotes
<1>8. TellsPickup(w, k)'
  <2> HIDE DEF row, notes
  <2> QED BY <1>2, <1>3, <1>5, <1>6, <1>7 DEF TellsPickup
<1>9. \A n \in notes : NewsOf(w, n)'
    BY DEF NewsOf, CompletionNotes, Note
<1>10. \A e \in DOMAIN staged'[w].donation : SameDonor(w, e)'
    BY <1>4, <1>6, DonorKept
<1>11. Tells(w)'
  <2> HIDE DEF row, notes
  <2> QED BY <1>3, <1>6, <1>8, <1>9, <1>10 DEF Tells
<1> QED BY <1>1, <1>11, StageTelling

-----------------------------------------------------------------------------
(* Commits: what was told is posted with the rows *)

(* Two transactions never write the same row.                               *)
LEMMA WritesApart ==
    ASSUME IInv, NEW v \in Workers, NEW w \in Workers, v # w
    PROVE  /\ \A p \in DOMAIN staged[v].proposal : p \notin DOMAIN staged[w].proposal
           /\ \A k \in DOMAIN staged[v].pickup : k \notin DOMAIN staged[w].pickup
<1>1. ASSUME NEW p \in DOMAIN staged[v].proposal
      PROVE  p \notin DOMAIN staged[w].proposal
  <2> SUFFICES ASSUME p \in DOMAIN staged[w].proposal PROVE FALSE
      OBVIOUS
  <2>1. CASE p \in DOMAIN proposal
      BY <1>1, <2>1, WrittenProposalLocked
  <2>2. CASE p \notin DOMAIN proposal
      BY <1>1, <2>2, WrittenProposalLocked DEF IInv, FreshIds
  <2> QED BY <2>1, <2>2
<1>2. ASSUME NEW k \in DOMAIN staged[v].pickup
      PROVE  k \notin DOMAIN staged[w].pickup
  <2>1. DOMAIN staged[v].pickup \cap DOMAIN staged[w].pickup = {}
      BY DEF IInv, FreshIds
  <2> QED BY <1>2, <2>1
<1> QED BY <1>1, <1>2

LEMMA CommitDonors ==
    ASSUME Telling, NEW w \in Workers, Commit(w)
    PROVE  \A d \in DOMAIN donation :
               d \in DOMAIN donation' /\ donation'[d].donor = donation[d].donor
<1> SUFFICES ASSUME NEW d \in DOMAIN donation
             PROVE  d \in DOMAIN donation' /\ donation'[d].donor = donation[d].donor
    OBVIOUS
<1>1. /\ DOMAIN donation' = DOMAIN staged[w].donation \cup DOMAIN donation
      /\ d \in DOMAIN staged[w].donation => donation'[d] = staged[w].donation[d]
      /\ d \notin DOMAIN staged[w].donation => donation'[d] = donation[d]
    BY CommitTables
<1>2. d \in DOMAIN staged[w].donation => SameDonor(w, d)
    BY DEF Telling, Tells
<1> QED BY <1>1, <1>2 DEF SameDonor

LEMMA CommitTellsOthers ==
    ASSUME IInv, Telling, NEW w \in Workers, NEW v \in Workers \ {w}, Commit(w)
    PROVE  Tells(v)'
<1> DEFINE s == staged[v]
<1>1. pc'[v] = pc[v] /\ staged'[v] = s
    BY DEF Commit, Finish, IInv, TypeOK
<1>2. Tells(v)
    BY DEF Telling
<1>3. ASSUME NEW p \in DOMAIN s.proposal
      PROVE  IF p \in DOMAIN proposal THEN p \in DOMAIN proposal' /\ proposal'[p] = proposal[p]
                                      ELSE p \notin DOMAIN proposal'
  <2>1. p \notin DOMAIN staged[w].proposal
      BY WritesApart
  <2> QED BY <2>1, CommitTables
<1>4. ASSUME NEW k \in DOMAIN s.pickup
      PROVE  IF k \in DOMAIN pickup THEN k \in DOMAIN pickup' /\ pickup'[k] = pickup[k]
                                    ELSE k \notin DOMAIN pickup'
  <2>1. k \notin DOMAIN staged[w].pickup
      BY WritesApart
  <2> QED BY <2>1, CommitTables
<1>5. ASSUME NEW d \in DOMAIN s.donation PROVE SameDonor(v, d)'
  <2>1. SameDonor(v, d)
      BY <1>2, <1>5 DEF Tells
  <2> QED BY <1>1, <2>1, CommitDonors DEF SameDonor
<1>6. ASSUME NEW p \in DOMAIN s.proposal PROVE TellsProposal(v, p)'
  <2>1. TellsProposal(v, p)
      BY <1>2, <1>6 DEF Tells
  <2>2. CASE p \in DOMAIN proposal
    <3>1. p \in DOMAIN proposal' /\ proposal'[p] = proposal[p]
        BY <1>3, <1>6, <2>2
    <3> QED BY <1>1, <2>1, <2>2, <3>1 DEF TellsProposal, Committing
  <2>3. CASE p \notin DOMAIN proposal
    <3>1. p \notin DOMAIN proposal'
        BY <1>3, <1>6, <2>3
    <3>2. s.proposal[p].donation \in DOMAIN donation
        BY <2>1, <2>3 DEF TellsProposal
    <3>3. /\ s.proposal[p].donation \in DOMAIN donation'
          /\ donation'[s.proposal[p].donation].donor = donation[s.proposal[p].donation].donor
        BY <3>2, CommitDonors
    <3> QED BY <1>1, <2>1, <2>3, <3>1, <3>3 DEF TellsProposal
  <2> QED BY <2>2, <2>3
<1>7. ASSUME NEW k \in DOMAIN s.pickup PROVE TellsPickup(v, k)'
  <2>1. TellsPickup(v, k)
      BY <1>2, <1>7 DEF Tells
  <2> QED BY <1>1, <1>4, <1>7, <2>1 DEF TellsPickup, Committing
<1>8. ASSUME NEW n \in s.notes PROVE NewsOf(v, n)'
  <2>1. NewsOf(v, n)
      BY <1>2, <1>8 DEF Tells
  <2> QED BY <1>1, <1>3, <1>4, <2>1 DEF NewsOf
<1> QED BY <1>1, <1>5, <1>6, <1>7, <1>8 DEF Tells

(* The counts after a commit.                                               *)
LEMMA CommitCopies ==
    ASSUME IInv, NEW w \in Workers, Commit(w)
    PROVE  LET notes == staged[w].notes IN
           /\ \A n : Copies(n) \in Nat /\ Copies(n)' \in Nat
           /\ \A n : n \notin notes => Copies(n)' = Copies(n)
           /\ \A n \in notes : Copies(n) = 0 => Copies(n)' = 1
           /\ \A n \in notes, i \in 0 .. 2 : i <= Copies(n) + 1 => i <= Copies(n)'
           /\ \A n, i \in 0 .. 2 : i <= Copies(n) => i <= Copies(n)'
           /\ DOMAIN notification' = DOMAIN notification \cup notes
<1>1. TypeOK /\ staged[w].notes \in SUBSET Notification
    BY DEF IInv, TypeOK, IsWrites
<1>2. notification' = Posted(staged[w].notes)
    BY DEF Commit
<1> QED BY <1>1, <1>2, PostedCopies

LEMMA CommitNotEarly ==
    ASSUME IInv, Telling, NEW w \in Workers, Commit(w)
    PROVE  NotEarly'
<1>1. /\ DOMAIN notification' = DOMAIN notification \cup staged[w].notes
      /\ DOMAIN proposal' = DOMAIN staged[w].proposal \cup DOMAIN proposal
      /\ DOMAIN pickup' = DOMAIN staged[w].pickup \cup DOMAIN pickup
    BY CommitCopies, CommitTables
<1>2. \A n \in staged[w].notes : NewsOf(w, n)
    BY DEF Telling, Tells
<1> QED BY <1>1, <1>2 DEF Telling, NotEarly, NewsOf

LEMMA CommitProposal ==
    ASSUME IInv, Telling, NEW w \in Workers, Commit(w), NEW p \in DOMAIN proposal'
    PROVE  ProposalTold(p)'
<1> DEFINE notes == staged[w].notes
           new == staged[w].proposal
           old == proposal[p]
           row == proposal'[p]
<1> DEFINE Created(u) == Note("proposal_created", u, p)
<1>1. /\ \A n : Copies(n) \in Nat
      /\ \A n : n \notin notes => Copies(n)' = Copies(n)
      /\ \A n \in notes : Copies(n) = 0 => Copies(n)' = 1
      /\ \A n \in notes, i \in 0 .. 2 : i <= Copies(n) + 1 => i <= Copies(n)'
      /\ \A n, i \in 0 .. 2 : i <= Copies(n) => i <= Copies(n)'
      /\ \A n : Copies(n)' \in Nat
    BY CommitCopies
<1>2. /\ DOMAIN proposal' = DOMAIN new \cup DOMAIN proposal
      /\ p \in DOMAIN new => row = new[p]
      /\ p \notin DOMAIN new => row = old
    BY CommitTables
<1>3. /\ p \in DOMAIN new => TellsProposal(w, p)
      /\ \A n \in notes : NewsOf(w, n)
      /\ Committing(w)
    BY DEF Telling, Tells, Commit, Committing
<1>4. p \in DOMAIN proposal => ProposalTold(p) /\ old.donation \in DOMAIN donation
    BY <1>1, RowByRow DEF Telling, IInv, Refs
<1>5. row \in ProposalRow
    BY StepLemma DEF Commit, IInv, TypeOK, IsTable, Next, Serve, Step
<1>6. Stamps(row) \in 0 .. 2 /\ (p \in DOMAIN proposal => Stamps(old) \in 0 .. 2)
    BY <1>5, StampsOfRow DEF IInv, TypeOK, IsTable
<1> HIDE DEF row
<1>7. CASE p \in DOMAIN proposal
  <2>1. /\ row.donation = old.donation /\ row.receiver = old.receiver
        /\ row.volunteer = old.volunteer
      BY <1>2, <1>3, <1>7 DEF TellsProposal, SameDeal
  <2>2. donation'[row.donation].donor = donation[old.donation].donor
      BY <1>4, <1>7, <2>1, CommitDonors
  <2>3. \A u : Created(u) \notin notes
      BY <1>3, <1>7 DEF NewsOf, Note
  <2>4. /\ Copies(Created(old.receiver)) = 1
        /\ Copies(Created(donation[old.donation].donor)) = 1
      BY <1>4, <1>7 DEF ProposalTold
  <2>5. ASSUME NEW u, Copies(Created(u)) = 1 PROVE Copies(Created(u))' = 1
      BY <1>1, <2>3, <2>5
  <2>6. ASSUME NEW n, n = Note("proposal_accepted", row.volunteer, p)
        PROVE  Stamps(row) <= Copies(n)'
    <3>1. Stamps(old) <= Copies(n)
        BY <1>4, <1>7, <2>1, <2>6 DEF ProposalTold
    <3>2. CASE Stamps(row) <= Stamps(old)
        BY <1>1, <1>6, <1>7, <3>1, <3>2
    <3>3. CASE Stamps(row) <= Stamps(old) + 1 /\ n \in notes
      <4>1. Stamps(row) <= Copies(n) + 1
          BY <1>1, <1>6, <1>7, <3>1, <3>3
      <4> QED BY <1>1, <1>6, <3>3, <4>1
    <3> QED BY <1>2, <1>3, <1>6, <1>7, <2>1, <2>6, <3>2, <3>3 DEF TellsProposal
  <2>7. ASSUME NEW n, n = Note("proposal_rejected", row.volunteer, p),
               row.status = "rejected"
        PROVE  1 <= Copies(n)'
    <3>1. CASE p \in DOMAIN new
      <4>1. n \in notes
          BY <1>2, <1>3, <1>7, <2>7, <3>1 DEF TellsProposal
      <4> QED BY <1>1, <4>1
    <3>2. CASE p \notin DOMAIN new
      <4>1. 1 <= Copies(n)
          BY <1>2, <1>4, <1>7, <2>7, <3>2 DEF ProposalTold
      <4> QED BY <1>1, <4>1
    <3> QED BY <3>1, <3>2
  <2> QED BY <2>1, <2>2, <2>4, <2>5, <2>6, <2>7 DEF ProposalTold, Copies, row
<1>8. CASE p \notin DOMAIN proposal
  <2>1. p \in DOMAIN new /\ row = new[p]
      BY <1>2, <1>8
  <2>2. /\ row.donation \in DOMAIN donation /\ Stamps(row) = 0 /\ row.status = "pending"
        /\ Created(row.receiver) \in notes
        /\ Created(donation[row.donation].donor) \in notes
      BY <1>3, <1>8, <2>1 DEF TellsProposal
  <2>3. donation'[row.donation].donor = donation[row.donation].donor
      BY <2>2, CommitDonors
  <2>4. \A u : Copies(Created(u)) = 0
      BY <1>8 DEF Telling, NotEarly, Copies, Note
  <2>5. ASSUME NEW u, Created(u) \in notes PROVE Copies(Created(u))' = 1
      BY <1>1, <2>4, <2>5
  <2>6. \A n : Stamps(row) <= Copies(n)'
      BY <1>1, <2>2
  <2> QED BY <2>2, <2>3, <2>5, <2>6 DEF ProposalTold, Copies, row
<1> QED BY <1>7, <1>8

LEMMA CommitPickup ==
    ASSUME IInv, Telling, NEW w \in Workers, Commit(w), NEW k \in DOMAIN pickup'
    PROVE  PickupTold(k)'
<1> DEFINE notes == staged[w].notes
           new == staged[w].pickup
           old == pickup[k]
           row == pickup'[k]
<1> DEFINE Assigned(u) == Note("pickup_assigned", u, k)
           Completed(u) == Note("pickup_completed", u, k)
<1>1. /\ \A n : Copies(n) \in Nat
      /\ \A n : n \notin notes => Copies(n)' = Copies(n)
      /\ \A n \in notes : Copies(n) = 0 => Copies(n)' = 1
      /\ \A n \in notes, i \in 0 .. 2 : i <= Copies(n) + 1 => i <= Copies(n)'
      /\ \A n, i \in 0 .. 2 : i <= Copies(n) => i <= Copies(n)'
    BY CommitCopies
<1>2. /\ DOMAIN pickup' = DOMAIN new \cup DOMAIN pickup
      /\ k \in DOMAIN new => row = new[k]
      /\ k \notin DOMAIN new => row = old
    BY CommitTables
<1>3. /\ k \in DOMAIN new => TellsPickup(w, k)
      /\ \A n \in notes : NewsOf(w, n)
      /\ Committing(w)
    BY DEF Telling, Tells, Commit, Committing
<1>4. k \in DOMAIN pickup => PickupTold(k)
    BY <1>1, RowByRow DEF Telling
<1>5. /\ \A n \in notes : 1 <= Copies(n)'
      /\ \A n : 1 <= Copies(n) => 1 <= Copies(n)'
  <2>1. \A n \in notes : 1 <= Copies(n) + 1
      BY <1>1
  <2> QED BY <1>1, <2>1
<1> HIDE DEF row
<1>6. CASE k \in DOMAIN pickup
  <2>1. row.volunteer = old.volunteer /\ row.receiver = old.receiver
      BY <1>2, <1>3, <1>6 DEF TellsPickup
  <2>2. ASSUME NEW n, n = Assigned(row.volunteer) PROVE Copies(n)' = 1
    <3>1. n \notin notes
        BY <1>3, <1>6, <2>2 DEF NewsOf, Note
    <3>2. Copies(n) = 1
        BY <1>4, <1>6, <2>1, <2>2 DEF PickupTold
    <3> QED BY <1>1, <3>1, <3>2
  <2>3. ASSUME row.delivered
        PROVE  \E u \in {row.volunteer, row.receiver} : 1 <= Copies(Completed(u))'
    <3>1. CASE old.delivered
      <4>1. PICK u \in {row.volunteer, row.receiver} : 1 <= Copies(Completed(u))
          BY <1>4, <1>6, <2>1, <3>1 DEF PickupTold
      <4> QED BY <1>5, <4>1
    <3>2. CASE ~ old.delivered
      <4>1. PICK u \in {row.volunteer, row.receiver} : Completed(u) \in notes
          BY <1>2, <1>3, <1>6, <2>3, <3>2 DEF TellsPickup
      <4> QED BY <1>5, <4>1
    <3> QED BY <3>1, <3>2
  <2> QED BY <2>2, <2>3 DEF PickupTold, Copies, row
<1>7. CASE k \notin DOMAIN pickup
  <2>1. k \in DOMAIN new /\ row = new[k]
      BY <1>2, <1>7
  <2>2. ~ row.delivered /\ Assigned(row.volunteer) \in notes
      BY <1>3, <1>7, <2>1 DEF TellsPickup
  <2>3. ASSUME NEW n, n = Assigned(row.volunteer) PROVE Copies(n)' = 1
    <3>1. Copies(n) = 0
        BY <1>7, <2>3 DEF Telling, NotEarly, Copies, Note
    <3> QED BY <1>1, <2>2, <2>3, <3>1
  <2> QED BY <2>2, <2>3 DEF PickupTold, Copies, row
<1> QED BY <1>6, <1>7

LEMMA CommitTelling ==
    ASSUME IInv, Telling, NEW w \in Workers, Commit(w)
    PROVE  Telling'
<1>1. (\A n : Copies(n) \in Nat)'
    BY CommitCopies DEF Copies
<1>2. /\ \A p \in DOMAIN proposal' : ProposalTold(p)'
      /\ \A k \in DOMAIN pickup' : PickupTold(k)'
    BY CommitProposal, CommitPickup
<1>3. EveryTransitionNotified'
    BY <1>1, <1>2 DEF EveryTransitionNotified, ProposalTold, PickupTold, AtLeast, Copies
<1>4. staged'[w] = NoWrites
    BY DEF Commit, Finish, IInv, TypeOK
<1>5. \A v \in Workers : Tells(v)'
    BY <1>4, TellsNothing, CommitTellsOthers
<1> QED BY <1>3, <1>5, CommitNotEarly DEF Telling

-----------------------------------------------------------------------------
(* Every step *)

LEMMA RollbackTelling ==
    ASSUME IInv, Telling, NEW w \in Workers, Rollback(w)
    PROVE  Telling'
<1>1. /\ UNCHANGED tables /\ staged'[w] = NoWrites
      /\ \A v \in Workers \ {w} : pc'[v] = pc[v] /\ staged'[v] = staged[v]
    BY DEF Rollback, Finish, IInv, TypeOK
<1> QED BY <1>1, TellsNothing, TellingKept

(* Statements that only read or lock: nothing is staged yet.                *)
LEMMA ReadTelling ==
    ASSUME IInv, Telling, NEW w \in Workers, Start(w) \/ AcceptLock(w)
    PROVE  Telling'
<1>1. Clean(w)
    BY IdleIsClean
       DEF Start, CreateRead, AcceptBegin, RejectRead, PickUpRead, DeliverRead, Begin,
           AcceptLock, Advance, IInv, Tx, IdleTx, CreateTx, AcceptTx, RejectTx, MarkTx,
           Stamping, Promoting
<1>2. /\ UNCHANGED tables /\ staged' = staged
      /\ \A v \in Workers \ {w} : pc'[v] = pc[v]
    BY DEF Start, CreateRead, AcceptBegin, RejectRead, PickUpRead, DeliverRead, Begin,
           AcceptLock, Advance, IInv, TypeOK
<1> QED BY <1>1, <1>2, TellsNothing, TellingKept DEF Clean

LEMMA CreateDonationTelling ==
    ASSUME IInv, Telling, NEW u \in Donors, NEW d \in Donations, CreateDonation(u, d)
    PROVE  Telling'
<1> DEFINE notes == {Note("donation_created", u, d)}
<1>1. /\ UNCHANGED <<proposal, pickup, pc, staged>>
      /\ notification' = Posted(notes)
      /\ \A e \in DOMAIN donation : e \in DOMAIN donation' /\ donation'[e] = donation[e]
    BY DEF CreateDonation, Applied, Only
<1>2. notes \in SUBSET Notification
    BY DEF Note, Notification, Users, Rows
<1>3. /\ \A n : Copies(n) \in Nat
      /\ \A n : n \notin notes => Copies(n)' = Copies(n)
      /\ DOMAIN notification' = DOMAIN notification \cup notes
    BY <1>1, <1>2, PostedCopies DEF IInv
<1>4. \A n : n.type # "donation_created" => Copies(n)' = Copies(n)
    BY <1>3 DEF Note
<1>5. ASSUME NEW p \in DOMAIN proposal PROVE ProposalTold(p)'
  <2>1. ProposalTold(p) /\ proposal[p].donation \in DOMAIN donation
      BY <1>3, RowByRow DEF Telling, IInv, Refs
  <2>2. donation'[proposal[p].donation] = donation[proposal[p].donation]
      BY <1>1, <2>1
  <2> QED BY <1>1, <1>4, <2>1, <2>2 DEF ProposalTold, Copies, Note
<1>6. ASSUME NEW k \in DOMAIN pickup PROVE PickupTold(k)'
  <2>1. PickupTold(k)
      BY <1>3, RowByRow DEF Telling
  <2> QED BY <1>1, <1>4, <2>1 DEF PickupTold, Copies, Note
<1>7. EveryTransitionNotified'
  <2>1. (\A n : Copies(n) \in Nat)'
      BY <1>1, <1>2, PostedCopies DEF IInv, Copies
  <2> QED BY <1>1, <1>5, <1>6, <2>1
          DEF EveryTransitionNotified, ProposalTold, PickupTold, AtLeast, Copies
<1>8. NotEarly'
    BY <1>1, <1>3 DEF Telling, NotEarly, Note
<1>9. ASSUME NEW w \in Workers PROVE Tells(w)'
  <2>1. Tells(w)
      BY DEF Telling
  <2>2. \A e \in DOMAIN staged[w].donation : SameDonor(w, e)'
      BY <1>1, <2>1 DEF Tells, SameDonor
  <2>3. \A p \in DOMAIN staged[w].proposal : TellsProposal(w, p)'
      BY <1>1, <2>1 DEF Tells, TellsProposal, Committing
  <2>4. \A k \in DOMAIN staged[w].pickup : TellsPickup(w, k)'
      BY <1>1, <2>1 DEF Tells, TellsPickup, Committing
  <2>5. \A n \in staged[w].notes : NewsOf(w, n)'
      BY <1>1, <2>1 DEF Tells, NewsOf
  <2> QED BY <1>1, <2>2, <2>3, <2>4, <2>5 DEF Tells
<1> QED BY <1>7, <1>8, <1>9 DEF Telling

LEMMA StepTelling == IInv /\ Telling /\ [Next]_vars => Telling'
<1> SUFFICES ASSUME IInv, Telling, [Next]_vars PROVE Telling'
    OBVIOUS
<1>1. CASE \E u \in Donors, d \in Donations : CreateDonation(u, d)
    BY <1>1, CreateDonationTelling
<1>2. ASSUME NEW w \in Workers, Step(w) PROVE Telling'
  <2>1. CASE AcceptRefuse(w)
      BY <2>1, RollbackTelling DEF AcceptRefuse
  <2> QED BY <1>2, <2>1, CreateTells, ReadTelling, StampTells, PromoteTells, AssignTells,
             RejectTells, ReopenTells, MarkTells, CompleteTells, CommitTelling DEF Step
<1>3. ASSUME NEW w \in Workers, Start(w) \/ Fail(w) PROVE Telling'
    BY <1>3, ReadTelling, RollbackTelling DEF Fail
<1>4. CASE UNCHANGED vars
  <2>1. UNCHANGED <<donation, proposal, pickup, notification, pc, staged>>
      BY <1>4 DEF vars
  <2>2. EveryTransitionNotified' /\ NotEarly'
      BY <2>1 DEF Telling, EveryTransitionNotified, AtLeast, Copies, NotEarly
  <2>3. \A w \in Workers : Tells(w)'
      BY <2>1 DEF Telling, Tells, SameDonor, NewsOf, TellsProposal, TellsPickup, Committing
  <2> QED BY <2>2, <2>3 DEF Telling
<1> QED BY <1>1, <1>2, <1>3, <1>4 DEF Next, Serve

(* Whatever overlaps, fails or repeats, a committed transition has its      *)
(* notifications: createNotification runs in the transition's transaction,  *)
(* and a proposal or pickup is announced exactly once.                      *)
THEOREM AllNotified == Spec => []EveryTransitionNotified
<1>1. Init => Telling
  <2> SUFFICES ASSUME Init PROVE Telling
      OBVIOUS
  <2>1. /\ DOMAIN donation = {} /\ DOMAIN proposal = {} /\ DOMAIN pickup = {}
        /\ DOMAIN notification = {}
      BY DEF Init, NoRow
  <2>2. \A w \in Workers : Tells(w)
      BY DEF Init, NoWrites, NoRow, Tells
  <2> QED BY <2>1, <2>2 DEF Telling, EveryTransitionNotified, NotEarly
<1>2. Telling => EveryTransitionNotified
    BY DEF Telling
<1> QED BY <1>1, <1>2, StepTelling, Inductive, PTL DEF Spec
=============================================================================
