------------------------- MODULE ConversationProofs -------------------------
(* Proofs about Conversations, for every set of users, ids and connections: *)
(* who may talk (RelatedIffParties), that two users share one conversation  *)
(* (OneConversationPerPair) and that they stay related (TalkersRelated).    *)
(* They rest on the parties of a deal being fixed when it is proposed, which*)
(* is proved first, on top of the inductive invariant of Delivery.          *)
EXTENDS Conversations, DeliveryProofs

-----------------------------------------------------------------------------
(* The parties of a deal never change *)

DonorsKept ==
    \A d \in DOMAIN donation :
        d \in DOMAIN donation' /\ donation'[d].donor = donation[d].donor
DealsKept ==
    \A p \in DOMAIN proposal :
        p \in DOMAIN proposal' /\ SameDeal(proposal[p], proposal'[p])

(* A pickup keeps the parties of its proposal.                              *)
PickupDeals ==
    \A k \in DOMAIN pickup : SameDeal(proposal[pickup[k].proposal], pickup[k])
(* A written donation keeps its donor.                                      *)
DonorsStaged ==
    \A w \in Workers : \A d \in DOMAIN staged[w].donation :
        /\ d \in DOMAIN donation
        /\ staged[w].donation[d].donor = donation[d].donor
DealInv == IInv /\ PickupDeals /\ DonorsStaged

LEMMA StagedDeals ==
    ASSUME IInv, NEW w \in Workers, pc[w] = "commit"
    PROVE  LET s == staged[w] IN
           /\ \A p \in DOMAIN s.proposal \cap DOMAIN proposal :
                  SameDeal(proposal[p], s.proposal[p])
           /\ \A k \in DOMAIN s.pickup :
                  IF k \in DOMAIN pickup
                    THEN /\ s.pickup[k].proposal = pickup[k].proposal
                         /\ SameDeal(pickup[k], s.pickup[k])
                    ELSE /\ s.pickup[k].proposal \in DOMAIN proposal
                         /\ SameDeal(proposal[s.pickup[k].proposal], s.pickup[k])
<1> DEFINE p == call[w].proposal
           k == call[w].pickup
<1>1. Tx(w) /\ DOMAIN NoRow = {}
    BY DEF IInv, NoRow
<1>2. CASE CreateTx(w)
  <2>1. /\ p \notin DOMAIN proposal
        /\ staged[w].proposal = Only(p, NewProposal(call[w]))
        /\ staged[w].pickup = NoRow
      BY <1>2 DEF CreateTx
  <2>2. DOMAIN Only(p, NewProposal(call[w])) = {p}
      BY OneRow
  <2> QED BY <1>1, <2>1, <2>2
<1>3. CASE AcceptTx(w)
  <2>1. /\ p \in DOMAIN proposal
        /\ DOMAIN staged[w].proposal = {p}
        /\ SameDeal(proposal[p], staged[w].proposal[p])
        /\ Stamping(w, p) \/ Promoting(w, p)
      BY <1>3 DEF AcceptTx
  <2>2. CASE Stamping(w, p)
      BY <1>1, <2>1, <2>2 DEF Stamping
  <2>3. CASE Promoting(w, p)
    <3>1. PICK l \in Pickups \ DOMAIN pickup : staged[w].pickup = Only(l, NewPickup(p))
        BY <2>3 DEF Promoting
    <3>2. DOMAIN Only(l, NewPickup(p)) = {l} /\ Only(l, NewPickup(p))[l] = NewPickup(p)
        BY OneRow
    <3>3. NewPickup(p).proposal = p /\ SameDeal(proposal[p], NewPickup(p))
        BY DEF NewPickup, SameDeal
    <3> QED BY <2>1, <3>1, <3>2, <3>3
  <2> QED BY <2>1, <2>2, <2>3
<1>4. CASE RejectTx(w)
  <2> DEFINE row == RejectedBy(p, call[w].user)
  <2>1. /\ p \in DOMAIN proposal
        /\ staged[w].proposal = Only(p, row)
        /\ staged[w].pickup = NoRow
      BY <1>4 DEF RejectTx
  <2>2. DOMAIN Only(p, row) = {p} /\ Only(p, row)[p] = row
      BY OneRow
  <2>3. SameDeal(proposal[p], row)
    <3>1. proposal[p] \in ProposalRow
        BY <2>1 DEF IInv, TypeOK, IsTable
    <3> QED BY <3>1 DEF RejectedBy, SameDeal, ProposalRow
  <2> HIDE DEF row
  <2> QED BY <1>1, <2>1, <2>2, <2>3
<1>5. CASE MarkTx(w)
  <2> DEFINE row == Marked(call[w].op, pickup[k])
  <2>1. /\ k \in DOMAIN pickup
        /\ staged[w].proposal = NoRow
        /\ staged[w].pickup = Only(k, row)
      BY <1>5 DEF MarkTx
  <2>2. DOMAIN Only(k, row) = {k} /\ Only(k, row)[k] = row
      BY OneRow
  <2>3. row.proposal = pickup[k].proposal /\ SameDeal(pickup[k], row)
    <3>1. pickup[k] \in PickupRow
        BY <2>1 DEF IInv, TypeOK, IsTable
    <3> QED BY <3>1 DEF Marked, SameDeal, PickupRow
  <2> HIDE DEF row
  <2> QED BY <1>1, <2>1, <2>2, <2>3
<1>6. ~ IdleTx(w)
    BY DEF IdleTx
<1> QED BY <1>1, <1>2, <1>3, <1>4, <1>5, <1>6 DEF Tx

LEMMA CommitKeepsDeals ==
    ASSUME DealInv, NEW w \in Workers, Commit(w)
    PROVE  DonorsKept /\ DealsKept /\ PickupDeals' /\ DonorsStaged'
<1> USE DEF DealInv
<1>1. pc[w] = "commit"
    BY DEF Commit
<1>2. DonorsKept
  <2>1. \A d \in DOMAIN staged[w].donation :
            d \in DOMAIN donation /\ staged[w].donation[d].donor = donation[d].donor
      BY DEF DonorsStaged
  <2> QED BY <2>1, CommitTables DEF DonorsKept
<1>3. DealsKept
  <2>1. ASSUME NEW p \in DOMAIN proposal
        PROVE  p \in DOMAIN proposal' /\ SameDeal(proposal[p], proposal'[p])
    <3>1. CASE p \in DOMAIN staged[w].proposal
        BY <1>1, <3>1, StagedDeals, CommitTables
    <3>2. CASE p \notin DOMAIN staged[w].proposal
        BY <3>2, CommitTables DEF SameDeal
    <3> QED BY <3>1, <3>2
  <2> QED BY <2>1 DEF DealsKept
<1>4. PickupDeals'
  <2>1. ASSUME NEW k \in DOMAIN pickup'
        PROVE  SameDeal(proposal'[pickup'[k].proposal], pickup'[k])
    <3>1. PICK p \in DOMAIN proposal : p = pickup'[k].proposal /\ SameDeal(proposal[p], pickup'[k])
      <4>1. CASE k \in DOMAIN staged[w].pickup /\ k \in DOMAIN pickup
        <5>1. /\ pickup'[k].proposal = pickup[k].proposal
              /\ SameDeal(pickup[k], pickup'[k])
            BY <1>1, <4>1, StagedDeals, CommitTables
        <5> QED BY <4>1, <5>1 DEF PickupDeals, SameDeal, IInv, Refs
      <4>2. CASE k \in DOMAIN staged[w].pickup /\ k \notin DOMAIN pickup
          BY <1>1, <4>2, StagedDeals, CommitTables
      <4>3. CASE k \notin DOMAIN staged[w].pickup
        <5>1. k \in DOMAIN pickup /\ pickup'[k] = pickup[k]
            BY <4>3, CommitTables
        <5> QED BY <5>1 DEF PickupDeals, IInv, Refs
      <4> QED BY <4>1, <4>2, <4>3
    <3> QED BY <1>3, <3>1 DEF DealsKept, SameDeal
  <2> QED BY <2>1 DEF PickupDeals
<1>5. DonorsStaged'
  <2>1. staged'[w] = NoWrites /\ \A v \in Workers \ {w} : staged'[v] = staged[v]
      BY DEF Commit, Finish, IInv, TypeOK
  <2>2. DOMAIN NoWrites.donation = {}
      BY DEF NoWrites, NoRow
  <2> QED BY <1>2, <2>1, <2>2 DEF DonorsStaged, DonorsKept
<1> QED BY <1>2, <1>3, <1>4, <1>5

LEMMA QuietStep ==
    ASSUME DealInv, UNCHANGED <<donation, proposal, pickup>>
    PROVE  DonorsKept /\ DealsKept /\ PickupDeals'
BY DEF DealInv, DonorsKept, DealsKept, SameDeal, PickupDeals

(* A statement may write a donation only to set its status.                 *)
LEMMA StageDonors ==
    ASSUME DealInv, UNCHANGED donation, NEW w \in Workers,
           NEW d, NEW p, NEW k, NEW notes, Stage(w, d, p, k, notes),
           d = NoRow \/ \E e \in DOMAIN donation : \E s : d = WithStatus(e, s)
    PROVE  DonorsStaged'
<1> USE DEF DealInv
<1>1. /\ staged'[w].donation = d
      /\ \A v \in Workers \ {w} : staged'[v] = staged[v]
    BY Staged DEF IInv
<1>2. \A e \in DOMAIN d : e \in DOMAIN donation /\ d[e].donor = donation[e].donor
  <2>1. CASE d = NoRow
      BY <2>1 DEF NoRow
  <2>2. ASSUME NEW e \in DOMAIN donation, NEW s, d = WithStatus(e, s)
        PROVE  DOMAIN d = {e} /\ d[e].donor = donation[e].donor
    <3>1. donation[e] \in DonationRow
        BY DEF IInv, TypeOK, IsTable
    <3>2. DOMAIN d = {e} /\ d[e] = [donation[e] EXCEPT !.status = s]
        BY <2>2, OneRow DEF WithStatus
    <3> QED BY <3>1, <3>2 DEF DonationRow
  <2> QED BY <2>1, <2>2
<1> QED BY <1>1, <1>2 DEF DonorsStaged

LEMMA KeepDonors ==
    ASSUME DealInv, UNCHANGED <<donation, staged>>
    PROVE  DonorsStaged'
BY DEF DealInv, DonorsStaged

LEMMA RollbackDonors ==
    ASSUME DealInv, NEW w \in Workers, Rollback(w)
    PROVE  DonorsStaged'
<1>1. /\ staged'[w] = NoWrites
      /\ \A v \in Workers \ {w} : staged'[v] = staged[v]
      /\ UNCHANGED donation
    BY DEF Rollback, Finish, DealInv, IInv, TypeOK, tables
<1>2. DOMAIN NoWrites.donation = {}
    BY DEF NoWrites, NoRow
<1> QED BY <1>1, <1>2 DEF DealInv, DonorsStaged

LEMMA StepDonors ==
    ASSUME DealInv, NEW w \in Workers, Step(w), ~ Commit(w)
    PROVE  UNCHANGED <<donation, proposal, pickup>> /\ DonorsStaged'
<1> USE DEF DealInv
<1>0. Tx(w)
    BY DEF IInv
<1>1. CASE CreateWrite(w)
  <2>1. call[w].donation \in DOMAIN donation
      BY <1>0, <1>1 DEF CreateWrite, Advance, Tx, IdleTx, CreateTx, AcceptTx, RejectTx,
                        MarkTx, Stamping, Promoting
  <2> QED BY <1>1, <2>1, StageDonors DEF CreateWrite, Advance, tables
<1>2. CASE AcceptLock(w)
    BY <1>2, KeepDonors DEF AcceptLock, Advance, tables
<1>3. CASE AcceptRefuse(w)
    BY <1>3, RollbackDonors DEF AcceptRefuse, Rollback, tables
<1>4. CASE AcceptStamp(w)
    BY <1>4, StageDonors DEF AcceptStamp, Advance, tables
<1>5. CASE AcceptPromote(w)
    BY <1>5, StageDonors DEF AcceptPromote, Advance, tables
<1>6. CASE AcceptAssign(w)
  <2>1. proposal[call[w].proposal].donation \in DOMAIN donation
    <3>1. call[w].proposal \in DOMAIN proposal
        BY <1>0, <1>6 DEF AcceptAssign, Advance, Tx, IdleTx, CreateTx, AcceptTx,
                          RejectTx, MarkTx
    <3> QED BY <3>1 DEF IInv, Refs
  <2> QED BY <1>6, <2>1, StageDonors DEF AcceptAssign, Advance, tables
<1>7. CASE RejectProposal(w)
    BY <1>7, StageDonors DEF RejectProposal, Advance, tables
<1>8. CASE RejectDonation(w)
  <2>1. proposal[call[w].proposal].donation \in DOMAIN donation
    <3>1. call[w].proposal \in DOMAIN proposal
        BY <1>0, <1>8 DEF RejectDonation, Advance, Tx, IdleTx, CreateTx, AcceptTx,
                          RejectTx, MarkTx, Stamping, Promoting
    <3> QED BY <3>1 DEF IInv, Refs
  <2> QED BY <1>8, <2>1, StageDonors DEF RejectDonation, Advance, tables
<1>9. CASE MarkPickup(w)
    BY <1>9, StageDonors DEF MarkPickup, Advance, tables
<1>10. CASE MarkDonation(w)
  <2>1. pickup[call[w].pickup].donation \in DOMAIN donation
    <3>1. call[w].pickup \in DOMAIN pickup
        BY <1>0, <1>10 DEF MarkDonation, Advance, Tx, IdleTx, CreateTx, AcceptTx,
                           RejectTx, MarkTx, Stamping, Promoting
    <3> QED BY <3>1 DEF IInv, Refs
  <2> QED BY <1>10, <2>1, StageDonors DEF MarkDonation, Advance, tables
<1> QED BY <1>1, <1>2, <1>3, <1>4, <1>5, <1>6, <1>7, <1>8, <1>9, <1>10 DEF Step

(* No request changes the parties of a deal, and DealInv is inductive.      *)
LEMMA DealStep ==
    ASSUME DealInv, [Next]_vars
    PROVE  DealInv' /\ DonorsKept /\ DealsKept
<1>1. IInv'
    BY StepLemma DEF DealInv
<1>2. ASSUME NEW u \in Donors, NEW d \in Donations, CreateDonation(u, d)
      PROVE  DonorsKept /\ DealsKept /\ PickupDeals' /\ DonorsStaged'
  <2>1. /\ UNCHANGED <<proposal, pickup, staged>>
        /\ \A e \in DOMAIN donation : e \in DOMAIN donation' /\ donation'[e] = donation[e]
      BY <1>2 DEF CreateDonation, Applied, Only
  <2> QED BY <2>1 DEF DealInv, DonorsKept, DealsKept, SameDeal, PickupDeals, DonorsStaged
<1>3. ASSUME NEW w \in Workers, Serve(w)
      PROVE  DonorsKept /\ DealsKept /\ PickupDeals' /\ DonorsStaged'
  <2>1. CASE Start(w)
    <3>1. UNCHANGED <<donation, proposal, pickup, staged>>
        BY <2>1 DEF Start, CreateRead, AcceptBegin, RejectRead, PickUpRead, DeliverRead,
                    Begin, tables
    <3> QED BY <3>1, QuietStep, KeepDonors
  <2>2. CASE Commit(w)
      BY <2>2, CommitKeepsDeals
  <2>3. CASE Step(w) /\ ~ Commit(w)
      BY <2>3, StepDonors, QuietStep
  <2>4. CASE Fail(w)
    <3>1. Rollback(w) /\ UNCHANGED <<donation, proposal, pickup>>
        BY <2>4 DEF Fail, Rollback, tables
    <3> QED BY <3>1, RollbackDonors, QuietStep
  <2> QED BY <1>3, <2>1, <2>2, <2>3, <2>4 DEF Serve
<1>4. CASE UNCHANGED vars
  <2>1. UNCHANGED <<donation, proposal, pickup, staged>>
      BY <1>4 DEF vars
  <2> QED BY <1>1, <2>1, QuietStep, KeepDonors DEF DealInv
<1> QED BY <1>1, <1>2, <1>3, <1>4 DEF DealInv, Next

-----------------------------------------------------------------------------
(* Who may talk *)

LEMMA DealInit == ChatInit => DealInv
<1> SUFFICES ASSUME ChatInit PROVE DealInv
    OBVIOUS
<1>1. IInv
    BY InitLemma DEF ChatInit
<1>2. DOMAIN NoRow = {}
    BY DEF NoRow
<1> QED BY <1>1, <1>2 DEF ChatInit, Init, DealInv, PickupDeals, DonorsStaged, NoWrites

LEMMA DealsPersist == [ChatNext]_chatVars => [Next]_vars
BY DEF ChatNext, chatVars, Deal, Opening, OpenBegin, OpenPickups, OpenFind, OpenInsert,
       OpenEnd, Goes

THEOREM DealInvariant == ChatSpec => []DealInv
<1>1. DealInv /\ [ChatNext]_chatVars => DealInv'
    BY DealStep, DealsPersist
<1> QED BY <1>1, DealInit, PTL DEF ChatSpec

LEMMA DealsAreParties ==
    ASSUME DealInv, NEW a, NEW b, a # b
    PROVE  /\ ProposalRelates(a, b) <=>
                \E p \in DOMAIN proposal :
                   {a, b} \subseteq
                       Parties(proposal[p], donation[proposal[p].donation].donor)
           /\ PickupRelates(a, b) => ProposalRelates(a, b)
<1> USE DEF DealInv
<1>1. ASSUME NEW p \in DOMAIN proposal
      PROVE  LET r == proposal[p]
                 o == donation[r.donation].donor
             IN  Deals(a, b, r, o) <=> {a, b} \subseteq Parties(r, o)
    BY DEF Deals, Parties
<1>2. \A p \in DOMAIN proposal : proposal[p].donation \in DOMAIN donation
    BY DEF IInv, Refs
<1>3. ASSUME NEW k \in DOMAIN pickup,
             Deals(a, b, pickup[k], donation[pickup[k].donation].donor)
      PROVE  ProposalRelates(a, b)
  <2>1. PICK p \in DOMAIN proposal : p = pickup[k].proposal /\ SameDeal(proposal[p], pickup[k])
      BY DEF IInv, Refs, PickupDeals
  <2> QED BY <1>2, <1>3, <2>1 DEF SameDeal, Deals, ProposalRelates
<1> QED BY <1>1, <1>2, <1>3 DEF ProposalRelates, PickupRelates

(* The check of GetOrCreateConversation lets exactly the parties of one     *)
(* proposal talk: its two joins, in both directions, are equivalent to      *)
(* sharing a proposal, whatever the requests in flight.                     *)
THEOREM RelatedAreParties == ChatSpec => []RelatedIffParties
<1>1. DealInv => RelatedIffParties
  <2>1. ASSUME DealInv, NEW a \in Users, NEW b \in Users
        PROVE  UsersRelatedForChat(a, b) <=>
                 /\ a # b
                 /\ \E p \in DOMAIN proposal :
                      {a, b} \subseteq
                          Parties(proposal[p], donation[proposal[p].donation].donor)
      BY <2>1, DealsAreParties DEF UsersRelatedForChat
  <2> QED BY <2>1 DEF RelatedIffParties
<1> QED BY <1>1, DealInvariant, PTL

-----------------------------------------------------------------------------
(* The conversations *)

Pairs == Users \X Users
InOrder(pair) == pair[1] # pair[2] /\ Rank[pair[1]] <= Rank[pair[2]]
Related(pair) == UsersRelatedForChat(pair[1], pair[2])
Decided == {"find", "insert", "found", "failed"}

(* An opener holds an ordered pair, a related one once the joins have said  *)
(* so, and the stored pairs are ordered, related and unique.                *)
OpenOK ==
    /\ open \in [Openers -> [pc : {"idle", "pickups"} \cup Decided,
                             pair : {<<>>} \cup Pairs]]
    /\ \A o \in Openers : open[o].pc # "idle" =>
           open[o].pair \in Pairs /\ InOrder(open[o].pair)
    /\ \A o \in Openers : open[o].pc \in Decided => Related(open[o].pair)
StoredOK ==
    /\ \A c \in DOMAIN conversation :
           conversation[c] \in Pairs /\ InOrder(conversation[c]) /\ Related(conversation[c])
    /\ \A c, d \in DOMAIN conversation : conversation[c] = conversation[d] => c = d
TalkInv == DealInv /\ OpenOK /\ StoredOK

LEMMA RelationKept ==
    ASSUME DealInv, DonorsKept, DealsKept, NEW pair, Related(pair)
    PROVE  Related(pair)'
<1> DEFINE a == pair[1]
           b == pair[2]
<1>1. a # b /\ ProposalRelates(a, b)
    BY DealsAreParties DEF Related, UsersRelatedForChat
<1>2. PICK p \in DOMAIN proposal :
          /\ proposal[p].donation \in DOMAIN donation
          /\ Deals(a, b, proposal[p], donation[proposal[p].donation].donor)
    BY <1>1 DEF ProposalRelates
<1>3. /\ p \in DOMAIN proposal'
      /\ SameDeal(proposal[p], proposal'[p])
      /\ proposal'[p].donation \in DOMAIN donation'
      /\ donation'[proposal'[p].donation].donor = donation[proposal[p].donation].donor
    BY <1>2 DEF DonorsKept, DealsKept, SameDeal
<1>4. Deals(a, b, proposal'[p], donation'[proposal'[p].donation].donor)
    BY <1>2, <1>3 DEF Deals, SameDeal
<1>5. ProposalRelates(a, b)'
    BY <1>3, <1>4 DEF ProposalRelates
<1> QED BY <1>1, <1>5 DEF Related, UsersRelatedForChat

LEMMA OrderedPair ==
    ASSUME NEW a \in Users, NEW b \in Users, a # b
    PROVE  LET pair == Normalized(a, b) IN pair \in Pairs /\ InOrder(pair)
<1>1. Rank[a] \in Nat /\ Rank[b] \in Nat
    BY RankAssumption
<1> QED BY <1>1 DEF Normalized, Pairs, InOrder

LEMMA TalkInit == ChatInit => TalkInv
<1> SUFFICES ASSUME ChatInit PROVE TalkInv
    OBVIOUS
<1>1. DOMAIN NoRow = {}
    BY DEF NoRow
<1>2. OpenOK
    BY DEF ChatInit, OpenOK, NotOpening, Decided
<1>3. StoredOK
    BY <1>1 DEF ChatInit, StoredOK
<1> QED BY <1>2, <1>3, DealInit DEF TalkInv

(* A step of the deals keeps what the openers hold and what is stored.      *)
LEMMA DealTalkStep ==
    ASSUME TalkInv, [Next]_vars, UNCHANGED <<conversation, open>>
    PROVE  TalkInv'
<1>1. DealInv' /\ DonorsKept /\ DealsKept
    BY DealStep DEF TalkInv
<1>2. OpenOK'
    BY <1>1, RelationKept DEF TalkInv, OpenOK, InOrder
<1>3. StoredOK'
    BY <1>1, RelationKept DEF TalkInv, StoredOK, InOrder
<1> QED BY <1>1, <1>2, <1>3 DEF TalkInv

(* So does a step of an opener o that leaves the deals alone and moves o to *)
(* a state that fits.                                                       *)
LEMMA OpenerStep ==
    ASSUME TalkInv, UNCHANGED vars, NEW o \in Openers,
           NEW at \in {"idle", "pickups"} \cup Decided, NEW pair \in {<<>>} \cup Pairs,
           open' = [open EXCEPT ![o] = [pc |-> at, pair |-> pair]],
           at # "idle" => pair \in Pairs /\ InOrder(pair),
           at \in Decided => Related(pair),
           StoredOK'
    PROVE  TalkInv'
<1>1. [Next]_vars
    OBVIOUS
<1>2. DealInv' /\ DonorsKept /\ DealsKept
    BY <1>1, DealStep DEF TalkInv
<1>3. Related(pair) => Related(pair)'
    BY <1>2, RelationKept DEF TalkInv
<1>4. /\ open' \in [Openers -> [pc : {"idle", "pickups"} \cup Decided,
                                pair : {<<>>} \cup Pairs]]
      /\ open'[o].pc = at /\ open'[o].pair = pair
      /\ \A v \in Openers \ {o} : open'[v] = open[v]
    BY DEF TalkInv, OpenOK
<1>5. ASSUME NEW v \in Openers, NEW q, q = open'[v].pair
      PROVE  /\ open'[v].pc # "idle" => q \in Pairs /\ InOrder(q)
             /\ open'[v].pc \in Decided => Related(q)'
  <2>1. CASE v = o
      BY <1>3, <1>4, <1>5, <2>1
  <2>2. CASE v # o
    <3>1. q = open[v].pair /\ open'[v].pc = open[v].pc
        BY <1>4, <1>5, <2>2
    <3>2. open[v].pc \in Decided => Related(q)'
        BY <1>2, <3>1, RelationKept DEF TalkInv, OpenOK
    <3> QED BY <3>1, <3>2 DEF TalkInv, OpenOK
  <2> QED BY <2>1, <2>2
<1>6. OpenOK'
    BY <1>4, <1>5 DEF OpenOK, InOrder
<1> QED BY <1>2, <1>6 DEF TalkInv

LEMMA OpeningStep ==
    ASSUME TalkInv, NEW o \in Openers, Opening(o)
    PROVE  TalkInv'
<1> USE DEF TalkInv
<1>0. PICK at, pair : at = open[o].pc /\ pair = open[o].pair
    OBVIOUS
<1>1. /\ open[o] = [pc |-> at, pair |-> pair]
      /\ at \in {"idle", "pickups"} \cup Decided
      /\ pair \in {<<>>} \cup Pairs
      /\ at # "idle" => pair \in Pairs /\ InOrder(pair)
      /\ at \in Decided => Related(pair)
    BY <1>0 DEF OpenOK
<1>2. UNCHANGED <<vars, conversation>> => StoredOK'
  <2>1. SUFFICES ASSUME UNCHANGED <<vars, conversation>> PROVE StoredOK'
      OBVIOUS
  <2>2. UNCHANGED <<donation, proposal, pickup, conversation>>
      BY <2>1 DEF vars
  <2> QED BY <2>2 DEF StoredOK, InOrder, Related, UsersRelatedForChat, ProposalRelates,
                      PickupRelates
<1>3. ASSUME NEW to \in {"idle", "pickups"} \cup Decided, Goes(o, to),
             at # "idle", to \in Decided => Related(pair)
      PROVE  TalkInv'
  <2>1. open' = [open EXCEPT ![o] = [pc |-> to, pair |-> pair]]
    <3>1. [[pc |-> at, pair |-> pair] EXCEPT !.pc = to] = [pc |-> to, pair |-> pair]
        OBVIOUS
    <3>2. open' = [open EXCEPT ![o] = [open[o] EXCEPT !.pc = to]]
        BY <1>3 DEF Goes
    <3> QED BY <1>1, <3>1, <3>2, Zenon
  <2> QED BY <1>1, <1>2, <1>3, <2>1, OpenerStep DEF Goes
<1>4. ASSUME open' = [open EXCEPT ![o] = NotOpening], UNCHANGED <<vars, conversation>>
      PROVE  TalkInv'
  <2>1. "idle" \notin Decided
      BY DEF Decided
  <2> QED BY <1>2, <1>4, <2>1, OpenerStep DEF NotOpening
<1>5. CASE OpenBegin(o)
  <2>1. PICK a, b \in Users :
            LET q == Normalized(a, b) IN
            /\ a # b
            /\ open' = [open EXCEPT ![o] =
                 [pc |-> IF ProposalRelates(q[1], q[2]) THEN "find" ELSE "pickups",
                  pair |-> q]]
            /\ UNCHANGED <<vars, conversation>>
      BY <1>5 DEF OpenBegin
  <2>2. PICK q : q = Normalized(a, b)
      OBVIOUS
  <2>3. PICK to : to = IF ProposalRelates(q[1], q[2]) THEN "find" ELSE "pickups"
      OBVIOUS
  <2>4. q \in Pairs /\ InOrder(q)
      BY <2>1, <2>2, OrderedPair
  <2>5. to \in Decided => Related(q)
      BY <2>3, <2>4 DEF Decided, Related, UsersRelatedForChat, InOrder
  <2>6. to \in {"idle", "pickups"} \cup Decided
      BY <2>3 DEF Decided
  <2> QED BY <1>2, <2>1, <2>2, <2>3, <2>4, <2>5, <2>6, OpenerStep
<1>6. CASE OpenPickups(o)
  <2>1. at = "pickups"
      BY <1>0, <1>6 DEF OpenPickups
  <2>2. CASE PickupRelates(pair[1], pair[2])
    <3>1. Related(pair)
        BY <1>1, <2>1, <2>2 DEF Related, UsersRelatedForChat, InOrder
    <3> QED BY <1>0, <1>3, <1>6, <2>1, <2>2, <3>1 DEF OpenPickups, Decided
  <2> QED BY <1>0, <1>4, <1>6, <2>2 DEF OpenPickups
<1>7. CASE OpenFind(o)
  <2>1. at = "find" /\ Related(pair)
      BY <1>0, <1>1, <1>7 DEF OpenFind, Decided
  <2>2. PICK to \in {"insert", "found"} : Goes(o, to)
      BY <1>7 DEF OpenFind
  <2> QED BY <1>3, <2>1, <2>2 DEF Decided
<1>8. CASE OpenInsert(o)
  <2>1. at = "insert" /\ pair \in Pairs /\ InOrder(pair) /\ Related(pair)
      BY <1>0, <1>1, <1>8 DEF OpenInsert, Decided
  <2>2. CASE Existing(pair) # {}
      BY <1>0, <1>3, <1>8, <2>1, <2>2 DEF OpenInsert, Decided
  <2>3. CASE Existing(pair) = {}
    <3>1. PICK c \in Convs \ DOMAIN conversation :
              /\ conversation' = Applied(Only(c, pair), conversation)
              /\ open' = [open EXCEPT ![o].pc = "found"]
              /\ UNCHANGED vars
        BY <1>0, <1>8, <2>3 DEF OpenInsert
    <3>2. open' = [open EXCEPT ![o] = [pc |-> "found", pair |-> pair]]
      <4>1. [[pc |-> at, pair |-> pair] EXCEPT !.pc = "found"] = [pc |-> "found", pair |-> pair]
          OBVIOUS
      <4>2. open' = [open EXCEPT ![o] = [open[o] EXCEPT !.pc = "found"]]
          BY <3>1
      <4> QED BY <1>1, <4>1, <4>2, Zenon
    <3>3. /\ DOMAIN conversation' = {c} \cup DOMAIN conversation
          /\ conversation'[c] = pair
          /\ \A d \in DOMAIN conversation : conversation'[d] = conversation[d]
        BY <3>1 DEF Applied, Only
    <3>4. \A d \in DOMAIN conversation : conversation[d] # pair
        BY <2>3 DEF Existing
    <3>5. \A q : Related(q) => Related(q)'
      <4>1. UNCHANGED <<donation, proposal, pickup>>
          BY <3>1 DEF vars
      <4> QED BY <4>1 DEF Related, UsersRelatedForChat, ProposalRelates, PickupRelates
    <3>6. StoredOK'
      <4>1. ASSUME NEW d \in DOMAIN conversation', NEW q, q = conversation'[d]
            PROVE  q \in Pairs /\ InOrder(q) /\ Related(q)'
          BY <2>1, <3>3, <3>5, <4>1 DEF StoredOK
      <4> QED BY <3>3, <3>4, <4>1 DEF StoredOK, InOrder
    <3> QED BY <2>1, <3>1, <3>2, <3>6, OpenerStep DEF Decided
  <2> QED BY <2>2, <2>3
<1>9. CASE OpenEnd(o)
    BY <1>4, <1>9 DEF OpenEnd
<1> QED BY <1>5, <1>6, <1>7, <1>8, <1>9 DEF Opening

THEOREM TalkInvariant == ChatSpec => []TalkInv
<1>1. TalkInv /\ [ChatNext]_chatVars => TalkInv'
  <2>1. CASE ChatNext
    <3>1. Deal => [Next]_vars /\ UNCHANGED <<conversation, open>>
        BY DEF Deal
    <3> QED BY <2>1, <3>1, DealTalkStep, OpeningStep DEF ChatNext
  <2>2. CASE UNCHANGED chatVars
      BY <2>2, DealTalkStep DEF chatVars
  <2> QED BY <2>1, <2>2
<1> QED BY <1>1, TalkInit, PTL DEF ChatSpec

(* However many requests open a conversation of two users at once, one row  *)
(* of them is stored: pairs are kept in the order of Rank, and the unique   *)
(* index refuses the second.                                                *)
THEOREM ConversationsUnique == ChatSpec => []OneConversationPerPair
<1>1. StoredOK => OneConversationPerPair
  <2>1. ASSUME NEW p \in Pairs, NEW q \in Pairs, InOrder(p), InOrder(q),
               {p[1], p[2]} = {q[1], q[2]}
        PROVE  p = q
    <3>1. \A a \in Users : Rank[a] \in Nat
        BY RankAssumption
    <3>2. p[1] = q[1] /\ p[2] = q[2]
        BY <2>1, <3>1, RankAssumption DEF Pairs, InOrder
    <3> QED BY <3>2 DEF Pairs
  <2> QED BY <2>1 DEF StoredOK, OneConversationPerPair
<1> QED BY <1>1, TalkInvariant, PTL DEF TalkInv

(* The users of a stored conversation are related, at any later time, though*)
(* the check and the insert are separate statements.                        *)
THEOREM TalkersStayRelated == ChatSpec => []TalkersRelated
<1>1. StoredOK => TalkersRelated
    BY DEF StoredOK, TalkersRelated, Related
<1> QED BY <1>1, TalkInvariant, PTL DEF TalkInv
=============================================================================
