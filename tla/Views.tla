------------------------------- MODULE Views -------------------------------
(* What the dashboards show of the lists they loaded and which requests     *)
(* their buttons send: one operator per component of app/_roles and         *)
(* app/_components. A page is the data of one load (page.tsx, DashboardData).*)
(* Choices that live in the browser (filter and search, which survive a     *)
(* refresh, order and selection, which do not) are parameters: the user may *)
(* have made any of them.                                                   *)
EXTENDS Api, SequencesExt

CONSTANTS
    PanelRows, PanelReceivers,  \* cards of the desktop panels: 5 donations, 4 receivers
    PhoneRows,                  \* cards of either kind on a phone: 2
    Searches                    \* what a search may find: sets of receivers and donation ids

ASSUME ViewsAssumption ==
    /\ {PanelRows, PanelReceivers, PhoneRows} \subseteq Nat \ {0}
    /\ \A found \in Searches : found \subseteq Receivers \cup (1 .. MaxDonations)

(* Users are finitely many and have one role each (models.go, Profile.Role). *)
ASSUME RolesAssumption ==
    /\ IsFiniteSet(Users)
    /\ Donors \cap Receivers = {} /\ Donors \cap Volunteers = {}
    /\ Receivers \cap Volunteers = {}

-----------------------------------------------------------------------------
(* An optional value is a set of at most one element.                       *)
First(s) == IF s = <<>> THEN {} ELSE {s[1]}
Find(s, S) == First(Kept(s, S))
OrElse(a, b) == IF a # {} THEN a ELSE b
Count(s, S) == Len(Kept(s, S))
Ids(rows) == {row.id : row \in rows}
WithId(s, id) == {row \in ToSet(s) : row.id = id}
WithStatus(s, statuses) == Kept(s, {row \in ToSet(s) : row.status \in statuses})

ListReceivers == Upto(SetToSeq(Receivers), PageSize)

(* The data of a load: receivers are fetched for volunteers only.           *)
PageOf(u) ==
    [donations |-> ListDonations(u),
     proposals |-> ListProposals(u),
     pickups |-> ListPickups(u),
     receivers |-> IF u \in Volunteers THEN ListReceivers ELSE <<>>,
     notifications |-> inbox[u]]

(* A request a button sends: what, on which row, for which receiver.        *)
Ask(call, rows) == {[call |-> call, on |-> id, to |-> {}] : id \in Ids(rows)}

-----------------------------------------------------------------------------
(* The volunteer's dashboard. c.filter and c.found are the filter and the   *)
(* search of the top bar, c.donation and c.receiver the cards last clicked. *)

Filters == {"All", "Available", "Proposal pending"}
FilterStatuses(filter) ==
    CASE filter = "All" -> {"available", "proposal_pending"}
      [] filter = "Available" -> {"available"}
      [] filter = "Proposal pending" -> {"proposal_pending"}

FilteredDonations(page, c) ==
    Kept(WithStatus(page.donations, FilterStatuses(c.filter)),
         {d \in ToSet(page.donations) : d.id \in c.found})
FilteredReceivers(page, c) == Kept(page.receivers, c.found)
AvailableDonations(page, c) == WithStatus(FilteredDonations(page, c), {"available"})

(* The clicked row while it is listed, else the first one.                  *)
(* Mutant: the donation clicked last is used whatever has become of it.     *)
ChosenDonationKept(page, c) ==
    OrElse(Find(FilteredDonations(page, c), WithId(page.donations, c.donation)),
           First(AvailableDonations(page, c)))
ChosenDonation(page, c) ==
    OrElse(Find(AvailableDonations(page, c), WithId(page.donations, c.donation)),
           First(AvailableDonations(page, c)))
ChosenReceiver(page, c) ==
    OrElse(Find(FilteredReceivers(page, c), {c.receiver}),
           First(FilteredReceivers(page, c)))

(* "Create proposal" and its modal: both a donation and a receiver chosen.  *)
CreateOffers(page, c) ==
    {[call |-> "propose", on |-> d.id, to |-> {r}] :
        d \in ChosenDonation(page, c), r \in ChosenReceiver(page, c)}

(* The cards of the panels: available donations first, or newest first, and *)
(* only an available one can be clicked. The comparator answers 1 for equal *)
(* ones, by which the browsers' sort keeps their order.                     *)
DonationCards(page, c, newest) ==
    LET shown == FilteredDonations(page, c) IN
    Upto(IF newest THEN shown
                   ELSE WithStatus(shown, {"available"})
                        \o WithStatus(shown, {"proposal_pending"}),
         PanelRows)
ClickableDonations(page, c) ==
    UNION {Ids(ToSet(WithStatus(DonationCards(page, c, newest), {"available"}))) :
              newest \in BOOLEAN}
ReceiverCards(page, c) == ToSet(Upto(FilteredReceivers(page, c), PanelReceivers))

(* The cards of a phone: receivers regardless of the search.                *)
PhoneDonationCards(page, c) == Ids(ToSet(Upto(AvailableDonations(page, c), PhoneRows)))
PhoneReceiverCards(page) == ToSet(Upto(page.receivers, PhoneRows))

Clear == [filter |-> "All", found |-> Receivers \cup (1 .. MaxDonations),
          donation |-> 0, receiver |-> 0]
Topbar(filter, found) == [Clear EXCEPT !.filter = filter, !.found = found]
Clicked(c, d, r) == [c EXCEPT !.donation = d, !.receiver = r]
TopbarChoices == {Topbar(f, s) : f \in Filters, s \in Searches \cup {Clear.found}}

(* A card clicked under one search stays selected under the next.           *)
VolunteerChoices(page) ==
    LET donations == UNION {ClickableDonations(page, c) : c \in TopbarChoices}
        receivers == UNION {ReceiverCards(page, c) : c \in TopbarChoices}
    IN  {Clicked(c, d, r) :
            c \in TopbarChoices, d \in {0} \cup donations, r \in {0} \cup receivers}
PhoneChoices(page) ==
    {Clicked(Clear, d, r) :
        d \in {0} \cup PhoneDonationCards(page, Clear), r \in {0} \cup PhoneReceiverCards(page)}

(* The active pickup is the newest one still under way.                     *)
UnderWay == {"assigned", "picked_up"}
(* Mutant: the newest pickup, finished or not.                              *)
NewestPickup(page) == First(page.pickups)
ActivePickup(page) == First(WithStatus(page.pickups, UnderWay))
Now(rows, status) == {row \in rows : row.status = status}

PickupOffers(page) ==
    Ask("pick_up", Now(ActivePickup(page), "assigned"))
    \cup Ask("deliver", Now(ActivePickup(page), "picked_up"))

(* Steps shown as done: assigned, picked up, delivered.                     *)
PickupSteps(page) ==
    LET mine == ActivePickup(page) IN
    <<mine # {}, \E k \in mine : k.status \in {"picked_up", "delivered"},
      \E k \in mine : k.status = "delivered">>
PhonePickupSteps(page) ==
    [i \in 1 .. 3 |->
        \E k \in ActivePickup(page) :
            \/ i = 1
            \/ i = 2 /\ k.status \in {"picked_up", "delivered"}
            \/ i = 3 /\ k.status = "delivered"]
PickupBadge(page) == {k.status : k \in ActivePickup(page)}

PendingCount(page) == Len(WithStatus(page.proposals, {"pending"}))
Glance(page, c) ==
    [available |-> Len(AvailableDonations(page, c)),
     pending |-> PendingCount(page), pickups |-> Len(page.pickups)]
PhoneVolunteerHero(page, c) ==
    [ready |-> Len(AvailableDonations(page, c)), pending |-> PendingCount(page)]

(* The phone's volunteer page creates proposals; it has no pickup buttons.  *)
VolunteerOffers(page) ==
    PickupOffers(page) \cup UNION {CreateOffers(page, c) : c \in VolunteerChoices(page)}
PhoneVolunteerOffers(page) == UNION {CreateOffers(page, c) : c \in PhoneChoices(page)}

-----------------------------------------------------------------------------
(* The donor's dashboard: the proposal queue, the table, the hero.          *)

(* Reject is offered on every card, Accept only while the proposal pends.   *)
QueueOffers(page) ==
    Ask("reject", ToSet(page.proposals))
    \cup Ask("accept", Now(ToSet(page.proposals), "pending"))

(* Mutant: the receiver's earlier acceptance outlives a rejection.          *)
QueueBadgesUnsettled(row) ==
    [donor |-> IF row.donorAccepted THEN "accepted" ELSE "pending",
     receiver |-> IF row.receiverAccepted THEN "accepted" ELSE "pending"]
QueueBadges(row) ==
    [donor |-> IF row.donorAccepted THEN "accepted" ELSE "pending",
     receiver |-> CASE row.status = "rejected" -> "rejected"
                    [] row.status # "rejected" /\ row.receiverAccepted -> "accepted"
                    [] OTHER -> "pending"]
(* "View details" takes Accept's place once the proposal is settled.        *)
QueueDetails(page) ==
    {[id |-> row.id, status |-> row.status,
      donor |-> row.donorAccepted, receiver |-> row.receiverAccepted] :
        row \in {p \in ToSet(page.proposals) : p.status # "pending"}}

TableStatuses(page) == {d.status : d \in ToSet(page.donations)}
TableRows(page, filter) ==
    Kept(page.donations, {d \in ToSet(page.donations) : filter \in {"all", d.status}})
ProposalCount(page, d) == Count(page.proposals, {p \in ToSet(page.proposals) : p.donation = d})
(* The footer of the table: "Showing n of m donations", with each filter.   *)
TableFooters(page) ==
    [f \in TableStatuses(page) |->
        [shown |-> Len(TableRows(page, f)), of |-> Len(page.donations)]]

DonorHero(page) ==
    [available |-> Len(WithStatus(page.donations, {"available"})),
     pending |-> PendingCount(page),
     delivered |-> Len(WithStatus(page.donations, {"delivered"}))]

-----------------------------------------------------------------------------
(* The receiver's dashboard. selected is the proposal card last clicked.    *)

(* The card that is open: the clicked one, else a pending one the donor has *)
(* accepted, else a pending one, else the newest.                           *)
ActiveProposal(page, selected) ==
    LET pending == WithStatus(page.proposals, {"pending"}) IN
    OrElse(Find(page.proposals, WithId(page.proposals, selected)),
    OrElse(Find(pending, {p \in ToSet(pending) : p.donorAccepted}),
    OrElse(First(pending), First(page.proposals))))

ReceiverPickup(page) == OrElse(ActivePickup(page), First(page.pickups))
TimelineProposal(page) ==
    IF ReceiverPickup(page) # {}
      THEN Find(page.proposals,
                UNION {WithId(page.proposals, k.proposal) : k \in ReceiverPickup(page)})
      ELSE First(WithStatus(page.proposals, {"accepted"}))

(* Both settled statuses, the own decision, or the buttons.                 *)
CardBadges(row) ==
    [donor |-> IF row.donorAccepted \/ row.status = "accepted" THEN "accepted" ELSE "pending",
     receiver |-> CASE row.status = "rejected" -> "rejected"
                    [] row.status = "accepted" -> "accepted"
                    [] row.status = "pending" /\ row.receiverAccepted -> "accepted"
                    [] OTHER -> "pending"]

(* Mutant: a settled proposal keeps its buttons.                            *)
CardOffersSettled(row) ==
    IF row.receiverAccepted THEN {} ELSE Ask("accept", {row}) \cup Ask("reject", {row})
CardOffers(row) ==
    IF row.status \in {"accepted", "rejected"} \/ row.receiverAccepted
      THEN {} ELSE Ask("accept", {row}) \cup Ask("reject", {row})
PhoneCardOffers(row) ==
    IF row.status = "pending" /\ ~ row.receiverAccepted
      THEN Ask("accept", {row}) \cup Ask("reject", {row}) ELSE {}

(* Steps shown as done: accepted, assigned, picked up, delivered.           *)
Timeline(page) ==
    LET pickups == ReceiverPickup(page)
        accepted == \E p \in TimelineProposal(page) : p.receiverAccepted \/ p.status = "accepted"
    IN  <<accepted, pickups # {},
          \E k \in pickups : k.status \in {"picked_up", "delivered"},
          \E k \in pickups : k.status = "delivered">>
PhoneTimeline(page) ==
    LET Reached(statuses) == \E k \in ReceiverPickup(page) : k.status \in statuses
        accepted == \E p \in TimelineProposal(page) : p.receiverAccepted \/ p.status = "accepted"
    IN  <<accepted, Reached({"assigned", "picked_up", "delivered"}),
          Reached({"picked_up", "delivered"}), Reached({"delivered"})>>
TimelineTitle(page) == \E p \in TimelineProposal(page) : p.status = "accepted"

ConfirmOffers(page) == Ask("deliver", Now(ReceiverPickup(page), "picked_up"))

(* Delivered meals are counted in donations, which a receiver is not sent.  *)
ReceiverStats(page) ==
    [pending |-> PendingCount(page),
     accepted |-> Len(WithStatus(page.proposals, {"accepted"})),
     meals |-> Len(WithStatus(page.donations, {"delivered"}))]

InboxOrder(page, newest) == IF newest THEN page.proposals ELSE Reverse(page.proposals)
AllDeliveries(page) == [i \in DOMAIN page.proposals |-> page.proposals[i].status]

InboxIds(page) == UNION {Ids(ToSet(InboxOrder(page, newest))) : newest \in BOOLEAN}
ReceiverOffers(page) ==
    ConfirmOffers(page)
    \cup UNION {CardOffers(row) : row \in UNION {ActiveProposal(page, s) :
                                      s \in {0} \cup InboxIds(page)}}
(* A phone shows one proposal and lets no other be chosen.                  *)
PhoneReceiverOffers(page) ==
    ConfirmOffers(page) \cup UNION {PhoneCardOffers(row) : row \in ActiveProposal(page, 0)}

-----------------------------------------------------------------------------
(* Around the dashboards: top bar, sidebar, side panels, notifications.     *)

Unread(page) == Count(page.notifications, {FALSE})
(* "Mark read" in the panel, which only a receiver may filter, and in the   *)
(* list of all notifications.                                               *)
NotificationRows(u, page, filter) ==
    {i \in DOMAIN page.notifications :
        u \in Receivers /\ filter = "unread" => ~ page.notifications[i]}
ReadOffers(u, page) ==
    LET listed == DOMAIN page.notifications
                  \cup UNION {NotificationRows(u, page, f) : f \in {"all", "unread"}}
    IN  {[call |-> "read", on |-> i, to |-> {}] : i \in {j \in listed : ~ page.notifications[j]}}

(* The badge beside "Available donations" or "Proposals"; hidden when 0.    *)
SidebarBadge(u, page) ==
    CASE u \in Volunteers -> {Len(WithStatus(page.donations, {"available"}))} \ {0}
      [] u \in Receivers -> {PendingCount(page)} \ {0}
      [] u \in Donors -> {}

AllDonations(page) == WithStatus(page.donations, {"available", "proposal_pending"})

Reports(page) ==
    [delivered |-> Len(WithStatus(page.pickups, {"delivered"})),
     inProgress |-> Len(WithStatus(page.pickups, {"picked_up"})),
     pickups |-> Len(page.pickups),
     accepted |-> Len(WithStatus(page.proposals, {"accepted"})),
     pending |-> PendingCount(page),
     helped |-> Cardinality({k.donation : k \in ToSet(page.pickups)})]

(* What the page of a role puts on the screen: its dashboard and the panel  *)
(* of notifications. A phone gets other dashboards for two of the roles and *)
(* shows the panel of notifications to donors and receivers only.           *)
DeskOffers(u, page) ==
    ReadOffers(u, page)
    \cup CASE u \in Donors -> QueueOffers(page)
           [] u \in Volunteers -> VolunteerOffers(page)
           [] u \in Receivers -> ReceiverOffers(page)
PhoneOffers(u, page) ==
    CASE u \in Donors -> ReadOffers(u, page) \cup QueueOffers(page)
      [] u \in Volunteers -> PhoneVolunteerOffers(page)
      [] u \in Receivers -> ReadOffers(u, page) \cup PhoneReceiverOffers(page)
=============================================================================
