----------------------------- MODULE Dashboards -----------------------------
(* The three dashboards against the API they drive. The tables change by    *)
(* any request the API accepts (Api!Next), whoever sends it; the properties *)
(* say what the pages loaded in that state show and offer.                  *)
EXTENDS Views

-----------------------------------------------------------------------------
(* What the API answers to a button of a fresh page                         *)

AcceptedByApi(u, ask) ==
    CASE ask.call = "propose" -> \A r \in ask.to : Proposable(u, ask.on, r)
      [] ask.call \in {"accept", "reject"} -> Decidable(u, ask.on)
      [] ask.call = "pick_up" -> Collectable(u, ask.on)
      [] ask.call = "deliver" -> Deliverable(u, ask.on)
      [] ask.call = "read" -> ask.on \in DOMAIN inbox[u]

(* The donor's queue offers Reject whatever the proposal's state.           *)
SettledReject(u, ask) ==
    /\ u \in Donors /\ ask.call = "reject"
    /\ proposal[ask.on].status # "pending"

(* A button on a page that is up to date is never refused: the guards of    *)
(* the components and those of the handlers are the same, but for Reject in *)
(* the donor's queue (ProposalQueue), which stays on settled proposals.     *)
FreshOffersAccepted ==
    \A u \in Users : LET page == PageOf(u) IN
        \A ask \in DeskOffers(u, page) \cup PhoneOffers(u, page) :
            AcceptedByApi(u, ask) \/ SettledReject(u, ask)

-----------------------------------------------------------------------------
(* Who can take each donation further *)

(* u is offered a step forward for donation d: proposing it, the acceptance *)
(* u still owes, collecting it, handing it over.                            *)
Forward(u, ask, d) ==
    CASE ask.call = "propose" -> ask.on = d
      [] ask.call = "accept" ->
            /\ proposal[ask.on].donation = d
            /\ ~ IF u \in Donors THEN proposal[ask.on].donorAccepted
                                 ELSE proposal[ask.on].receiverAccepted
      [] ask.call \in {"pick_up", "deliver"} -> OfPickup(ask.on).donation = d
      [] OTHER -> FALSE

(* The pickup panel shows one pickup at a time: the newest under way.       *)
BusyVolunteer(d) ==
    \E k \in DOMAIN pickup :
        /\ OfPickup(k).donation = d
        /\ \E other \in DOMAIN pickup :
            /\ other > k
            /\ OfPickup(other).volunteer = OfPickup(k).volunteer
            /\ pickup[other].status \in UnderWay

(* The lists are whole while no table is longer than a page. Somebody can   *)
(* take a donation further if there are receivers and volunteers too and    *)
(* some search leaves it among the first cards of the volunteers' panel.    *)
ListsFit == Len(donation) <= PageSize /\ Len(proposal) <= PageSize
Reachable(d) ==
    \E found \in Searches \cup {Clear.found} :
        /\ d \in found
        /\ Cardinality({e \in found \cap DOMAIN donation : e >= d}) <= PanelRows
EveryoneServed ==
    /\ ListsFit /\ Receivers # {} /\ Volunteers # {}
    /\ \A d \in DOMAIN donation : Reachable(d)

(* No donation is stranded before it is delivered: somebody's dashboard     *)
(* offers the next step, or its volunteer has a newer pickup to finish      *)
(* first. docs/scope.md promises volunteers every available donation.       *)
NothingStuck ==
    LET offers == [u \in Users |-> DeskOffers(u, PageOf(u))] IN
    \A d \in DOMAIN donation :
        \/ donation[d].status = "delivered"
        \/ BusyVolunteer(d)
        \/ \E u \in Users : \E ask \in offers[u] : Forward(u, ask, d)

-----------------------------------------------------------------------------
(* The same fact on different screens *)

Pending(users) == SumFunction([u \in users |-> PendingCount(PageOf(u))])

(* Donor and receiver see the same acceptances on the cards of a proposal,  *)
(* whose buttons are the same on a desk and on a phone; the bell counts the *)
(* notifications that can be marked as read.                                *)
SameCards ==
    /\ \A p \in DOMAIN proposal : QueueBadges(proposal[p]) = CardBadges(proposal[p])
    /\ \A r \in Receivers : \A row \in ToSet(PageOf(r).proposals) :
        PhoneCardOffers(row) = CardOffers(row)
    /\ \A u \in Users : Unread(PageOf(u)) = Cardinality(ReadOffers(u, PageOf(u)))

(* Each proposal that pends counts once in each role, and holds a donation  *)
(* that the volunteers' list of all donations still shows.                  *)
SamePending ==
    /\ Pending(Donors) = Pending(Volunteers)
    /\ Pending(Donors) = Pending(Receivers)
    /\ \A v \in Volunteers : LET page == PageOf(v) IN
        /\ Len(AllDonations(page)) = Glance(page, Clear).available + Pending(Donors)
        /\ PhoneVolunteerHero(page, Clear).ready = Glance(page, Clear).available
        /\ SidebarBadge(v, page) \cup {0} = {Glance(page, Clear).available, 0}

(* What the volunteers report, the donors' heroes and tables add up to.     *)
SameDeeds ==
    /\ SumFunction([v \in Volunteers |-> Reports(PageOf(v)).delivered])
         = SumFunction([u \in Donors |-> DonorHero(PageOf(u)).delivered])
    /\ \A v \in Volunteers : LET report == Reports(PageOf(v)) IN
        /\ report.pickups = report.accepted
        /\ report.helped = report.accepted
    /\ \A u \in Donors : LET page == PageOf(u) IN
        \A d \in Ids(ToSet(TableRows(page, "all"))) :
            ProposalCount(page, d) = Cardinality({p \in DOMAIN proposal : proposal[p].donation = d})

(* A settled proposal is settled for everyone, and every filter of the      *)
(* donor's table leaves out exactly what the other filters show.            *)
SameSettled ==
    LET Settled(u) == Cardinality(QueueDetails(PageOf(u)))
        Accepted(r) == ReceiverStats(PageOf(r)).accepted
        Closed(r) == Count(AllDeliveries(PageOf(r)), {"accepted", "rejected"})
    IN
    /\ SumFunction([u \in Donors |-> Settled(u)]) = SumFunction([r \in Receivers |-> Closed(r)])
    /\ SumFunction([r \in Receivers |-> Accepted(r)])
         = SumFunction([v \in Volunteers |-> Reports(PageOf(v)).accepted])
    /\ \A u \in Donors : LET footers == TableFooters(PageOf(u)) IN
        SumFunction([f \in DOMAIN footers |-> footers[f].shown]) = Len(PageOf(u).donations)

(* The badge of the volunteer's pickup and the status in the donor's table. *)
SameStage ==
    \A v \in Volunteers, u \in Donors :
        \A k \in ActivePickup(PageOf(v)) : \A d \in ToSet(TableRows(PageOf(u), "all")) :
            d.id = k.donation =>
                PickupBadge(PageOf(v)) = {IF d.status = "pickup_assigned" THEN "assigned"
                                                                         ELSE d.status}

(* Every timeline is done up to some step and not beyond, says accepted     *)
(* when there is a pickup, and agrees with the volunteer's panel and phone  *)
(* when both show the same pickup.                                          *)
SameTimelines ==
    /\ \A v \in Volunteers : PickupSteps(PageOf(v)) = PhonePickupSteps(PageOf(v))
    /\ \A r \in Receivers : LET page == PageOf(r) IN
        /\ \A i \in 2 .. 4 : Timeline(page)[i] => Timeline(page)[i - 1]
        /\ Timeline(page)[2] => TimelineTitle(page)
        /\ PhoneTimeline(page) = Timeline(page)
        /\ \A v \in Volunteers :
            /\ ActivePickup(PageOf(v)) # {}
            /\ Ids(ActivePickup(PageOf(v))) = Ids(ReceiverPickup(page))
            => PickupSteps(PageOf(v)) = Tail(Timeline(page))

(* The fresh pages of all roles agree: on every proposal's badges, on how   *)
(* many proposals pend and are settled, on what has been delivered and how  *)
(* far each pickup is. Heroes, queue, inbox, table, reports, timelines and  *)
(* badges are each computed from another list by a component of their own.  *)
PagesTellOneStory ==
    SameCards /\ SamePending /\ SameDeeds /\ SameSettled /\ SameStage /\ SameTimelines
=============================================================================
