# FoodLink in TLA+

FoodLink matches surplus food with those who need it: a **donor** lists a
donation, a **volunteer** proposes to carry it to a **receiver**, donor and
receiver both accept, and the volunteer picks the food up and delivers it. The
program is a Go API (`backend/`) over GORM and PostgreSQL, a Next.js frontend
(`frontend/`), an OpenAPI contract (`contracts/`) and deployment files.

This directory models the parts of it that keep state and can go wrong in ways
a test hardly reaches, checks them with TLC on small instances, and proves the
most important invariants with TLAPS for every instance.

## The system

| Component | State | Operations | What is hard |
|---|---|---|---|
| Donations (`store/donations.go`) | table `donations` | create, list | its status is written by three other components |
| Proposals (`store/proposals.go`) | table `delivery_proposals` | create, accept, reject, list | only accept locks the row it checks |
| Pickups (`store/pickups.go`) | table `pickups` | picked up, delivered, list | the check and the write are apart |
| Notifications (`store/notifications.go`) | table `notifications` | inserted by the above; list, mark read | must commit with what they report |
| Database (`db/db.go`, `models/`) | tables, row locks, 4 connections | transactions under READ COMMITTED | overlapping requests, failures, deadlocks |
| Seed, clean-up, nuke (`store/seed.go`, `store/store.go`, `cmd/api`) | the tables | rewrite demo rows, delete smoke rows, drop all | run while the API serves: every new instance seeds again |
| Chat (`chat/`, `store/chat.go`) | conversations, messages, hub of subscriber channels | open, list, send, stream | hub in memory, bounded buffers that drop, list and stream race |
| Chat panel (`ChatPanel.tsx`) | shown messages, event source | load, open, send, receive | answers arrive out of order or for another conversation |
| Dashboard client (`page.tsx`, `demo/page.tsx`, `lib/`) | token in the tab and in the browser, loaded data, loading flag, message | sign in, first load, refresh, run an action, sign out | late, failing and overlapping answers; other tabs change the stored token |
| Dashboards (`_roles/`, `NotificationsPanel`, `AppShell`, `SidePanels`) | filter, search, selected cards | choose, propose, accept, reject, mark, read | six lists, each read to its first page only; every component works out the state of a delivery for itself |
| Profiles (`store/profiles.go`) | table `profiles` | upsert, read, list receivers | |
| Auth (`auth/`, `server/auth.go`) | none: a signed token | demo login, check | |
| Presenters, validation (`dashboard/`, `httpx/`) | none | pagination, joins, checks of fields | boundaries |

The components meet in the database: every request of the API runs one
transaction of the store on a connection of a pool of four (`db.go:28`), and
each of the three writing components changes the donation's status. The chat
hub is the only state the API keeps in memory. The browser loads six lists at
once and shows what it makes of them; each button sends one request and loads
everything again.

What makes the core correct, however requests overlap or fail: a pickup exists
exactly when both sides accepted, at most one per proposal; a donation is never
stranded in a status nothing can move on; an acceptance or rejection is never
undone; every transition notifies in the same commit; no requests wait on each
other in a circle. What the code promises beyond that (one open proposal per
donation, one delivery per pickup, which then stands, no pickup of a rejected
proposal, the status flow of `docs/scope.md`) holds only while requests do not overlap, and the runs
show both. What makes the dashboards correct: somebody is always offered the
next step of a donation, no button of an up-to-date page is refused, all roles
are told the same story, and a tab shows the user it acts for, with what that
user has done.

## Modules

| Module | Models | Notes |
|---|---|---|
| `Delivery` | `store/{donations,proposals,pickups}.go`, `createNotification` | one action per SQL statement another transaction can observe or wait for |
| `Lifecycle` | what `docs/scope.md` promises of one donation, one atomic step per request | the abstract specification |
| `DeliverySerial` | the refinement mapping from `Delivery` to `Lifecycle` | holds with one worker |
| `Reseed` | `store/seed.go` run by `api --migrate` beside the API | composes `Delivery` with the seeding transaction |
| `Conversations` | opening a conversation (`store/chat.go`) | composes `Delivery` with the requests that read its tables and insert conversations |
| `Chat` | sending and streaming (`chat/service.go`, `chat/http.go`) | goroutines, the hub's lock and channels |
| `ChatPanel` | `ChatPanel.tsx` | three effects whose answers come in any order |
| `Api` | the API as a page meets it: lists with their first page, requests as single steps | refines `Lifecycle`, as `Delivery` does without overlap |
| `Views` | what each component of a dashboard shows of the lists and which requests its buttons send | operators on the data of one load; extends `Api` |
| `Dashboards` | the three dashboards, on a desk and on a phone, in every state of the API | properties relating `Views` of all users to `Api` |
| `Browser` | `demo/page.tsx`, `app/page.tsx`, `lib/auth.ts`, `lib/session.ts` | one tab, its asynchronous functions, the token it shares with other tabs |
| `DeliveryProofs`, `SerialProofs`, `ReseedProofs`, `ConversationProofs` | theorems about `Delivery`, `DeliverySerial`, `Reseed` and `Conversations` | TLAPS; the last three build on the first |
| `ChatProofs`, `ChatPanelProofs`, `ApiProofs`, `BrowserProofs` | theorems about `Chat`, `ChatPanel`, `Api` with `Dashboards`, and `Browser` | TLAPS |
| `DeliveryMC`, `ReseedMC`, `ConversationsMC`, `ChatMC`, `ChatPanelMC`, `DashboardsMC`, `BrowserMC` | instances for TLC | |

### Delivery

`donation`, `proposal`, `pickup` and `notification` are the committed tables:
functions from the ids in use to rows. A row keeps its status, its references,
and, of each nullable time, whether it is set; texts, locations, times and
contact overrides are left out. Equal notifications are counted, up to
`NotifCap` for "that many or more".

A *worker* is a connection of the pool serving one request. `pc[w]` is the
next statement, `call[w]` the request, `staged[w]` the rows its transaction has
written, `lock[r]` the worker that holds row `r`. READ COMMITTED is modelled as
the code uses it: `tx.First` reads the last committed row; `UPDATE` and
`SELECT ... FOR UPDATE` wait until no other transaction holds the row and then
work on the newest committed row; an `UPDATE` by primary key re-checks nothing;
commit publishes the writes and frees the locks; rollback frees both. The
first, unlocked SELECT of a request and `BEGIN` are one action; so are
consecutive statements of which no other transaction can see the border, such
as an insert of a new row and the update that follows it.

| Code | Actions |
|---|---|
| `CreateDonation` | `CreateDonation` |
| `CreateDeliveryProposal` | `CreateRead`, `CreateWrite`, `Commit` |
| `AcceptDeliveryProposal` | `AcceptBegin`, `AcceptLock` or `AcceptRefuse`, `AcceptStamp`, then `AcceptPromote`, `AcceptAssign` (or, in `Reseed`, `AcceptExisting`), `Commit` |
| `RejectDeliveryProposal` | `RejectRead`, `RejectProposal`, `RejectDonation`, `Commit` |
| `MarkPickedUp`, `MarkDelivered` | `PickUpRead` / `DeliverRead`, `MarkPickup`, `MarkDonation`, `Commit` |
| an error, a lost connection, the process dying | `Fail` at any statement |

A request that is refused on its first read changes nothing and is left out;
`AcceptRefuse` is there because it first waits for the row's lock. `NewID`
draws an id not in use and not drawn by another transaction (64 random bits).
`Needs(w)` is the row the next statement of `w` locks, `WaitsFor(w)` the worker
that holds it.

### Reseed

`infra/aws/user_data.sh.tftpl` runs `api --migrate` whenever an instance boots,
so `SeedDemoData` runs against a database that is in use. It is one
transaction that writes donations, then proposals, then pickups. GORM's
`Assign(...).FirstOrCreate` on an existing row updates the columns whose seed
value is not zero (`Overwritten`): the status goes back, the times stay. The
instance is the bakery demo donation: its proposal is pending with the donor's
acceptance set, so after the receiver's acceptance a reseed reopens a proposal
that has a pickup; that is when the `existingPickup` branch of
`AcceptDeliveryProposal` (`AcceptExisting`) runs. Seeding and requests lock
donation and proposal in opposite orders, and PostgreSQL's deadlock detection
(`BreakDeadlock`) rolls one of them back.

### Conversations

An *opener* is a connection that serves `GetOrCreateChatConversation`: four
statements without a transaction (the join over proposals, the join over
pickups, the lookup, the insert), so every one of them is an action and the
deals of `Delivery` go on in between. Ids are compared as strings by the code
(`normalizeConversationUsers`); `Rank` is that order. The unique index on the
two user columns is the guard of `OpenInsert`; an opener it refuses ends in
`failed`, the answer 500.

| Code | Actions |
|---|---|
| `normalizeConversationUsers`, first join of `UsersRelatedForChat` | `OpenBegin` |
| second join, 403 | `OpenPickups` |
| `First(&conv)` | `OpenFind` |
| `Create(&conv)` | `OpenInsert` |
| the answer | `OpenEnd` |

### Chat

A message is its number in the order in which sends take their id and time. A
*sender* is the goroutine of one `SendChatMessage`: store (`Store`, or
`StoreFail`), take the hub's read lock (`PublishBegin`), offer the message to
each subscriber's channel or drop it when the channel is full (`Publish`, one
action per channel), give the lock back and answer (`PublishEnd`). A *stream*
is the goroutine of one `StreamChatMessages`, its channel and its client:
`StreamOpen`, `Subscribe` and `Unsubscribe` under the write lock, `Greet` (the
client sees the response start), `Take` and `Deliver` for each message, `Leave`
once the client is gone. `sync.RWMutex` is modelled with its announcement: a
writer that waits (`LockAnnounce`) keeps new readers out and goes on when those
inside have left. The write to the pipe returns when the response has taken it
(`Deliver`), which a slow client can hold up for ever; `sseFlushMiddleware`
passes each write on at once, so nothing is buffered behind it. `Restart` empties
everything but the table. Three history variables serve the properties:
`answered`, `after`, and a stream's `since` and `dropped`.

### ChatPanel

The state of the component (`conversations`, `active`, `messages`), its
requests on their way, and the server as far as the panel sees it. A request is
kept with what the server had when it was sent, and its answer shows the server
at some moment between then and the answer. `RunEffect` is React's cleanup and
re-run of the message effect; a list belongs to the run that asked for it, and
`Alive` is the flag its cleanup clears. `Connect` is the moment the stream is
subscribed, `Event` one call of its listener. The answer to a send is shown in
whichever conversation is open by then, as in the code.

### Api, Views and Dashboards

A dashboard is a function of six lists read at one moment (`page.tsx`,
`refresh`), so `Views` has one operator for each component of a page rather than
actions: `PageOf(u)` is the data of a load, and the operators say which rows a
panel shows, what its badges, counts and timelines say, and, as sets of
requests, which buttons it has. What the user may have chosen since the load
(`VolunteerChoices`: filter, search, cards clicked under one search and kept
under the next; `InboxIds`: the proposal clicked last) is quantified over. A
search is the set of what it finds. `Api` is what the lists come from: tables as
sequences in the order of creation, `Listed` with the role's filter, newest
first, cut to the first page, and the requests as atomic steps that any client
may send whenever the API accepts them. Desk and phone are two sets of
components fed with the same data; both are checked in each state.

| Code | Operators |
|---|---|
| `refresh` | `PageOf`, with `ListDonations`, `ListProposals`, `ListPickups`, `ListReceivers` |
| `VolunteerDashboard` and its panels | `FilteredDonations` to `ChosenReceiver`, `CreateOffers`, `DonationCards`, `ReceiverCards`, `ActivePickup`, `PickupOffers`, `PickupSteps`, `Glance` |
| `VolunteerMobileDashboard` | `PhoneDonationCards`, `PhoneReceiverCards`, `PhonePickupSteps`, `PhoneVolunteerHero`, `PhoneVolunteerOffers` |
| `ProposalQueue`, `DonationsTable`, `DonorMobileHero` | `QueueOffers`, `QueueBadges`, `QueueDetails`, `TableRows`, `TableFooters`, `ProposalCount`, `DonorHero` |
| `ReceiverDashboard` and its cards | `ActiveProposal`, `ReceiverPickup`, `TimelineProposal`, `CardBadges`, `CardOffers`, `Timeline`, `ConfirmOffers`, `ReceiverStats` |
| `ReceiverMobileDashboard` | `PhoneCardOffers`, `PhoneTimeline`, `PhoneReceiverOffers` |
| `NotificationsPanel`, `DashboardTopbar`, `DashboardSidebar`, `SidePanels` | `ReadOffers`, `Unread`, `SidebarBadge`, `AllDonations`, `Reports` |

### Browser

A *job* is an asynchronous function of the tab under way: `handleLogin`,
`bootstrap`, the callback of `runAction`, or a `refresh`. It keeps the user whose
token it captured, and whether the page that started it is still mounted: when
the user goes to another page, its jobs go on, but what they set is lost
(`Left`). `step` says whether the server has answered; a job may fail before and
after that, so an action may have been carried out and still be reported as
failed. `data.seen` counts the actions of the page a load has read. `stored` is
the token in local storage, which other tabs change at any time (`OtherTab`).
`draft` stands for what is typed into a form of the dashboard, which its loading
screen takes down. (The modal of a new proposal closes on its click, whatever the
answer; nothing is claimed of it.) Three history variables serve the properties: `done`,
`overlap` and `lost`.

| Code | Actions |
|---|---|
| loading a URL, links, history | `Reload`, `Navigate` (with `OpenApp`, `OpenDemo`) |
| `handleLogin`, `demoLogin` | `StartLogin`, `LoginStored`, `LoginDone`, `LoginFail` |
| `bootstrap` | `OpenApp`, `LoadRead`, `LoadShow`, `BootFail` |
| `runAction` | `Click`, `Commit`, `CallDone`, `CallFail` |
| `refresh` after an action | `CallDone` (with `Refresh`), `LoadRead`, `LoadShow`, `RefreshFail` |
| `signOut` | `SignOut` |

## Runs

| Run | Instance | Shows |
|---|---|---|
| `delivery_races` | 2 workers, 1 donation, 2 proposals, 2 pickups | `TypeOK`, `PickupIffBothAccepted`, `PromotesOnce`, `StatusBacked`, `DeliveredWasPickedUp`, `EveryTransitionNotified`, `WaitsAreShort`, `ProposalsMoveForward` survive every overlap and failure |
| `delivery_serial` | 1 worker, 2 donations, 3 proposals, 3 pickups | `OneLiveProposal`, `StatusesAgree`, `DeliveredOnce`, and `ImplementsLifecycle`, when requests do not overlap |
| `reseed` | 1 API worker and the seeder on the bakery rows | `OnePickupPerProposal`, `NothingWithdrawn`, `NobodyWaitsForEver` |
| `conversations` | 2 openers beside 1 API worker, 1 proposal, 4 users | `OneConversationPerPair`, `TalkersRelated`, `RelatedIffParties` |
| `chat` | 2 senders, 2 streams, 1 conversation, 2 messages, channels of 1 | `TypeOK`, `NothingMissed`, `FeedInOrder`, `HubExact`, `EverySendEnds`, `StreamsEnd` |
| `chat_panel` | 2 conversations, 2 messages, 2 runs of the message effect | `TypeOK`, `ShownOnce`, `OthersBelong`, `NothingMissedOnceOpen`, `TargetStays`, `ShownStays` |
| `dashboards` | 2 donors, 2 receivers, 2 volunteers, 2 donations, 2 proposals, pages of 3, 1 card per panel | `TypeOK`, `FreshOffersAccepted`, `NothingStuck`, `PagesTellOneStory`, `KeepsToLifecycle` |
| `browser` | 2 users, 3 jobs at once, 2 actions per page, 3 moves between pages | `TypeOK`, `TabShowsItsUser`, `OwnActionShown`, `DraftSurvivesFailure`, `LoadingEnds` |
| `delivery_two_proposals` | as `delivery_races` | violation of `OneLiveProposal` |
| `delivery_rejected` | as `delivery_races` | violation of `RejectedHasNoPickup` |
| `delivery_undone` | as `delivery_races` | violation of `DeliveryStands` |
| `listed_out` | 1 user per role, 2 donations, pages of 1 | violation of `NothingStuck` |

**Bounds.** Every conflict in the store is between two transactions on one
donation's rows; two workers give every such pair. A circle of three requests
would need a request that locks a donation first, which `NoDeadlock` excludes for
any number of workers. Two proposals of one donation allow a rejection
followed by a new proposal and two open proposals at once; the third proposal
and the second donation of `delivery_serial` let one donation run its life to
the end while another has been through a rejection. One user per role is
enough for the races, because the checks of the parties compare users by
identity and the interesting repetitions come from the same party twice. In
`reseed` one API worker meets the seeder in every order; races of two requests
are the business of the other runs.
`NotifCap = 2` tells "none", "one" and "more" apart. Ids and connections are
symmetric.

In the chat, two senders and two streams give every overlap of a publication
with a subscription, another publication and a leaving reader, and two writers
at the lock; a channel of one message instead of 32 is full after one, and a
reader that has taken one leaves room again. Two messages let one overtake
another. That a stream hears its own conversation only, and longer feeds, are
covered by `ChatProofs`, which proves all four safety properties for any numbers
of conversations and messages. The panel with two runs of
its message effect has an answer of the first while the second is running, on
the same or on the other conversation; two messages are enough for one to be
lost, repeated or misplaced beside another. `MaxMessages` and `MaxEffects` are
guards: at the bound no further message or run begins, and everything begun
goes on.

On the dashboards two users per role are needed to see that a count belongs to
one of them; two donations and two proposals give a settled and a pending
proposal side by side, a second proposal after a rejection, and two pickups of
one volunteer. One card per panel with two donations makes a panel leave one
out, pages of three hold everything, and pages of one (`listed_out`) do not. Two
searches, one that finds an older donation and one that finds one receiver, give
every relation between a selection and what is listed. Donors and volunteers are
symmetric; receivers are not, their list has an order. A tab with three slots
has two actions and a load, or an action and two overlapping loads, at once;
three moves between pages (sign-in counts as one) let it leave a page, come back
and meet the answers of what it left. `MaxCalls` bounds the actions of one page,
`MaxVisits` the moves; both are guards of the user's actions only.

**Deadlock checking** is on, but for `dashboards` and `listed_out`, which end when
every donation their bounds allow is delivered and everything is read.

**Fairness.** `ReseedFairSpec` assumes strong fairness of each worker's next
statement and of the seeder's. Weak fairness would not do: a statement waiting
for a row lock is disabled again whenever another transaction gets the row
first. PostgreSQL queues waiters in arrival order, so a waiter for whom the row
becomes free again and again does get it; and nothing in a handler waits for
anything but the database. No fairness is assumed of `Fail`, of new requests or
of starting to seed. In `Chat`, the steps of a sender and the subscription,
leaving and unsubscription of a stream are fair, strongly so where they wait for
the lock: `sync.RWMutex` lets the readers it kept out go before the next writer.
Whatever a client decides is not fair: it need not read (`Greet`, `Take`,
`Deliver`), nor leave. In `Browser`, each job makes progress in the end
(`WF_vars(Progress(j))`): a fetch is answered, or fails,
and nothing is assumed of the user or of other tabs.

**Findings.** Four places where the code does not keep what is promised
elsewhere:

- *Two open proposals* (`delivery_two_proposals`): `CreateDeliveryProposal`
  checks the donation on an unlocked read (`proposals.go:18`), and two
  overlapping requests both find it available; the help text (`SidePanels.tsx:352`) says
  the second cannot.
- *A rejected proposal with a pickup* (`delivery_rejected`): reject does not take
  the lock that accept takes (`proposals.go:190`), and overwrites an acceptance
  committed since its read, where the contract has a 409
  (`openapi.yaml:617`).
- *A delivery undone* (`delivery_undone`): a picked-up report reads the pickup
  without a lock (`pickups.go:93`) and overwrites a delivery committed since.
  Pickup and donation go back to `picked_up` with the delivered time kept, and
  the delivery can be reported, and notified, once more. The contract has a 409
  here too (`openapi.yaml:349`, `:617`), and the status flow of `docs/scope.md:46`
  goes on, not back. It takes a repeated report: the volunteer's first one
  allows the delivery the second one undoes.
- *A donation nobody is shown* (`listed_out`): lists end at a page of 20
  (`donations.go:63`) and no dashboard asks for the next, so an available
  donation older than 20 others is offered to no volunteer, where
  `docs/scope.md:14` has volunteers see available donations.

**Known behaviour**, met while modelling, that no document rules out, or that is a
smaller case of the above:

- Two overlapping reports of one delivery both pass the check (`pickups.go:61`),
  both succeed and both notify; `DeliveredOnce` holds only without overlap.
- Of two overlapping first requests for one conversation the slower one breaks
  the unique index (`chat.go:26`) and gets an error; asking again finds the row.
- A refresh that fails after an action leaves the loading screen on for ever,
  with the error behind it (`page.tsx:74`): the exception in `LoadingEnds`.
- Two refreshes that overlap may show the older answer last: the exception in
  `OwnActionShown`.
- A first load that fails removes the stored token, even one that another tab has
  stored meanwhile (`page.tsx:61`); a sign-in answered after the user has gone
  back to an open dashboard changes the stored token but not the tab.
- Reject stays on settled proposals in the donor's queue
  (`NotificationsPanel.tsx:247`): the exception in `FreshOffersAccepted`. The queue
  says that the receiver rejected, whoever did.
- A volunteer's phone has no buttons for a pickup, and a receiver's phone shows
  one proposal and lets no other be chosen: `NothingStuck` counts desks.
- A receiver is sent no donations (`donations.go:56`), so "Delivered meals" is
  always 0; the volunteer's pickup panel drops a pickup when it is delivered, so
  its last step is never shown as done.

## Proofs

`DeliveryProofs` proves, for any sets of users, ids and connections and any
`NotifCap >= 2`:

| Theorem | States |
|---|---|
| `Inductive` | `Spec => []IInv` |
| `TypeCorrect` | `Spec => []TypeOK` |
| `PickupsNeedBoth` | `Spec => []PickupIffBothAccepted` |
| `PickupsUnique` | `Spec => []OnePickupPerProposal` |
| `PromotedOnce` | `Spec => []PromotesOnce` |
| `NothingStranded` | `Spec => []StatusBacked` |

Assumptions: the ones `Delivery` names (`RolesAssumption`, `IdsAssumption`,
`NoneAssumption`, `CapAssumption`), which TLC evaluates in every run.

None of these invariants is inductive: whether a commit keeps them depends
on what the transaction wrote, and on what it read still being so. `IInv` adds,
for each transaction in flight, label by label, what it has staged and which
rows it holds (`CreateTx`, `AcceptTx`, `RejectTx`, `MarkTx`), that rows refer to
rows (`Refs`), and that ids drawn by two transactions differ (`FreshIds`). The
argument in short: accept holds the proposal's row from the check of its status
to the commit, and nobody commits a write to a row another holds
(`WrittenProposalLocked`, `WrittenPickupLocked`), so at the commit the proposal
is still pending and, by `PickupIffBothAccepted`, has no pickup yet. Reject and
the pickup reports act on stale reads, but the rows they write keep the
acceptances and the references, and the donation status they write is backed
by the row they write with it. The lemmas follow that order: tables, steps that
leave the tables alone (`LocalStep`, `AdvanceStep`), one lemma per action, what
a commit does to the other transactions (`CommitOthers`), one lemma per kind of
commit. `PromotedOnce` says that without reseeding the `existingPickup` branch of
accept is never taken, which is why `Step` leaves it to `Reseed`.

On top of `IInv` stand four more results of the same module:

| Theorem | States |
|---|---|
| `NoDeadlock` | `Spec => []WaitsAreShort` |
| `PickedUpFirst` | `Spec => []DeliveredWasPickedUp` |
| `ForwardAlways` | `Spec => ProposalsMoveForward` |
| `AllNotified` | `Spec => []EveryTransitionNotified` |

The first is an order of locks: a request that holds a donation asks for
nothing more, so a request somebody waits for waits for a donation at most, and
the holder of that waits for nobody. The second adds to `IInv` that a staged
delivery was read as picked up, the third compares, per kind of commit, the row
a transaction writes with the committed row it replaces, which other commits
may have changed since the transaction read it. For the fourth, the counts are
not inductive by themselves. `Telling` adds, for every transaction in
flight, that the notes it has staged fit the rows it has staged: a new proposal
is told to both parties, a row with one acceptance more to the volunteer, and by
the time it commits a rejection, a new pickup and a delivery too. That the first
notes are there exactly once needs the converse: a note about a new row is staged
only by the transaction that adds the row, and none is posted before it
(`NotEarly`). Repeated notes are counted up to `NotifCap`, of which the proof
needs that it is at least 2, the acceptances a proposal can have.

`SerialProofs` is about what `Delivery` promises while requests do not overlap.
The hypothesis is `[]NoOverlap`, at most one worker is busy at a time; the run
`delivery_serial` has one worker, the theorems any number that take turns:

| Theorem | States |
|---|---|
| `SerialInductive` | `Spec /\ []NoOverlap => []SInv` |
| `SerialOneLive` | `Spec /\ []NoOverlap => []OneLiveProposal` |
| `SerialStory` | `Spec /\ []NoOverlap => []StatusesAgree` |
| `SerialRejected` | `Spec /\ []NoOverlap => []RejectedHasNoPickup` |
| `SerialDelivered` | `Spec /\ []NoOverlap => []DeliveredOnce` |
| `SerialDeliveryStands` | `Spec /\ []NoOverlap => []DeliveryStands` |
| `SerialLifecycle` | `Spec /\ []NoOverlap => ImplementsLifecycle` |

The runs `delivery_two_proposals`, `delivery_rejected` and `delivery_undone` show
that three of them fail without the hypothesis, so the theorems say exactly what the unlocked checks
of the store are worth. `SInv` adds to `IInv` the tale of each donation (`Tale`:
one live proposal and one pickup at most, and the status these stand for), what
the request being served has read and nobody can have changed (`ReadHolds`),
that an acceptance adds one side (`AddsOneSide`), and who was told of a delivery
(`Reported`). The refinement goes commit by commit: what the commit does to the
rows of one donation is one step of `Lifecycle`, and every other step leaves the
mapped variables alone.

`ReseedProofs` is about `Reseed`, for any demo rows that satisfy `DemoAssumption`
(whole rows, referring to demo donations, no two demo pickups of one proposal, as
`seed.go:70-146` has them) and any number of requests beside the seeding run:

| Theorem | States |
|---|---|
| `ReseedInductive` | `ReseedSpec => []RInv` |
| `ReseedTypeCorrect` | `ReseedSpec => []TypeOK` |
| `ReseedPickupsUnique` | `ReseedSpec => []OnePickupPerProposal` |
| `ReseedWithdrawsNothing` | `ReseedSpec => NothingWithdrawn` |

`IInv` is no invariant here: a reseed makes a proposal pending again that has both
acceptances and a pickup. `RInv` says less about what a transaction has read and
more about the rows it writes: a stored row in a write set is locked by its
writer and keeps the acceptances, reports and proposal of the stored one
(`WritesProposal`, `WritesPickup`), which by the lock nobody has changed since; a
new pickup is drawn up under the lock of a proposal that has none. A commit of
a request and of the seeding run are then the same step (`Publishes`).

`ConversationProofs` goes on from `DeliveryProofs`, for any order of the users and any
number of openers:

| Theorem | States |
|---|---|
| `DealInvariant` | `ChatSpec => []DealInv` |
| `RelatedAreParties` | `ChatSpec => []RelatedIffParties` |
| `TalkInvariant` | `ChatSpec => []TalkInv` |
| `ConversationsUnique` | `ChatSpec => []OneConversationPerPair` |
| `TalkersStayRelated` | `ChatSpec => []TalkersRelated` |

They also assume `RankAssumption`: different users have different ranks. Two
facts carry them. A deal's parties are fixed when it is proposed: every row a
transaction stages keeps the donation, receiver and volunteer of the row it
replaces, a new pickup takes those of its proposal, and a staged donation keeps
its donor (`DealInv`, `DealStep`); so the joins over pickups add nobody, and a
relation, once there, stays (`RelationKept`). And an opener that has passed the
joins holds a related pair in the order of `Rank` (`OpenOK`), while the insert is
guarded by the unique index (`StoredOK`).

`BrowserProofs` is about `Browser`, for any users, any number of jobs at once and
any bounds on actions and moves, from `BrowserAssumption`:

| Theorem | States |
|---|---|
| `TabInvariant` | `Spec => []TabInv` |
| `TabIsOneUsers` | `Spec => []TabShowsItsUser` |
| `FreshInvariant` | `Spec => []FreshInv` |
| `OwnActionsShown` | `Spec => []OwnActionShown` |
| `DraftsSurvive` | `Spec => DraftSurvivesFailure` |
| `CountInvariant` | `Spec => []CountInv` |
| `TabTypeCorrect` | `Spec => []TypeOK` |

`TabInv` adds to the property that data and mounted jobs exist only on the
dashboard, and what a job is. `FreshInv` says what a load under way must have
read: without overlap there is one load at most, and with no call left and no
error it has read every call, because the call that came last either began the
load itself or ended in the error.

`CountInv` is behind the types: a button works only while the calls carried out
and those under way are fewer than `MaxCalls`, so the calls still to be carried
out have room below the bound, and no load has seen more than that.

`ChatProofs` is about `Chat`, for any users, conversations, senders, streams and
any buffer, from the assumptions `Chat` names:

| Theorem | States |
|---|---|
| `ChatInductive` | `Spec => []ChatInv` |
| `ChatTypeCorrect` | `Spec => []TypeOK` |
| `HubIsExact` | `Spec => []HubExact` |
| `FeedsInOrder` | `Spec => []FeedInOrder` |
| `GreetedMissesNothing` | `Spec => []NothingMissed` |

`ChatInv` follows a message through its send and a stream through its life. A
send has a number of its own; until it is published to a stream, the
stream does not have it (`SendOK`), which is why a feed repeats nothing, and its
message is stored before it is published and answered last, which is why a feed
shows no message before one answered before it was begun (`Ordered`).
`Complete` says of a greeted stream that every message stored since is in its
feed, was dropped on a full channel, or is still to be published to it, and
`Known` ties the hub's map to what each stream's handler is doing.

`ChatPanelProofs` is about `ChatPanel`, for any conversations and any number of
messages and runs of the message effect:

| Theorem | States |
|---|---|
| `PanelInductive` | `Spec => []PanelInv` |
| `PanelTypeCorrect` | `Spec => []TypeOK` |
| `PanelShowsOnce` | `Spec => []ShownOnce` |
| `PanelOthersBelong` | `Spec => []OthersBelong` |
| `PanelMissesNothing` | `Spec => []NothingMissedOnceOpen` |
| `PanelTargetStays` | `Spec => []TargetStays` |
| `PanelShownStays` | `Spec => ShownStays` |

`PanelInv` adds to the properties what the answers on their way are worth: lists
are of conversations the server has, the stream carries messages of its own
conversation only (`WireBelongs`), and a run of the effect asks for one list,
which is on its way until it is loaded (`OneList`), so a late list of an earlier
run changes nothing.

`ApiProofs` is about `Api` and the `Dashboards`, for any users, page sizes and
bounds:

| Theorem | States |
|---|---|
| `ApiInductive` | `Spec => []ApiInv` |
| `ApiTypeCorrect` | `Spec => []TypeOK` |
| `ApiLifecycle` | `Spec => KeepsToLifecycle` |
| `NothingLost` | `Spec => []Held` |
| `FreshNotRefused` | `Spec => []FreshOffersAccepted` |
| `NobodyStranded` | `Spec => [](EveryoneServed => NothingStuck)` |
| `OneStory` | `Spec => [](ListsFit => PagesTellOneStory)` |

`ApiInv` relates the tables: a donation has one proposal at most that is not
rejected, its status tells how far that one is (`Backed`), and a pickup carries
out an accepted proposal, alone (`Carried`). Every request is one of six kinds of
step of the tables, or none (`TablesMove`); the invariant is shown per kind, and
each kind is a step of `Lifecycle`. That the pickups fit in their table is a
pigeonhole argument: each has a proposal of its own (`FewPickups`). `Held` is the
converse: a donation that is not available has a proposal that is not rejected,
and an accepted proposal has its pickup. It is inductive given `ApiInv`.

The pages need facts about filtered lists. `Kept`, the filter of `Api` and
`Views`, is a recursive function that takes the set of what is kept, so that a
lemma about every filter can quantify over that set; the induction over the list
is a least-number argument (`LeastNumber`, `Induction`). From it follow what a
filtered list holds, in which order and how many (`KeptPicks`, `KeptElements`,
`KeptLength`), and what the three lists of a user are (`DonationList`,
`ProposalList`, `PickupList`): the rows they may see, newest first. Whether
a list is cut matters only where a theorem says so: `FreshNotRefused` needs no
hypothesis, as a cut list still shows the rows as they are.

`NobodyStranded` follows `Held` from a donation's status to the request that
takes it further, and from there to a button on somebody's desk. Its hypothesis
`EveryoneServed` says that no table is longer than a page (`ListsFit`), that there
are receivers and volunteers, and that each donation is found by a search that
finds few enough to show it. It holds in every state of the run `dashboards`; the
run `listed_out` shows the property to fail where lists are cut short, so
the hypothesis is not idle. `OneStory` says of whole lists that the components
agree. Its sums over users count each row once, for the one user it belongs to
(`SumCounts`, by induction on the size of the set of users); there the theorems
use `RolesAssumption`: users are finitely many and have one role each.

**Only model-checked.** Liveness (`EverySendEnds`, `StreamsEnd`, `LoadingEnds`,
`NobodyWaitsForEver`) is beyond the proof system. All safety and action
properties of the passing runs are theorems; those of `SerialProofs`,
`NothingStuck` and `PagesTellOneStory` under the hypotheses above, and outside
of these hypotheses they are false or unchecked, as the runs that expect a
violation show.

## Plan

`ChatPanel` composed with `Chat`, which it now abstracts.

## Not modelled

- Layout, maps, uploads, texts and times on the pages; no decision of the store
  depends on a clock. The check of a form's dates is local to the form.
- Routing, CORS, configuration, migrations and generated code: no state of their
  own.
- The server's check of a token: stateless, before every handler.
- The profile upsert (`store/profiles.go:58`): users are seeded with their
  profile, and the only column a page changes is the notes of its own user, by
  the last request.
- Clean-up of smoke data and dropping the tables (`store/store.go`): test and
  operator commands that state nothing about requests served meanwhile.
- The deployment beyond reseeding; two instances that share a database, where a
  chat stream hears only its own instance's sends.
- A chat panel whose target changes while it is open (`ChatPanel.tsx:56`): `ChatPanel`
  has the target of its mounting.
- Users who change role or are deleted: the program has neither.
