------------------------------- MODULE Reseed -------------------------------
(* "api --migrate" run against a database the API is serving: the bootstrap *)
(* container of every new instance (infra/aws/user_data.sh.tftpl) runs it   *)
(* again. SeedDemoData is one transaction that writes the demo rows in the  *)
(* order donations, proposals, pickups, while Accept and Reject lock a      *)
(* proposal before its donation; PostgreSQL breaks the deadlocks that       *)
(* follow. The demo rows exist from the first run on; the users, profiles   *)
(* and notifications the seed writes are not told apart here.               *)
EXTENDS Delivery, Sequences

CONSTANTS
    Seeder,    \* the connection of the seeding process, one of Workers
    SeedRows,  \* ids of the demo rows in the order they are written
    SeedOf     \* id -> the row SeedDemoData assigns

ASSUME SeedAssumption ==
    /\ Seeder \in Workers
    /\ SeedRows \in Seq(Rows)
    /\ DOMAIN SeedOf = {SeedRows[i] : i \in DOMAIN SeedRows}
(* The demo rows are whole rows, refer to demo donations, and no two of the *)
(* demo pickups are of one proposal.                                        *)
ASSUME DemoAssumption ==
    LET Demo(Ids) == Ids \cap DOMAIN SeedOf IN
    /\ \A d \in Demo(Donations) : SeedOf[d] \in DonationRow
    /\ \A p \in Demo(Proposals) :
           SeedOf[p] \in ProposalRow /\ SeedOf[p].donation \in DOMAIN SeedOf
    /\ \A k \in Demo(Pickups) :
           SeedOf[k] \in PickupRow /\ SeedOf[k].donation \in DOMAIN SeedOf
    /\ \A k, l \in Demo(Pickups) : SeedOf[k].proposal = SeedOf[l].proposal => k = l

VARIABLE next  \* index of the next demo row to write, 0 when not seeding

seedVars == <<vars, next>>
API == Workers \ {Seeder}
Seeding == next > 0
Seeds(Ids) == [r \in Ids \cap DOMAIN SeedOf |-> SeedOf[r]]

ReseedInit ==
    /\ donation = Seeds(Donations)
    /\ proposal = Seeds(Proposals)
    /\ pickup = Seeds(Pickups)
    /\ notification = NoRow
    /\ pc = [w \in Workers |-> "idle"]
    /\ call = [w \in Workers |-> NoCall]
    /\ staged = [w \in Workers |-> NoWrites]
    /\ lock = [r \in Rows |-> None]
    /\ next = 0

SeedBegin ==
    /\ ~ Seeding
    /\ next' = 1
    /\ UNCHANGED vars

(* FirstOrCreate with Assign updates an existing row with the columns of    *)
(* the seed that are not zero: a NULL in the seed keeps what is there.      *)
Overwritten(old, seed) ==
    [f \in DOMAIN old |->
        IF f \in {"donorAccepted", "receiverAccepted", "pickedUp", "delivered"}
          THEN old[f] \/ seed[f]
          ELSE IF seed[f] = None THEN old[f] ELSE seed[f]]

(* Mutant: every column of the seed is saved.                               *)
AssignAll(table, r) == Only(r, SeedOf[r])
Assign(table, r) == Only(r, Overwritten(table[r], SeedOf[r]))

SeedWrite ==
    LET r == SeedRows[next] IN
    /\ Seeding
    /\ next <= Len(SeedRows)
    /\ next' = next + 1
    /\ Acquire(Seeder, r)
    /\ staged' = [staged EXCEPT
         ![Seeder].donation = IF r \in Donations THEN Applied(Assign(donation, r), @) ELSE @,
         ![Seeder].proposal = IF r \in Proposals THEN Applied(Assign(proposal, r), @) ELSE @,
         ![Seeder].pickup   = IF r \in Pickups THEN Applied(Assign(pickup, r), @) ELSE @]
    /\ UNCHANGED <<tables, pc, call>>

SeedCommit ==
    /\ next > Len(SeedRows)
    /\ next' = 0
    /\ donation' = Applied(staged[Seeder].donation, donation)
    /\ proposal' = Applied(staged[Seeder].proposal, proposal)
    /\ pickup' = Applied(staged[Seeder].pickup, pickup)
    /\ UNCHANGED notification
    /\ Finish(Seeder)

SeedFail == Seeding /\ next' = 0 /\ Rollback(Seeder)

(* Transactions of the API lock a donation last, so a cycle of waiters is   *)
(* the seeder and one worker.                                               *)
Deadlocked(w) ==
    /\ \E r \in Needs(w) : lock[r] = Seeder
    /\ next \in 1 .. Len(SeedRows)
    /\ lock[SeedRows[next]] = w

(* deadlock_timeout: whichever side looks first gives way.                  *)
BreakDeadlock ==
    \E w \in API :
        /\ Deadlocked(w)
        /\ \/ Rollback(w) /\ UNCHANGED next
           \/ SeedFail

SeedStep == SeedWrite \/ SeedCommit
ServeAPI(w) == Serve(w) /\ UNCHANGED next
ServeExisting(w) == AcceptExisting(w) /\ UNCHANGED next

ReseedNext ==
    \/ \E w \in API : ServeAPI(w)
    \/ \E w \in API : ServeExisting(w)
    \/ SeedBegin
    \/ SeedStep
    \/ SeedFail
    \/ BreakDeadlock

ReseedSpec == ReseedInit /\ [][ReseedNext]_seedVars

(* A started transaction is driven to its end: the handler never stops      *)
(* between statements, and PostgreSQL grants a row lock in arrival order,   *)
(* so a waiter whose lock is freed again and again gets it.                 *)
ReseedFairness ==
    /\ \A w \in API : SF_seedVars((Step(w) \/ AcceptExisting(w)) /\ UNCHANGED next)
    /\ SF_seedVars(SeedStep)
    /\ WF_seedVars(BreakDeadlock)
ReseedFairSpec == ReseedSpec /\ ReseedFairness

-----------------------------------------------------------------------------
(* What a party agreed to or reported is never taken back by seeding again: *)
(* acceptances, pickup and delivery times only get set (Assign skips NULL). *)
NothingWithdrawn ==
    [][/\ \A p \in DOMAIN proposal :
             /\ proposal[p].donorAccepted => proposal'[p].donorAccepted
             /\ proposal[p].receiverAccepted => proposal'[p].receiverAccepted
       /\ \A k \in DOMAIN pickup :
             /\ pickup[k].pickedUp => pickup'[k].pickedUp
             /\ pickup[k].delivered => pickup'[k].delivered]_seedVars

(* Seeding and serving get past each other: neither a request nor a seeding *)
(* run waits for ever, though they lock the same rows in opposite orders.   *)
NobodyWaitsForEver ==
    /\ \A w \in API : pc[w] # "idle" ~> pc[w] = "idle"
    /\ Seeding ~> ~ Seeding
=============================================================================
