------------------------------ MODULE Browser ------------------------------
(* One browser tab: sign-in (demo/page.tsx), the loads of the dashboard and *)
(* the actions of its buttons (app/page.tsx), and the token they share with *)
(* the other tabs (lib/auth.ts). Requests are answered late, in any order   *)
(* or not at all, and go on when the page that sent them has been left.     *)
EXTENDS Naturals, FiniteSets

CONSTANTS
    Users,
    Slots,      \* requests under way at once: a bound of the exploration
    MaxCalls,   \* calls that take effect between two loads of the page: a bound
    MaxVisits,  \* moves of the user between pages: a bound
    None

ASSUME BrowserAssumption ==
    /\ None \notin Users
    /\ MaxCalls \in Nat /\ MaxVisits \in Nat

VARIABLES
    stored,   \* local storage: the token of the last sign-in in any tab
    route,    \* the page mounted in this tab: "demo" or "app"
    signing,  \* DemoPage.isLoading
    token, data, loading, action,  \* the state of AppPage
    draft,    \* has the user typed something into a form of the dashboard?
    job,      \* the asynchronous functions of this tab under way
    visits,
    done,     \* calls of the mounted page the server has carried out
    overlap,  \* has a refresh begun while another was under way?
    lost      \* has the last refresh after an action failed?

page == <<token, data, loading, action, draft, done, overlap, lost>>
vars == <<stored, route, signing, page, job, visits>>

(* A job acts for the user whose token it captured, and on the state of the *)
(* page that started it only while that page is mounted.                    *)
Idle == [kind |-> "idle", by |-> None, step |-> "sent", seen |-> 0, mounted |-> FALSE]
Started(kind, u) ==
    [kind |-> kind, by |-> u, step |-> "sent", seen |-> 0, mounted |-> TRUE]
Job == [kind : {"login", "boot", "call", "refresh"}, by : Users, step : {"sent", "answered"},
        seen : 0 .. MaxCalls, mounted : BOOLEAN]
Loads == {"boot", "refresh"}
Free == {j \in Slots : job[j] = Idle}
Left(jobs) == [j \in Slots |-> IF jobs[j] = Idle THEN Idle ELSE [jobs[j] EXCEPT !.mounted = FALSE]]

(* Jobs carry the tokens of users, and what is shown comes from a load: of  *)
(* some user, with at most the calls made so far (page.tsx useState).       *)
TypeOK ==
    /\ stored \in Users \cup {None}
    /\ route \in {"demo", "app"} /\ signing \in BOOLEAN
    /\ token \in Users \cup {None}
    /\ data = None \/ data \in [owner : Users, seen : 0 .. MaxCalls]
    /\ loading \in BOOLEAN /\ draft \in BOOLEAN /\ overlap \in BOOLEAN /\ lost \in BOOLEAN
    /\ action \in {"none", "success", "error"}
    /\ job \in [Slots -> Job \cup {Idle}]
    /\ visits \in 0 .. MaxVisits /\ done \in 0 .. MaxCalls

-----------------------------------------------------------------------------
(* Mounting a page *)

OpenDemo(jobs) ==
    /\ route' = "demo" /\ signing' = FALSE
    /\ token' = None /\ data' = None /\ loading' = TRUE /\ action' = "none"
    /\ draft' = FALSE /\ done' = 0 /\ overlap' = FALSE /\ lost' = FALSE
    /\ job' = jobs

(* AppPage's effect: without a token back to sign-in, else the first load.  *)
(* Mutant: the page loads with whatever token there is.                     *)
SignedInAssumed == TRUE
SignedIn == stored # None
OpenApp(jobs) ==
    IF ~ SignedIn THEN OpenDemo(jobs)
    ELSE /\ route' = "app" /\ signing' = FALSE
         /\ token' = stored /\ data' = None /\ loading' = TRUE /\ action' = "none"
         /\ draft' = FALSE /\ done' = 0 /\ overlap' = FALSE /\ lost' = FALSE
         /\ \E j \in Slots :
             /\ jobs[j] = Idle
             /\ job' = [jobs EXCEPT ![j] = Started("boot", stored)]

Init ==
    /\ stored = None /\ route = "demo" /\ signing = FALSE
    /\ token = None /\ data = None /\ loading = TRUE /\ action = "none"
    /\ draft = FALSE /\ done = 0 /\ overlap = FALSE /\ lost = FALSE
    /\ job = [j \in Slots |-> Idle]
    /\ visits = 0

-----------------------------------------------------------------------------
(* The user *)

Shown == route = "app" /\ ~ loading /\ data # None
Visit == visits < MaxVisits /\ visits' = visits + 1

(* Loading a URL ends the old page and everything it had under way.         *)
Reload ==
    /\ Visit
    /\ \/ OpenApp([j \in Slots |-> Idle])
       \/ OpenDemo([j \in Slots |-> Idle])
    /\ UNCHANGED stored

(* Links and the history buttons change the page without ending its jobs.   *)
Navigate ==
    /\ Visit
    /\ \/ route = "app" /\ OpenDemo(Left(job))
       \/ route = "demo" /\ OpenApp(Left(job))
    /\ UNCHANGED stored

SignOut ==
    /\ Shown
    /\ stored' = None
    /\ OpenDemo(Left(job))
    /\ UNCHANGED visits

StartLogin(u) ==
    /\ route = "demo" /\ ~ signing
    /\ Visit
    /\ signing' = TRUE
    /\ \E j \in Free : job' = [job EXCEPT ![j] = Started("login", u)]
    /\ UNCHANGED <<stored, route, page>>

(* A button of the dashboard: runAction(callback, success).                 *)
UnderWay(kinds) == {j \in Slots : job[j].kind \in kinds /\ job[j].mounted}
Click ==
    /\ Shown
    /\ done + Cardinality(UnderWay({"call"})) < MaxCalls
    /\ action' = "none"
    /\ \E j \in Free : job' = [job EXCEPT ![j] = Started("call", token)]
    /\ UNCHANGED <<stored, route, signing, token, data, loading, draft, visits, done,
                   overlap, lost>>

Type ==
    /\ Shown /\ ~ draft
    /\ draft' = TRUE
    /\ UNCHANGED <<stored, route, signing, token, data, loading, action, job, visits, done,
                   overlap, lost>>

(* Another tab signs in or out, or fails to load.                           *)
OtherTab ==
    /\ stored' \in Users \cup {None}
    /\ stored' # stored
    /\ UNCHANGED <<route, signing, page, job, visits>>

-----------------------------------------------------------------------------
(* Signing in: handleLogin *)

Ended(j) == job' = [job EXCEPT ![j] = Idle]
Answered(j) == job' = [job EXCEPT ![j].step = "answered"]

LoginStored(j) ==
    /\ job[j].kind = "login" /\ job[j].step = "sent"
    /\ stored' = job[j].by
    /\ Answered(j)
    /\ UNCHANGED <<route, signing, page, visits>>

(* router.replace("/app"): nothing is mounted anew when /app is open.       *)
LoginDone(j) ==
    /\ job[j].kind = "login" /\ job[j].step = "answered"
    /\ IF route = "app" THEN Ended(j) /\ UNCHANGED <<route, signing, page>>
                        ELSE OpenApp(Left([job EXCEPT ![j] = Idle]))
    /\ UNCHANGED <<stored, visits>>

LoginFail(j) ==
    /\ job[j].kind = "login"
    /\ signing' = (signing /\ ~ job[j].mounted)
    /\ Ended(j)
    /\ UNCHANGED <<stored, route, page, visits>>

-----------------------------------------------------------------------------
(* Actions and loads: runAction, refresh, bootstrap *)

(* The server carries the call out. One whose answer is lost may also be    *)
(* carried out later, or not: the user was told of an error, nobody counts. *)
Commit(j) ==
    /\ job[j].kind = "call" /\ job[j].step = "sent"
    /\ Answered(j)
    /\ done' = IF job[j].mounted THEN done + 1 ELSE done
    /\ UNCHANGED <<stored, route, signing, token, data, loading, action, draft, visits,
                   overlap, lost>>

(* The callback is through: success is announced and a refresh begins, with *)
(* the token of the page. It hides the dashboard and so ends every draft.   *)
(* Mutant: the refresh reads with the token stored last.                    *)
RefreshByStored(j) == Started("refresh", IF stored = None THEN job[j].by ELSE stored)
RefreshOf(j) == Started("refresh", job[j].by)
Refresh(j) ==
    /\ job' = [job EXCEPT ![j] = RefreshOf(j)]
    /\ loading' = TRUE /\ draft' = FALSE
    /\ overlap' = (UnderWay(Loads) # {})
    /\ lost' = FALSE

CallDone(j) ==
    /\ job[j].kind = "call" /\ job[j].step = "answered"
    /\ IF job[j].mounted
         THEN action' = "success" /\ Refresh(j)
         ELSE Ended(j) /\ UNCHANGED <<action, loading, draft, overlap, lost>>
    /\ UNCHANGED <<stored, route, signing, token, data, visits, done>>

(* Mutant: a refresh follows a failed call as well.                         *)
FailWithRefresh(j) ==
    IF job[j].mounted THEN Refresh(j) ELSE Ended(j) /\ UNCHANGED <<loading, draft, overlap, lost>>
FailOnly(j) == Ended(j) /\ UNCHANGED <<loading, draft, overlap, lost>>

CallFail(j) ==
    /\ job[j].kind = "call"
    /\ FailOnly(j)
    /\ action' = IF job[j].mounted THEN "error" ELSE action
    /\ UNCHANGED <<stored, route, signing, token, data, visits, done>>

(* Mutant: a load is answered from a cache of the last one.                 *)
SeenCached(j) == IF data = None THEN done ELSE data.seen
SeenBy(j) == done
LoadRead(j) ==
    /\ job[j].kind \in Loads /\ job[j].step = "sent"
    /\ job' = [job EXCEPT ![j].step = "answered", ![j].seen = SeenBy(j)]
    /\ UNCHANGED <<stored, route, signing, page, visits>>

(* Mutant: the lists are shown, the loading screen stays.                   *)
StillLoading(j) == loading
LoadingAfter(j) == loading /\ ~ job[j].mounted
LoadShow(j) ==
    /\ job[j].kind \in Loads /\ job[j].step = "answered"
    /\ Ended(j)
    /\ data' = IF job[j].mounted THEN [owner |-> job[j].by, seen |-> job[j].seen] ELSE data
    /\ loading' = LoadingAfter(j)
    /\ UNCHANGED <<stored, route, signing, token, action, draft, visits, done, overlap, lost>>

(* A failing refresh reports an error behind the loading screen it left on. *)
RefreshFail(j) ==
    /\ job[j].kind = "refresh"
    /\ Ended(j)
    /\ IF job[j].mounted THEN action' = "error" /\ lost' = TRUE ELSE UNCHANGED <<action, lost>>
    /\ UNCHANGED <<stored, route, signing, token, data, loading, draft, visits, done, overlap>>

(* A failing first load removes the stored token, whoever's it is by now.   *)
BootFail(j) ==
    /\ job[j].kind = "boot"
    /\ stored' = None
    /\ IF route = "app" THEN OpenDemo(Left([job EXCEPT ![j] = Idle]))
                        ELSE Ended(j) /\ UNCHANGED <<route, signing, page>>
    /\ UNCHANGED visits

LoginStep(j) == LoginStored(j) \/ LoginDone(j) \/ LoginFail(j)
CallStep(j) == Commit(j) \/ CallDone(j) \/ CallFail(j)
LoadStep(j) == LoadRead(j) \/ LoadShow(j) \/ RefreshFail(j) \/ BootFail(j)
Progress(j) == LoginStep(j) \/ CallStep(j) \/ LoadStep(j)

Next ==
    \/ Reload
    \/ Navigate
    \/ SignOut
    \/ \E u \in Users : StartLogin(u)
    \/ Click
    \/ Type
    \/ OtherTab
    \/ \E j \in Slots : LoginStored(j)
    \/ \E j \in Slots : LoginDone(j)
    \/ \E j \in Slots : LoginFail(j)
    \/ \E j \in Slots : Commit(j)
    \/ \E j \in Slots : CallDone(j)
    \/ \E j \in Slots : CallFail(j)
    \/ \E j \in Slots : LoadRead(j)
    \/ \E j \in Slots : LoadShow(j)
    \/ \E j \in Slots : RefreshFail(j)
    \/ \E j \in Slots : BootFail(j)

Spec == Init /\ [][Next]_vars

(* A fetch is answered or fails in the end; the user need not do anything.  *)
Fairness == \A j \in Slots : WF_vars(Progress(j))
FairSpec == Spec /\ Fairness

-----------------------------------------------------------------------------
(* The dashboard shows the data of the user its buttons act for, whatever   *)
(* signs in or out meanwhile here or in other tabs: page.tsx keeps the      *)
(* token of its first load and every job keeps the token it began with.     *)
TabShowsItsUser ==
    /\ data # None => route = "app" /\ data.owner = token
    /\ \A j \in Slots : job[j].mounted /\ job[j].kind # "login" => job[j].by = token

(* Once nothing is under way the page shows every call of its user that was *)
(* carried out, or says that something failed; two refreshes that overlap   *)
(* are the exception, the older answer may be shown last (runAction).       *)
OwnActionShown ==
    /\ Shown /\ UnderWay({"call"} \cup Loads) = {}
    /\ ~ overlap
    => data.seen = done \/ action = "error"

(* What the user has typed into a form disappears when a call has succeeded *)
(* or the page is left, never because a call failed: only a refresh takes   *)
(* the dashboard down, and handleCreateDonation resets the form last.       *)
DraftSurvivesFailure ==
    [][draft /\ ~ draft' => action' = "success" \/ route' = "demo" \/ data' = None]_vars

(* The loading screen of the dashboard ends, unless the refresh after an    *)
(* action failed, which leaves it for ever.                                 *)
LoadingEnds == route = "app" /\ loading ~> route # "app" \/ ~ loading \/ lost
=============================================================================
