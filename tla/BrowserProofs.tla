---------------------------- MODULE BrowserProofs ----------------------------
(* Theorems about Browser, for any users, any number of requests under way  *)
(* and any bounds of the exploration.                                       *)
EXTENDS Browser, FiniteSetTheorems, TLAPS

-----------------------------------------------------------------------------
(* The invariant behind TabShowsItsUser. Jobs have users, but for the free  *)
(* slots; data and mounted loads and calls exist only on the dashboard, and *)
(* are of the user the tab signed in as.                                    *)
JobKinds == {"login", "boot", "call", "refresh"}
Kept == [kind : JobKinds, by : Users, step : {"sent", "answered"}, seen : Nat, mounted : BOOLEAN]
Jobs == [Slots -> Kept \cup {Idle}]
Loaded == {None} \cup [owner : Users, seen : Nat]

Shape ==
    /\ stored \in Users \cup {None}
    /\ token \in Users \cup {None}
    /\ data \in Loaded
    /\ done \in Nat
    /\ job \in Jobs

OfThisTab(j) == job[j].mounted /\ job[j].kind # "login" => route = "app" /\ job[j].by = token
TabInv ==
    /\ Shape
    /\ data # None => route = "app" /\ data.owner = token
    /\ \A j \in Slots : OfThisTab(j)

(* A slot that is not free holds a job.                                     *)
LEMMA BusySlot ==
    ASSUME job \in Jobs, NEW j \in Slots, job[j].kind \in JobKinds
    PROVE  job[j] \in Kept
<1>1. job[j] \in Kept \cup {Idle}
  BY DEF Jobs
<1>2. Idle.kind \notin JobKinds
  BY DEF Idle, JobKinds
<1> QED
  BY <1>1, <1>2

(* Leaving a page keeps its jobs, none of them mounted.                     *)
LEMMA LeftJobs ==
    ASSUME NEW jobs \in Jobs
    PROVE  /\ Left(jobs) \in Jobs
           /\ \A j \in Slots : ~ Left(jobs)[j].mounted
<1> SUFFICES ASSUME NEW j \in Slots
             PROVE  /\ Left(jobs)[j] \in Kept \cup {Idle}
                    /\ ~ Left(jobs)[j].mounted
  BY DEF Left, Jobs
<1>1. CASE jobs[j] = Idle
  BY <1>1 DEF Left, Idle
<1>2. CASE jobs[j] # Idle
  <2>1. jobs[j] \in Kept
    BY <1>2 DEF Jobs
  <2> QED
    BY <1>2, <2>1 DEF Left, Kept
<1> QED
  BY <1>1, <1>2

(* Freeing a slot, or marking its job as answered, keeps the others.        *)
LEMMA FreedJobs ==
    ASSUME job \in Jobs, NEW j \in Slots
    PROVE  [job EXCEPT ![j] = Idle] \in Jobs
  BY DEF Jobs

LEMMA EndedKeeps ==
    ASSUME TabInv, NEW j \in Slots, Ended(j), UNCHANGED <<route, token>>
    PROVE  /\ job' \in Jobs
           /\ \A i \in Slots : OfThisTab(i)'
<1>1. job' = [job EXCEPT ![j] = Idle] /\ job \in Jobs
  BY DEF Ended, TabInv, Shape
<1>2. job' \in Jobs
  BY <1>1 DEF Jobs
<1>3. ASSUME NEW i \in Slots PROVE OfThisTab(i)'
  <2>1. CASE i = j
    BY <1>1, <2>1 DEF Jobs, OfThisTab, Idle
  <2>2. CASE i # j
    BY <1>1, <2>2 DEF Jobs, OfThisTab, TabInv
  <2> QED
    BY <2>1, <2>2
<1> QED
  BY <1>2, <1>3

(* A job that goes on with the same user, kind of page and mount.           *)
LEMMA GoingOn ==
    ASSUME TabInv, NEW j \in Slots, NEW next \in Kept, job' = [job EXCEPT ![j] = next],
           next.mounted /\ next.kind # "login" => route = "app" /\ next.by = token,
           UNCHANGED <<route, token>>
    PROVE  /\ job' \in Jobs
           /\ \A i \in Slots : OfThisTab(i)'
<1>1. job \in Jobs
  BY DEF TabInv, Shape
<1>2. job' \in Jobs
  BY <1>1 DEF Jobs
<1>3. ASSUME NEW i \in Slots PROVE OfThisTab(i)'
  <2>1. CASE i = j
    BY <1>1, <2>1 DEF Jobs, OfThisTab
  <2>2. CASE i # j
    BY <1>1, <2>2 DEF Jobs, OfThisTab, TabInv
  <2> QED
    BY <2>1, <2>2
<1> QED
  BY <1>2, <1>3

(* Mounting a page with jobs of which none is mounted.                      *)
LEMMA DemoOpened ==
    ASSUME NEW jobs \in Jobs, \A j \in Slots : ~ jobs[j].mounted, OpenDemo(jobs),
           stored' \in Users \cup {None}
    PROVE  TabInv'
  BY DEF OpenDemo, TabInv, Shape, OfThisTab, Loaded

LEMMA AppOpened ==
    ASSUME NEW jobs \in Jobs, \A j \in Slots : ~ jobs[j].mounted, OpenApp(jobs),
           stored \in Users \cup {None}, UNCHANGED stored
    PROVE  TabInv'
<1>1. CASE stored = None
  BY <1>1, DemoOpened DEF OpenApp, SignedIn
<1>2. CASE stored # None
  <2>1. PICK j \in Slots : job' = [jobs EXCEPT ![j] = Started("boot", stored)]
    BY <1>2 DEF OpenApp, SignedIn
  <2>2. Started("boot", stored) \in Kept
    BY <1>2 DEF Started, Kept, JobKinds
  <2>3. job' \in Jobs
    BY <2>1, <2>2 DEF Jobs
  <2>4. ASSUME NEW i \in Slots PROVE OfThisTab(i)'
    <3>1. CASE i = j
      BY <1>2, <2>1, <3>1 DEF Jobs, OfThisTab, Started, OpenApp, SignedIn
    <3>2. CASE i # j
      BY <2>1, <3>2 DEF Jobs, OfThisTab
    <3> QED
      BY <3>1, <3>2
  <2> QED
    BY <1>2, <2>3, <2>4 DEF OpenApp, SignedIn, TabInv, Shape, Loaded
<1> QED
  BY <1>1, <1>2

LEMMA NoJobs ==
    /\ [j \in Slots |-> Idle] \in Jobs
    /\ \A j \in Slots : ~ [i \in Slots |-> Idle][j].mounted
  BY DEF Jobs, Idle

-----------------------------------------------------------------------------
(* One step of the tab *)

LEMMA UserStep ==
    ASSUME TabInv,
           \/ Reload \/ Navigate \/ SignOut \/ Click \/ Type \/ OtherTab
           \/ \E u \in Users : StartLogin(u)
    PROVE  TabInv'
<1> USE DEF page
<1>0. job \in Jobs /\ stored \in Users \cup {None}
  BY DEF TabInv, Shape
<1>1. CASE Reload
  BY <1>0, <1>1, NoJobs, AppOpened, DemoOpened DEF Reload
<1>2. CASE Navigate
  BY <1>0, <1>2, LeftJobs, AppOpened, DemoOpened DEF Navigate
<1>3. CASE SignOut
  BY <1>0, <1>3, LeftJobs, DemoOpened DEF SignOut
<1>4. CASE Click
  <2>1. route = "app" /\ token \in Users
    BY <1>4 DEF Click, Shown, TabInv, Shape, Loaded
  <2>2. Started("call", token) \in Kept
    BY <2>1 DEF Started, Kept, JobKinds
  <2>3. PICK j \in Slots : job' = [job EXCEPT ![j] = Started("call", token)]
    BY <1>4 DEF Click, Free
  <2>4. Started("call", token).by = token
    BY DEF Started
  <2>5. job' \in Jobs /\ \A i \in Slots : OfThisTab(i)'
    BY <1>4, <2>1, <2>2, <2>3, <2>4, GoingOn DEF Click
  <2> QED
    BY <1>4, <2>5 DEF Click, TabInv, Shape
<1>5. CASE Type
  BY <1>5 DEF Type, TabInv, Shape, OfThisTab
<1>6. CASE OtherTab
  BY <1>6 DEF OtherTab, TabInv, Shape, OfThisTab
<1>7. ASSUME NEW u \in Users, StartLogin(u) PROVE TabInv'
  <2>1. Started("login", u) \in Kept /\ Started("login", u).kind = "login"
    BY DEF Started, Kept, JobKinds
  <2>2. PICK j \in Slots : job' = [job EXCEPT ![j] = Started("login", u)]
    BY <1>7 DEF StartLogin, Free
  <2>3. job' \in Jobs /\ \A i \in Slots : OfThisTab(i)'
    BY <1>7, <2>1, <2>2, GoingOn DEF StartLogin
  <2> QED
    BY <1>7, <2>3 DEF StartLogin, TabInv, Shape
<1> QED
  BY <1>1, <1>2, <1>3, <1>4, <1>5, <1>6, <1>7

(* The steps of a job mark it as answered or, with a load's answer, note    *)
(* what it has seen; the user it acts for stays.                            *)
LEMMA AnsweredStep ==
    ASSUME TabInv, NEW j \in Slots, job[j].kind \in JobKinds, NEW n \in Nat,
           \/ Answered(j)
           \/ job' = [job EXCEPT ![j].step = "answered", ![j].seen = n],
           UNCHANGED <<route, token, data>>, stored' \in Users \cup {None}, done' \in Nat
    PROVE  TabInv'
<1>1. job \in Jobs /\ job[j] \in Kept /\ OfThisTab(j)
  BY BusySlot DEF TabInv, Shape
<1>2. PICK next \in Kept : /\ job' = [job EXCEPT ![j] = next]
                           /\ next.mounted = job[j].mounted
                           /\ next.kind = job[j].kind
                           /\ next.by = job[j].by
  <2>1. CASE Answered(j)
    <3> DEFINE next == [job[j] EXCEPT !.step = "answered"]
    <3>1. next \in Kept /\ job' = [job EXCEPT ![j] = next]
      BY <1>1, <2>1 DEF Kept, Answered, Jobs
    <3>2. next.mounted = job[j].mounted /\ next.kind = job[j].kind /\ next.by = job[j].by
      BY <1>1 DEF Kept
    <3> QED
      BY <3>1, <3>2
  <2>2. CASE job' = [job EXCEPT ![j].step = "answered", ![j].seen = n]
    <3> DEFINE next == [job[j] EXCEPT !.step = "answered", !.seen = n]
    <3>1. next \in Kept /\ job' = [job EXCEPT ![j] = next]
      BY <1>1, <2>2 DEF Kept, Jobs
    <3>2. next.mounted = job[j].mounted /\ next.kind = job[j].kind /\ next.by = job[j].by
      BY <1>1 DEF Kept
    <3> QED
      BY <3>1, <3>2
  <2> QED
    BY <2>1, <2>2
<1>3. job' \in Jobs /\ \A i \in Slots : OfThisTab(i)'
  BY <1>1, <1>2, GoingOn DEF OfThisTab
<1> QED
  BY <1>3 DEF TabInv, Shape

LEMMA LoginStepKeeps ==
    ASSUME TabInv, NEW j \in Slots, LoginStep(j)
    PROVE  TabInv'
<1> USE DEF page
<1>1. job \in Jobs /\ stored \in Users \cup {None} /\ done \in Nat
  BY DEF TabInv, Shape
<1>2. CASE LoginStored(j)
  <2>1. job[j] \in Kept
    BY <1>1, <1>2, BusySlot DEF LoginStored, JobKinds
  <2>2. stored' \in Users
    BY <1>2, <2>1 DEF LoginStored, Kept
  <2> QED
    BY <1>1, <1>2, <2>2, AnsweredStep DEF LoginStored, JobKinds
<1>3. CASE LoginDone(j)
  <2>1. CASE route = "app"
    BY <1>3, <2>1, EndedKeeps DEF LoginDone, TabInv, Shape
  <2>2. CASE route # "app"
    BY <1>1, <1>3, <2>2, FreedJobs, LeftJobs, AppOpened DEF LoginDone
  <2> QED
    BY <2>1, <2>2
<1>4. CASE LoginFail(j)
  BY <1>4, EndedKeeps DEF LoginFail, TabInv, Shape
<1> QED
  BY <1>2, <1>3, <1>4 DEF LoginStep

LEMMA CallStepKeeps ==
    ASSUME TabInv, NEW j \in Slots, CallStep(j)
    PROVE  TabInv'
<1> USE DEF page
<1>1. job \in Jobs /\ stored \in Users \cup {None} /\ done \in Nat
  BY DEF TabInv, Shape
<1>2. CASE Commit(j)
  <2>1. done' \in Nat
    BY <1>1, <1>2 DEF Commit
  <2> QED
    BY <1>1, <1>2, <2>1, AnsweredStep DEF Commit, JobKinds
<1>3. CASE CallDone(j)
  <2>1. CASE job[j].mounted
    <3>1. job[j] \in Kept /\ job[j].kind # "login" /\ OfThisTab(j)
      BY <1>1, <1>3, BusySlot DEF CallDone, JobKinds, TabInv
    <3>2. RefreshOf(j) \in Kept /\ RefreshOf(j).by = job[j].by
      BY <3>1 DEF RefreshOf, Started, Kept, JobKinds
    <3>3. job' \in Jobs /\ \A i \in Slots : OfThisTab(i)'
      BY <1>3, <2>1, <3>1, <3>2, GoingOn DEF CallDone, Refresh, OfThisTab
    <3> QED
      BY <1>3, <3>3 DEF CallDone, TabInv, Shape
  <2>2. CASE ~ job[j].mounted
    BY <1>3, <2>2, EndedKeeps DEF CallDone, TabInv, Shape
  <2> QED
    BY <2>1, <2>2
<1>4. CASE CallFail(j)
  BY <1>4, EndedKeeps DEF CallFail, FailOnly, TabInv, Shape
<1> QED
  BY <1>2, <1>3, <1>4 DEF CallStep

LEMMA LoadStepKeeps ==
    ASSUME TabInv, NEW j \in Slots, LoadStep(j)
    PROVE  TabInv'
<1> USE DEF page
<1>1. job \in Jobs /\ stored \in Users \cup {None} /\ done \in Nat
  BY DEF TabInv, Shape
<1>2. CASE LoadRead(j)
  BY <1>1, <1>2, AnsweredStep DEF LoadRead, SeenBy, Loads, JobKinds
<1>3. CASE LoadShow(j)
  <2>1. job[j] \in Kept /\ job[j].kind # "login" /\ OfThisTab(j)
    BY <1>1, <1>3, BusySlot DEF LoadShow, Loads, JobKinds, TabInv
  <2>2. job' \in Jobs /\ \A i \in Slots : OfThisTab(i)'
    BY <1>3, EndedKeeps DEF LoadShow
  <2>3. data' \in Loaded /\ (data' # None => route = "app" /\ data'.owner = token)
    <3>1. CASE job[j].mounted
      BY <1>3, <2>1, <3>1 DEF LoadShow, OfThisTab, Kept, Loaded
    <3>2. CASE ~ job[j].mounted
      BY <1>3, <3>2 DEF LoadShow, TabInv, Shape
    <3> QED
      BY <3>1, <3>2
  <2> QED
    BY <1>1, <1>3, <2>2, <2>3 DEF LoadShow, TabInv, Shape
<1>4. CASE RefreshFail(j)
  BY <1>4, EndedKeeps DEF RefreshFail, TabInv, Shape
<1>5. CASE BootFail(j)
  <2>1. CASE route = "app"
    BY <1>1, <1>5, <2>1, FreedJobs, LeftJobs, DemoOpened DEF BootFail
  <2>2. CASE route # "app"
    BY <1>5, <2>2, EndedKeeps DEF BootFail, TabInv, Shape
  <2> QED
    BY <2>1, <2>2
<1> QED
  BY <1>2, <1>3, <1>4, <1>5 DEF LoadStep

-----------------------------------------------------------------------------
(* TabInv is inductive: it holds in every reachable state of a tab.         *)
THEOREM TabInvariant == Spec => []TabInv
<1>1. Init => TabInv
  BY NoJobs DEF Init, TabInv, Shape, Loaded, OfThisTab
<1>2. TabInv /\ [Next]_vars => TabInv'
  <2> SUFFICES ASSUME TabInv, [Next]_vars PROVE TabInv'
    OBVIOUS
  <2>1. CASE UNCHANGED vars
    BY <2>1 DEF vars, page, TabInv, Shape, OfThisTab
  <2>2. CASE Next
    <3>1. CASE \E j \in Slots : LoginStep(j)
      BY <3>1, LoginStepKeeps
    <3>2. CASE \E j \in Slots : CallStep(j)
      BY <3>2, CallStepKeeps
    <3>3. CASE \E j \in Slots : LoadStep(j)
      BY <3>3, LoadStepKeeps
    <3>4. CASE ~ \E j \in Slots : LoginStep(j) \/ CallStep(j) \/ LoadStep(j)
      BY <2>2, <3>4, UserStep DEF Next, LoginStep, CallStep, LoadStep
    <3> QED
      BY <3>1, <3>2, <3>3, <3>4
  <2> QED
    BY <2>1, <2>2
<1> QED
  BY <1>1, <1>2, PTL DEF Spec

(* Whatever is answered late, fails, is left behind by a change of page or  *)
(* happens to the token in other tabs, a dashboard shows the data of the    *)
(* user its buttons act for (page.tsx, bootstrap and refresh).              *)
THEOREM TabIsOneUsers == Spec => []TabShowsItsUser
<1>1. TabInv => TabShowsItsUser
  BY DEF TabInv, OfThisTab, TabShowsItsUser
<1> QED
  BY <1>1, TabInvariant, PTL

-----------------------------------------------------------------------------
(* A draft ends with a success or with the page: mounting a page starts     *)
(* without data, and runAction refreshes after a success only.              *)
THEOREM DraftsSurvive == Spec => DraftSurvivesFailure
<1> DEFINE Ends == action' = "success" \/ route' = "demo" \/ data' = None
<1>1. ASSUME NEW jobs, OpenApp(jobs) PROVE Ends
  BY <1>1 DEF OpenApp, OpenDemo
<1>2. ASSUME [Next]_vars, draft, ~ draft' PROVE Ends
  <2> USE DEF page
  <2>1. CASE Reload \/ Navigate \/ SignOut
    BY <1>1, <2>1 DEF Reload, Navigate, SignOut, OpenDemo
  <2>2. CASE Click \/ Type \/ OtherTab \/ \E u \in Users : StartLogin(u)
    BY <1>2, <2>2 DEF Click, Type, OtherTab, StartLogin
  <2>3. ASSUME NEW j \in Slots, LoginStep(j) PROVE Ends
    BY <1>1, <1>2, <2>3 DEF LoginStep, LoginStored, LoginDone, LoginFail
  <2>4. ASSUME NEW j \in Slots, CallStep(j) PROVE Ends
    BY <1>2, <2>4 DEF CallStep, Commit, CallDone, CallFail, FailOnly
  <2>5. ASSUME NEW j \in Slots, LoadStep(j) PROVE Ends
    BY <1>2, <2>5 DEF LoadStep, LoadRead, LoadShow, RefreshFail, BootFail, OpenDemo
  <2>6. CASE UNCHANGED vars
    BY <1>2, <2>6 DEF vars
  <2> QED
    BY <1>2, <2>1, <2>2, <2>3, <2>4, <2>5, <2>6 DEF Next, LoginStep, CallStep, LoadStep
<1>3. [Next]_vars => [draft /\ ~ draft' => Ends]_vars
  BY <1>2
<1> QED
  BY <1>3, PTL DEF Spec, DraftSurvivesFailure

-----------------------------------------------------------------------------
(* The invariant behind OwnActionShown. Without overlap a page has one load *)
(* under way at most; with no call left and no error to show, what that     *)
(* load has read, or else what the page shows, includes every call.         *)
LoadOn(j) == job[j].mounted /\ job[j].kind \in Loads
CallOn(j) == job[j].mounted /\ job[j].kind = "call"
OneLoad == \A i, j \in Slots : LoadOn(i) /\ LoadOn(j) => i = j
UpToDate ==
    /\ \A j \in Slots : LoadOn(j) /\ job[j].step = "answered" => job[j].seen = done
    /\ data # None /\ (\A j \in Slots : ~ LoadOn(j)) => data.seen = done
FreshInv ==
    route = "app" /\ ~ overlap =>
        /\ OneLoad
        /\ action # "error" /\ (\A j \in Slots : ~ CallOn(j)) => UpToDate

(* A page just mounted has its first load and no call.                      *)
LEMMA FreshOpened ==
    ASSUME NEW jobs \in Jobs, \A j \in Slots : ~ jobs[j].mounted, OpenApp(jobs) \/ OpenDemo(jobs)
    PROVE  FreshInv'
<1>1. CASE OpenDemo(jobs)
  BY <1>1 DEF OpenDemo, FreshInv
<1>2. CASE ~ OpenDemo(jobs)
  <2>1. PICK j \in Slots : job' = [jobs EXCEPT ![j] = Started("boot", stored)]
    BY <1>2 DEF OpenApp
  <2>2. \A i \in Slots : job'[i] = IF i = j THEN Started("boot", stored) ELSE jobs[i]
    BY <2>1 DEF Jobs
  <2>3. \A i \in Slots : LoadOn(i)' <=> i = j
    BY <2>2 DEF LoadOn, Started, Loads
  <2>4. ~ job'[j].step = "answered"
    BY <2>2 DEF Started
  <2> QED
    BY <2>3, <2>4 DEF FreshInv, OneLoad, UpToDate
<1> QED
  BY <1>1, <1>2

(* A slot that changes to or from a job that is not a load or a call of the *)
(* page, with nothing else to notice, or to one that waits for a call.      *)
LEMMA FreshElsewhere ==
    ASSUME FreshInv, job \in Jobs, NEW j \in Slots, NEW next,
           job' = [job EXCEPT ![j] = next],
           ~ LoadOn(j), ~ (next.mounted /\ next.kind \in Loads),
           \/ ~ CallOn(j) /\ UNCHANGED action
           \/ action' = "error"
           \/ next.mounted /\ next.kind = "call",
           (next.mounted /\ next.kind = "call") \/ UNCHANGED done,
           UNCHANGED <<route, overlap, data>>
    PROVE  FreshInv'
<1>1. \A i \in Slots : job'[i] = IF i = j THEN next ELSE job[i]
  BY DEF Jobs
<1>2. \A i \in Slots : LoadOn(i)' <=> LoadOn(i)
  BY <1>1 DEF LoadOn
<1>3. \A i \in Slots : LoadOn(i) => job'[i] = job[i]
  BY <1>1
<1>4. OneLoad => OneLoad'
  BY <1>2 DEF OneLoad
<1>5. CASE next.mounted /\ next.kind = "call"
  <2>1. CallOn(j)'
    BY <1>1, <1>5 DEF CallOn
  <2> QED
    BY <1>4, <2>1 DEF FreshInv
<1>6. CASE action' = "error"
  BY <1>4, <1>6 DEF FreshInv
<1>7. CASE ~ CallOn(j) /\ UNCHANGED <<action, done>>
  <2>1. ASSUME \A i \in Slots : ~ CallOn(i)' PROVE \A i \in Slots : ~ CallOn(i)
    BY <1>1, <1>7, <2>1 DEF CallOn
  <2>2. UpToDate => UpToDate'
    BY <1>2, <1>3, <1>7 DEF UpToDate
  <2> QED
    BY <1>4, <1>7, <2>1, <2>2 DEF FreshInv
<1> QED
  BY <1>5, <1>6, <1>7

LEMMA FreshUserStep ==
    ASSUME FreshInv, job \in Jobs,
           \/ Reload \/ Navigate \/ SignOut \/ Click \/ Type \/ OtherTab
           \/ \E u \in Users : StartLogin(u)
    PROVE  FreshInv'
<1> USE DEF page
<1>1. CASE Reload
  BY <1>1, NoJobs, FreshOpened DEF Reload
<1>2. CASE Navigate \/ SignOut
  BY <1>2, LeftJobs, FreshOpened DEF Navigate, SignOut
<1>3. CASE Type \/ OtherTab
  BY <1>3 DEF Type, OtherTab, FreshInv, OneLoad, UpToDate, LoadOn, CallOn
<1>4. CASE Click
  <2>1. PICK j \in Free : job' = [job EXCEPT ![j] = Started("call", token)]
    BY <1>4 DEF Click
  <2>2. j \in Slots /\ ~ LoadOn(j)
    BY <2>1 DEF Free, LoadOn, Idle
  <2>3. Started("call", token).mounted /\ Started("call", token).kind = "call"
    BY DEF Started
  <2>4. ~ (Started("call", token).mounted /\ Started("call", token).kind \in Loads)
    BY <2>3 DEF Loads
  <2> QED
    BY <1>4, <2>1, <2>2, <2>3, <2>4, FreshElsewhere DEF Click
<1>5. ASSUME NEW u \in Users, StartLogin(u) PROVE FreshInv'
  <2>1. PICK j \in Free : job' = [job EXCEPT ![j] = Started("login", u)]
    BY <1>5 DEF StartLogin
  <2>2. j \in Slots /\ ~ LoadOn(j) /\ ~ CallOn(j)
    BY <2>1 DEF Free, LoadOn, CallOn, Idle
  <2>3. Started("login", u).kind \notin Loads
    BY DEF Started, Loads
  <2> QED
    BY <1>5, <2>1, <2>2, <2>3, FreshElsewhere DEF StartLogin
<1> QED
  BY <1>1, <1>2, <1>3, <1>4, <1>5

LEMMA FreshLoginStep ==
    ASSUME FreshInv, job \in Jobs, NEW j \in Slots, LoginStep(j)
    PROVE  FreshInv'
<1> USE DEF page
<1>1. job[j].kind = "login" /\ job[j] \in Kept
  BY BusySlot DEF LoginStep, LoginStored, LoginDone, LoginFail, JobKinds
<1>2. ~ LoadOn(j) /\ ~ CallOn(j)
  BY <1>1 DEF LoadOn, CallOn, Loads
<1>3. ASSUME NEW next, job' = [job EXCEPT ![j] = next], next.kind \notin Loads,
             UNCHANGED <<route, overlap, data, action, done>>
      PROVE  FreshInv'
  BY <1>2, <1>3, FreshElsewhere
<1>4. Idle.kind \notin Loads
  BY DEF Idle, Loads
<1>5. CASE LoginStored(j)
  <2> DEFINE next == [job[j] EXCEPT !.step = "answered"]
  <2>1. job' = [job EXCEPT ![j] = next] /\ next.kind = "login"
    BY <1>1, <1>5 DEF LoginStored, Answered, Jobs, Kept
  <2>2. next.kind \notin Loads
    BY <2>1 DEF Loads
  <2> HIDE DEF next
  <2> QED
    BY <1>3, <1>5, <2>1, <2>2 DEF LoginStored
<1>6. CASE LoginDone(j)
  <2>1. CASE route = "app"
    BY <1>3, <1>4, <1>6, <2>1 DEF LoginDone, Ended
  <2>2. CASE route # "app"
    BY <1>6, <2>2, FreedJobs, LeftJobs, FreshOpened DEF LoginDone
  <2> QED
    BY <2>1, <2>2
<1>7. CASE LoginFail(j)
  BY <1>3, <1>4, <1>7 DEF LoginFail, Ended
<1> QED
  BY <1>5, <1>6, <1>7 DEF LoginStep

LEMMA FreshCallStep ==
    ASSUME FreshInv, job \in Jobs, NEW j \in Slots, CallStep(j)
    PROVE  FreshInv'
<1> USE DEF page
<1>1. job[j].kind = "call" /\ job[j] \in Kept
  BY BusySlot DEF CallStep, Commit, CallDone, CallFail, JobKinds
<1>2. ~ LoadOn(j) /\ (CallOn(j) <=> job[j].mounted)
  BY <1>1 DEF LoadOn, CallOn, Loads
<1>3. Idle.kind \notin Loads /\ ~ Idle.mounted
  BY DEF Idle, Loads
<1>4. CASE Commit(j)
  <2> DEFINE next == [job[j] EXCEPT !.step = "answered"]
  <2>1. job' = [job EXCEPT ![j] = next] /\ next.kind = "call" /\ next.mounted = job[j].mounted
    BY <1>1, <1>4 DEF Commit, Answered, Jobs, Kept
  <2>2. next.kind \notin Loads
    BY <2>1 DEF Loads
  <2>3. job[j].mounted \/ UNCHANGED done
    BY <1>4 DEF Commit
  <2> HIDE DEF next
  <2> QED
    BY <1>2, <1>4, <2>1, <2>2, <2>3, FreshElsewhere DEF Commit
<1>5. CASE CallDone(j) /\ job[j].mounted
  <2>1. job' = [job EXCEPT ![j] = RefreshOf(j)]
    BY <1>5 DEF CallDone, Refresh
  <2>2. \A i \in Slots : job'[i] = IF i = j THEN RefreshOf(j) ELSE job[i]
    BY <2>1 DEF Jobs
  <2>3. ASSUME ~ overlap' PROVE \A i \in Slots : ~ LoadOn(i)
    BY <1>5, <2>3 DEF CallDone, Refresh, UnderWay, LoadOn
  <2>4. ASSUME ~ overlap' PROVE \A i \in Slots : LoadOn(i)' <=> i = j
    BY <2>2, <2>3, <2>4 DEF LoadOn, RefreshOf, Started, Loads
  <2>5. job'[j].step # "answered"
    BY <2>2 DEF RefreshOf, Started
  <2> QED
    BY <2>4, <2>5 DEF FreshInv, OneLoad, UpToDate
<1>6. CASE CallDone(j) /\ ~ job[j].mounted
  BY <1>2, <1>3, <1>6, FreshElsewhere DEF CallDone, Ended
<1>7. CASE CallFail(j)
  BY <1>2, <1>3, <1>7, FreshElsewhere DEF CallFail, FailOnly, Ended
<1> QED
  BY <1>4, <1>5, <1>6, <1>7 DEF CallStep

LEMMA FreshLoadStep ==
    ASSUME FreshInv, job \in Jobs, NEW j \in Slots, LoadStep(j)
    PROVE  FreshInv'
<1> USE DEF page
<1>1. job[j].kind \in Loads /\ job[j] \in Kept
  BY BusySlot DEF LoadStep, LoadRead, LoadShow, RefreshFail, BootFail, Loads, JobKinds
<1>2. (LoadOn(j) <=> job[j].mounted) /\ ~ CallOn(j)
  BY <1>1 DEF LoadOn, CallOn, Loads
<1>3. Idle.kind \notin Loads /\ ~ Idle.mounted
  BY DEF Idle, Loads
<1>4. CASE LoadRead(j)
  <2>1. \A i \in Slots :
          /\ job'[i].kind = job[i].kind
          /\ job'[i].mounted = job[i].mounted
          /\ job'[i].step = "answered" => job'[i].seen = done \/ (i # j /\ job'[i] = job[i])
    BY <1>1, <1>4 DEF LoadRead, SeenBy, Jobs, Kept
  <2>2. \A i \in Slots : (LoadOn(i)' <=> LoadOn(i)) /\ (CallOn(i)' <=> CallOn(i))
    BY <2>1 DEF LoadOn, CallOn
  <2>3. UNCHANGED <<route, overlap, action, data, done>>
    BY <1>4 DEF LoadRead
  <2>4. OneLoad => OneLoad'
    BY <2>2 DEF OneLoad
  <2>5. UpToDate => UpToDate'
    BY <2>1, <2>2, <2>3 DEF UpToDate
  <2> QED
    BY <2>2, <2>3, <2>4, <2>5 DEF FreshInv
<1>5. CASE (LoadShow(j) \/ RefreshFail(j)) /\ ~ job[j].mounted
  BY <1>2, <1>3, <1>5, FreshElsewhere DEF LoadShow, RefreshFail, Ended
<1>6. CASE (LoadShow(j) \/ RefreshFail(j)) /\ job[j].mounted
  <2>1. \A i \in Slots : job'[i] = IF i = j THEN Idle ELSE job[i]
    BY <1>6 DEF LoadShow, RefreshFail, Ended, Jobs
  <2>2. \A i \in Slots : LoadOn(i)' <=> i # j /\ LoadOn(i)
    BY <1>3, <2>1 DEF LoadOn
  <2>3. \A i \in Slots : CallOn(i)' <=> CallOn(i)
    BY <1>2, <1>3, <2>1 DEF CallOn
  <2>4. OneLoad => OneLoad' /\ \A i \in Slots : ~ LoadOn(i)'
    BY <1>2, <1>6, <2>2 DEF OneLoad
  <2>5. CASE LoadShow(j)
    <3>1. /\ UNCHANGED <<route, overlap, action, done>>
          /\ job[j].step = "answered"
          /\ data'.seen = job[j].seen
      BY <1>6, <2>5 DEF LoadShow
    <3>2. UpToDate /\ OneLoad => UpToDate'
      BY <1>2, <1>6, <2>4, <3>1 DEF UpToDate
    <3> QED
      BY <2>3, <2>4, <3>1, <3>2 DEF FreshInv
  <2>6. CASE RefreshFail(j)
    BY <1>6, <2>4, <2>6 DEF RefreshFail, FreshInv
  <2> QED
    BY <1>6, <2>5, <2>6
<1>7. CASE BootFail(j)
  <2>1. CASE route = "app"
    BY <1>7, <2>1, FreedJobs, LeftJobs, FreshOpened DEF BootFail
  <2>2. CASE route # "app"
    BY <1>7, <2>2 DEF BootFail, FreshInv
  <2> QED
    BY <2>1, <2>2
<1> QED
  BY <1>4, <1>5, <1>6, <1>7 DEF LoadStep

(* FreshInv holds in every reachable state.                                 *)
THEOREM FreshInvariant == Spec => []FreshInv
<1>1. Init => FreshInv
  BY DEF Init, FreshInv
<1>2. TabInv /\ FreshInv /\ [Next]_vars => FreshInv'
  <2> SUFFICES ASSUME TabInv, FreshInv, [Next]_vars PROVE FreshInv'
    OBVIOUS
  <2>1. job \in Jobs
    BY DEF TabInv, Shape
  <2>2. CASE UNCHANGED vars
    BY <2>2 DEF vars, page, FreshInv, OneLoad, UpToDate, LoadOn, CallOn
  <2>3. CASE \E j \in Slots : LoginStep(j)
    BY <2>1, <2>3, FreshLoginStep
  <2>4. CASE \E j \in Slots : CallStep(j)
    BY <2>1, <2>4, FreshCallStep
  <2>5. CASE \E j \in Slots : LoadStep(j)
    BY <2>1, <2>5, FreshLoadStep
  <2>6. CASE Next /\ ~ \E j \in Slots : LoginStep(j) \/ CallStep(j) \/ LoadStep(j)
    BY <2>1, <2>6, FreshUserStep DEF Next, LoginStep, CallStep, LoadStep
  <2> QED
    BY <2>2, <2>3, <2>4, <2>5, <2>6
<1> QED
  BY <1>1, <1>2, TabInvariant, PTL DEF Spec

(* With nothing under way, and no overlap of refreshes, the page shows what *)
(* its user's calls have done, or an error: for any number of calls and     *)
(* loads at once, answered in any order (page.tsx, runAction and refresh).  *)
THEOREM OwnActionsShown == Spec => []OwnActionShown
<1>1. FreshInv => OwnActionShown
  <2> SUFFICES ASSUME FreshInv, Shown, UnderWay({"call"} \cup Loads) = {}, ~ overlap
               PROVE  data.seen = done \/ action = "error"
    BY DEF OwnActionShown
  <2>1. \A j \in Slots : ~ LoadOn(j) /\ ~ CallOn(j)
    BY DEF UnderWay, LoadOn, CallOn
  <2> QED
    BY <2>1 DEF FreshInv, UpToDate, Shown
<1> QED
  BY <1>1, FreshInvariant, PTL

-----------------------------------------------------------------------------
(* The invariant behind TypeOK. A button is pressed only while the calls    *)
(* carried out and those under way are fewer than MaxCalls, so the calls    *)
(* that are still to be carried out have room below the bound; every load   *)
(* has seen as many as were carried out by then.                            *)
Pending == {j \in Slots : CallOn(j) /\ job[j].step = "sent"}
Room ==
    /\ IsFiniteSet(UnderWay({"call"}))
    /\ done + Cardinality(Pending) <= MaxCalls
SeenInBound ==
    /\ \A j \in Slots : job[j].seen <= MaxCalls
    /\ data # None => data.seen <= MaxCalls
Flags ==
    /\ route \in {"demo", "app"} /\ signing \in BOOLEAN
    /\ loading \in BOOLEAN /\ draft \in BOOLEAN /\ overlap \in BOOLEAN /\ lost \in BOOLEAN
    /\ action \in {"none", "success", "error"}
    /\ visits \in 0 .. MaxVisits
CountInv == Flags /\ Room /\ SeenInBound

(* Pending calls are under way, so there are finitely many.                 *)
LEMMA PendingCalls ==
    ASSUME IsFiniteSet(UnderWay({"call"}))
    PROVE  /\ IsFiniteSet(Pending)
           /\ Cardinality(Pending) \in Nat
           /\ Cardinality(UnderWay({"call"})) \in Nat
<1>1. Pending \subseteq UnderWay({"call"})
  BY DEF Pending, UnderWay, CallOn
<1>2. IsFiniteSet(Pending)
  BY <1>1, FS_Subset
<1> QED
  BY <1>2, FS_CardinalityType

(* What has been carried out stays within the bound.                        *)
LEMMA DoneInBound ==
    ASSUME Room, done \in Nat
    PROVE  done \in 0 .. MaxCalls
  BY PendingCalls, BrowserAssumption DEF Room

(* A slot that changes to anything but a call of the page takes no room.    *)
LEMMA RoomKept ==
    ASSUME Room, done \in Nat, job \in Jobs, NEW j \in Slots, NEW next,
           job' = [job EXCEPT ![j] = next], ~ (next.kind = "call" /\ next.mounted),
           UNCHANGED done
    PROVE  Room'
<1>1. \A i \in Slots : job'[i] = IF i = j THEN next ELSE job[i]
  BY DEF Jobs
<1>2. UnderWay({"call"})' \subseteq UnderWay({"call"})
  BY <1>1 DEF UnderWay
<1>3. Pending' \subseteq Pending
  BY <1>1 DEF Pending, CallOn
<1>4. IsFiniteSet(UnderWay({"call"})') /\ Cardinality(Pending') <= Cardinality(Pending)
  BY <1>2, <1>3, FS_Subset, PendingCalls DEF Room
<1>5. Cardinality(Pending') \in Nat
  BY <1>3, PendingCalls, FS_Subset, FS_CardinalityType DEF Room
<1> QED
  BY <1>4, <1>5, PendingCalls, BrowserAssumption DEF Room

(* A page just mounted has no call.                                         *)
LEMMA RoomOpened ==
    ASSUME NEW jobs \in Jobs, \A j \in Slots : ~ jobs[j].mounted, OpenApp(jobs) \/ OpenDemo(jobs)
    PROVE  Room'
<1>1. done' = 0
  BY DEF OpenApp, OpenDemo
<1>2. \A i \in Slots : ~ (job'[i].kind = "call" /\ job'[i].mounted)
  <2>1. CASE OpenDemo(jobs)
    BY <2>1 DEF OpenDemo
  <2>2. CASE ~ OpenDemo(jobs)
    <3>1. PICK j \in Slots : job' = [jobs EXCEPT ![j] = Started("boot", stored)]
      BY <2>2 DEF OpenApp
    <3> QED
      BY <3>1 DEF Jobs, Started
  <2> QED
    BY <2>1, <2>2
<1>3. UnderWay({"call"})' = {} /\ Pending' = {}
  BY <1>2 DEF UnderWay, Pending, CallOn
<1> QED
  BY <1>1, <1>3, FS_EmptySet, BrowserAssumption DEF Room
(* A slot changes to a job that has seen no more than the bound.            *)
LEMMA SeenKept ==
    ASSUME SeenInBound, job \in Jobs, NEW j \in Slots, NEW next, next.seen <= MaxCalls,
           job' = [job EXCEPT ![j] = next],
           data' # None => UNCHANGED data \/ data'.seen <= MaxCalls
    PROVE  SeenInBound'
<1>1. \A i \in Slots : job'[i] = IF i = j THEN next ELSE job[i]
  BY DEF Jobs
<1> QED
  BY <1>1 DEF SeenInBound

(* A page is mounted with jobs that have seen no more than the bound.       *)
InBound(jobs) == \A j \in Slots : jobs[j].seen <= MaxCalls
LEMMA CountOpened ==
    ASSUME NEW jobs \in Jobs, \A j \in Slots : ~ jobs[j].mounted, InBound(jobs),
           OpenApp(jobs) \/ OpenDemo(jobs), visits' \in 0 .. MaxVisits
    PROVE  CountInv'
<1>1. Room'
  BY RoomOpened
<1>2. Flags'
  BY DEF OpenApp, OpenDemo, Flags
<1>3. data' = None
  BY DEF OpenApp, OpenDemo
<1>4. InBound(job)'
  <2>1. CASE OpenDemo(jobs)
    BY <2>1 DEF OpenDemo, InBound
  <2>2. CASE ~ OpenDemo(jobs)
    <3>1. PICK j \in Slots : job' = [jobs EXCEPT ![j] = Started("boot", stored)]
      BY <2>2 DEF OpenApp
    <3> QED
      BY <3>1, BrowserAssumption DEF Jobs, Started, InBound
  <2> QED
    BY <2>1, <2>2
<1> QED
  BY <1>1, <1>2, <1>3, <1>4 DEF CountInv, SeenInBound, InBound

LEMMA LeftInBound ==
    ASSUME NEW jobs \in Jobs, InBound(jobs)
    PROVE  InBound(Left(jobs))
<1> SUFFICES ASSUME NEW j \in Slots PROVE Left(jobs)[j].seen <= MaxCalls
  BY DEF InBound
<1>1. CASE jobs[j] = Idle
  BY <1>1, BrowserAssumption DEF Left, Idle
<1>2. CASE jobs[j] # Idle
  <2>1. jobs[j] \in Kept
    BY <1>2 DEF Jobs
  <2> QED
    BY <1>2, <2>1 DEF Left, Kept, InBound
<1> QED
  BY <1>1, <1>2

LEMMA FreedInBound ==
    ASSUME SeenInBound, job \in Jobs, NEW j \in Slots
    PROVE  InBound([job EXCEPT ![j] = Idle])
  BY BrowserAssumption DEF Jobs, InBound, SeenInBound, Idle

(* A slot that is freed, or takes a job that is no call of the page.        *)
LEMMA CountElsewhere ==
    ASSUME CountInv, TabInv, NEW j \in Slots, NEW next,
           job' = [job EXCEPT ![j] = next], ~ (next.kind = "call" /\ next.mounted),
           next.seen <= MaxCalls, UNCHANGED done,
           data' # None => UNCHANGED data \/ data'.seen <= MaxCalls, Flags'
    PROVE  CountInv'
<1>1. done \in Nat /\ job \in Jobs
  BY DEF TabInv, Shape
<1>2. Room' /\ SeenInBound'
  BY <1>1, RoomKept, SeenKept DEF CountInv
<1> QED
  BY <1>2 DEF CountInv

LEMMA IdleIsNoCall == Idle.seen <= MaxCalls /\ ~ (Idle.kind = "call" /\ Idle.mounted)
  BY BrowserAssumption DEF Idle

-----------------------------------------------------------------------------
(* One step, and the calls it counts *)

LEMMA CountUserStep ==
    ASSUME CountInv, TabInv,
           \/ Reload \/ Navigate \/ SignOut \/ Click \/ Type \/ OtherTab
           \/ \E u \in Users : StartLogin(u)
    PROVE  CountInv'
<1> USE DEF page
<1>0. job \in Jobs /\ done \in Nat /\ InBound(job) /\ visits \in 0 .. MaxVisits
  BY DEF TabInv, Shape, CountInv, SeenInBound, InBound, Flags
<1>1. Visit => visits' \in 0 .. MaxVisits
  BY <1>0, BrowserAssumption DEF Visit
<1>2. CASE Reload
  <2>1. InBound([j \in Slots |-> Idle])
    BY BrowserAssumption DEF InBound, Idle
  <2> QED
    BY <1>1, <1>2, <2>1, NoJobs, CountOpened DEF Reload
<1>3. CASE Navigate
  BY <1>0, <1>1, <1>3, LeftJobs, LeftInBound, CountOpened DEF Navigate
<1>4. CASE SignOut
  BY <1>0, <1>4, LeftJobs, LeftInBound, CountOpened DEF SignOut
<1>5. CASE Click
  <2>1. PICK j \in Slots : job' = [job EXCEPT ![j] = Started("call", token)]
    BY <1>5 DEF Click, Free
  <2>2. UNCHANGED <<done, data>> /\ Flags'
    BY <1>5 DEF Click, CountInv, Flags
  <2>3. Started("call", token).seen <= MaxCalls
    BY BrowserAssumption DEF Started
  <2>4. SeenInBound'
    BY <1>0, <2>1, <2>2, <2>3, SeenKept DEF CountInv
  <2>5. \A i \in Slots : i # j => job'[i] = job[i]
    BY <1>0, <2>1 DEF Jobs
  <2> DEFINE all == UnderWay({"call"})
  <2>6. all' \subseteq all \cup {j} /\ Pending' \subseteq all \cup {j}
    BY <2>5 DEF UnderWay, Pending, CallOn
  <2>7. IsFiniteSet(all) /\ Cardinality(all) \in Nat
    BY PendingCalls DEF CountInv, Room
  <2> HIDE DEF all
  <2>8. IsFiniteSet(all \cup {j}) /\ Cardinality(all \cup {j}) <= Cardinality(all) + 1
    BY <2>7, FS_AddElement
  <2>9. IsFiniteSet(all') /\ Cardinality(Pending') <= Cardinality(all) + 1
    BY <2>6, <2>7, <2>8, FS_Subset, FS_CardinalityType
  <2>10. done + Cardinality(all) < MaxCalls
    BY <1>5 DEF Click, all
  <2>11. IsFiniteSet(Pending') /\ Cardinality(Pending') \in Nat
    BY <2>6, <2>8, FS_Subset, FS_CardinalityType
  <2>12. Room'
    BY <1>0, <2>2, <2>7, <2>9, <2>10, <2>11, BrowserAssumption DEF Room, all
  <2> QED
    BY <2>2, <2>4, <2>12 DEF CountInv
<1>6. CASE Type
  BY <1>6 DEF Type, CountInv, Flags, Room, UnderWay, Pending, CallOn, SeenInBound
<1>7. CASE OtherTab
  BY <1>7 DEF OtherTab, CountInv, Flags, Room, UnderWay, Pending, CallOn, SeenInBound
<1>8. ASSUME NEW u \in Users, StartLogin(u) PROVE CountInv'
  <2>1. PICK j \in Slots : job' = [job EXCEPT ![j] = Started("login", u)]
    BY <1>8 DEF StartLogin, Free
  <2>2. Started("login", u).seen <= MaxCalls /\ Started("login", u).kind # "call"
    BY BrowserAssumption DEF Started
  <2>3. UNCHANGED <<done, data>> /\ Flags'
    BY <1>1, <1>8 DEF StartLogin, CountInv, Flags
  <2> QED
    BY <2>1, <2>2, <2>3, CountElsewhere
<1> QED
  BY <1>2, <1>3, <1>4, <1>5, <1>6, <1>7, <1>8

LEMMA CountLoginStep ==
    ASSUME CountInv, TabInv, NEW j \in Slots, LoginStep(j)
    PROVE  CountInv'
<1> USE DEF page
<1>0. job \in Jobs /\ InBound(job) /\ visits \in 0 .. MaxVisits
  BY DEF TabInv, Shape, CountInv, SeenInBound, InBound, Flags
<1>1. job[j].kind = "login" /\ job[j] \in Kept
  BY <1>0, BusySlot DEF LoginStep, LoginStored, LoginDone, LoginFail, JobKinds
<1>2. CASE LoginStored(j)
  <2> DEFINE next == [job[j] EXCEPT !.step = "answered"]
  <2>1. job' = [job EXCEPT ![j] = next]
    BY <1>0, <1>2 DEF LoginStored, Answered, Jobs
  <2>2. next.kind = "login" /\ next.seen <= MaxCalls
    BY <1>0, <1>1 DEF Kept, InBound
  <2>3. UNCHANGED <<done, data>> /\ Flags'
    BY <1>2 DEF LoginStored, CountInv, Flags
  <2> HIDE DEF next
  <2> QED
    BY <2>1, <2>2, <2>3, CountElsewhere
<1>3. CASE LoginDone(j)
  <2>1. CASE route = "app"
    <3>1. UNCHANGED <<done, data>> /\ Flags' /\ job' = [job EXCEPT ![j] = Idle]
      BY <1>3, <2>1 DEF LoginDone, Ended, CountInv, Flags
    <3> QED
      BY <3>1, IdleIsNoCall, CountElsewhere
  <2>2. CASE route # "app"
    <3>1. [job EXCEPT ![j] = Idle] \in Jobs /\ InBound([job EXCEPT ![j] = Idle])
      BY <1>0, FreedJobs, FreedInBound DEF CountInv
    <3> QED
      BY <1>0, <1>3, <2>2, <3>1, LeftJobs, LeftInBound, CountOpened DEF LoginDone
  <2> QED
    BY <2>1, <2>2
<1>4. CASE LoginFail(j)
  <2>1. UNCHANGED <<done, data>> /\ Flags' /\ job' = [job EXCEPT ![j] = Idle]
    BY <1>1, <1>4 DEF LoginFail, Ended, CountInv, Flags, Kept
  <2> QED
    BY <2>1, IdleIsNoCall, CountElsewhere
<1> QED
  BY <1>2, <1>3, <1>4 DEF LoginStep
(* A call that the server carries out is one less to be carried out.        *)
LEMMA CommitKeepsRoom ==
    ASSUME CountInv, TabInv, NEW j \in Slots, Commit(j)
    PROVE  Room'
<1>1. job \in Jobs /\ job[j] \in Kept /\ done \in Nat
  BY BusySlot DEF TabInv, Shape, Commit, JobKinds
<1>2. \A i \in Slots : /\ job'[i].kind = job[i].kind
                       /\ job'[i].mounted = job[i].mounted
                       /\ job'[i].step = IF i = j THEN "answered" ELSE job[i].step
  BY <1>1 DEF Commit, Answered, Jobs, Kept
<1>3. UnderWay({"call"})' = UnderWay({"call"})
  BY <1>2 DEF UnderWay
<1>4. Pending' = Pending \ {j}
  BY <1>2 DEF Pending, CallOn
<1>5. IsFiniteSet(Pending) /\ Cardinality(Pending) \in Nat
  BY PendingCalls DEF CountInv, Room
<1>6. Cardinality(Pending \ {j}) =
        IF j \in Pending THEN Cardinality(Pending) - 1 ELSE Cardinality(Pending)
  BY <1>5, FS_RemoveElement
<1>7. j \in Pending <=> job[j].mounted
  BY DEF Commit, Pending, CallOn
<1>8. done' = IF j \in Pending THEN done + 1 ELSE done
  BY <1>7 DEF Commit
<1>9. done' + Cardinality(Pending \ {j}) = done + Cardinality(Pending)
  BY <1>1, <1>5, <1>6, <1>8
<1> QED
  BY <1>3, <1>4, <1>9 DEF CountInv, Room

LEMMA CountCallStep ==
    ASSUME CountInv, TabInv, NEW j \in Slots, CallStep(j)
    PROVE  CountInv'
<1> USE DEF page
<1>1. job \in Jobs /\ job[j] \in Kept /\ job[j].kind = "call" /\ job[j].seen <= MaxCalls
  BY BusySlot DEF TabInv, Shape, CallStep, Commit, CallDone, CallFail, JobKinds, CountInv,
                  SeenInBound
<1>2. CASE Commit(j)
  <2> DEFINE next == [job[j] EXCEPT !.step = "answered"]
  <2>1. job' = [job EXCEPT ![j] = next] /\ next.seen <= MaxCalls
    BY <1>1, <1>2 DEF Commit, Answered, Jobs, Kept
  <2>2. UNCHANGED data /\ Flags'
    BY <1>2 DEF Commit, CountInv, Flags
  <2> HIDE DEF next
  <2>3. SeenInBound'
    BY <1>1, <2>1, <2>2, SeenKept DEF CountInv
  <2> QED
    BY <1>2, <2>2, <2>3, CommitKeepsRoom DEF CountInv
<1>3. CASE CallDone(j) /\ job[j].mounted
  <2>1. job' = [job EXCEPT ![j] = RefreshOf(j)] /\ UNCHANGED <<done, data>> /\ Flags'
    BY <1>3 DEF CallDone, Refresh, CountInv, Flags
  <2>2. RefreshOf(j).kind # "call" /\ RefreshOf(j).seen <= MaxCalls
    BY BrowserAssumption DEF RefreshOf, Started
  <2> QED
    BY <2>1, <2>2, CountElsewhere
<1>4. CASE CallDone(j) /\ ~ job[j].mounted
  <2>1. job' = [job EXCEPT ![j] = Idle] /\ UNCHANGED <<done, data>> /\ Flags'
    BY <1>4 DEF CallDone, Ended, CountInv, Flags
  <2> QED
    BY <2>1, IdleIsNoCall, CountElsewhere
<1>5. CASE CallFail(j)
  <2>1. job' = [job EXCEPT ![j] = Idle] /\ UNCHANGED <<done, data>> /\ Flags'
    BY <1>5 DEF CallFail, FailOnly, Ended, CountInv, Flags
  <2> QED
    BY <2>1, IdleIsNoCall, CountElsewhere
<1> QED
  BY <1>2, <1>3, <1>4, <1>5 DEF CallStep

LEMMA CountLoadStep ==
    ASSUME CountInv, TabInv, NEW j \in Slots, LoadStep(j)
    PROVE  CountInv'
<1> USE DEF page
<1>0. /\ job \in Jobs /\ InBound(job) /\ visits \in 0 .. MaxVisits
      /\ done \in 0 .. MaxCalls
  BY DoneInBound DEF TabInv, Shape, CountInv, SeenInBound, InBound, Flags
<1>1. /\ job[j] \in Kept /\ job[j].kind # "call" /\ job[j].seen <= MaxCalls
  BY <1>0, BusySlot DEF LoadStep, LoadRead, LoadShow, RefreshFail, BootFail, Loads, JobKinds,
                        InBound
<1>2. CASE LoadRead(j)
  <2> DEFINE next == [job[j] EXCEPT !.step = "answered", !.seen = done]
  <2>1. job' = [job EXCEPT ![j] = next]
    BY <1>0, <1>2 DEF LoadRead, SeenBy, Jobs
  <2>2. next.kind # "call" /\ next.seen <= MaxCalls
    BY <1>0, <1>1 DEF Kept
  <2>3. UNCHANGED <<done, data>> /\ Flags'
    BY <1>2 DEF LoadRead, CountInv, Flags
  <2> HIDE DEF next
  <2> QED
    BY <2>1, <2>2, <2>3, CountElsewhere
<1>3. CASE LoadShow(j)
  <2>1. job' = [job EXCEPT ![j] = Idle] /\ UNCHANGED done
    BY <1>3 DEF LoadShow, Ended
  <2>2. Flags'
    BY <1>1, <1>3 DEF LoadShow, LoadingAfter, CountInv, Flags, Kept
  <2>3. UNCHANGED data \/ data'.seen <= MaxCalls
    BY <1>1, <1>3 DEF LoadShow
  <2> QED
    BY <2>1, <2>2, <2>3, IdleIsNoCall, CountElsewhere
<1>4. CASE RefreshFail(j)
  <2>1. job' = [job EXCEPT ![j] = Idle] /\ UNCHANGED <<done, data>> /\ Flags'
    BY <1>4 DEF RefreshFail, Ended, CountInv, Flags
  <2> QED
    BY <2>1, IdleIsNoCall, CountElsewhere
<1>5. CASE BootFail(j)
  <2>1. CASE route = "app"
    <3>1. [job EXCEPT ![j] = Idle] \in Jobs /\ InBound([job EXCEPT ![j] = Idle])
      BY <1>0, FreedJobs, FreedInBound DEF CountInv
    <3> QED
      BY <1>0, <1>5, <2>1, <3>1, LeftJobs, LeftInBound, CountOpened DEF BootFail
  <2>2. CASE route # "app"
    <3>1. UNCHANGED <<done, data>> /\ Flags' /\ job' = [job EXCEPT ![j] = Idle]
      BY <1>5, <2>2 DEF BootFail, Ended, CountInv, Flags
    <3> QED
      BY <3>1, IdleIsNoCall, CountElsewhere
  <2> QED
    BY <2>1, <2>2
<1> QED
  BY <1>2, <1>3, <1>4, <1>5 DEF LoadStep

(* CountInv holds in every reachable state.                                 *)
THEOREM CountInvariant == Spec => []CountInv
<1>1. Init => CountInv
  <2> SUFFICES ASSUME Init PROVE CountInv
    OBVIOUS
  <2>1. \A j \in Slots : job[j] = Idle
    BY DEF Init
  <2>2. UnderWay({"call"}) = {} /\ Pending = {}
    BY <2>1 DEF UnderWay, Pending, CallOn, Idle
  <2>3. Room
    BY <2>2, FS_EmptySet, BrowserAssumption DEF Init, Room
  <2>4. SeenInBound
    BY <2>1, BrowserAssumption DEF Init, SeenInBound, Idle
  <2>5. 0 \in 0 .. MaxVisits
    BY BrowserAssumption
  <2>6. Flags
    BY <2>5 DEF Init, Flags
  <2> QED
    BY <2>3, <2>4, <2>6 DEF CountInv
<1>2. TabInv /\ CountInv /\ [Next]_vars => CountInv'
  <2> SUFFICES ASSUME TabInv, CountInv, [Next]_vars PROVE CountInv'
    OBVIOUS
  <2>1. CASE UNCHANGED vars
    BY <2>1 DEF vars, page, CountInv, Flags, Room, UnderWay, Pending, CallOn, SeenInBound
  <2>2. CASE \E j \in Slots : LoginStep(j)
    BY <2>2, CountLoginStep
  <2>3. CASE \E j \in Slots : CallStep(j)
    BY <2>3, CountCallStep
  <2>4. CASE \E j \in Slots : LoadStep(j)
    BY <2>4, CountLoadStep
  <2>5. CASE Next /\ ~ \E j \in Slots : LoginStep(j) \/ CallStep(j) \/ LoadStep(j)
    BY <2>5, CountUserStep DEF Next, LoginStep, CallStep, LoadStep
  <2> QED
    BY <2>1, <2>2, <2>3, <2>4, <2>5
<1> QED
  BY <1>1, <1>2, TabInvariant, PTL DEF Spec

(* Every state of a tab has its type: jobs act for users, what is shown was *)
(* loaded for one, and no count goes beyond the bounds of the exploration,  *)
(* although calls already under way are still carried out when it is near.  *)
THEOREM TabTypeCorrect == Spec => []TypeOK
<1>1. TabInv /\ CountInv => TypeOK
  <2> SUFFICES ASSUME TabInv, CountInv PROVE TypeOK
    OBVIOUS
  <2>1. Flags /\ SeenInBound /\ done \in 0 .. MaxCalls
    BY DoneInBound DEF CountInv, TabInv, Shape
  <2>2. data = None \/ data \in [owner : Users, seen : 0 .. MaxCalls]
    BY <2>1, BrowserAssumption DEF TabInv, Shape, Loaded, SeenInBound
  <2>3. ASSUME NEW j \in Slots PROVE job[j] \in Job \cup {Idle}
    <3>1. job[j] \in Kept \cup {Idle} /\ job[j].seen <= MaxCalls
      BY <2>1 DEF TabInv, Shape, Jobs, SeenInBound
    <3> QED
      BY <3>1, BrowserAssumption DEF Kept, Job, JobKinds
  <2>4. job \in [Slots -> Job \cup {Idle}]
    BY <2>3 DEF TabInv, Shape, Jobs
  <2> QED
    BY <2>1, <2>2, <2>4 DEF TypeOK, Flags, TabInv, Shape
<1> QED
  BY <1>1, TabInvariant, CountInvariant, PTL
=============================================================================
