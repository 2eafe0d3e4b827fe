---------------------------- MODULE InflightRelief ----------------------------
(***************************************************************************)
(* In-flight limits of profiles and the relief wait.  A request scans the  *)
(* eligible profiles for one below its in-flight limit and takes a guard   *)
(* on it.  When all of them are saturated, or the one it chose has filled  *)
(* up meanwhile, it registers two revisions, collects the profiles worth   *)
(* waiting for, and sleeps until one of them is relieved.  A request bound *)
(* to the owner of its continuation takes its guard over the limit.        *)
(*                                                                         *)
(* Profiles become eligible, or stop being so, by what is learnt of their  *)
(* quota.  Requests here have not failed upstream and no profile backs     *)
(* off: rotation past failures and its recovery wait are not modelled.     *)
(*                                                                         *)
(* Each inspection of one profile's count is a step of its own.  Sections  *)
(* under the notification mutex are atomic: it guards nothing but the wait *)
(* set.                                                                    *)
(***************************************************************************)
EXTENDS Naturals, FiniteSetsExt

CONSTANTS
  Requests,     \* the request threads
  Profiles,     \* the profiles
  Weight,       \* the in-flight weight of each request's route
  HardLimit,    \* profile_inflight_hard_limit
  Owner,        \* the profile each request is bound to, or NoProfile
  NoProfile,    \* no profile
  InitialReady, \* the profiles eligible at the start
  MaxChanges,   \* bound on the number of changes of eligibility
  MaxRetries,   \* retries of a bound request the upstream reports overloaded
  Deadlined,    \* the requests whose precommit deadline may pass
  NoRevision    \* the absence of a revision

ASSUME InflightAssumption ==
  /\ IsFiniteSet(Requests)
  /\ Weight \in [Requests -> Nat \ {0}]
  /\ HardLimit \in Nat
  /\ NoProfile \notin Profiles
  /\ Owner \in [Requests -> Profiles \cup {NoProfile}]
  /\ InitialReady \subseteq Profiles
  /\ MaxChanges \in Nat /\ MaxRetries \in Nat
  /\ Deadlined \subseteq Requests
  /\ NoRevision \notin Nat

VARIABLES
  pc,         \* the next step of each request
  inflight,   \* profile_inflight
  releaseRev, \* inflight_release_revision
  selRev,     \* selection_change_revision
  ready,      \* the eligible profiles
  changer,    \* the next step of the thread that changes eligibility
  observed,   \* observed_release_revision of each request
  regRelease, \* the release revision each has registered
  regSel,     \* the selection revision each has registered
  scan,       \* the profiles each has yet to inspect
  waited,     \* waited_profiles
  cand,       \* the profile each has chosen
  retries,    \* the retries each has made
  expired,    \* the requests whose deadline has passed
  steady      \* the profiles eligible ever since a request began selecting

revisions == <<releaseRev, selRev>>
eligibility == <<ready, changer, steady>>
registered == <<regRelease, regSel>>
local == <<observed, scan, waited, cand>>
vars == <<pc, inflight, revisions, eligibility, registered, local, retries, expired>>

PC == {"start", "select", "scan", "acquire", "register", "collect", "count",
       "decide", "relief", "probe", "sleep", "waiting", "woken", "late",
       "rereg", "held", "freeing", "notify", "retry", "exhausted", "expired",
       "done"}

Goto(r, from, to) == pc[r] = from /\ pc' = [pc EXCEPT ![r] = to]

At(S) == {r \in Requests : pc[r] \in S}

(* A route always admits one request.                                      *)
Limit(r) == IF HardLimit < Weight[r] THEN Weight[r] ELSE HardLimit

HardLimited(r, p) == inflight[p] + Weight[r] > Limit(r)

(* Mutant: the mutex is released before the revision is published.         *)
CountsReadableEarly == TRUE

(* A release holds the in-flight mutex until it has published the new      *)
(* revision: no count can be read or raised before.                        *)
CountsReadable == At({"freeing"}) = {}

-----------------------------------------------------------------------------
Init ==
  /\ pc = [r \in Requests |-> "start"]
  /\ inflight = [p \in Profiles |-> 0]
  /\ releaseRev = 0
  /\ selRev = 0
  /\ ready = InitialReady
  /\ changer = "idle"
  /\ observed = [r \in Requests |-> NoRevision]
  /\ regRelease = [r \in Requests |-> 0]
  /\ regSel = [r \in Requests |-> 0]
  /\ scan = [r \in Requests |-> {}]
  /\ waited = [r \in Requests |-> {}]
  /\ cand = [r \in Requests |-> NoProfile]
  /\ retries = [r \in Requests |-> 0]
  /\ expired = {}
  /\ steady = [r \in Requests |-> {}]

-----------------------------------------------------------------------------
(* The locals of a wait end with the call that made it.                    *)
ForgetWait(r) ==
  /\ regRelease' = [regRelease EXCEPT ![r] = 0]
  /\ regSel' = [regSel EXCEPT ![r] = 0]
  /\ scan' = [scan EXCEPT ![r] = {}]
  /\ waited' = [waited EXCEPT ![r] = {}]

(* Selection: the release revision is read before the state.  A bound      *)
(* request is given its owner whatever the load.                           *)
BeginSelection(r) ==
  /\ Goto(r, "start", "select")
  /\ observed' = [observed EXCEPT ![r] = releaseRev]
  /\ steady' = [steady EXCEPT ![r] = ready]
  /\ cand' = [cand EXCEPT ![r] = NoProfile]
  /\ ForgetWait(r)
  /\ UNCHANGED <<inflight, revisions, ready, changer, retries, expired>>

Select(r) ==
  /\ \/ /\ Owner[r] = NoProfile
        /\ Goto(r, "select", "scan")
        /\ scan' = [scan EXCEPT ![r] = ready]
        /\ UNCHANGED cand
     \/ /\ Owner[r] # NoProfile
        /\ Goto(r, "select", "acquire")
        /\ cand' = [cand EXCEPT ![r] = Owner[r]]
        /\ UNCHANGED scan
  /\ UNCHANGED <<inflight, revisions, eligibility, registered, observed, waited,
                 retries, expired>>

Inspect(r, p) ==
  /\ CountsReadable
  /\ p \in scan[r]
  /\ scan' = [scan EXCEPT ![r] = @ \ {p}]

(* The first candidate below its limit is chosen.                          *)
Scan(r) ==
  /\ \/ \E p \in Profiles :
          /\ Inspect(r, p)
          /\ \/ /\ ~HardLimited(r, p)
                /\ Goto(r, "scan", "acquire")
                /\ cand' = [cand EXCEPT ![r] = p]
             \/ /\ HardLimited(r, p)
                /\ Goto(r, "scan", "scan")
                /\ UNCHANGED cand
     \/ /\ scan[r] = {}
        /\ Goto(r, "scan", "register")
        /\ UNCHANGED <<scan, cand>>
  /\ UNCHANGED <<inflight, revisions, eligibility, registered, observed, waited,
                 retries, expired>>

(* The candidate's limit is tested again, and once more by the acquisition *)
(* itself; either way a refusal begins a relief wait that carries no       *)
(* observed revision, so the two tests are one step.                       *)
TryAcquire(r) ==
  /\ CountsReadable
  /\ \/ /\ Goto(r, "acquire", "held")
        /\ Owner[r] # NoProfile \/ ~HardLimited(r, cand[r])
        /\ inflight' = [inflight EXCEPT ![cand[r]] = @ + Weight[r]]
        /\ steady' = [steady EXCEPT ![r] = {}]
     \/ /\ Goto(r, "acquire", "register")
        /\ Owner[r] = NoProfile /\ HardLimited(r, cand[r])
        /\ UNCHANGED <<inflight, steady>>
  /\ observed' = [observed EXCEPT ![r] = NoRevision]
  /\ scan' = [scan EXCEPT ![r] = {}]
  /\ UNCHANGED <<revisions, ready, changer, registered, waited, cand,
                 retries, expired>>

-----------------------------------------------------------------------------
(* The relief wait: both revisions, then the state, then the counts.       *)
Register(r) ==
  /\ Goto(r, "register", "collect")
  /\ regRelease' = [regRelease EXCEPT ![r] = releaseRev]
  /\ regSel' = [regSel EXCEPT ![r] = selRev]
  /\ UNCHANGED <<inflight, revisions, eligibility, local, retries, expired>>

Collect(r) ==
  /\ Goto(r, "collect", "count")
  /\ scan' = [scan EXCEPT ![r] = ready]
  /\ waited' = [waited EXCEPT ![r] = {}]
  /\ UNCHANGED <<inflight, revisions, eligibility, registered, observed, cand,
                 retries, expired>>

(* Only a saturated profile is worth waiting for.                          *)
Count(r) ==
  /\ \/ \E p \in Profiles :
          /\ Inspect(r, p)
          /\ waited' = IF HardLimited(r, p)
                       THEN [waited EXCEPT ![r] = @ \cup {p}]
                       ELSE waited
          /\ Goto(r, "count", "count")
     \/ /\ scan[r] = {}
        /\ Goto(r, "count", "decide")
        /\ UNCHANGED <<scan, waited>>
  /\ UNCHANGED <<inflight, revisions, eligibility, registered, observed, cand,
                 retries, expired>>

(* Nothing to wait for: a release since the selection began sends the      *)
(* request back to select, and so does a refused acquisition or a refresh; *)
(* otherwise the pool is exhausted.                                        *)
Decide(r) ==
  /\ \/ /\ waited[r] # {}
        /\ Goto(r, "decide", "relief")
     \/ /\ waited[r] = {}
        /\ observed[r] # releaseRev
        /\ Goto(r, "decide", "start")
     \/ /\ waited[r] = {}
        /\ observed[r] = releaseRev
        /\ Goto(r, "decide", "exhausted")
  /\ UNCHANGED <<inflight, revisions, eligibility, registered, local, retries, expired>>

(* Is a profile waited for still eligible, and below the limit by now?     *)
CheckRelief(r) ==
  /\ Goto(r, "relief", "probe")
  /\ scan' = [scan EXCEPT ![r] = waited[r] \cap ready]
  /\ UNCHANGED <<inflight, revisions, eligibility, registered, observed, waited,
                 cand, retries, expired>>

Probe(r) ==
  /\ \/ \E p \in Profiles :
          /\ Inspect(r, p)
          /\ Goto(r, "probe", IF HardLimited(r, p) THEN "probe" ELSE "start")
     \/ /\ scan[r] = {}
        /\ Goto(r, "probe", "sleep")
        /\ UNCHANGED scan
  /\ UNCHANGED <<inflight, revisions, eligibility, registered, observed, waited,
                 cand, retries, expired>>

(* What a change of either revision means to the waiter: a release has it  *)
(* look at its profiles again, any other change has it select again.       *)
Outcome(r, from, unchanged) ==
  Goto(r, from,
       IF releaseRev # regRelease[r] THEN "rereg"
       ELSE IF selRev # regSel[r] THEN "start" ELSE unchanged)

(* Mutant: the revisions are not compared under the mutex.                 *)
SleepUnchecked(r) ==
  /\ Goto(r, "sleep", IF r \in expired THEN "expired" ELSE "waiting")
  /\ UNCHANGED <<inflight, revisions, eligibility, registered, local, retries, expired>>

(* The deadline, then, under the mutex, the revisions, then the wait.      *)
Sleep(r) ==
  /\ \/ r \in expired /\ Goto(r, "sleep", "expired")
     \/ r \notin expired /\ Outcome(r, "sleep", "waiting")
  /\ UNCHANGED <<inflight, revisions, eligibility, registered, local, retries, expired>>

WaitTimeout(r) ==
  /\ Goto(r, "waiting", "late")
  /\ UNCHANGED <<inflight, revisions, eligibility, registered, local, retries, expired>>

(* A notification that changed no revision is another request's permit.    *)
Woken(r) ==
  /\ Outcome(r, "woken", "rereg")
  /\ UNCHANGED <<inflight, revisions, eligibility, registered, local, retries, expired>>

(* A wait that timed out collects its profiles afresh; finding none means  *)
(* to select again.                                                        *)
Late(r) ==
  /\ Outcome(r, "late", "register")
  /\ observed' = [observed EXCEPT ![r] = NoRevision]
  /\ UNCHANGED <<inflight, revisions, eligibility, registered, scan, waited,
                 cand, retries, expired>>

(* Both revisions are registered anew before the profiles waited for are   *)
(* looked at again.                                                        *)
Reregister(r) ==
  /\ Goto(r, "rereg", "relief")
  /\ regRelease' = [regRelease EXCEPT ![r] = releaseRev]
  /\ regSel' = [regSel EXCEPT ![r] = selRev]
  /\ UNCHANGED <<inflight, revisions, eligibility, local, retries, expired>>

-----------------------------------------------------------------------------
(* Mutant: every guard frees one unit.                                     *)
ReleaseOne(r) ==
  /\ CountsReadable
  /\ Goto(r, "held", "freeing")
  /\ inflight' = [inflight EXCEPT ![cand[r]] = @ - 1]
  /\ UNCHANGED <<revisions, eligibility, registered, local, retries, expired>>

(* Drop of a guard: under the in-flight mutex the count is freed, then the *)
(* new revision is published; then the sleepers are notified.              *)
Release(r) ==
  /\ CountsReadable
  /\ Goto(r, "held", "freeing")
  /\ inflight' = [inflight EXCEPT ![cand[r]] = IF @ >= Weight[r] THEN @ - Weight[r] ELSE 0]
  /\ UNCHANGED <<revisions, eligibility, registered, local, retries, expired>>

PublishRelease(r) ==
  /\ Goto(r, "freeing", "notify")
  /\ releaseRev' = releaseRev + 1
  /\ UNCHANGED <<inflight, selRev, eligibility, registered, local, retries, expired>>

Awake(q) == IF pc[q] = "waiting" THEN "woken" ELSE pc[q]

(* Mutant: nobody is told.                                                 *)
NotifySilent(r) ==
  /\ Goto(r, "notify", "done")
  /\ UNCHANGED <<inflight, revisions, eligibility, registered, local, retries, expired>>

(* A bound request that the upstream reports overloaded drops its guard,   *)
(* pauses, and takes it again.                                             *)
Notify(r) ==
  /\ pc[r] = "notify"
  /\ \/ /\ pc' = [q \in Requests |-> IF q = r THEN "done" ELSE Awake(q)]
        /\ UNCHANGED retries
     \/ /\ Owner[r] # NoProfile
        /\ retries[r] < MaxRetries
        /\ retries' = [retries EXCEPT ![r] = @ + 1]
        /\ pc' = [q \in Requests |-> IF q = r THEN "retry" ELSE Awake(q)]
  /\ UNCHANGED <<inflight, revisions, eligibility, registered, local, expired>>

Reacquire(r) ==
  /\ CountsReadable
  /\ Goto(r, "retry", "held")
  /\ inflight' = [inflight EXCEPT ![cand[r]] = @ + Weight[r]]
  /\ UNCHANGED <<revisions, eligibility, registered, local, retries, expired>>

-----------------------------------------------------------------------------
(* A profile's quota is learnt: eligibility changes under the runtime      *)
(* lock, which a probe drops before it publishes.                          *)
Change ==
  /\ changer = "idle"
  /\ selRev < MaxChanges
  /\ changer' = "publish"
  /\ ready' \in SUBSET Profiles
  /\ steady' = [r \in Requests |-> steady[r] \cap ready']
  /\ UNCHANGED <<pc, inflight, revisions, registered, local, retries, expired>>

Publish ==
  /\ changer = "publish"
  /\ changer' = "notify"
  /\ selRev' = selRev + 1
  /\ UNCHANGED <<pc, inflight, releaseRev, ready, steady, registered, local,
                 retries, expired>>

NotifyChange ==
  /\ changer = "notify"
  /\ changer' = "idle"
  /\ pc' = [q \in Requests |-> Awake(q)]
  /\ UNCHANGED <<inflight, revisions, ready, steady, registered, local, retries, expired>>

(* A request elsewhere returns its admission permit: the same condition    *)
(* variable is notified, and no revision changes.                          *)
PermitReturned ==
  /\ At({"waiting"}) # {}
  /\ pc' = [q \in Requests |-> Awake(q)]
  /\ UNCHANGED <<inflight, revisions, eligibility, registered, local, retries, expired>>

DeadlinePasses(r) ==
  /\ r \in Deadlined \ expired
  /\ expired' = expired \cup {r}
  /\ UNCHANGED <<pc, inflight, revisions, eligibility, registered, local, retries>>

-----------------------------------------------------------------------------
RequestStep(r) ==
  \/ BeginSelection(r) \/ Select(r) \/ Scan(r) \/ TryAcquire(r)
  \/ Register(r) \/ Collect(r) \/ Count(r) \/ Decide(r)
  \/ CheckRelief(r) \/ Probe(r) \/ Sleep(r)
  \/ Woken(r) \/ Late(r) \/ Reregister(r)
  \/ Release(r) \/ PublishRelease(r) \/ Notify(r) \/ Reacquire(r)

Next ==
  \/ \E r \in Requests : RequestStep(r) \/ WaitTimeout(r) \/ DeadlinePasses(r)
  \/ Change \/ Publish \/ NotifyChange
  \/ PermitReturned

Spec == Init /\ [][Next]_vars

(* Threads run and get the mutex they contend for, and handlers end, so a  *)
(* guard is dropped.  No fairness for timeouts, deadlines, other requests  *)
(* or new changes.                                                         *)
Fairness ==
  /\ \A r \in Requests : SF_vars(RequestStep(r))
  /\ WF_vars(Publish \/ NotifyChange)

FairSpec == Spec /\ Fairness

-----------------------------------------------------------------------------
(* Types of the variables.                                                 *)
TypeOK ==
  /\ pc \in [Requests -> PC]
  /\ inflight \in [Profiles -> Nat]
  /\ releaseRev \in Nat
  /\ selRev \in Nat
  /\ ready \subseteq Profiles
  /\ changer \in {"idle", "publish", "notify"}
  /\ observed \in [Requests -> Nat \cup {NoRevision}]
  /\ regRelease \in [Requests -> Nat]
  /\ regSel \in [Requests -> Nat]
  /\ scan \in [Requests -> SUBSET Profiles]
  /\ waited \in [Requests -> SUBSET Profiles]
  /\ cand \in [Requests -> Profiles \cup {NoProfile}]
  /\ retries \in [Requests -> Nat]
  /\ expired \subseteq Deadlined
  /\ steady \in [Requests -> SUBSET Profiles]

(* A profile's count is the weight of the guards on it: nothing leaks when *)
(* guards are refused, dropped for a retry and taken again over the limit. *)
Guards(p) == {r \in At({"held"}) : cand[r] = p}

InflightExact ==
  \A p \in Profiles : inflight[p] = MapThenSumSet(LAMBDA r : Weight[r], Guards(p))

(* No request gives the pool up as exhausted although a profile has been   *)
(* eligible ever since it began to select: capacity that was released in   *)
(* the meantime shows in the revision, which selection must never observe  *)
(* unchanged beside the free capacity.                                     *)
NeverFalselyExhausted == \A r \in At({"exhausted"}) : steady[r] = {}

(* A request that sleeps is woken by the release it waits for: once all    *)
(* threads have come to rest none sleeps beside a profile it waits for     *)
(* that is eligible and below the limit.                                   *)
AtRest ==
  /\ changer = "idle"
  /\ At({"waiting", "held", "done", "exhausted", "expired"}) = Requests

NoLostRelease ==
  AtRest => \A r \in At({"waiting"}) :
              \A p \in waited[r] \cap ready : HardLimited(r, p)

(* Saturation is backpressure: with an eligible profile every request is   *)
(* served in the end, or meets its own deadline in a wait; none is         *)
(* refused, and none needs a wait that times out.                          *)
EveryRequestServed == <>(\A r \in Requests : pc[r] \in {"done", "expired"})

=============================================================================
