-------------------------- MODULE RuntimeAdmission --------------------------
(***************************************************************************)
(* Admission of proxy requests: RuntimeProxyLaneAdmission and the waiting  *)
(* loop around it.  Request threads take a permit with two compare-and-    *)
(* exchange operations (the proxy-wide counter, then the counter of their  *)
(* lane); a thread that is refused sleeps on one condition variable shared *)
(* by all requests; a permit is returned under that variable's mutex.      *)
(* State writers change the continuation ownership that exempts a request  *)
(* from its lane's limit, and notify the sleepers while they still hold    *)
(* the runtime lock.                                                       *)
(*                                                                         *)
(* Every atomic operation of the code is SeqCst, so each load, exchange    *)
(* and lock operation is one step.  release_counter's load/exchange loop   *)
(* is one atomic saturating decrement.                                     *)
(***************************************************************************)
EXTENDS Naturals, FiniteSets

CONSTANTS
  Requests,     \* the request threads
  Writers,      \* the threads that change runtime state
  Lanes,        \* the route kinds
  LaneOf,       \* the lane of each request
  Priority,     \* standard-lane requests on a startup priority path
  Ownable,      \* requests whose continuation may have an owning profile
  ActiveLimit,  \* active_request_limit
  LaneLimit,    \* the limit of each lane
  Deadlined,    \* the requests whose precommit deadline may pass
  MaxRevision,  \* bound on the number of state changes
  NoOne         \* no thread: the owner of a free lock

ASSUME AdmissionAssumption ==
  /\ IsFiniteSet(Requests)
  /\ Requests \cap Writers = {}
  /\ NoOne \notin Requests \cup Writers
  /\ LaneOf \in [Requests -> Lanes]
  /\ Priority \subseteq Requests
  /\ Ownable \subseteq Requests
  /\ Deadlined \subseteq Requests
  /\ ActiveLimit \in Nat
  /\ LaneLimit \in [Lanes -> Nat]
  /\ MaxRevision \in Nat

VARIABLES
  pc,          \* the next step of each thread
  active,      \* active_request_count
  laneActive,  \* the active counter of each lane
  seenActive,  \* the value of active that a thread loaded last
  seenLane,    \* the value of its lane's counter that a thread loaded last
  factsRev,    \* facts.selection_revision
  bypass,      \* facts.bypass_lane_limit
  mutex,       \* the owner of the notification mutex
  runtimeLock, \* the owner of the runtime-state lock
  owned,       \* the requests whose continuation has an owning profile now
  selRev,      \* selection_change_revision
  expired,     \* the requests whose precommit deadline has passed
  events       \* what has happened: a counter found at zero, a reservation undone

counters == <<active, laneActive>>
facts == <<factsRev, bypass>>
seen == <<seenActive, seenLane>>
ownership == <<runtimeLock, owned, selRev>>
vars == <<pc, counters, seen, facts, mutex, ownership, expired, events>>

RequestPC ==
  {"slice", "facts", "loadActive", "loadLane", "casActive", "casLane", "undo",
   "rejected", "recheck", "waiting", "waking", "held", "releaseActive",
   "releaseLane", "done"}
WriterPC == {"idle", "bump", "notify"}

Goto(t, from, to) == pc[t] = from /\ pc' = [pc EXCEPT ![t] = to]

At(S) == {r \in Requests : pc[r] \in S}

(* Requests that hold a permit, from the exchange that completes the       *)
(* acquisition to the decrement that begins the release.                   *)
Holders == At({"held", "releaseActive"})

-----------------------------------------------------------------------------
Init ==
  /\ pc = [t \in Requests \cup Writers |->
             IF t \in Requests THEN "slice" ELSE "idle"]
  /\ active = 0
  /\ laneActive = [l \in Lanes |-> 0]
  /\ seenActive = [r \in Requests |-> 0]
  /\ seenLane = [r \in Requests |-> 0]
  /\ factsRev = [r \in Requests |-> 0]
  /\ bypass = [r \in Requests |-> FALSE]
  /\ mutex = NoOne
  /\ runtimeLock = NoOne
  /\ owned = {}
  /\ selRev = 0
  /\ expired = {}
  /\ events = {}

-----------------------------------------------------------------------------
(* The head of the waiting loop: the deadline, then the revision that      *)
(* dates the facts about to be read.                                       *)
BeginRound(r) ==
  /\ \/ /\ r \in expired
        /\ Goto(r, "slice", "done")
        /\ UNCHANGED factsRev
     \/ /\ r \notin expired
        /\ Goto(r, "slice", "facts")
        /\ factsRev' = [factsRev EXCEPT ![r] = selRev]
  /\ UNCHANGED <<counters, seen, bypass, mutex, ownership, expired, events>>

(* Ownership is projected under the runtime lock, with no other lock held. *)
ProjectFacts(r) ==
  /\ runtimeLock = NoOne
  /\ bypass' = [bypass EXCEPT ![r] = r \in Priority \/ r \in owned]
  /\ Goto(r, "facts", IF r \in expired THEN "done" ELSE "loadActive")
  /\ UNCHANGED <<counters, seen, factsRev, mutex, ownership, expired, events>>

-----------------------------------------------------------------------------
(* try_acquire.  The same steps serve the first probe, made without a      *)
(* lock, and the second, made by the owner of the notification mutex.      *)

(* A permit or a refusal ends the probe.  The owner of the mutex drops it  *)
(* with the permit; refused, it goes to sleep, which frees the mutex.      *)
Unlock(r) == mutex' = IF mutex = r THEN NoOne ELSE mutex

AfterRefusal(r) == IF mutex = r THEN "waiting" ELSE "rejected"

LoadActive(r) ==
  /\ Goto(r, "loadActive", "loadLane")
  /\ seenActive' = [seenActive EXCEPT ![r] = active]
  /\ UNCHANGED <<counters, seenLane, facts, mutex, ownership, expired, events>>

(* Mutant: the lane's limit is off by one.                                 *)
AllowedOffByOne(r, laneCount) ==
  /\ seenActive[r] < ActiveLimit
  /\ laneCount <= LaneLimit[LaneOf[r]] \/ bypass[r]

AdmissionAllowed(r, laneCount) ==
  /\ seenActive[r] < ActiveLimit
  /\ laneCount < LaneLimit[LaneOf[r]] \/ bypass[r]

LoadLane(r) ==
  LET laneCount == laneActive[LaneOf[r]] IN
  /\ seenLane' = [seenLane EXCEPT ![r] = laneCount]
  /\ \/ /\ AdmissionAllowed(r, laneCount)
        /\ Goto(r, "loadLane", "casActive")
        /\ UNCHANGED mutex
     \/ /\ ~AdmissionAllowed(r, laneCount)
        /\ Goto(r, "loadLane", AfterRefusal(r))
        /\ Unlock(r)
  /\ UNCHANGED <<counters, seenActive, facts, ownership, expired, events>>

(* Mutant: the counter is raised without comparing it.                     *)
CasActiveBlind(r) ==
  /\ active' = active + 1
  /\ Goto(r, "casActive", "casLane")
  /\ UNCHANGED <<laneActive, seen, facts, mutex, ownership, expired, events>>

CasActive(r) ==
  /\ \/ /\ active = seenActive[r]
        /\ active' = active + 1
        /\ Goto(r, "casActive", "casLane")
     \/ /\ active # seenActive[r]
        /\ UNCHANGED active
        /\ Goto(r, "casActive", "loadActive")
  /\ UNCHANGED <<laneActive, seen, facts, mutex, ownership, expired, events>>

(* Mutant: a failed exchange retries without returning the reservation.    *)
CasLaneLeaks(r) ==
  LET l == LaneOf[r] IN
  /\ \/ /\ laneActive[l] = seenLane[r]
        /\ laneActive' = [laneActive EXCEPT ![l] = @ + 1]
        /\ Goto(r, "casLane", "held")
        /\ Unlock(r)
     \/ /\ laneActive[l] # seenLane[r]
        /\ UNCHANGED <<laneActive, mutex>>
        /\ Goto(r, "casLane", "loadActive")
  /\ UNCHANGED <<active, seen, facts, ownership, expired, events>>

CasLane(r) ==
  LET l == LaneOf[r] IN
  /\ \/ /\ laneActive[l] = seenLane[r]
        /\ laneActive' = [laneActive EXCEPT ![l] = @ + 1]
        /\ Goto(r, "casLane", "held")
        /\ Unlock(r)
     \/ /\ laneActive[l] # seenLane[r]
        /\ UNCHANGED <<laneActive, mutex>>
        /\ Goto(r, "casLane", "undo")
  /\ UNCHANGED <<active, seen, facts, ownership, expired, events>>

(* The reservation is returned with a bare fetch_sub: nobody is notified.  *)
UndoActive(r) ==
  /\ Goto(r, "undo", "loadActive")
  /\ active' = active - 1
  /\ events' = events \cup {"undo"}
  /\ UNCHANGED <<laneActive, seen, facts, mutex, ownership, expired>>

-----------------------------------------------------------------------------
(* The refused thread takes the mutex.  Facts older than the current       *)
(* revision send it back to the head of the loop; otherwise the deadline   *)
(* is checked and the second probe begins, the mutex still held.           *)
LockToWait(r) ==
  /\ mutex = NoOne
  /\ Goto(r, "rejected", "recheck")
  /\ mutex' = r
  /\ UNCHANGED <<counters, seen, facts, ownership, expired, events>>

(* Mutant: sleeps on facts of an older revision.                           *)
RecheckStale(r) ==
  /\ IF r \in expired
     THEN Goto(r, "recheck", "done") /\ mutex' = NoOne
     ELSE Goto(r, "recheck", "loadActive") /\ UNCHANGED mutex
  /\ UNCHANGED <<counters, seen, facts, ownership, expired, events>>

(* Mutant: sleeps without the second probe.                                *)
RecheckNoProbe(r) ==
  /\ Goto(r, "recheck", IF selRev # factsRev[r] THEN "slice" ELSE "waiting")
  /\ mutex' = NoOne
  /\ UNCHANGED <<counters, seen, facts, ownership, expired, events>>

Recheck(r) ==
  /\ \/ /\ selRev # factsRev[r]
        /\ Goto(r, "recheck", "slice")
        /\ mutex' = NoOne
     \/ /\ selRev = factsRev[r]
        /\ r \in expired
        /\ Goto(r, "recheck", "done")
        /\ mutex' = NoOne
     \/ /\ selRev = factsRev[r]
        /\ r \notin expired
        /\ Goto(r, "recheck", "loadActive")
        /\ UNCHANGED mutex
  /\ UNCHANGED <<counters, seen, facts, ownership, expired, events>>

(* wait_timeout may return at any moment, and needs the mutex to return.   *)
WaitTimeout(r) ==
  /\ Goto(r, "waiting", "waking")
  /\ UNCHANGED <<counters, seen, facts, mutex, ownership, expired, events>>

WakeUp(r) ==
  /\ mutex = NoOne
  /\ Goto(r, "waking", "slice")
  /\ UNCHANGED <<counters, seen, facts, mutex, ownership, expired, events>>

-----------------------------------------------------------------------------
(* Drop of a permit: both counters and the notification under the mutex.   *)
NotifyAll(t, to) ==
  pc' = [u \in Requests \cup Writers |->
           IF u = t THEN to ELSE IF pc[u] = "waiting" THEN "waking" ELSE pc[u]]

LockToRelease(r) ==
  /\ mutex = NoOne
  /\ Goto(r, "held", "releaseActive")
  /\ mutex' = r
  /\ UNCHANGED <<counters, seen, facts, ownership, expired, events>>

ReleaseActive(r) ==
  /\ Goto(r, "releaseActive", "releaseLane")
  /\ active' = IF active > 0 THEN active - 1 ELSE 0
  /\ events' = events \cup (IF active = 0 THEN {"activeUnderflow"} ELSE {})
  /\ UNCHANGED <<laneActive, seen, facts, mutex, ownership, expired>>

(* Mutant: the permit is dropped without a notification.                   *)
ReleaseLaneSilent(r) ==
  LET l == LaneOf[r] IN
  /\ Goto(r, "releaseLane", "done")
  /\ laneActive' = [laneActive EXCEPT ![l] = IF @ > 0 THEN @ - 1 ELSE 0]
  /\ events' = events \cup (IF laneActive[l] = 0 THEN {"laneUnderflow"} ELSE {})
  /\ mutex' = NoOne
  /\ UNCHANGED <<active, seen, facts, ownership, expired>>

ReleaseLane(r) ==
  LET l == LaneOf[r] IN
  /\ pc[r] = "releaseLane"
  /\ laneActive' = [laneActive EXCEPT ![l] = IF @ > 0 THEN @ - 1 ELSE 0]
  /\ events' = events \cup (IF laneActive[l] = 0 THEN {"laneUnderflow"} ELSE {})
  /\ NotifyAll(r, "done")
  /\ mutex' = NoOne
  /\ UNCHANGED <<active, seen, facts, ownership, expired>>

-----------------------------------------------------------------------------
(* A state writer changes ownership under the runtime lock and, still      *)
(* holding it, publishes a new revision and notifies the sleepers.         *)
WriteState(w) ==
  /\ selRev < MaxRevision
  /\ runtimeLock = NoOne
  /\ runtimeLock' = w
  /\ \E S \in SUBSET Ownable : owned' = S
  /\ Goto(w, "idle", "bump")
  /\ UNCHANGED <<counters, seen, facts, mutex, selRev, expired, events>>

BumpRevision(w) ==
  /\ Goto(w, "bump", "notify")
  /\ selRev' = selRev + 1
  /\ UNCHANGED <<counters, seen, facts, mutex, runtimeLock, owned, expired, events>>

NotifySelection(w) ==
  /\ pc[w] = "notify"
  /\ mutex = NoOne
  /\ NotifyAll(w, "idle")
  /\ runtimeLock' = NoOne
  /\ UNCHANGED <<counters, seen, facts, mutex, owned, selRev, expired, events>>

DeadlinePasses(r) ==
  /\ r \in Deadlined \ expired
  /\ expired' = expired \cup {r}
  /\ UNCHANGED <<pc, counters, seen, facts, mutex, ownership, events>>

-----------------------------------------------------------------------------
(* The steps a thread takes whenever it can; a timeout is not among them.  *)
RequestStep(r) ==
  \/ BeginRound(r) \/ ProjectFacts(r)
  \/ LoadActive(r) \/ LoadLane(r) \/ CasActive(r) \/ CasLane(r) \/ UndoActive(r)
  \/ LockToWait(r) \/ Recheck(r) \/ WakeUp(r)
  \/ LockToRelease(r) \/ ReleaseActive(r) \/ ReleaseLane(r)

WriterStep(w) == WriteState(w) \/ BumpRevision(w) \/ NotifySelection(w)

Next ==
  \/ \E r \in Requests : RequestStep(r) \/ WaitTimeout(r) \/ DeadlinePasses(r)
  \/ \E w \in Writers : WriterStep(w)

Spec == Init /\ [][Next]_vars

(* Threads run and obtain the locks they wait for; handlers end, so a held *)
(* permit is dropped.  No fairness for timeouts, deadlines or new writes.  *)
Fairness ==
  /\ \A r \in Requests : SF_vars(RequestStep(r))
  /\ \A w \in Writers : SF_vars(BumpRevision(w) \/ NotifySelection(w))

FairSpec == Spec /\ Fairness

-----------------------------------------------------------------------------
(* Types of the variables.                                                 *)
TypeOK ==
  /\ pc \in [Requests \cup Writers -> RequestPC \cup WriterPC]
  /\ \A r \in Requests : pc[r] \in RequestPC
  /\ \A w \in Writers : pc[w] \in WriterPC
  /\ active \in Nat
  /\ laneActive \in [Lanes -> Nat]
  /\ seenActive \in [Requests -> Nat]
  /\ seenLane \in [Requests -> Nat]
  /\ factsRev \in [Requests -> Nat]
  /\ bypass \in [Requests -> BOOLEAN]
  /\ mutex \in Requests \cup {NoOne}
  /\ runtimeLock \in Writers \cup {NoOne}
  /\ owned \subseteq Ownable
  /\ selRev \in Nat
  /\ expired \subseteq Deadlined
  /\ events \subseteq {"activeUnderflow", "laneUnderflow", "undo"}

(* Each counter equals the number of threads it stands for: permits, plus, *)
(* for the proxy-wide counter, the reservations of threads between the two *)
(* exchanges.  try_acquire's undo and Drop's two decrements never leak and *)
(* never count twice, whatever the interleaving.                           *)
Counted == At({"casLane", "undo", "held", "releaseActive"})
LaneCounted(l) ==
  {r \in At({"held", "releaseActive", "releaseLane"}) : LaneOf[r] = l}

CountersExact ==
  /\ active = Cardinality(Counted)
  /\ \A l \in Lanes : laneActive[l] = Cardinality(LaneCounted(l))

(* The proxy never runs more than active_request_limit requests, although  *)
(* the limit is checked against a value loaded before the exchange.        *)
ActiveWithinLimit == active <= ActiveLimit

(* A release never finds a counter at zero: the underflow counters that    *)
(* Drop maintains stay at zero.                                            *)
NoReleaseUnderflow == events \subseteq {"undo"}

(* A request whose continuation has an owner by now never sleeps on its    *)
(* lane's limit, unless the writer that made it so has yet to notify: the  *)
(* revision check under the mutex closes the gap between projection and    *)
(* sleep.                                                                  *)
SleepsOnCurrentOwnership ==
  \A r \in At({"waiting"}) :
    r \in owned /\ ~bypass[r]
      => \E w \in Writers : pc[w] \in {"bump", "notify"}

(* No request sleeps beside free capacity it may use once every other      *)
(* thread has come to rest: the second probe under the mutex and the       *)
(* notification of every release leave no wakeup to be lost.  An undone    *)
(* reservation is the exception: it makes others fail, and notifies nobody.*)
AtRest(t) == pc[t] \in {"waiting", "held", "done", "idle"}

NoLostWakeup ==
  \A r \in At({"waiting"}) :
    "undo" \notin events /\ (\A t \in Requests \cup Writers : AtRest(t))
      => ~ /\ active < ActiveLimit
           /\ laneActive[LaneOf[r]] < LaneLimit[LaneOf[r]] \/ bypass[r]

(* Every request ends, admitted or refused for its deadline, even if no    *)
(* wait ever times out and no deadline ever passes: threads never block    *)
(* one another for good on the two locks, and notifications suffice unless *)
(* a reservation has been undone.                                          *)
EveryRequestSettles ==
  <>("undo" \in events \/ \A r \in Requests : pc[r] = "done")

-----------------------------------------------------------------------------
(* RuntimeAdmission implements PermitPool.                                 *)
Bypassed == {r \in Holders : bypass[r] /\ seenLane[r] >= LaneLimit[LaneOf[r]]}

Pool == INSTANCE PermitPool
          WITH MayBypass <- Ownable \cup Priority,
               holders <- Holders, bypassed <- Bypassed

(* Every acquisition and release of the detailed protocol is one grant or  *)
(* return of the abstract pool, within both limits.                        *)
GrantsWithinLimits == Pool!PoolSpec

=============================================================================
