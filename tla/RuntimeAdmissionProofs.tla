----------------------- MODULE RuntimeAdmissionProofs -----------------------
(***************************************************************************)
(* Proofs about RuntimeAdmission for any number of requests, lanes, state  *)
(* writers and limits.                                                     *)
(***************************************************************************)
EXTENDS RuntimeAdmission, FiniteSetTheorems, TLAPS

(* What a thread between its loads and its second exchange has planned.    *)
PlanInv ==
  \A r \in At({"casActive", "casLane"}) : AdmissionAllowed(r, seenLane[r])

(* The exemption from the lane's limit has one of two sources.             *)
BypassInv == \A r \in Requests : bypass[r] => r \in Ownable \cup Priority

(* The inductive invariant: the types, the exact counters, which make the  *)
(* decrements safe, and the plan that the limits rest on.                  *)
IInv ==
  /\ TypeOK
  /\ CountersExact
  /\ PlanInv
  /\ BypassInv
  /\ ActiveWithinLimit
  /\ NoReleaseUnderflow

-----------------------------------------------------------------------------
(* Sets of requests.                                                       *)
LEMMA AtFinite ==
  ASSUME NEW S, NEW T, T \subseteq At(S)
  PROVE  IsFiniteSet(T) /\ Cardinality(T) \in Nat
BY AdmissionAssumption, FS_Subset, FS_CardinalityType DEF At

(* The threads that a counter stands for can be counted.                   *)
LEMMA CountedFinite ==
  /\ IsFiniteSet(Counted) /\ Cardinality(Counted) \in Nat
  /\ IsFiniteSet(Counted') /\ Cardinality(Counted') \in Nat
  /\ \A l \in Lanes :
       /\ IsFiniteSet(LaneCounted(l)) /\ Cardinality(LaneCounted(l)) \in Nat
       /\ IsFiniteSet(LaneCounted(l)') /\ Cardinality(LaneCounted(l)') \in Nat
BY AdmissionAssumption, FS_Subset, FS_CardinalityType DEF Counted, LaneCounted, At

(* A thread that is counted keeps its counter positive.                    *)
LEMMA CountedPositive ==
  ASSUME TypeOK, CountersExact, NEW r \in Requests
  PROVE  /\ r \in Counted => active > 0
         /\ r \in LaneCounted(LaneOf[r]) => laneActive[LaneOf[r]] > 0
<1>1. LaneOf[r] \in Lanes
  BY AdmissionAssumption
<1>2. ASSUME NEW S, IsFiniteSet(S), r \in S PROVE Cardinality(S) > 0
  BY <1>2, FS_EmptySet, FS_CardinalityType
<1> QED
  BY <1>1, <1>2, CountedFinite DEF CountersExact

-----------------------------------------------------------------------------
(* A step keeps the types: the decrements are safe because counters are    *)
(* exact.                                                                  *)
LEMMA TypeNext == TypeOK /\ CountersExact /\ [Next]_vars => TypeOK'
<1> SUFFICES ASSUME TypeOK, CountersExact, [Next]_vars PROVE TypeOK'
  OBVIOUS
<1> USE AdmissionAssumption
    DEF TypeOK, RequestPC, WriterPC, Goto, counters, seen, facts, ownership
<1>1. ASSUME NEW r \in Requests, BeginRound(r) PROVE TypeOK'
  BY <1>1 DEF BeginRound
<1>2. ASSUME NEW r \in Requests, ProjectFacts(r) PROVE TypeOK'
  BY <1>2 DEF ProjectFacts
<1>3. ASSUME NEW r \in Requests, LoadActive(r) PROVE TypeOK'
  BY <1>3 DEF LoadActive
<1>4. ASSUME NEW r \in Requests, LoadLane(r) PROVE TypeOK'
  BY <1>4 DEF LoadLane, Unlock, AfterRefusal
<1>5. ASSUME NEW r \in Requests, CasActive(r) PROVE TypeOK'
  BY <1>5 DEF CasActive
<1>6. ASSUME NEW r \in Requests, CasLane(r) PROVE TypeOK'
  BY <1>6 DEF CasLane, Unlock
<1>7. ASSUME NEW r \in Requests, UndoActive(r) PROVE TypeOK'
  <2>1. active > 0
    BY <1>7, CountedPositive DEF UndoActive, Counted, At
  <2> QED
    BY <1>7, <2>1 DEF UndoActive
<1>8. ASSUME NEW r \in Requests, LockToWait(r) PROVE TypeOK'
  BY <1>8 DEF LockToWait
<1>9. ASSUME NEW r \in Requests, Recheck(r) PROVE TypeOK'
  BY <1>9 DEF Recheck
<1>10. ASSUME NEW r \in Requests, WaitTimeout(r) PROVE TypeOK'
  BY <1>10 DEF WaitTimeout
<1>11. ASSUME NEW r \in Requests, WakeUp(r) PROVE TypeOK'
  BY <1>11 DEF WakeUp
<1>12. ASSUME NEW r \in Requests, LockToRelease(r) PROVE TypeOK'
  BY <1>12 DEF LockToRelease
<1>13. ASSUME NEW r \in Requests, ReleaseActive(r) PROVE TypeOK'
  BY <1>13 DEF ReleaseActive
<1>14. ASSUME NEW r \in Requests, ReleaseLane(r) PROVE TypeOK'
  BY <1>14 DEF ReleaseLane, NotifyAll
<1>15. ASSUME NEW w \in Writers, WriterStep(w) PROVE TypeOK'
  <2>1. CASE WriteState(w)
    BY <2>1 DEF WriteState
  <2>2. CASE BumpRevision(w)
    BY <2>2 DEF BumpRevision
  <2>3. CASE NotifySelection(w)
    BY <2>3 DEF NotifySelection, NotifyAll
  <2> QED
    BY <1>15, <2>1, <2>2, <2>3 DEF WriterStep
<1>16. ASSUME NEW r \in Requests, DeadlinePasses(r) PROVE TypeOK'
  BY <1>16 DEF DeadlinePasses
<1>17. CASE UNCHANGED vars
  BY <1>17 DEF vars
<1> QED
  BY <1>1, <1>2, <1>3, <1>4, <1>5, <1>6, <1>7, <1>8, <1>9, <1>10, <1>11,
     <1>12, <1>13, <1>14, <1>15, <1>16, <1>17 DEF Next, RequestStep

-----------------------------------------------------------------------------
(* The threads a counter stands for, and the counters, move together.      *)
CountPCs == {"casLane", "undo", "held", "releaseActive"}
LanePCs == {"held", "releaseActive", "releaseLane"}

(* A step moves a thread in or out of a counted set exactly when it moves  *)
(* the counter.                                                            *)
LEMMA CountersNext == TypeOK /\ CountersExact /\ [Next]_vars => CountersExact'
<1> SUFFICES ASSUME TypeOK, CountersExact, [Next]_vars PROVE CountersExact'
  OBVIOUS
<1> USE AdmissionAssumption DEF Goto, counters, seen, facts, ownership
<1>a. TypeOK'
  BY TypeNext
<1>b. ASSUME UNCHANGED counters,
             \A r \in Requests : /\ pc[r] \in CountPCs <=> pc'[r] \in CountPCs
                                 /\ pc[r] \in LanePCs <=> pc'[r] \in LanePCs
      PROVE  CountersExact'
  <2>1. Counted' = Counted /\ \A l \in Lanes : LaneCounted(l)' = LaneCounted(l)
    BY <1>b DEF Counted, LaneCounted, At, CountPCs, LanePCs
  <2> QED
    BY <1>b, <2>1 DEF CountersExact
<1>1. ASSUME NEW r \in Requests, BeginRound(r) PROVE CountersExact'
  BY <1>1, <1>b DEF BeginRound, CountPCs, LanePCs, TypeOK
<1>2. ASSUME NEW r \in Requests, ProjectFacts(r) PROVE CountersExact'
  BY <1>2, <1>b DEF ProjectFacts, CountPCs, LanePCs, TypeOK
<1>3. ASSUME NEW r \in Requests, LoadActive(r) PROVE CountersExact'
  BY <1>3, <1>b DEF LoadActive, CountPCs, LanePCs, TypeOK
<1>4. ASSUME NEW r \in Requests, LoadLane(r) PROVE CountersExact'
  BY <1>4, <1>b DEF LoadLane, AfterRefusal, CountPCs, LanePCs, TypeOK
<1>5. ASSUME NEW r \in Requests, CasActive(r) PROVE CountersExact'
  <2>1. CASE active # seenActive[r]
    BY <1>5, <1>b, <2>1 DEF CasActive, CountPCs, LanePCs, TypeOK
  <2>2. CASE active = seenActive[r]
    <3>1. /\ r \notin Counted /\ Counted' = Counted \cup {r}
          /\ \A l \in Lanes : LaneCounted(l)' = LaneCounted(l)
      <4>1. r \notin Counted /\ Counted' = Counted \cup {r}
        BY <1>5, <2>2 DEF CasActive, Counted, At, TypeOK
      <4>2. ASSUME NEW l \in Lanes PROVE LaneCounted(l)' = LaneCounted(l)
        <5>1. \A q \in Requests : pc'[q] = pc[q] \/ (q = r /\ pc[q] = "casActive" /\ pc'[q] = "casLane")
          BY <1>5, <2>2 DEF CasActive, At, TypeOK
        <5> QED
          BY <5>1 DEF LaneCounted, At
      <4> QED
        BY <4>1, <4>2
    <3>2. active' = active + 1 /\ UNCHANGED laneActive
      BY <1>5, <2>2 DEF CasActive
    <3>3. Cardinality(Counted)' = Cardinality(Counted) + 1
      BY <3>1, CountedFinite, FS_AddElement
    <3> QED
      BY <3>1, <3>2, <3>3 DEF CountersExact
  <2> QED
    BY <2>1, <2>2
<1>6. ASSUME NEW r \in Requests, CasLane(r) PROVE CountersExact'
  <2> DEFINE k == LaneOf[r]
  <2>1. CASE laneActive[k] # seenLane[r]
    BY <1>6, <1>b, <2>1 DEF CasLane, CountPCs, LanePCs, TypeOK
  <2>2. CASE laneActive[k] = seenLane[r]
    <3>1. /\ Counted' = Counted
          /\ r \notin LaneCounted(k) /\ LaneCounted(k)' = LaneCounted(k) \cup {r}
          /\ \A l \in Lanes \ {k} : LaneCounted(l)' = LaneCounted(l)
      BY <1>6, <2>2 DEF CasLane, Counted, LaneCounted, At, TypeOK
    <3>2. /\ active' = active
          /\ laneActive' = [laneActive EXCEPT ![k] = @ + 1]
      BY <1>6, <2>2 DEF CasLane
    <3>3. Cardinality(LaneCounted(k)') = Cardinality(LaneCounted(k)) + 1
      BY <3>1, CountedFinite, FS_AddElement
    <3> QED
      BY <3>1, <3>2, <3>3 DEF CountersExact, TypeOK
  <2> QED
    BY <2>1, <2>2
<1>7. ASSUME NEW r \in Requests, UndoActive(r) PROVE CountersExact'
  <2>1. /\ r \in Counted /\ Counted' = Counted \ {r}
        /\ \A l \in Lanes : LaneCounted(l)' = LaneCounted(l)
    BY <1>7 DEF UndoActive, Counted, LaneCounted, At, TypeOK
  <2>2. active' = active - 1 /\ laneActive' = laneActive
    BY <1>7 DEF UndoActive
  <2> QED
    BY <2>1, <2>2, CountedFinite, FS_RemoveElement DEF CountersExact
<1>8. ASSUME NEW r \in Requests, LockToWait(r) PROVE CountersExact'
  BY <1>8, <1>b DEF LockToWait, CountPCs, LanePCs, TypeOK
<1>9. ASSUME NEW r \in Requests, Recheck(r) PROVE CountersExact'
  BY <1>9, <1>b DEF Recheck, CountPCs, LanePCs, TypeOK
<1>10. ASSUME NEW r \in Requests, WaitTimeout(r) PROVE CountersExact'
  BY <1>10, <1>b DEF WaitTimeout, CountPCs, LanePCs, TypeOK
<1>11. ASSUME NEW r \in Requests, WakeUp(r) PROVE CountersExact'
  BY <1>11, <1>b DEF WakeUp, CountPCs, LanePCs, TypeOK
<1>12. ASSUME NEW r \in Requests, LockToRelease(r) PROVE CountersExact'
  BY <1>12, <1>b DEF LockToRelease, CountPCs, LanePCs, TypeOK
<1>13. ASSUME NEW r \in Requests, ReleaseActive(r) PROVE CountersExact'
  <2>1. /\ r \in Counted /\ Counted' = Counted \ {r}
        /\ \A l \in Lanes : LaneCounted(l)' = LaneCounted(l)
    BY <1>13 DEF ReleaseActive, Counted, LaneCounted, At, TypeOK
  <2>2. active' = active - 1 /\ laneActive' = laneActive
    BY <1>13, <2>1, CountedPositive DEF ReleaseActive
  <2> QED
    BY <2>1, <2>2, CountedFinite, FS_RemoveElement DEF CountersExact
<1>14. ASSUME NEW r \in Requests, ReleaseLane(r) PROVE CountersExact'
  <2> DEFINE k == LaneOf[r]
  <2>1. /\ Counted' = Counted
        /\ r \in LaneCounted(k) /\ LaneCounted(k)' = LaneCounted(k) \ {r}
        /\ \A l \in Lanes \ {k} : LaneCounted(l)' = LaneCounted(l)
    BY <1>14 DEF ReleaseLane, NotifyAll, Counted, LaneCounted, At, TypeOK
  <2>2. active' = active /\ laneActive' = [laneActive EXCEPT ![k] = @ - 1]
    BY <1>14, <2>1, CountedPositive DEF ReleaseLane, TypeOK
  <2>3. Cardinality(LaneCounted(k)') = Cardinality(LaneCounted(k)) - 1
    <3>1. k \in Lanes
      OBVIOUS
    <3>2. IsFiniteSet(LaneCounted(k))
      BY <3>1, CountedFinite
    <3> HIDE DEF k
    <3> QED
      BY <2>1, <3>2, FS_RemoveElement
  <2> QED
    BY <2>1, <2>2, <2>3 DEF CountersExact, TypeOK
<1>15. ASSUME NEW w \in Writers, WriterStep(w) PROVE CountersExact'
  <2>1. CASE WriteState(w)
    BY <2>1, <1>b DEF WriteState, CountPCs, LanePCs, TypeOK
  <2>2. CASE BumpRevision(w)
    BY <2>2, <1>b DEF BumpRevision, CountPCs, LanePCs, TypeOK
  <2>3. CASE NotifySelection(w)
    BY <2>3, <1>b DEF NotifySelection, NotifyAll, CountPCs, LanePCs, TypeOK
  <2> QED
    BY <1>15, <2>1, <2>2, <2>3 DEF WriterStep
<1>16. ASSUME NEW r \in Requests, DeadlinePasses(r) PROVE CountersExact'
  BY <1>16, <1>b DEF DeadlinePasses
<1>17. CASE UNCHANGED vars
  BY <1>17, <1>b DEF vars
<1> QED
  BY <1>1, <1>2, <1>3, <1>4, <1>5, <1>6, <1>7, <1>8, <1>9, <1>10, <1>11,
     <1>12, <1>13, <1>14, <1>15, <1>16, <1>17 DEF Next, RequestStep

-----------------------------------------------------------------------------
(* A plan outlives every step of the other threads: it speaks of what its  *)
(* own thread loaded, not of the counters.                                 *)
LEMMA PlanNext ==
  TypeOK /\ PlanInv /\ BypassInv /\ [Next]_vars => PlanInv' /\ BypassInv'
<1> SUFFICES ASSUME TypeOK, PlanInv, BypassInv, [Next]_vars
             PROVE  PlanInv' /\ BypassInv'
  OBVIOUS
<1> USE AdmissionAssumption
    DEF Goto, counters, seen, facts, ownership, PlanInv, BypassInv, At,
        AdmissionAllowed, TypeOK
<1>1. ASSUME NEW r \in Requests, BeginRound(r) PROVE PlanInv' /\ BypassInv'
  BY <1>1 DEF BeginRound
<1>2. ASSUME NEW r \in Requests, ProjectFacts(r) PROVE PlanInv' /\ BypassInv'
  BY <1>2 DEF ProjectFacts
<1>3. ASSUME NEW r \in Requests, LoadActive(r) PROVE PlanInv' /\ BypassInv'
  BY <1>3 DEF LoadActive
<1>4. ASSUME NEW r \in Requests, LoadLane(r) PROVE PlanInv' /\ BypassInv'
  BY <1>4 DEF LoadLane, AfterRefusal
<1>5. ASSUME NEW r \in Requests, CasActive(r) PROVE PlanInv' /\ BypassInv'
  BY <1>5 DEF CasActive
<1>6. ASSUME NEW r \in Requests, CasLane(r) PROVE PlanInv' /\ BypassInv'
  BY <1>6 DEF CasLane
<1>7. ASSUME NEW r \in Requests, UndoActive(r) PROVE PlanInv' /\ BypassInv'
  BY <1>7 DEF UndoActive
<1>8. ASSUME NEW r \in Requests, LockToWait(r) PROVE PlanInv' /\ BypassInv'
  BY <1>8 DEF LockToWait
<1>9. ASSUME NEW r \in Requests, Recheck(r) PROVE PlanInv' /\ BypassInv'
  BY <1>9 DEF Recheck
<1>10. ASSUME NEW r \in Requests, WaitTimeout(r) PROVE PlanInv' /\ BypassInv'
  BY <1>10 DEF WaitTimeout
<1>11. ASSUME NEW r \in Requests, WakeUp(r) PROVE PlanInv' /\ BypassInv'
  BY <1>11 DEF WakeUp
<1>12. ASSUME NEW r \in Requests, LockToRelease(r) PROVE PlanInv' /\ BypassInv'
  BY <1>12 DEF LockToRelease
<1>13. ASSUME NEW r \in Requests, ReleaseActive(r) PROVE PlanInv' /\ BypassInv'
  BY <1>13 DEF ReleaseActive
<1>14. ASSUME NEW r \in Requests, ReleaseLane(r) PROVE PlanInv' /\ BypassInv'
  BY <1>14 DEF ReleaseLane, NotifyAll
<1>15. ASSUME NEW w \in Writers, WriterStep(w) PROVE PlanInv' /\ BypassInv'
  BY <1>15 DEF WriterStep, WriteState, BumpRevision, NotifySelection, NotifyAll
<1>16. ASSUME NEW r \in Requests, DeadlinePasses(r) PROVE PlanInv' /\ BypassInv'
  BY <1>16 DEF DeadlinePasses
<1>17. CASE UNCHANGED vars
  BY <1>17 DEF vars
<1> QED
  BY <1>1, <1>2, <1>3, <1>4, <1>5, <1>6, <1>7, <1>8, <1>9, <1>10, <1>11,
     <1>12, <1>13, <1>14, <1>15, <1>16, <1>17 DEF Next, RequestStep

(* Only the first exchange raises the proxy-wide counter, from a value     *)
(* that its plan found below the limit.                                    *)
LEMMA LimitNext ==
  ASSUME IInv, [Next]_vars
  PROVE  ActiveWithinLimit' /\ NoReleaseUnderflow'
<1> USE AdmissionAssumption
    DEF IInv, Goto, counters, ActiveWithinLimit, NoReleaseUnderflow, TypeOK
<1>1. ASSUME NEW r \in Requests, CasActive(r)
      PROVE  ActiveWithinLimit' /\ NoReleaseUnderflow'
  BY <1>1 DEF CasActive, PlanInv, At, AdmissionAllowed
<1>2. ASSUME NEW r \in Requests, UndoActive(r)
      PROVE  ActiveWithinLimit' /\ NoReleaseUnderflow'
  BY <1>2 DEF UndoActive
<1>3. ASSUME NEW r \in Requests, ReleaseActive(r)
      PROVE  ActiveWithinLimit' /\ NoReleaseUnderflow'
  <2>1. active > 0
    BY <1>3, CountedPositive DEF ReleaseActive, Counted, At
  <2> QED
    BY <1>3, <2>1 DEF ReleaseActive
<1>4. ASSUME NEW r \in Requests, ReleaseLane(r)
      PROVE  ActiveWithinLimit' /\ NoReleaseUnderflow'
  <2>1. laneActive[LaneOf[r]] > 0
    BY <1>4, CountedPositive DEF ReleaseLane, LaneCounted, At
  <2> QED
    BY <1>4, <2>1 DEF ReleaseLane
<1>5. ASSUME UNCHANGED <<active, events>>
      PROVE  ActiveWithinLimit' /\ NoReleaseUnderflow'
  BY <1>5
<1>6. ASSUME NEW r \in Requests,
             \/ BeginRound(r) \/ ProjectFacts(r) \/ LoadActive(r) \/ LoadLane(r)
             \/ CasLane(r) \/ LockToWait(r) \/ Recheck(r) \/ WakeUp(r)
             \/ LockToRelease(r) \/ WaitTimeout(r) \/ DeadlinePasses(r)
      PROVE  UNCHANGED <<active, events>>
  BY <1>6 DEF BeginRound, ProjectFacts, LoadActive, LoadLane, CasLane,
              LockToWait, Recheck, WakeUp, LockToRelease, WaitTimeout,
              DeadlinePasses
<1>7. ASSUME NEW w \in Writers, WriterStep(w)
      PROVE  UNCHANGED <<active, events>>
  BY <1>7 DEF WriterStep, WriteState, BumpRevision, NotifySelection
<1>8. CASE UNCHANGED vars
  BY <1>5, <1>8 DEF vars
<1> QED
  BY <1>1, <1>2, <1>3, <1>4, <1>5, <1>6, <1>7, <1>8 DEF Next, RequestStep

-----------------------------------------------------------------------------
(* The inductive invariant holds.                                          *)
LEMMA InductiveInvariant == Spec => []IInv
<1>1. Init => IInv
  <2> SUFFICES ASSUME Init PROVE IInv
    OBVIOUS
  <2> USE AdmissionAssumption DEF Init
  <2>1. TypeOK
    BY DEF TypeOK, RequestPC, WriterPC
  <2>2. Counted = {} /\ \A l \in Lanes : LaneCounted(l) = {}
    BY DEF Counted, LaneCounted, At
  <2>3. CountersExact
    BY <2>2, FS_EmptySet DEF CountersExact
  <2> QED
    BY <2>1, <2>3 DEF IInv, PlanInv, BypassInv, At, ActiveWithinLimit,
                      NoReleaseUnderflow
<1>2. IInv /\ [Next]_vars => IInv'
  BY TypeNext, CountersNext, PlanNext, LimitNext DEF IInv
<1> QED
  BY <1>1, <1>2, PTL DEF Spec

(* The variables keep their types in every reachable state.                *)
THEOREM TypeCorrect == Spec => []TypeOK
<1>1. IInv => TypeOK
  BY DEF IInv
<1> QED
  BY <1>1, InductiveInvariant, PTL

(* The admission counters are exact at every moment: a permit that is      *)
(* granted, undone or dropped by any interleaving of try_acquire and Drop  *)
(* is counted once and released once.                                      *)
THEOREM CountersAlwaysExact == Spec => []CountersExact
<1>1. IInv => CountersExact
  BY DEF IInv
<1> QED
  BY <1>1, InductiveInvariant, PTL

(* active_request_limit is never exceeded.                                 *)
THEOREM LimitNeverExceeded == Spec => []ActiveWithinLimit
<1>1. IInv => ActiveWithinLimit
  BY DEF IInv
<1> QED
  BY <1>1, InductiveInvariant, PTL

(* Drop of a permit never meets a counter at zero.                         *)
THEOREM ReleasesNeverUnderflow == Spec => []NoReleaseUnderflow
<1>1. IInv => NoReleaseUnderflow
  BY DEF IInv
<1> QED
  BY <1>1, InductiveInvariant, PTL

-----------------------------------------------------------------------------
(* Sleeping and waking.  The steps of a probe, of either kind.             *)
Probing == {"loadActive", "loadLane", "casActive", "casLane", "undo"}

Bumping == \E w \in Writers : pc[w] = "bump"
Notifying == \E w \in Writers : pc[w] = "notify"
Releasing == \E q \in Requests : pc[q] = "releaseLane"

(* The mutex belongs to a thread that rechecks, probes a second time or    *)
(* releases; the runtime lock to the writer between its steps.             *)
LockInv ==
  /\ \A r \in Requests :
       /\ pc[r] \in {"recheck", "releaseActive", "releaseLane"} => mutex = r
       /\ mutex = r
            => pc[r] \in {"recheck", "releaseActive", "releaseLane"} \cup Probing
  /\ \A w \in Writers : pc[w] \in {"bump", "notify"} => runtimeLock = w

(* Facts that carry the current revision miss only a change whose writer   *)
(* has yet to publish one.                                                 *)
FactsInv ==
  \A r \in Requests :
    /\ factsRev[r] <= selRev
    /\ /\ pc[r] \in Probing \cup {"rejected", "recheck", "waiting"}
       /\ factsRev[r] = selRev
       /\ r \in owned
       /\ ~bypass[r]
       => Bumping

(* A thread that sleeps, or probes with the mutex, has current facts, or a *)
(* writer is about to notify, for which it needs the mutex.                *)
CurrentInv ==
  \A r \in Requests :
    pc[r] = "waiting" \/ (mutex = r /\ pc[r] \in Probing)
      => factsRev[r] = selRev \/ Notifying

(* While a thread probes with the mutex no permit is returned: without an  *)
(* undone reservation the proxy-wide counter only rises.                   *)
ProbeInv ==
  \A r \in At({"loadLane"}) :
    mutex = r /\ "undo" \notin events => seenActive[r] <= active

(* What a sleeping thread was refused for still holds, or the thread that  *)
(* changed it is about to notify.                                          *)
RefusedInv ==
  \A r \in At({"waiting"}) :
    "undo" \notin events
      => \/ active >= ActiveLimit
         \/ laneActive[LaneOf[r]] >= LaneLimit[LaneOf[r]] /\ ~bypass[r]
         \/ Releasing

WakeInv ==
  /\ LockInv
  /\ FactsInv
  /\ CurrentInv
  /\ ProbeInv
  /\ RefusedInv

(* A request's step, its deadline and its timeout leave the writers alone. *)
LEMMA WritersStay ==
  ASSUME TypeOK, NEW r \in Requests,
         RequestStep(r) \/ WaitTimeout(r) \/ DeadlinePasses(r)
  PROVE  /\ \A w \in Writers : pc'[w] = pc[w]
         /\ UNCHANGED ownership
<1> USE AdmissionAssumption DEF Goto, TypeOK, WriterPC, ownership
<1>1. CASE BeginRound(r) \/ ProjectFacts(r) \/ LoadActive(r) \/ LoadLane(r)
  BY <1>1 DEF BeginRound, ProjectFacts, LoadActive, LoadLane
<1>2. CASE CasActive(r) \/ CasLane(r) \/ UndoActive(r) \/ LockToWait(r)
  BY <1>2 DEF CasActive, CasLane, UndoActive, LockToWait
<1>3. CASE Recheck(r) \/ WakeUp(r) \/ LockToRelease(r) \/ ReleaseActive(r)
  BY <1>3 DEF Recheck, WakeUp, LockToRelease, ReleaseActive
<1>4. CASE ReleaseLane(r)
  BY <1>4 DEF ReleaseLane, NotifyAll
<1>5. CASE WaitTimeout(r) \/ DeadlinePasses(r)
  BY <1>5 DEF WaitTimeout, DeadlinePasses
<1> QED
  BY <1>1, <1>2, <1>3, <1>4, <1>5 DEF RequestStep

(* Each lock keeps its owner until the owner gives it back.                *)
LEMMA LockNext == TypeOK /\ LockInv /\ [Next]_vars => LockInv'
<1> SUFFICES ASSUME TypeOK, LockInv, [Next]_vars PROVE LockInv'
  OBVIOUS
<1> USE AdmissionAssumption
    DEF Goto, counters, seen, facts, ownership, LockInv, Probing, TypeOK
<1>1. ASSUME NEW r \in Requests, BeginRound(r) \/ ProjectFacts(r) \/ LoadActive(r)
      PROVE  LockInv'
  BY <1>1 DEF BeginRound, ProjectFacts, LoadActive
<1>2. ASSUME NEW r \in Requests, LoadLane(r) PROVE LockInv'
  BY <1>2 DEF LoadLane, AfterRefusal, Unlock
<1>3. ASSUME NEW r \in Requests, CasActive(r) PROVE LockInv'
  BY <1>3 DEF CasActive
<1>4. ASSUME NEW r \in Requests, CasLane(r) PROVE LockInv'
  BY <1>4 DEF CasLane, Unlock
<1>5. ASSUME NEW r \in Requests, UndoActive(r) PROVE LockInv'
  BY <1>5 DEF UndoActive
<1>6. ASSUME NEW r \in Requests, LockToWait(r) PROVE LockInv'
  BY <1>6 DEF LockToWait
<1>7. ASSUME NEW r \in Requests, Recheck(r) PROVE LockInv'
  BY <1>7 DEF Recheck
<1>8. ASSUME NEW r \in Requests, WakeUp(r) \/ WaitTimeout(r) \/ DeadlinePasses(r)
      PROVE  LockInv'
  BY <1>8 DEF WakeUp, WaitTimeout, DeadlinePasses
<1>9. ASSUME NEW r \in Requests, LockToRelease(r) PROVE LockInv'
  BY <1>9 DEF LockToRelease
<1>10. ASSUME NEW r \in Requests, ReleaseActive(r) PROVE LockInv'
  BY <1>10 DEF ReleaseActive
<1>11. ASSUME NEW r \in Requests, ReleaseLane(r) PROVE LockInv'
  BY <1>11 DEF ReleaseLane, NotifyAll
<1>12. ASSUME NEW w \in Writers, WriteState(w) PROVE LockInv'
  BY <1>12 DEF WriteState
<1>13. ASSUME NEW w \in Writers, BumpRevision(w) PROVE LockInv'
  BY <1>13 DEF BumpRevision
<1>14. ASSUME NEW w \in Writers, NotifySelection(w) PROVE LockInv'
  BY <1>14 DEF NotifySelection, NotifyAll
<1>15. CASE UNCHANGED vars
  BY <1>15 DEF vars
<1> QED
  BY <1>1, <1>2, <1>3, <1>4, <1>5, <1>6, <1>7, <1>8, <1>9, <1>10, <1>11,
     <1>12, <1>13, <1>14, <1>15 DEF Next, RequestStep, WriterStep

(* The revision read before the projection, and checked again under the    *)
(* mutex, dates the facts that a thread sleeps on.                         *)
LEMMA FactsNext ==
  ASSUME TypeOK, LockInv, FactsInv, CurrentInv, [Next]_vars
  PROVE  FactsInv' /\ CurrentInv'
<1> USE AdmissionAssumption
    DEF Goto, counters, seen, facts, ownership, FactsInv, CurrentInv, Probing, TypeOK
<1> DEFINE Left == /\ Bumping' <=> Bumping
                   /\ Notifying' <=> Notifying
                   /\ UNCHANGED <<owned, selRev>>
<1>0. ASSUME NEW r \in Requests,
             RequestStep(r) \/ WaitTimeout(r) \/ DeadlinePasses(r)
      PROVE  Left
  BY <1>0, WritersStay DEF Bumping, Notifying
<1>1. ASSUME NEW r \in Requests, Left, BeginRound(r)
      PROVE  FactsInv' /\ CurrentInv'
  BY <1>1 DEF BeginRound
<1>2. ASSUME NEW r \in Requests, Left, ProjectFacts(r)
      PROVE  FactsInv' /\ CurrentInv'
  <2>1. mutex # r
    BY <1>2 DEF ProjectFacts, LockInv
  <2>2. bypass'[r] <=> r \in Priority \/ r \in owned
    BY <1>2 DEF ProjectFacts
  <2>3. \A q \in Requests : q # r => bypass'[q] = bypass[q] /\ pc'[q] = pc[q]
    BY <1>2 DEF ProjectFacts
  <2>4. /\ pc[r] = "facts" /\ pc'[r] \in {"done", "loadActive"}
        /\ UNCHANGED <<factsRev, mutex, selRev, owned>>
    BY <1>2 DEF ProjectFacts
  <2>5. FactsInv'
    BY <1>2, <2>2, <2>3, <2>4
  <2>6. CurrentInv'
    BY <1>2, <2>1, <2>3, <2>4
  <2> QED
    BY <2>5, <2>6
<1>3. ASSUME NEW r \in Requests, Left, LoadActive(r)
      PROVE  FactsInv' /\ CurrentInv'
  BY <1>3 DEF LoadActive
<1>4. ASSUME NEW r \in Requests, Left, LoadLane(r)
      PROVE  FactsInv' /\ CurrentInv'
  BY <1>4 DEF LoadLane, AfterRefusal, Unlock
<1>5. ASSUME NEW r \in Requests, Left, CasActive(r)
      PROVE  FactsInv' /\ CurrentInv'
  BY <1>5 DEF CasActive
<1>6. ASSUME NEW r \in Requests, Left, CasLane(r)
      PROVE  FactsInv' /\ CurrentInv'
  BY <1>6 DEF CasLane, Unlock
<1>7. ASSUME NEW r \in Requests, Left, UndoActive(r)
      PROVE  FactsInv' /\ CurrentInv'
  BY <1>7 DEF UndoActive
<1>8. ASSUME NEW r \in Requests, Left, LockToWait(r)
      PROVE  FactsInv' /\ CurrentInv'
  BY <1>8 DEF LockToWait
<1>9. ASSUME NEW r \in Requests, Left, Recheck(r)
      PROVE  FactsInv' /\ CurrentInv'
  BY <1>9 DEF Recheck
<1>10. ASSUME NEW r \in Requests, Left, WaitTimeout(r) \/ DeadlinePasses(r)
      PROVE  FactsInv' /\ CurrentInv'
  BY <1>10 DEF WaitTimeout, DeadlinePasses
<1>11. ASSUME NEW r \in Requests, Left, WakeUp(r) \/ LockToRelease(r) \/ ReleaseActive(r)
      PROVE  FactsInv' /\ CurrentInv'
  BY <1>11 DEF WakeUp, LockToRelease, ReleaseActive
<1>12. ASSUME NEW r \in Requests, Left, ReleaseLane(r)
      PROVE  FactsInv' /\ CurrentInv'
  BY <1>12 DEF ReleaseLane, NotifyAll
<1>13. ASSUME NEW w \in Writers, WriteState(w) PROVE FactsInv' /\ CurrentInv'
  <2>1. ~Notifying
    BY <1>13 DEF WriteState, Notifying, LockInv
  <2>2. Bumping'
    BY <1>13 DEF WriteState, Bumping
  <2> QED
    BY <1>13, <2>1, <2>2 DEF WriteState, WriterPC
<1>14. ASSUME NEW w \in Writers, BumpRevision(w) PROVE FactsInv' /\ CurrentInv'
  <2>1. Notifying'
    BY <1>14 DEF BumpRevision, Notifying
  <2> QED
    BY <1>14, <2>1 DEF BumpRevision, WriterPC
<1>15. ASSUME NEW w \in Writers, NotifySelection(w) PROVE FactsInv' /\ CurrentInv'
  <2>1. ~Bumping
    BY <1>15 DEF NotifySelection, Bumping, LockInv
  <2> QED
    BY <1>15, <2>1 DEF NotifySelection, NotifyAll
<1>16. CASE UNCHANGED vars
  BY <1>16 DEF vars, Bumping, Notifying
<1> HIDE DEF Left
<1> QED
  BY <1>0, <1>1, <1>2, <1>3, <1>4, <1>5, <1>6, <1>7, <1>8, <1>9, <1>10,
     <1>11, <1>12, <1>13, <1>14, <1>15, <1>16 DEF Next, RequestStep, WriterStep

(* A refusal stays good until the release that ends it, and that release   *)
(* holds the mutex until it has notified.                                  *)
LEMMA RefusedNext ==
  ASSUME TypeOK, LockInv, ProbeInv, RefusedInv, [Next]_vars
  PROVE  ProbeInv' /\ RefusedInv'
<1> USE AdmissionAssumption
    DEF Goto, counters, seen, facts, ownership, ProbeInv, RefusedInv, At, TypeOK
<1>0. ASSUME NEW q \in Requests, pc[q] = "releaseLane", pc'[q] = pc[q]
      PROVE  Releasing'
  BY <1>0 DEF Releasing
<1>1. ASSUME NEW r \in Requests, BeginRound(r) PROVE ProbeInv' /\ RefusedInv'
  BY <1>1 DEF BeginRound, Releasing
<1>2. ASSUME NEW r \in Requests, ProjectFacts(r) PROVE ProbeInv' /\ RefusedInv'
  BY <1>2 DEF ProjectFacts, Releasing
<1>3. ASSUME NEW r \in Requests, LoadActive(r) PROVE ProbeInv' /\ RefusedInv'
  BY <1>3 DEF LoadActive, Releasing
<1>4. ASSUME NEW r \in Requests, LoadLane(r) PROVE ProbeInv' /\ RefusedInv'
  BY <1>4 DEF LoadLane, AdmissionAllowed, AfterRefusal, Unlock, Releasing
<1>5. ASSUME NEW r \in Requests, CasActive(r) PROVE ProbeInv' /\ RefusedInv'
  BY <1>5 DEF CasActive, Releasing
<1>6. ASSUME NEW r \in Requests, CasLane(r) PROVE ProbeInv' /\ RefusedInv'
  BY <1>6 DEF CasLane, Unlock, Releasing
<1>7. ASSUME NEW r \in Requests, UndoActive(r) PROVE ProbeInv' /\ RefusedInv'
  BY <1>7 DEF UndoActive
<1>8. ASSUME NEW r \in Requests, LockToWait(r) \/ LockToRelease(r)
      PROVE  ProbeInv' /\ RefusedInv'
  BY <1>8 DEF LockToWait, LockToRelease, Releasing
<1>9. ASSUME NEW r \in Requests, Recheck(r) PROVE ProbeInv' /\ RefusedInv'
  BY <1>9 DEF Recheck, Releasing
<1>10. ASSUME NEW r \in Requests, WakeUp(r) \/ WaitTimeout(r) \/ DeadlinePasses(r)
       PROVE  ProbeInv' /\ RefusedInv'
  BY <1>10 DEF WakeUp, WaitTimeout, DeadlinePasses, Releasing
<1>11. ASSUME NEW r \in Requests, ReleaseActive(r) PROVE ProbeInv' /\ RefusedInv'
  <2>1. Releasing'
    BY <1>11 DEF ReleaseActive, Releasing
  <2>2. mutex = r
    BY <1>11 DEF ReleaseActive, LockInv
  <2> QED
    BY <1>11, <2>1, <2>2 DEF ReleaseActive
<1>12. ASSUME NEW r \in Requests, ReleaseLane(r) PROVE ProbeInv' /\ RefusedInv'
  BY <1>12 DEF ReleaseLane, NotifyAll
<1>13. ASSUME NEW w \in Writers, WriteState(w) \/ BumpRevision(w)
       PROVE  ProbeInv' /\ RefusedInv'
  BY <1>13 DEF WriteState, BumpRevision, Releasing
<1>14. ASSUME NEW w \in Writers, NotifySelection(w) PROVE ProbeInv' /\ RefusedInv'
  BY <1>14 DEF NotifySelection, NotifyAll
<1>15. CASE UNCHANGED vars
  BY <1>15 DEF vars, Releasing
<1> QED
  BY <1>1, <1>2, <1>3, <1>4, <1>5, <1>6, <1>7, <1>8, <1>9, <1>10, <1>11,
     <1>12, <1>13, <1>14, <1>15 DEF Next, RequestStep, WriterStep

(* The invariant of sleeping and waking holds.                             *)
LEMMA WakeInvariant == Spec => []WakeInv
<1>1. Init => WakeInv
  BY AdmissionAssumption DEF Init, WakeInv, LockInv, FactsInv, CurrentInv,
     ProbeInv, RefusedInv, At, Probing
<1>2. IInv /\ WakeInv /\ [Next]_vars => WakeInv'
  BY LockNext, FactsNext, RefusedNext DEF IInv, WakeInv
<1> QED
  BY <1>1, <1>2, InductiveInvariant, PTL DEF Spec

(* No request sleeps on its lane's limit after its continuation got an     *)
(* owner, but for the moment before the writer of that change notifies.    *)
THEOREM SleepersKnowOwnership == Spec => []SleepsOnCurrentOwnership
<1>1. WakeInv => SleepsOnCurrentOwnership
  BY DEF WakeInv, FactsInv, CurrentInv, SleepsOnCurrentOwnership, At, Bumping,
         Notifying
<1> QED
  BY <1>1, WakeInvariant, PTL

(* A request that sleeps while every other thread is at rest was refused   *)
(* for a reason that still holds: the second probe under the mutex and the *)
(* notification of every release lose no wakeup.                           *)
THEOREM WakeupsNeverLost == Spec => []NoLostWakeup
<1>1. TypeOK /\ WakeInv => NoLostWakeup
  <2> SUFFICES ASSUME TypeOK, WakeInv, NEW r \in At({"waiting"}),
                      "undo" \notin events,
                      \A t \in Requests \cup Writers : AtRest(t)
               PROVE  ~ /\ active < ActiveLimit
                        /\ laneActive[LaneOf[r]] < LaneLimit[LaneOf[r]] \/ bypass[r]
    BY DEF NoLostWakeup
  <2>1. ~Releasing
    BY DEF Releasing, AtRest
  <2>2. LaneOf[r] \in Lanes /\ laneActive[LaneOf[r]] \in Nat
        /\ LaneLimit[LaneOf[r]] \in Nat
    BY AdmissionAssumption DEF TypeOK, At
  <2> QED
    BY AdmissionAssumption, <2>1, <2>2 DEF WakeInv, RefusedInv, TypeOK
<1> QED
  BY <1>1, WakeInvariant, TypeCorrect, PTL

-----------------------------------------------------------------------------
(* The instance counts sets as this module does.                           *)
LEMMA SameCardinality == \A S : Pool!Cardinality(S) = Cardinality(S)
BY DEF Pool!Cardinality, Cardinality

(* The second exchange grants the permit: the reservation is  *)
(* already counted, so there is room for one more holder, and the lane's   *)
(* counter still has the value that the plan allowed.                      *)
LEMMA GrantStep ==
  ASSUME IInv, NEW r \in Requests, CasLane(r),
         laneActive[LaneOf[r]] = seenLane[r]
  PROVE  Pool!Admit(r)
<1> USE AdmissionAssumption DEF Goto, facts, seen
<1> DEFINE k == LaneOf[r]
<1>0. TypeOK /\ CountersExact /\ PlanInv /\ BypassInv /\ ActiveWithinLimit
  BY DEF IInv
<1>1. pc[r] = "casLane" /\ pc' = [pc EXCEPT ![r] = "held"]
  BY DEF CasLane
<1>2. r \notin Holders /\ Holders' = Holders \cup {r}
  BY <1>0, <1>1 DEF Holders, At, TypeOK
<1>3. Cardinality(Holders) < ActiveLimit
  <2>1. Holders \cup {r} \subseteq Counted
    BY <1>1 DEF Holders, Counted, At
  <2>2. Cardinality(Holders \cup {r}) <= Cardinality(Counted)
    BY <2>1, CountedFinite, FS_Subset
  <2>3. IsFiniteSet(Holders) /\ Cardinality(Holders) \in Nat
    BY AtFinite DEF Holders
  <2>4. Cardinality(Holders \cup {r}) = Cardinality(Holders) + 1
    BY <1>2, <2>3, FS_AddElement
  <2> QED
    BY <1>0, <2>2, <2>3, <2>4 DEF CountersExact, ActiveWithinLimit, TypeOK
<1>4. CASE seenLane[r] < LaneLimit[k]
  <2>1. Pool!InLane(Holders, k) \subseteq LaneCounted(k)
    BY DEF Pool!InLane, Holders, LaneCounted, At
  <2>2. k \in Lanes
    OBVIOUS
  <2>3. Cardinality(Pool!InLane(Holders, k)) <= Cardinality(LaneCounted(k))
    BY <2>1, <2>2, CountedFinite, FS_Subset
  <2>4. Pool!InLane(Holders, k) \subseteq Holders
    BY DEF Pool!InLane
  <2>5. Cardinality(Pool!InLane(Holders, k)) \in Nat
    BY <2>4, AtFinite DEF Holders
  <2>6. Cardinality(Pool!InLane(Holders, k)) < LaneLimit[k]
    BY <1>0, <1>4, <2>2, <2>3, <2>5 DEF CountersExact, TypeOK
  <2>7. Bypassed' = Bypassed
    BY <1>0, <1>2, <1>4 DEF Bypassed, CasLane, TypeOK
  <2> QED
    BY <1>2, <1>3, <2>6, <2>7, SameCardinality DEF Pool!Admit
<1>5. CASE ~(seenLane[r] < LaneLimit[k])
  <2>1. bypass[r] /\ r \in Ownable \cup Priority
    BY <1>0, <1>1, <1>5 DEF PlanInv, BypassInv, At, AdmissionAllowed
  <2>2. seenLane[r] >= LaneLimit[k]
    BY <1>0, <1>5 DEF TypeOK
  <2>3. Bypassed' = Bypassed \cup {r}
    BY <1>0, <1>2, <2>1, <2>2 DEF Bypassed, CasLane, TypeOK
  <2> QED
    BY <1>2, <1>3, <2>1, <2>3, SameCardinality DEF Pool!Admit
<1> QED
  BY <1>4, <1>5

(* Every other step leaves the holders, and what they were admitted on.    *)
LEMMA QuietStep ==
  ASSUME TypeOK,
         \A r \in Requests :
           /\ pc[r] \in {"held", "releaseActive"} <=> pc'[r] \in {"held", "releaseActive"}
           /\ pc[r] \in {"held", "releaseActive"}
                => bypass'[r] = bypass[r] /\ seenLane'[r] = seenLane[r]
  PROVE  UNCHANGED <<Holders, Bypassed>>
BY DEF Holders, Bypassed, At

(* A step of the protocol grants, returns, or leaves the permits alone.    *)
LEMMA StepRefines ==
  ASSUME IInv, [Next]_vars
  PROVE  [Pool!PoolNext]_(Pool!poolVars)
<1> USE AdmissionAssumption DEF Goto, counters, seen, facts, ownership
<1>0. TypeOK
  BY DEF IInv
<1> DEFINE Quiet ==
      \A r \in Requests :
        /\ pc[r] \in {"held", "releaseActive"} <=> pc'[r] \in {"held", "releaseActive"}
        /\ pc[r] \in {"held", "releaseActive"}
             => bypass'[r] = bypass[r] /\ seenLane'[r] = seenLane[r]
<1>1. ASSUME Quiet PROVE [Pool!PoolNext]_(Pool!poolVars)
  BY <1>0, <1>1, QuietStep DEF Pool!poolVars
<1>2. ASSUME NEW r \in Requests, CasLane(r) PROVE [Pool!PoolNext]_(Pool!poolVars)
  <2>1. CASE laneActive[LaneOf[r]] = seenLane[r]
    BY <1>2, <2>1, GrantStep DEF Pool!PoolNext
  <2>2. CASE laneActive[LaneOf[r]] # seenLane[r]
    BY <1>0, <1>1, <1>2, <2>2 DEF CasLane, TypeOK
  <2> QED
    BY <2>1, <2>2
<1>3. ASSUME NEW r \in Requests, ReleaseActive(r)
      PROVE  [Pool!PoolNext]_(Pool!poolVars)
  <2>1. r \in Holders /\ Holders' = Holders \ {r} /\ Bypassed' = Bypassed \ {r}
    BY <1>0, <1>3 DEF ReleaseActive, Holders, Bypassed, At, TypeOK
  <2> QED
    BY <2>1 DEF Pool!Release, Pool!PoolNext
<1>4. ASSUME NEW r \in Requests,
             \/ BeginRound(r) \/ ProjectFacts(r) \/ LoadActive(r) \/ LoadLane(r)
             \/ CasActive(r) \/ UndoActive(r) \/ LockToWait(r) \/ Recheck(r)
             \/ WakeUp(r) \/ LockToRelease(r) \/ ReleaseLane(r)
             \/ WaitTimeout(r) \/ DeadlinePasses(r)
      PROVE  Quiet
  <2>1. CASE BeginRound(r) \/ ProjectFacts(r) \/ LoadActive(r) \/ LoadLane(r)
    BY <1>0, <2>1 DEF BeginRound, ProjectFacts, LoadActive, LoadLane,
                      AfterRefusal, TypeOK
  <2>2. CASE CasActive(r) \/ UndoActive(r) \/ LockToWait(r) \/ Recheck(r)
    BY <1>0, <2>2 DEF CasActive, UndoActive, LockToWait, Recheck, TypeOK
  <2>3. CASE WakeUp(r) \/ LockToRelease(r) \/ WaitTimeout(r) \/ DeadlinePasses(r)
    BY <1>0, <2>3 DEF WakeUp, LockToRelease, WaitTimeout, DeadlinePasses, TypeOK
  <2>4. CASE ReleaseLane(r)
    BY <1>0, <2>4 DEF ReleaseLane, NotifyAll, TypeOK
  <2> QED
    BY <1>4, <2>1, <2>2, <2>3, <2>4
<1>5. ASSUME NEW w \in Writers, WriterStep(w) PROVE Quiet
  BY <1>0, <1>5
  DEF WriterStep, WriteState, BumpRevision, NotifySelection, NotifyAll, TypeOK,
      WriterPC
<1>6. CASE UNCHANGED vars
  BY <1>1, <1>6 DEF vars
<1> HIDE DEF Quiet
<1> QED
  BY <1>1, <1>2, <1>3, <1>4, <1>5, <1>6 DEF Next, RequestStep

(* The protocol of counters, locks and condition variable implements the   *)
(* pool of permits: no interleaving grants a permit beyond a limit.        *)
THEOREM ImplementsPermitPool == Spec => GrantsWithinLimits
<1>1. Init => Pool!PoolInit
  BY DEF Init, Pool!PoolInit, Holders, Bypassed, At
<1>2. IInv /\ [Next]_vars => [Pool!PoolNext]_(Pool!poolVars)
  BY StepRefines
<1> QED
  BY <1>1, <1>2, InductiveInvariant, PTL DEF Spec, GrantsWithinLimits, Pool!PoolSpec

=============================================================================
