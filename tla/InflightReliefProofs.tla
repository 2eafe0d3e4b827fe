------------------------- MODULE InflightReliefProofs -------------------------
(***************************************************************************)
(* Proofs about InflightRelief for any number of requests and profiles,    *)
(* any weights, limit, owners and changes of eligibility.                  *)
(***************************************************************************)
EXTENDS InflightRelief, FiniteSetTheorems, WellFoundedInduction, TLAPS

Freeing == \E q \in Requests : pc[q] = "freeing"

(* Every profile of S is at the limit for r, or a release that is still to *)
(* be published is about to end.                                           *)
Full(r, S) == Freeing \/ \A p \in S : HardLimited(r, p)

(* A profile that has been eligible since a request began to select is     *)
(* eligible, and revisions only grow.                                      *)
RevInv ==
  /\ \A r \in Requests : steady[r] \subseteq ready
  /\ \A r \in Requests : observed[r] # NoRevision => observed[r] <= releaseRev
  /\ \A r \in Requests : regRelease[r] <= releaseRev /\ regSel[r] <= selRev

(* As long as no release has been published since a request began to       *)
(* select, the profiles it has found full are still full.                  *)
ExhaustInv(r) ==
  /\ observed[r] = releaseRev =>
       /\ pc[r] = "scan" => Full(r, steady[r] \ scan[r])
       /\ pc[r] \in {"register", "collect", "count"} => Full(r, steady[r])
       /\ pc[r] = "count" => steady[r] \subseteq scan[r] \cup waited[r]
       /\ pc[r] = "decide" => steady[r] \subseteq waited[r]
  /\ pc[r] = "exhausted" => steady[r] = {}

(* What a request has registered is current, and no change is unpublished. *)
Current(r) ==
  /\ regRelease[r] = releaseRev
  /\ regSel[r] = selRev
  /\ changer # "publish"

(* As long as what it registered is current, the profiles it waits for are *)
(* still full; and once it is not, somebody is about to wake it.           *)
WaitInv(r) ==
  /\ Current(r) =>
       /\ pc[r] = "probe" => Full(r, (waited[r] \cap ready) \ scan[r])
       /\ pc[r] \in {"sleep", "waiting"} => Full(r, waited[r] \cap ready)
  /\ pc[r] = "waiting" =>
       /\ regRelease[r] = releaseRev \/ \E q \in Requests : pc[q] = "notify"
       /\ regSel[r] = selRev \/ changer = "notify"

IInv ==
  /\ TypeOK
  /\ RevInv
  /\ \A r \in Requests : ExhaustInv(r)
  /\ \A r \in Requests : WaitInv(r)

-----------------------------------------------------------------------------
(* Arithmetic of the weights.                                              *)
LEMMA WeightNat == \A r \in Requests : Weight[r] \in Nat /\ Limit(r) \in Nat
BY InflightAssumption DEF Limit

(* Taking a guard raises the count of its profile, dropping it leaves a    *)
(* natural number.                                                         *)
LEMMA Counts ==
  ASSUME TypeOK, NEW r \in Requests
  PROVE  /\ TryAcquire(r) \/ Reacquire(r) =>
              /\ inflight' \in [Profiles -> Nat]
              /\ \A p \in Profiles : inflight'[p] >= inflight[p]
         /\ Release(r) => inflight' \in [Profiles -> Nat]
<1>1. ASSUME inflight' = [inflight EXCEPT ![cand[r]] = @ + Weight[r]]
      PROVE  /\ inflight' \in [Profiles -> Nat]
             /\ \A p \in Profiles : inflight'[p] >= inflight[p]
  <2>1. inflight' = [p \in Profiles |-> IF p = cand[r] THEN inflight[p] + Weight[r] ELSE inflight[p]]
    BY <1>1 DEF TypeOK
  <2>2. Weight[r] \in Nat /\ \A p \in Profiles : inflight[p] \in Nat
    BY WeightNat DEF TypeOK
  <2> QED
    BY <2>1, <2>2
<1>2. ASSUME inflight' = inflight
      PROVE  /\ inflight' \in [Profiles -> Nat]
             /\ \A p \in Profiles : inflight'[p] >= inflight[p]
  BY <1>2 DEF TypeOK
<1>3. ASSUME Release(r) PROVE inflight' \in [Profiles -> Nat]
  <2>1. inflight' = [p \in Profiles |->
                       IF p = cand[r]
                       THEN IF inflight[p] >= Weight[r] THEN inflight[p] - Weight[r] ELSE 0
                       ELSE inflight[p]]
    BY <1>3 DEF Release, TypeOK
  <2>2. Weight[r] \in Nat /\ \A p \in Profiles : inflight[p] \in Nat
    BY WeightNat DEF TypeOK
  <2> QED
    BY <2>1, <2>2
<1> QED
  BY <1>1, <1>2, <1>3 DEF TryAcquire, Reacquire

LEMMA TypeInit == Init => TypeOK
<1> SUFFICES ASSUME Init PROVE TypeOK
  OBVIOUS
<1> QED
  BY InflightAssumption DEF Init, TypeOK, PC

(* A step of a request keeps the types.                                    *)
LEMMA TypeRequest ==
  ASSUME TypeOK, NEW r \in Requests, RequestStep(r) \/ WaitTimeout(r) \/ DeadlinePasses(r)
  PROVE  TypeOK'
<1> USE InflightAssumption, WeightNat
    DEF TypeOK, PC, Goto, revisions, eligibility, registered, local
<1>1. CASE BeginSelection(r)
  BY <1>1 DEF BeginSelection, ForgetWait
<1>2. CASE Select(r)
  BY <1>2 DEF Select
<1>3. CASE Scan(r)
  BY <1>3 DEF Scan, Inspect
<1>4. CASE TryAcquire(r)
  BY <1>4, Counts DEF TryAcquire
<1>5. CASE Register(r)
  BY <1>5 DEF Register
<1>6. CASE Collect(r)
  BY <1>6 DEF Collect
<1>7. CASE Count(r)
  BY <1>7 DEF Count, Inspect
<1>8. CASE Decide(r)
  BY <1>8 DEF Decide
<1>9. CASE CheckRelief(r)
  BY <1>9 DEF CheckRelief
<1>10. CASE Probe(r)
  BY <1>10 DEF Probe, Inspect
<1>11. CASE Sleep(r)
  BY <1>11 DEF Sleep, Outcome
<1>12. CASE Woken(r)
  BY <1>12 DEF Woken, Outcome
<1>13. CASE Late(r)
  BY <1>13 DEF Late, Outcome
<1>14. CASE Reregister(r)
  BY <1>14 DEF Reregister
<1>15. CASE Release(r)
  BY <1>15, Counts DEF Release
<1>16. CASE PublishRelease(r)
  BY <1>16 DEF PublishRelease
<1>17. CASE Notify(r)
  BY <1>17 DEF Notify, Awake
<1>18. CASE Reacquire(r)
  BY <1>18, Counts DEF Reacquire
<1>19. CASE WaitTimeout(r)
  BY <1>19 DEF WaitTimeout
<1>20. CASE DeadlinePasses(r)
  BY <1>20 DEF DeadlinePasses
<1> QED
  BY <1>1, <1>2, <1>3, <1>4, <1>5, <1>6, <1>7, <1>8, <1>9, <1>10, <1>11, <1>12, <1>13, <1>14, <1>15, <1>16, <1>17, <1>18, <1>19, <1>20 DEF RequestStep

LEMMA TypeRest ==
  ASSUME TypeOK, Change \/ Publish \/ NotifyChange \/ PermitReturned
  PROVE  TypeOK'
<1> USE DEF TypeOK, PC, revisions, eligibility, registered, local
<1>1. CASE Change
  BY <1>1 DEF Change
<1>2. CASE Publish
  BY <1>2 DEF Publish
<1>3. CASE NotifyChange
  BY <1>3 DEF NotifyChange, Awake
<1>4. CASE PermitReturned
  BY <1>4 DEF PermitReturned, Awake
<1> QED
  BY <1>1, <1>2, <1>3, <1>4

LEMMA TypeNext == TypeOK /\ [Next]_vars => TypeOK'
<1> SUFFICES ASSUME TypeOK, [Next]_vars PROVE TypeOK'
  OBVIOUS
<1>1. CASE UNCHANGED vars
  BY <1>1 DEF TypeOK, vars, revisions, eligibility, registered, local
<1>2. CASE Next
  BY <1>2, TypeRequest, TypeRest DEF Next
<1> QED
  BY <1>1, <1>2

(* Every variable keeps its type, for any number of requests and profiles. *)
THEOREM TypeCorrect == Spec => []TypeOK
BY TypeInit, TypeNext, PTL DEF Spec

-----------------------------------------------------------------------------
(* What a step of one request leaves alone.                                *)
Step(q) == RequestStep(q) \/ WaitTimeout(q) \/ DeadlinePasses(q)

LEMMA OthersKept ==
  ASSUME TypeOK, NEW q \in Requests, Step(q), NEW r \in Requests, r # q
  PROVE  /\ pc'[r] = pc[r] \/ (pc[r] = "waiting" /\ pc'[r] = "woken")
         /\ observed'[r] = observed[r] /\ steady'[r] = steady[r]
         /\ regRelease'[r] = regRelease[r] /\ regSel'[r] = regSel[r]
         /\ scan'[r] = scan[r] /\ waited'[r] = waited[r]
<1> USE DEF TypeOK, Goto, revisions, eligibility, registered, local
<1>1. CASE BeginSelection(q)
  BY <1>1 DEF BeginSelection, ForgetWait
<1>2. CASE Select(q)
  BY <1>2 DEF Select
<1>3. CASE Scan(q)
  BY <1>3 DEF Scan, Inspect
<1>4. CASE TryAcquire(q)
  BY <1>4 DEF TryAcquire
<1>5. CASE Register(q)
  BY <1>5 DEF Register
<1>6. CASE Collect(q)
  BY <1>6 DEF Collect
<1>7. CASE Count(q)
  BY <1>7 DEF Count, Inspect
<1>8. CASE Decide(q)
  BY <1>8 DEF Decide
<1>9. CASE CheckRelief(q)
  BY <1>9 DEF CheckRelief
<1>10. CASE Probe(q)
  BY <1>10 DEF Probe, Inspect
<1>11. CASE Sleep(q)
  BY <1>11 DEF Sleep, Outcome
<1>12. CASE Woken(q)
  BY <1>12 DEF Woken, Outcome
<1>13. CASE Late(q)
  BY <1>13 DEF Late, Outcome
<1>14. CASE Reregister(q)
  BY <1>14 DEF Reregister
<1>15. CASE Release(q)
  BY <1>15 DEF Release
<1>16. CASE PublishRelease(q)
  BY <1>16 DEF PublishRelease
<1>17. CASE Notify(q)
  BY <1>17 DEF Notify, Awake
<1>18. CASE Reacquire(q)
  BY <1>18 DEF Reacquire
<1>19. CASE WaitTimeout(q)
  BY <1>19 DEF WaitTimeout
<1>20. CASE DeadlinePasses(q)
  BY <1>20 DEF DeadlinePasses
<1> QED
  BY <1>1, <1>2, <1>3, <1>4, <1>5, <1>6, <1>7, <1>8, <1>9, <1>10, <1>11, <1>12, <1>13, <1>14, <1>15, <1>16, <1>17, <1>18, <1>19, <1>20 DEF Step, RequestStep

LEMMA SharedKept ==
  ASSUME TypeOK, NEW q \in Requests, Step(q)
  PROVE  /\ ready' = ready /\ changer' = changer /\ selRev' = selRev
         /\ \/ releaseRev' = releaseRev
            \/ PublishRelease(q)
<1> USE DEF Goto, revisions, eligibility, registered, local
<1>1. CASE BeginSelection(q)
  BY <1>1 DEF BeginSelection, ForgetWait
<1>2. CASE Select(q)
  BY <1>2 DEF Select
<1>3. CASE Scan(q)
  BY <1>3 DEF Scan, Inspect
<1>4. CASE TryAcquire(q)
  BY <1>4 DEF TryAcquire
<1>5. CASE Register(q)
  BY <1>5 DEF Register
<1>6. CASE Collect(q)
  BY <1>6 DEF Collect
<1>7. CASE Count(q)
  BY <1>7 DEF Count, Inspect
<1>8. CASE Decide(q)
  BY <1>8 DEF Decide
<1>9. CASE CheckRelief(q)
  BY <1>9 DEF CheckRelief
<1>10. CASE Probe(q)
  BY <1>10 DEF Probe, Inspect
<1>11. CASE Sleep(q)
  BY <1>11 DEF Sleep, Outcome
<1>12. CASE Woken(q)
  BY <1>12 DEF Woken, Outcome
<1>13. CASE Late(q)
  BY <1>13 DEF Late, Outcome
<1>14. CASE Reregister(q)
  BY <1>14 DEF Reregister
<1>15. CASE Release(q)
  BY <1>15 DEF Release
<1>16. CASE PublishRelease(q)
  BY <1>16 DEF PublishRelease
<1>17. CASE Notify(q)
  BY <1>17 DEF Notify, Awake
<1>18. CASE Reacquire(q)
  BY <1>18 DEF Reacquire
<1>19. CASE WaitTimeout(q)
  BY <1>19 DEF WaitTimeout
<1>20. CASE DeadlinePasses(q)
  BY <1>20 DEF DeadlinePasses
<1> QED
  BY <1>1, <1>2, <1>3, <1>4, <1>5, <1>6, <1>7, <1>8, <1>9, <1>10, <1>11, <1>12, <1>13, <1>14, <1>15, <1>16, <1>17, <1>18, <1>19, <1>20 DEF Step, RequestStep

(* Unless a release is on its way, a step that publishes none empties no   *)
(* profile.                                                                *)
LEMMA FullKept ==
  ASSUME TypeOK, TypeOK', NEW q \in Requests, Step(q), releaseRev' = releaseRev
  PROVE  \/ Freeing'
         \/ /\ ~Freeing
            /\ \A r \in Requests, p \in Profiles : HardLimited(r, p) => HardLimited(r, p)'
<1> USE DEF TypeOK, Goto
<1>1. ASSUME Freeing PROVE Freeing'
  <2>1. PICK z \in Requests : pc[z] = "freeing"
    BY <1>1 DEF Freeing
  <2>2. CASE z # q
    BY <2>1, <2>2, OthersKept DEF Freeing
  <2>3. CASE z = q
    <3>1. pc'[z] = "freeing" \/ PublishRelease(q)
      BY <2>1, <2>3 DEF Step, RequestStep, BeginSelection, Select, Scan, TryAcquire,
        Register, Collect, Count, Decide, CheckRelief, Probe, Sleep, Woken, Late,
        Outcome, Reregister, Release, PublishRelease, Notify, Reacquire, WaitTimeout,
        DeadlinePasses
    <3>2. ~PublishRelease(q)
      BY DEF PublishRelease
    <3> QED
      BY <3>1, <3>2 DEF Freeing
  <2> QED
    BY <2>2, <2>3
<1>2. CASE Release(q)
  BY <1>2 DEF Release, Freeing
<1>3. ASSUME ~Release(q) PROVE \A p \in Profiles : inflight'[p] >= inflight[p]
  <2>1. CASE TryAcquire(q) \/ Reacquire(q)
    BY <2>1, Counts
  <2>2. CASE ~(TryAcquire(q) \/ Reacquire(q))
    <3>1. inflight' = inflight
      BY <1>3, <2>2 DEF Step, RequestStep, BeginSelection, Select, Scan,
        Register, Collect, Count, Decide, CheckRelief, Probe, Sleep, Woken, Late,
        Reregister, PublishRelease, Notify, WaitTimeout, DeadlinePasses
    <3> QED
      BY <3>1
  <2> QED
    BY <2>1, <2>2
<1>4. CASE ~Release(q) /\ ~Freeing
  <2>1. \A r \in Requests, p \in Profiles :
          /\ inflight[p] \in Nat /\ inflight'[p] \in Nat
          /\ inflight'[p] >= inflight[p]
          /\ Weight[r] \in Nat /\ Limit(r) \in Nat
    BY <1>3, <1>4, WeightNat
  <2>2. \A r \in Requests, p \in Profiles : HardLimited(r, p) => HardLimited(r, p)'
    BY <2>1 DEF HardLimited, Limit
  <2> QED
    BY <1>4, <2>2
<1> QED
  BY <1>1, <1>2, <1>4

(* A full set of profiles stays full while no release is published.        *)
LEMMA FullSetKept ==
  ASSUME TypeOK, TypeOK', NEW q \in Requests, Step(q), releaseRev' = releaseRev
  PROVE  \A r \in Requests : \A S \in SUBSET Profiles :
           Full(r, S) => Freeing' \/ \A p \in S : HardLimited(r, p)'
BY FullKept DEF Full

(* What a step of a request may record of the shared state.                *)
LEMMA OwnRecords ==
  ASSUME TypeOK, NEW q \in Requests, Step(q)
  PROVE  /\ steady'[q] \in {steady[q], {}, ready}
         /\ observed'[q] \in {observed[q], NoRevision, releaseRev}
         /\ regRelease'[q] \in {regRelease[q], 0, releaseRev}
         /\ regSel'[q] \in {regSel[q], 0, selRev}
<1> USE DEF TypeOK, Goto, revisions, eligibility, registered, local
<1>1. CASE BeginSelection(q)
  BY <1>1 DEF BeginSelection, ForgetWait
<1>2. CASE Select(q)
  BY <1>2 DEF Select
<1>3. CASE Scan(q)
  BY <1>3 DEF Scan, Inspect
<1>4. CASE TryAcquire(q)
  BY <1>4 DEF TryAcquire
<1>5. CASE Register(q)
  BY <1>5 DEF Register
<1>6. CASE Collect(q)
  BY <1>6 DEF Collect
<1>7. CASE Count(q)
  BY <1>7 DEF Count, Inspect
<1>8. CASE Decide(q)
  BY <1>8 DEF Decide
<1>9. CASE CheckRelief(q)
  BY <1>9 DEF CheckRelief
<1>10. CASE Probe(q)
  BY <1>10 DEF Probe, Inspect
<1>11. CASE Sleep(q)
  BY <1>11 DEF Sleep, Outcome
<1>12. CASE Woken(q)
  BY <1>12 DEF Woken, Outcome
<1>13. CASE Late(q)
  BY <1>13 DEF Late, Outcome
<1>14. CASE Reregister(q)
  BY <1>14 DEF Reregister
<1>15. CASE Release(q)
  BY <1>15 DEF Release
<1>16. CASE PublishRelease(q)
  BY <1>16 DEF PublishRelease
<1>17. CASE Notify(q)
  BY <1>17 DEF Notify, Awake
<1>18. CASE Reacquire(q)
  BY <1>18 DEF Reacquire
<1>19. CASE WaitTimeout(q)
  BY <1>19 DEF WaitTimeout
<1>20. CASE DeadlinePasses(q)
  BY <1>20 DEF DeadlinePasses
<1> QED
  BY <1>1, <1>2, <1>3, <1>4, <1>5, <1>6, <1>7, <1>8, <1>9, <1>10, <1>11, <1>12, <1>13, <1>14, <1>15, <1>16, <1>17, <1>18, <1>19, <1>20 DEF Step, RequestStep

LEMMA RevInit == Init => RevInv
BY InflightAssumption DEF Init, RevInv

LEMMA RevNext ==
  ASSUME TypeOK, TypeOK', RevInv, [Next]_vars
  PROVE  RevInv'
<1>1. ASSUME NEW q \in Requests, Step(q) PROVE RevInv'
  <2>1. ready' = ready /\ selRev' = selRev /\ releaseRev' \in Nat /\ releaseRev' >= releaseRev
    BY <1>1, SharedKept DEF PublishRelease, TypeOK
  <2>2. ASSUME NEW r \in Requests
        PROVE  /\ steady'[r] \in {steady[r], {}, ready}
               /\ observed'[r] \in {observed[r], NoRevision, releaseRev}
               /\ regRelease'[r] \in {regRelease[r], 0, releaseRev}
               /\ regSel'[r] \in {regSel[r], 0, selRev}
    BY <1>1, OthersKept, OwnRecords
  <2>3. ASSUME NEW r \in Requests
        PROVE  /\ observed[r] \in Nat \cup {NoRevision} /\ regRelease[r] \in Nat
               /\ regSel[r] \in Nat /\ releaseRev \in Nat /\ selRev \in Nat
    BY DEF TypeOK
  <2> QED
    BY <2>1, <2>2, <2>3 DEF RevInv
<1>2. CASE Change
  BY <1>2 DEF Change, RevInv, TypeOK, revisions, registered, local
<1>3. CASE Publish
  BY <1>3 DEF Publish, RevInv, TypeOK, registered, local
<1>4. CASE NotifyChange \/ PermitReturned \/ UNCHANGED vars
  BY <1>4 DEF NotifyChange, PermitReturned, vars, RevInv, revisions, eligibility, registered, local
<1> QED
  BY <1>1, <1>2, <1>3, <1>4 DEF Next, Step

-----------------------------------------------------------------------------
LEMMA ExhaustInit == Init => \A r \in Requests : ExhaustInv(r)
BY DEF Init, ExhaustInv

(* Nobody reads a count while a release is about to be published.          *)
LEMMA Readable == CountsReadable => ~Freeing
BY DEF CountsReadable, At, Freeing

(* A request's own steps: it skips a profile only when it finds it full.   *)
LEMMA ExhaustOwn ==
  ASSUME TypeOK, TypeOK', RevInv, NEW q \in Requests, ExhaustInv(q), Step(q)
  PROVE  ExhaustInv(q)'
<1> USE DEF TypeOK, Goto, revisions, eligibility, registered, local
<1>1. CASE BeginSelection(q)
  BY <1>1 DEF BeginSelection, ExhaustInv
<1>2. CASE Select(q)
  BY <1>2 DEF Select, ExhaustInv, RevInv, Full
<1>3. CASE Scan(q)
  <2>1. ASSUME NEW p \in Profiles, Inspect(q, p), HardLimited(q, p), Goto(q, "scan", "scan"),
               inflight' = inflight, steady' = steady, observed' = observed, releaseRev' = releaseRev
        PROVE  ExhaustInv(q)'
    <3>1. observed[q] = releaseRev => \A x \in steady[q] \ scan[q] : HardLimited(q, x)
      BY <2>1, Readable DEF ExhaustInv, Full, Inspect
    <3>2. observed[q] = releaseRev => \A x \in steady[q] \ scan'[q] : HardLimited(q, x)
      BY <2>1, <3>1 DEF Inspect
    <3>3. observed'[q] = releaseRev' => \A x \in steady'[q] \ scan'[q] : HardLimited(q, x)'
      BY <2>1, <3>2 DEF HardLimited
    <3> QED
      BY <2>1, <3>3 DEF ExhaustInv, Full
  <2>2. ASSUME scan[q] = {}, Goto(q, "scan", "register"), scan' = scan,
               inflight' = inflight, steady' = steady, observed' = observed, releaseRev' = releaseRev
        PROVE  ExhaustInv(q)'
    <3>1. observed[q] = releaseRev => Full(q, steady[q])
      BY <2>2 DEF ExhaustInv
    <3>2. Freeing => Freeing'
      BY <2>2 DEF Freeing
    <3>3. observed'[q] = releaseRev' => Full(q, steady[q])'
      BY <2>2, <3>1, <3>2 DEF Full, HardLimited
    <3> QED
      BY <2>2, <3>3 DEF ExhaustInv
  <2>3. ASSUME Goto(q, "scan", "acquire") PROVE ExhaustInv(q)'
    BY <2>3 DEF ExhaustInv
  <2> QED
    BY <1>3, <2>1, <2>2, <2>3 DEF Scan
<1>4. CASE TryAcquire(q)
  <2>1. observed'[q] = NoRevision /\ releaseRev' # NoRevision
    BY <1>4, InflightAssumption DEF TryAcquire
  <2>2. pc'[q] # "exhausted"
    BY <1>4 DEF TryAcquire
  <2> QED
    BY <2>1, <2>2 DEF ExhaustInv
<1>5. CASE Register(q) \/ Collect(q)
  <2>1. releaseRev' = releaseRev /\ steady' = steady /\ observed' = observed /\ inflight' = inflight
    BY <1>5 DEF Register, Collect
  <2>2. pc'[q] \in {"collect", "count"} /\ pc[q] \in {"register", "collect"}
    BY <1>5 DEF Register, Collect
  <2>3. Freeing => Freeing'
    BY <1>5 DEF Register, Collect, Freeing
  <2>4. observed'[q] = releaseRev' => Full(q, steady[q])'
    BY <2>1, <2>2, <2>3 DEF ExhaustInv, Full, HardLimited
  <2>5. pc'[q] = "count" => steady'[q] \subseteq scan'[q] \cup waited'[q]
    BY <1>5 DEF Register, Collect, RevInv
  <2> QED
    BY <2>2, <2>4, <2>5 DEF ExhaustInv
<1>6. CASE Count(q)
  <2>1. releaseRev' = releaseRev /\ steady' = steady /\ observed' = observed /\ inflight' = inflight
    BY <1>6 DEF Count
  <2>2. pc[q] = "count" /\ pc'[q] \in {"count", "decide"}
    BY <1>6 DEF Count
  <2>3. Freeing => Freeing'
    BY <1>6 DEF Count, Freeing
  <2>4. observed'[q] = releaseRev' => Full(q, steady[q])'
    BY <2>1, <2>2, <2>3 DEF ExhaustInv, Full, HardLimited
  <2>5. ASSUME NEW p \in Profiles, Inspect(q, p), observed[q] = releaseRev,
               waited' = IF HardLimited(q, p)
                         THEN [waited EXCEPT ![q] = @ \cup {p}]
                         ELSE waited
        PROVE  steady'[q] \subseteq scan'[q] \cup waited'[q]
    <3>1. \A x \in steady[q] : HardLimited(q, x)
      BY <2>2, <2>5, Readable DEF ExhaustInv, Full, Inspect
    <3>2. steady[q] \subseteq scan[q] \cup waited[q]
      BY <2>2, <2>5 DEF ExhaustInv
    <3>3. scan'[q] = scan[q] \ {p}
      BY <2>5 DEF Inspect
    <3> QED
      BY <2>1, <2>5, <3>1, <3>2, <3>3
  <2>6. ASSUME scan[q] = {}, scan' = scan, waited' = waited, observed[q] = releaseRev
        PROVE  steady'[q] \subseteq waited'[q]
    BY <2>1, <2>2, <2>6 DEF ExhaustInv
  <2>7. \/ /\ pc'[q] = "count"
           /\ observed[q] = releaseRev => steady'[q] \subseteq scan'[q] \cup waited'[q]
        \/ /\ pc'[q] = "decide"
           /\ observed[q] = releaseRev => steady'[q] \subseteq waited'[q]
    BY <1>6, <2>5, <2>6 DEF Count
  <2> QED
    BY <2>1, <2>4, <2>7 DEF ExhaustInv
<1>7. CASE Decide(q)
  <2>1. pc'[q] \in {"relief", "start", "exhausted"}
    BY <1>7 DEF Decide
  <2>2. pc'[q] = "exhausted" => steady'[q] = {}
    BY <1>7 DEF Decide, ExhaustInv
  <2> QED
    BY <2>1, <2>2 DEF ExhaustInv
<1>8. CASE Late(q)
  <2>1. observed'[q] = NoRevision /\ releaseRev' # NoRevision
    BY <1>8, InflightAssumption DEF Late
  <2>2. pc'[q] # "exhausted"
    BY <1>8 DEF Late, Outcome
  <2> QED
    BY <2>1, <2>2 DEF ExhaustInv
<1>9. CASE \/ CheckRelief(q) \/ Probe(q) \/ Sleep(q) \/ WaitTimeout(q) \/ Woken(q) \/ Reregister(q)
           \/ Release(q) \/ PublishRelease(q) \/ Notify(q) \/ Reacquire(q)
  <2>1. pc'[q] \notin {"scan", "register", "collect", "count", "decide", "exhausted"}
    BY <1>9 DEF CheckRelief, Probe, Sleep, WaitTimeout, Woken, Reregister, Release,
      PublishRelease, Notify, Reacquire, Outcome
  <2> QED
    BY <2>1 DEF ExhaustInv
<1>10. CASE DeadlinePasses(q)
  BY <1>10 DEF DeadlinePasses, ExhaustInv, Full, Freeing, HardLimited
<1> QED
  BY <1>1, <1>2, <1>3, <1>4, <1>5, <1>6, <1>7, <1>8, <1>9, <1>10 DEF Step, RequestStep

(* Others' steps: they fill profiles, or publish the release.              *)
LEMMA ExhaustOther ==
  ASSUME TypeOK, TypeOK', RevInv, NEW q \in Requests, Step(q),
         NEW r \in Requests, r # q, ExhaustInv(r)
  PROVE  ExhaustInv(r)'
<1>1. /\ pc'[r] = pc[r] \/ (pc[r] = "waiting" /\ pc'[r] = "woken")
      /\ observed'[r] = observed[r] /\ steady'[r] = steady[r]
      /\ scan'[r] = scan[r] /\ waited'[r] = waited[r]
  BY OthersKept
<1>2. CASE releaseRev' # releaseRev
  <2>1. releaseRev' = releaseRev + 1
    BY <1>2, SharedKept DEF PublishRelease
  <2>2. observed'[r] # releaseRev'
    BY <1>1, <2>1, InflightAssumption DEF RevInv, TypeOK
  <2> QED
    BY <1>1, <2>2 DEF ExhaustInv
<1>3. CASE releaseRev' = releaseRev
  <2>1. \A S \in SUBSET Profiles :
          Full(r, S) => Freeing' \/ \A p \in S : HardLimited(r, p)'
    BY <1>3, FullSetKept
  <2>2. steady[r] \in SUBSET Profiles /\ steady[r] \ scan[r] \in SUBSET Profiles
    BY DEF TypeOK
  <2>3. Full(r, steady[r]) => Full(r, steady[r])'
    BY <1>1, <2>1, <2>2 DEF Full
  <2>4. Full(r, steady[r] \ scan[r]) => Full(r, steady[r] \ scan[r])'
    BY <1>1, <2>1, <2>2 DEF Full
  <2> QED
    BY <1>1, <1>3, <2>3, <2>4 DEF ExhaustInv
<1> QED
  BY <1>2, <1>3

(* A set of profiles that grew smaller is still full when no count has     *)
(* changed.                                                                *)
LEMMA ExhaustRest ==
  ASSUME TypeOK, TypeOK', NEW r \in Requests, ExhaustInv(r),
         Change \/ Publish \/ NotifyChange \/ PermitReturned \/ UNCHANGED vars
  PROVE  ExhaustInv(r)'
<1>1. inflight' = inflight /\ releaseRev' = releaseRev
  BY DEF Change, Publish, NotifyChange, PermitReturned, vars, revisions
<1>2. /\ observed' = observed /\ scan' = scan /\ waited' = waited
      /\ steady'[r] \subseteq steady[r]
  BY DEF Change, Publish, NotifyChange, PermitReturned, vars, eligibility, local, TypeOK
<1>3. \A z \in Requests : pc'[z] = pc[z] \/ (pc[z] = "waiting" /\ pc'[z] = "woken")
  BY DEF Change, Publish, NotifyChange, PermitReturned, vars, Awake, TypeOK
<1>4. Freeing => Freeing'
  BY <1>3 DEF Freeing
<1>5. Full(r, steady[r]) => Full(r, steady[r])'
  BY <1>1, <1>2, <1>4 DEF Full, HardLimited
<1>6. Full(r, steady[r] \ scan[r]) => Full(r, steady[r] \ scan[r])'
  BY <1>1, <1>2, <1>4 DEF Full, HardLimited
<1> QED
  BY <1>1, <1>2, <1>3, <1>5, <1>6 DEF ExhaustInv

-----------------------------------------------------------------------------
LEMMA WaitInit == Init => \A r \in Requests : WaitInv(r)
BY DEF Init, WaitInv

(* A request's own steps: it falls asleep only while what it registered is *)
(* current, after finding every profile it waits for full.                 *)
LEMMA WaitOwn ==
  ASSUME TypeOK, TypeOK', NEW q \in Requests, WaitInv(q), Step(q)
  PROVE  WaitInv(q)'
<1> USE DEF TypeOK, Goto, revisions, eligibility, registered, local
<1>1. CASE CheckRelief(q)
  BY <1>1 DEF CheckRelief, WaitInv, Full
<1>2. CASE Probe(q)
  <2>1. /\ inflight' = inflight /\ waited' = waited /\ ready' = ready
        /\ Current(q)' = Current(q)
    BY <1>2 DEF Probe, Current
  <2>2. ASSUME NEW p \in Profiles, Inspect(q, p), HardLimited(q, p), Goto(q, "probe", "probe")
        PROVE  WaitInv(q)'
    <3>1. Current(q) => \A x \in (waited[q] \cap ready) \ scan[q] : HardLimited(q, x)
      BY <2>2, Readable DEF WaitInv, Full, Inspect
    <3>2. Current(q) => \A x \in (waited[q] \cap ready) \ scan'[q] : HardLimited(q, x)
      BY <2>2, <3>1 DEF Inspect
    <3>3. Current(q)' => \A x \in (waited'[q] \cap ready') \ scan'[q] : HardLimited(q, x)'
      BY <2>1, <3>2 DEF HardLimited
    <3> QED
      BY <2>2, <3>3 DEF WaitInv, Full
  <2>3. ASSUME scan[q] = {}, Goto(q, "probe", "sleep") PROVE WaitInv(q)'
    <3>1. Current(q) => Full(q, waited[q] \cap ready)
      BY <2>3 DEF WaitInv
    <3>2. Freeing => Freeing'
      BY <2>3 DEF Freeing
    <3>3. Current(q)' => Full(q, waited[q] \cap ready)'
      BY <2>1, <3>1, <3>2 DEF Full, HardLimited
    <3> QED
      BY <2>3, <3>3 DEF WaitInv
  <2>4. ASSUME Goto(q, "probe", "start") PROVE WaitInv(q)'
    BY <2>4 DEF WaitInv
  <2> QED
    BY <1>2, <2>2, <2>3, <2>4 DEF Probe
<1>3. CASE Sleep(q)
  <2>1. /\ inflight' = inflight /\ waited' = waited /\ ready' = ready
        /\ Current(q)' = Current(q) /\ pc[q] = "sleep"
    BY <1>3 DEF Sleep, Outcome, Current
  <2>2. pc'[q] # "waiting" => pc'[q] \notin {"probe", "sleep", "waiting"}
    BY <1>3 DEF Sleep, Outcome
  <2>3. pc'[q] = "waiting" => regRelease'[q] = releaseRev' /\ regSel'[q] = selRev'
    BY <1>3 DEF Sleep, Outcome
  <2>4. Freeing => Freeing'
    BY <1>3 DEF Sleep, Outcome, Freeing
  <2>5. Current(q)' => Full(q, waited[q] \cap ready)'
    BY <2>1, <2>4 DEF WaitInv, Full, HardLimited
  <2> QED
    BY <2>2, <2>3, <2>5 DEF WaitInv
<1>4. CASE \/ BeginSelection(q) \/ Select(q) \/ Scan(q) \/ TryAcquire(q) \/ Register(q)
           \/ Collect(q) \/ Count(q) \/ Decide(q)
  <2>1. pc'[q] \notin {"probe", "sleep", "waiting"}
    BY <1>4 DEF BeginSelection, Select, Scan, TryAcquire, Register, Collect, Count, Decide
  <2> QED
    BY <2>1 DEF WaitInv
<1>5. CASE \/ Woken(q) \/ Late(q) \/ Reregister(q) \/ WaitTimeout(q)
           \/ Release(q) \/ PublishRelease(q) \/ Notify(q) \/ Reacquire(q)
  <2>1. pc'[q] \notin {"probe", "sleep", "waiting"}
    BY <1>5 DEF Woken, Late, Outcome, Reregister, WaitTimeout, Release, PublishRelease,
      Notify, Reacquire
  <2> QED
    BY <2>1 DEF WaitInv
<1>6. CASE DeadlinePasses(q)
  BY <1>6 DEF DeadlinePasses, WaitInv, Current, Full, Freeing, HardLimited
<1> QED
  BY <1>1, <1>2, <1>3, <1>4, <1>5, <1>6 DEF Step, RequestStep

(* Others' steps: whoever publishes a release is then about to notify.     *)
LEMMA WaitOther ==
  ASSUME TypeOK, TypeOK', RevInv, NEW q \in Requests, Step(q),
         NEW r \in Requests, r # q, WaitInv(r)
  PROVE  WaitInv(r)'
<1>1. /\ pc'[r] = pc[r] \/ (pc[r] = "waiting" /\ pc'[r] = "woken")
      /\ regRelease'[r] = regRelease[r] /\ regSel'[r] = regSel[r]
      /\ scan'[r] = scan[r] /\ waited'[r] = waited[r]
  BY OthersKept
<1>2. ready' = ready /\ changer' = changer /\ selRev' = selRev
  BY SharedKept
<1>3. CASE releaseRev' # releaseRev
  <2>1. PublishRelease(q) /\ releaseRev' = releaseRev + 1
    BY <1>3, SharedKept DEF PublishRelease
  <2>2. regRelease'[r] # releaseRev'
    BY <1>1, <2>1 DEF RevInv, TypeOK
  <2>3. pc'[q] = "notify"
    BY <2>1 DEF PublishRelease, Goto, TypeOK
  <2> QED
    BY <1>1, <1>2, <2>2, <2>3 DEF WaitInv, Current
<1>4. CASE releaseRev' = releaseRev
  <2>1. \A S \in SUBSET Profiles :
          Full(r, S) => Freeing' \/ \A p \in S : HardLimited(r, p)'
    BY <1>4, FullSetKept
  <2>2. /\ waited[r] \cap ready \in SUBSET Profiles
        /\ (waited[r] \cap ready) \ scan[r] \in SUBSET Profiles
    BY DEF TypeOK
  <2>3. Full(r, waited[r] \cap ready) => Full(r, waited[r] \cap ready)'
    BY <1>1, <1>2, <2>1, <2>2 DEF Full
  <2>4. Full(r, (waited[r] \cap ready) \ scan[r]) => Full(r, (waited[r] \cap ready) \ scan[r])'
    BY <1>1, <1>2, <2>1, <2>2 DEF Full
  <2>5. Current(r)' = Current(r)
    BY <1>1, <1>2, <1>4 DEF Current
  <2>6. ASSUME pc'[r] = "waiting", NEW z \in Requests, pc[z] = "notify"
        PROVE  pc'[z] = "notify"
    <3>1. CASE z # q
      BY <2>6, <3>1, OthersKept
    <3>2. CASE z = q
      <4>1. ~Notify(q)
        BY <1>1, <2>6 DEF Notify, Awake, TypeOK
      <4> QED
        BY <2>6, <3>2, <4>1 DEF Step, RequestStep, BeginSelection, Select, Scan, TryAcquire,
          Register, Collect, Count, Decide, CheckRelief, Probe, Sleep, Woken, Late,
          Outcome, Reregister, Release, PublishRelease, Reacquire, WaitTimeout,
          DeadlinePasses, Goto
    <3> QED
      BY <3>1, <3>2
  <2> QED
    BY <1>1, <1>2, <1>4, <2>3, <2>4, <2>5, <2>6 DEF WaitInv
<1> QED
  BY <1>3, <1>4

(* A change of eligibility is published and notified in turn.              *)
LEMMA WaitRest ==
  ASSUME TypeOK, TypeOK', RevInv, NEW r \in Requests, WaitInv(r),
         Change \/ Publish \/ NotifyChange \/ PermitReturned \/ UNCHANGED vars
  PROVE  WaitInv(r)'
<1>1. /\ inflight' = inflight /\ releaseRev' = releaseRev
      /\ regRelease' = regRelease /\ regSel' = regSel /\ scan' = scan /\ waited' = waited
  BY DEF Change, Publish, NotifyChange, PermitReturned, vars, revisions, registered, local
<1>2. CASE Change
  BY <1>1, <1>2 DEF Change, WaitInv, Current, revisions
<1>3. CASE Publish
  <2>1. regSel'[r] # selRev'
    BY <1>1, <1>3 DEF Publish, RevInv, TypeOK
  <2> QED
    BY <1>1, <1>3, <2>1 DEF Publish, WaitInv, Current
<1>4. CASE NotifyChange \/ PermitReturned
  <2>1. selRev' = selRev /\ ready' = ready /\ (changer # "publish" <=> changer' # "publish")
    BY <1>4 DEF NotifyChange, PermitReturned, revisions, eligibility
  <2>2. /\ pc'[r] # "waiting" /\ (pc'[r] = pc[r] \/ pc'[r] = "woken")
        /\ Freeing => Freeing'
    BY <1>4 DEF NotifyChange, PermitReturned, Awake, Freeing, TypeOK
  <2>3. Full(r, waited[r] \cap ready) => Full(r, waited[r] \cap ready)'
    BY <1>1, <2>1, <2>2 DEF Full, HardLimited
  <2>4. Full(r, (waited[r] \cap ready) \ scan[r]) => Full(r, (waited[r] \cap ready) \ scan[r])'
    BY <1>1, <2>1, <2>2 DEF Full, HardLimited
  <2>5. Current(r)' <=> Current(r)
    BY <1>1, <2>1 DEF Current
  <2> QED
    BY <1>1, <2>2, <2>3, <2>4, <2>5 DEF WaitInv
<1>5. CASE UNCHANGED vars
  BY <1>5 DEF vars, revisions, eligibility, registered, local, WaitInv, Current, Full,
    Freeing, HardLimited
<1> QED
  BY <1>2, <1>3, <1>4, <1>5

-----------------------------------------------------------------------------
(* The invariant is inductive.                                             *)
LEMMA InductiveInit == Init => IInv
BY TypeInit, RevInit, ExhaustInit, WaitInit DEF IInv

LEMMA InductiveNext == IInv /\ [Next]_vars => IInv'
<1> SUFFICES ASSUME IInv, [Next]_vars PROVE IInv'
  OBVIOUS
<1>1. TypeOK' /\ RevInv'
  BY TypeNext, RevNext DEF IInv
<1>2. ASSUME NEW r \in Requests, NEW q \in Requests, Step(q)
      PROVE  ExhaustInv(r)' /\ WaitInv(r)'
  <2>1. CASE r = q
    BY <1>1, <1>2, <2>1, ExhaustOwn, WaitOwn DEF IInv
  <2>2. CASE r # q
    BY <1>1, <1>2, <2>2, ExhaustOther, WaitOther DEF IInv
  <2> QED
    BY <2>1, <2>2
<1>3. ASSUME NEW r \in Requests,
             Change \/ Publish \/ NotifyChange \/ PermitReturned \/ UNCHANGED vars
      PROVE  ExhaustInv(r)' /\ WaitInv(r)'
  BY <1>1, <1>3, ExhaustRest, WaitRest DEF IInv
<1>4. ASSUME NEW r \in Requests PROVE ExhaustInv(r)' /\ WaitInv(r)'
  BY <1>2, <1>3, <1>4 DEF Next, Step
<1> QED
  BY <1>1, <1>4 DEF IInv

(* No request gives up a pool in which a profile has been eligible all the *)
(* while it selected: the release revision betrays every profile freed     *)
(* behind the request's back.                                              *)
THEOREM NeverExhaustedByMistake == Spec => []NeverFalselyExhausted
<1>1. IInv => NeverFalselyExhausted
  BY DEF IInv, ExhaustInv, NeverFalselyExhausted, At
<1> QED
  BY <1>1, InductiveInit, InductiveNext, PTL DEF Spec

(* When every thread has come to rest no request sleeps beside an eligible *)
(* profile it waits for that is below its limit.                           *)
THEOREM ReleasesNeverLost == Spec => []NoLostRelease
<1>1. ASSUME IInv, AtRest, NEW r \in At({"waiting"}), NEW p \in waited[r] \cap ready
      PROVE  HardLimited(r, p)
  <2>1. ~Freeing /\ \A q \in Requests : pc[q] # "notify"
    BY <1>1 DEF AtRest, At, Freeing
  <2>2. Current(r)
    BY <1>1, <2>1 DEF IInv, WaitInv, AtRest, At, Current
  <2>3. Full(r, waited[r] \cap ready)
    BY <1>1, <2>2 DEF IInv, WaitInv, At
  <2> QED
    BY <2>1, <2>3 DEF Full
<1>2. IInv => NoLostRelease
  BY <1>1 DEF NoLostRelease
<1> QED
  BY <1>2, InductiveInit, InductiveNext, PTL DEF Spec

-----------------------------------------------------------------------------
(* The counts.  A set of natural numbers that holds 0 and the successor of *)
(* each of its numbers holds them all.                                     *)
LEMMA SetInduction ==
  ASSUME NEW T, 0 \in T, \A n \in Nat : n \in T => n + 1 \in T
  PROVE  Nat \subseteq T
<1> SUFFICES ASSUME Nat \ T # {} PROVE FALSE
  OBVIOUS
<1> DEFINE R == OpToRel(<, Nat)
<1>1. IsWellFoundedOn(R, Nat)
  BY NatLessThanWellFounded
<1>2. \A y, m \in Nat : y < m => <<y, m>> \in R
  BY DEF OpToRel
<1> HIDE DEF R
<1>3. PICK m \in Nat \ T : \A y \in Nat \ T : ~(<<y, m>> \in R)
  BY <1>1, WFMin
<1>4. m # 0 /\ m - 1 \in Nat /\ m - 1 < m /\ (m - 1) + 1 = m
  BY <1>3
<1> QED
  BY <1>2, <1>3, <1>4

(* The weight of a set of requests, as MapThenSumSet adds it up.           *)
LoadOf(S) == MapThenSumSet(LAMBDA r : Weight[r], S)

(* The function that MapThenSumSet chooses: the sum over a set is that     *)
(* over the set without one chosen request, and the weight of that one.    *)
First(s) == CHOOSE r \in s : TRUE
Adds(g, s) == IF s = {} THEN 0 ELSE Weight[First(s)] + g[s \ {First(s)}]
IsSum(g, D) == g = [s \in D |-> Adds(g, s)]

LEMMA LoadChosen ==
  ASSUME NEW S
  PROVE  LoadOf(S) = (CHOOSE g : IsSum(g, SUBSET S))[S]
BY DEF LoadOf, MapThenSumSet, MapThenFoldSet, IsSum, Adds, First

LEMMA FirstIn ==
  ASSUME NEW s, IsFiniteSet(s), s # {}
  PROVE  /\ First(s) \in s
         /\ IsFiniteSet(s \ {First(s)})
         /\ Cardinality(s \ {First(s)}) = Cardinality(s) - 1
         /\ Cardinality(s) \in Nat
<1>1. First(s) \in s
  BY DEF First
<1> HIDE DEF First
<1> QED
  BY <1>1, FS_RemoveElement, FS_CardinalityType

LEMMA RequestSets ==
  ASSUME NEW S \in SUBSET Requests
  PROVE  IsFiniteSet(S) /\ Cardinality(S) \in Nat
BY InflightAssumption, FS_Subset, FS_CardinalityType

(* Such a function exists: one for the sets of at most n requests extends  *)
(* to those of n + 1.                                                      *)
LEMMA SumExists ==
  ASSUME NEW S \in SUBSET Requests
  PROVE  \E g : IsSum(g, SUBSET S)
<1> DEFINE Small(n) == {s \in SUBSET S : Cardinality(s) <= n}
           T == {n \in Nat : \E g : IsSum(g, Small(n))}
<1>0. \A s \in SUBSET S : IsFiniteSet(s) /\ Cardinality(s) \in Nat
  BY RequestSets
<1>1. 0 \in T
  <2>1. \A s \in Small(0) : s = {}
    <3> SUFFICES ASSUME NEW s \in Small(0) PROVE s = {}
      OBVIOUS
    <3>1. IsFiniteSet(s) /\ Cardinality(s) = 0
      BY <1>0
    <3> QED
      BY <3>1, FS_EmptySet
  <2> DEFINE g == [s \in Small(0) |-> 0]
  <2> HIDE DEF Small
  <2>2. IsSum(g, Small(0))
    BY <2>1 DEF IsSum, Adds
  <2> QED
    BY <2>2
<1>2. ASSUME NEW n \in Nat, n \in T PROVE n + 1 \in T
  <2>1. PICK g : IsSum(g, Small(n))
    BY <1>2
  <2> DEFINE h == [s \in Small(n + 1) |-> Adds(g, s)]
  <2>2. \A s \in Small(n) : g[s] = Adds(g, s)
    BY <2>1 DEF IsSum
  <2>3. \A s \in Small(n) : s \in Small(n + 1)
    BY <1>0
  <2>4. ASSUME NEW s \in Small(n + 1) PROVE Adds(g, s) = Adds(h, s)
    <3>1. CASE s = {}
      BY <3>1 DEF Adds
    <3>2. CASE s # {}
      <4>1. s \ {First(s)} \in Small(n)
        BY <1>0, <3>2, FirstIn
      <4> HIDE DEF Small
      <4>2. h[s \ {First(s)}] = g[s \ {First(s)}]
        BY <2>2, <2>3, <4>1
      <4> HIDE DEF h
      <4> QED
        BY <4>2 DEF Adds
    <3> QED
      BY <3>1, <3>2
  <2> HIDE DEF Small
  <2>5. IsSum(h, Small(n + 1))
    BY <2>4 DEF IsSum
  <2> QED
    BY <2>5
<1>3. Nat \subseteq T
  <2> HIDE DEF T
  <2> QED
    BY <1>1, <1>2, SetInduction
<1>4. Cardinality(S) \in T
  BY <1>0, <1>3
<1>5. Small(Cardinality(S)) = SUBSET S
  <2>1. \A s \in SUBSET S : Cardinality(s) <= Cardinality(S)
    BY <1>0, FS_Subset
  <2> QED
    BY <2>1
<1> QED
  BY <1>4, <1>5

(* A larger such function agrees with it.                                  *)
LEMMA SumUnique ==
  ASSUME NEW S \in SUBSET Requests, NEW g, IsSum(g, SUBSET S),
         NEW h, IsSum(h, SUBSET Requests)
  PROVE  g[S] = h[S]
<1> DEFINE T == {n \in Nat : \A s \in SUBSET S : Cardinality(s) = n => g[s] = h[s]}
<1>0. ASSUME NEW s \in SUBSET S
      PROVE  /\ IsFiniteSet(s) /\ Cardinality(s) \in Nat
             /\ g[s] = Adds(g, s) /\ h[s] = Adds(h, s)
  <2>1. s \in SUBSET Requests
    OBVIOUS
  <2> QED
    BY <2>1, RequestSets DEF IsSum
<1>1. 0 \in T
  <2> SUFFICES ASSUME NEW s \in SUBSET S, Cardinality(s) = 0 PROVE g[s] = h[s]
    OBVIOUS
  <2>1. s = {}
    BY <1>0, FS_EmptySet
  <2> QED
    BY <1>0, <2>1 DEF Adds
<1>2. ASSUME NEW n \in Nat, n \in T PROVE n + 1 \in T
  <2> SUFFICES ASSUME NEW s \in SUBSET S, Cardinality(s) = n + 1 PROVE g[s] = h[s]
    OBVIOUS
  <2>1. s # {}
    BY FS_EmptySet
  <2>2. s \ {First(s)} \in SUBSET S /\ Cardinality(s \ {First(s)}) = n
    BY <1>0, <2>1, FirstIn
  <2>3. g[s \ {First(s)}] = h[s \ {First(s)}]
    BY <1>2, <2>2
  <2> QED
    BY <1>0, <2>1, <2>3 DEF Adds
<1>3. Nat \subseteq T
  <2> HIDE DEF T
  <2> QED
    BY <1>1, <1>2, SetInduction
<1> QED
  BY <1>0, <1>3, S \in SUBSET S

(* The sum does not depend on the order in which requests are chosen.      *)
LEMMA SumTakes ==
  ASSUME NEW g, IsSum(g, SUBSET Requests)
  PROVE  \A s \in SUBSET Requests :
           g[s] \in Nat /\ \A r \in s : g[s] = Weight[r] + g[s \ {r}]
<1> DEFINE Good(s) == g[s] \in Nat /\ \A r \in s : g[s] = Weight[r] + g[s \ {r}]
           T == {n \in Nat : \A s \in SUBSET Requests : Cardinality(s) <= n => Good(s)}
<1>0. ASSUME NEW s \in SUBSET Requests
      PROVE  /\ IsFiniteSet(s) /\ Cardinality(s) \in Nat
             /\ g[s] = Adds(g, s)
  BY RequestSets DEF IsSum
<1>1. 0 \in T
  <2> SUFFICES ASSUME NEW s \in SUBSET Requests, Cardinality(s) <= 0 PROVE Good(s)
    OBVIOUS
  <2>1. s = {}
    BY <1>0, FS_EmptySet
  <2> QED
    BY <1>0, <2>1 DEF Adds
<1>2. ASSUME NEW n \in Nat, n \in T PROVE n + 1 \in T
  <2> SUFFICES ASSUME NEW s \in SUBSET Requests, Cardinality(s) <= n + 1
               PROVE  Good(s)
    OBVIOUS
  <2>1. CASE s = {}
    <3>1. g[s] = 0
      BY <1>0, <2>1 DEF Adds
    <3> QED
      BY <2>1, <3>1
  <2>2. CASE s # {}
    <3> DEFINE x == First(s)
    <3>1. x \in s /\ g[s] = Weight[x] + g[s \ {x}]
      BY <1>0, <2>2, FirstIn DEF Adds
    <3> HIDE DEF x
    <3>2. ASSUME NEW r \in s PROVE Good(s \ {r})
      <4>1. s \ {r} \in SUBSET Requests /\ Cardinality(s \ {r}) <= n
        BY <1>0, FS_RemoveElement
      <4> QED
        BY <1>2, <4>1
    <3>3. ASSUME NEW r \in s PROVE g[s] = Weight[r] + g[s \ {r}]
      <4>1. CASE r = x
        BY <3>1, <4>1
      <4>2. CASE r # x
        <5> DEFINE d == (s \ {x}) \ {r}
        <5>1. g[s \ {x}] = Weight[r] + g[d]
          BY <3>1, <3>2, <4>2
        <5>2. g[s \ {r}] = Weight[x] + g[(s \ {r}) \ {x}]
          BY <3>1, <3>2, <4>2
        <5>3. (s \ {r}) \ {x} = d
          OBVIOUS
        <5>4. d \in SUBSET Requests /\ Cardinality(d) <= n
          <6>1. d \subseteq s \ {x} /\ IsFiniteSet(s \ {x}) /\ Cardinality(s \ {x}) <= n
            BY <1>0, <3>1, FS_RemoveElement
          <6>2. IsFiniteSet(d) /\ Cardinality(d) <= Cardinality(s \ {x})
            BY <6>1, FS_Subset
          <6>3. d \in SUBSET Requests
            OBVIOUS
          <6>4. Cardinality(d) \in Nat /\ Cardinality(s \ {x}) \in Nat
            BY <6>1, <6>2, FS_CardinalityType
          <6> QED
            BY <6>1, <6>2, <6>3, <6>4
        <5>5. g[d] \in Nat
          BY <1>2, <5>4
        <5>6. Weight[x] \in Nat /\ Weight[r] \in Nat
          BY <3>1, WeightNat
        <5>7. g[s] = Weight[x] + (Weight[r] + g[d])
          BY <3>1, <5>1
        <5>8. g[s \ {r}] = Weight[x] + g[d]
          BY <5>2, <5>3
        <5> HIDE DEF d
        <5> QED
          BY <5>5, <5>6, <5>7, <5>8
      <4> QED
        BY <4>1, <4>2
    <3>4. g[s] \in Nat
      <4>1. Weight[x] \in Nat /\ g[s \ {x}] \in Nat
        BY <3>1, <3>2, WeightNat
      <4> QED
        BY <3>1, <4>1
    <3> QED
      BY <3>3, <3>4
  <2> QED
    BY <2>1, <2>2
<1>3. Nat \subseteq T
  <2> HIDE DEF T
  <2> QED
    BY <1>1, <1>2, SetInduction
<1> QED
  BY <1>0, <1>3

(* The weight of a set is that of any of its requests and of the others.   *)
LEMMA LoadFacts ==
  /\ LoadOf({}) = 0
  /\ \A S \in SUBSET Requests :
       LoadOf(S) \in Nat /\ \A r \in S : LoadOf(S) = Weight[r] + LoadOf(S \ {r})
<1>1. PICK g : IsSum(g, SUBSET Requests)
  BY SumExists
<1>2. ASSUME NEW S \in SUBSET Requests PROVE LoadOf(S) = g[S]
  <2>1. ASSUME NEW h, IsSum(h, SUBSET S) PROVE h[S] = g[S]
    BY <1>1, <2>1, SumUnique
  <2>2. IsSum(CHOOSE h : IsSum(h, SUBSET S), SUBSET S)
    BY SumExists
  <2> QED
    BY <2>1, <2>2, LoadChosen
<1>3. g[{}] = 0
  BY <1>1 DEF IsSum, Adds
<1>4. \A S \in SUBSET Requests : \A r : S \ {r} \in SUBSET Requests
  OBVIOUS
<1> HIDE DEF LoadOf
<1> QED
  BY <1>1, <1>2, <1>3, <1>4, SumTakes

-----------------------------------------------------------------------------
(* A request that holds a guard, or is about to take one, has a candidate. *)
CandInv ==
  \A r \in Requests :
    pc[r] \in {"acquire", "held", "freeing", "notify", "retry"} => cand[r] \in Profiles

LEMMA CandOwn ==
  ASSUME TypeOK, CandInv, NEW q \in Requests, Step(q)
  PROVE  /\ pc'[q] \in {"acquire", "held", "freeing", "notify", "retry"} => cand'[q] \in Profiles
         /\ \A r \in Requests \ {q} : cand'[r] = cand[r]
<1> USE InflightAssumption
    DEF TypeOK, CandInv, Goto, revisions, eligibility, registered, local
<1>1. CASE BeginSelection(q)
  BY <1>1 DEF BeginSelection, ForgetWait
<1>2. CASE Select(q)
  BY <1>2 DEF Select
<1>3. CASE Scan(q)
  BY <1>3 DEF Scan, Inspect
<1>4. CASE TryAcquire(q)
  BY <1>4 DEF TryAcquire
<1>5. CASE Register(q) \/ Collect(q) \/ Count(q) \/ Decide(q)
  BY <1>5 DEF Register, Collect, Count, Decide
<1>6. CASE CheckRelief(q) \/ Probe(q) \/ Sleep(q) \/ WaitTimeout(q)
  BY <1>6 DEF CheckRelief, Probe, Sleep, Outcome, WaitTimeout
<1>7. CASE Woken(q) \/ Late(q) \/ Reregister(q)
  BY <1>7 DEF Woken, Late, Outcome, Reregister
<1>8. CASE Release(q) \/ PublishRelease(q) \/ Reacquire(q) \/ DeadlinePasses(q)
  BY <1>8 DEF Release, PublishRelease, Reacquire, DeadlinePasses
<1>9. CASE Notify(q)
  BY <1>9 DEF Notify, Awake
<1> QED
  BY <1>1, <1>2, <1>3, <1>4, <1>5, <1>6, <1>7, <1>8, <1>9 DEF Step, RequestStep

LEMMA CandNext ==
  ASSUME TypeOK, CandInv, [Next]_vars
  PROVE  CandInv'
<1>1. ASSUME NEW q \in Requests, Step(q) PROVE CandInv'
  <2> SUFFICES ASSUME NEW r \in Requests,
                      pc'[r] \in {"acquire", "held", "freeing", "notify", "retry"}
               PROVE  cand'[r] \in Profiles
    BY DEF CandInv
  <2>1. CASE r = q
    BY <1>1, <2>1, CandOwn
  <2>2. CASE r # q
    <3>1. cand'[r] = cand[r] /\ pc'[r] = pc[r]
      BY <1>1, <2>2, CandOwn, OthersKept
    <3> QED
      BY <3>1 DEF CandInv
  <2> QED
    BY <2>1, <2>2
<1>2. CASE Change \/ Publish \/ NotifyChange \/ PermitReturned \/ UNCHANGED vars
  BY <1>2 DEF Change, Publish, NotifyChange, PermitReturned, Awake, vars, local, CandInv, TypeOK
<1> QED
  BY <1>1, <1>2 DEF Next, Step

(* Only a request that takes or drops its guard changes what is guarded.   *)
LEMMA GuardsKept ==
  ASSUME TypeOK, CandInv, [Next]_vars,
         \A q \in Requests : ~(TryAcquire(q) /\ pc'[q] = "held") /\ ~Reacquire(q) /\ ~Release(q)
  PROVE  inflight' = inflight /\ \A p : Guards(p)' = Guards(p)
<1>1. ASSUME NEW q \in Requests, Step(q)
      PROVE  inflight' = inflight /\ \A p : Guards(p)' = Guards(p)
  <2>1. inflight' = inflight
    BY <1>1 DEF Step, RequestStep, BeginSelection, Select, Scan, TryAcquire, Goto, TypeOK,
      Register, Collect, Count, Decide, CheckRelief, Probe, Sleep, Woken, Late,
      Reregister, PublishRelease, Notify, WaitTimeout, DeadlinePasses
  <2>2. /\ pc'[q] = "held" <=> pc[q] = "held"
        /\ pc[q] = "held" => cand'[q] = cand[q]
    BY <1>1 DEF Step, RequestStep, BeginSelection, Select, Scan, TryAcquire, Goto, TypeOK,
      Register, Collect, Count, Decide, CheckRelief, Probe, Sleep, Woken, Late, Outcome,
      Reregister, PublishRelease, Notify, WaitTimeout, DeadlinePasses, local
  <2>3. \A r \in Requests :
          /\ pc'[r] = "held" <=> pc[r] = "held"
          /\ pc[r] = "held" => cand'[r] = cand[r]
    BY <1>1, <2>2, CandOwn, OthersKept
  <2> QED
    BY <2>1, <2>3 DEF Guards, At
<1>2. CASE Change \/ Publish \/ NotifyChange \/ PermitReturned \/ UNCHANGED vars
  <2>1. inflight' = inflight /\ cand' = cand
    BY <1>2 DEF Change, Publish, NotifyChange, PermitReturned, vars, local
  <2>2. \A r \in Requests : pc'[r] = "held" <=> pc[r] = "held"
    BY <1>2 DEF Change, Publish, NotifyChange, PermitReturned, Awake, vars, TypeOK
  <2> QED
    BY <2>1, <2>2 DEF Guards, At
<1> QED
  BY <1>1, <1>2 DEF Next, Step

LEMMA ExactLater ==
  ASSUME \A p \in Profiles : inflight'[p] = LoadOf(Guards(p)')
  PROVE  InflightExact'
BY DEF InflightExact, LoadOf, MapThenSumSet, MapThenFoldSet

(* A request that takes a guard on its candidate adds its weight.          *)
LEMMA GuardTaken ==
  ASSUME TypeOK, CandInv, InflightExact, NEW q \in Requests, Step(q),
         (TryAcquire(q) /\ pc'[q] = "held") \/ Reacquire(q)
  PROVE  InflightExact'
<1>1. /\ pc[q] # "held" /\ pc'[q] = "held"
      /\ cand' = cand /\ cand[q] \in Profiles
      /\ inflight' = [inflight EXCEPT ![cand[q]] = @ + Weight[q]]
  BY DEF TryAcquire, Reacquire, Goto, TypeOK, CandInv, local
<1>2. \A r \in Requests \ {q} : pc'[r] = "held" <=> pc[r] = "held"
  BY OthersKept
<1> SUFFICES ASSUME NEW p \in Profiles PROVE inflight'[p] = LoadOf(Guards(p)')
  BY ExactLater
<1>3. inflight[p] = LoadOf(Guards(p))
  BY DEF InflightExact, LoadOf
<1>4. CASE p = cand[q]
  <2>1. /\ Guards(p)' \in SUBSET Requests /\ q \in Guards(p)'
        /\ Guards(p)' \ {q} = Guards(p)
    BY <1>1, <1>2, <1>4 DEF Guards, At
  <2>2. ASSUME NEW S \in SUBSET Requests, q \in S, S \ {q} = Guards(p)
        PROVE  LoadOf(S) = Weight[q] + LoadOf(Guards(p))
    BY <2>2, LoadFacts
  <2>3. LoadOf(Guards(p)') = Weight[q] + LoadOf(Guards(p))
    BY <2>1, <2>2
  <2>4. Weight[q] \in Nat /\ inflight[p] \in Nat /\ inflight'[p] = inflight[p] + Weight[q]
    BY <1>1, <1>4, WeightNat DEF TypeOK
  <2> QED
    BY <1>3, <2>3, <2>4
<1>5. CASE p # cand[q]
  <2>1. Guards(p)' = Guards(p)
    BY <1>1, <1>2, <1>5 DEF Guards, At
  <2>2. inflight'[p] = inflight[p]
    BY <1>1, <1>5 DEF TypeOK
  <2> QED
    BY <1>3, <2>1, <2>2
<1> QED
  BY <1>4, <1>5

(* A guard that is dropped frees what it took: the count is never too low. *)
LEMMA GuardDropped ==
  ASSUME TypeOK, CandInv, InflightExact, NEW q \in Requests, Release(q)
  PROVE  InflightExact'
<1>1. /\ pc[q] = "held" /\ pc'[q] = "freeing"
      /\ cand' = cand /\ cand[q] \in Profiles
      /\ inflight' = [inflight EXCEPT ![cand[q]] =
                         IF @ >= Weight[q] THEN @ - Weight[q] ELSE 0]
  BY DEF Release, Goto, TypeOK, CandInv, local
<1>2. \A r \in Requests \ {q} : pc'[r] = "held" <=> pc[r] = "held"
  BY DEF Release, Goto, TypeOK
<1> SUFFICES ASSUME NEW p \in Profiles PROVE inflight'[p] = LoadOf(Guards(p)')
  BY ExactLater
<1>3. inflight[p] = LoadOf(Guards(p))
  BY DEF InflightExact, LoadOf
<1>4. CASE p = cand[q]
  <2>1. /\ Guards(p) \in SUBSET Requests /\ q \in Guards(p)
        /\ Guards(p)' = Guards(p) \ {q} /\ Guards(p) \ {q} \in SUBSET Requests
    BY <1>1, <1>2, <1>4 DEF Guards, At
  <2>2. /\ LoadOf(Guards(p)) = Weight[q] + LoadOf(Guards(p) \ {q})
        /\ LoadOf(Guards(p) \ {q}) \in Nat
    BY <2>1, LoadFacts
  <2>3. /\ Weight[q] \in Nat /\ inflight[p] \in Nat
        /\ inflight'[p] = IF inflight[p] >= Weight[q] THEN inflight[p] - Weight[q] ELSE 0
    BY <1>1, <1>4, WeightNat DEF TypeOK
  <2>4. inflight'[p] = LoadOf(Guards(p) \ {q})
    BY <1>3, <2>2, <2>3
  <2> QED
    BY <2>1, <2>4
<1>5. CASE p # cand[q]
  <2>1. Guards(p)' = Guards(p)
    BY <1>1, <1>2, <1>5 DEF Guards, At
  <2>2. inflight'[p] = inflight[p]
    BY <1>1, <1>5 DEF TypeOK
  <2> QED
    BY <1>3, <2>1, <2>2
<1> QED
  BY <1>4, <1>5

LEMMA ExactInit == Init => CandInv /\ InflightExact
<1> SUFFICES ASSUME Init PROVE CandInv /\ InflightExact
  OBVIOUS
<1>1. CandInv
  BY DEF Init, CandInv
<1>2. \A p \in Profiles : Guards(p) = {} /\ inflight[p] = 0
  BY DEF Init, Guards, At
<1>3. \A p \in Profiles : inflight[p] = LoadOf(Guards(p))
  BY <1>2, LoadFacts
<1> QED
  BY <1>1, <1>3 DEF InflightExact, LoadOf

LEMMA ExactNext ==
  TypeOK /\ CandInv /\ InflightExact /\ [Next]_vars => CandInv' /\ InflightExact'
<1> SUFFICES ASSUME TypeOK, CandInv, InflightExact, [Next]_vars
             PROVE  CandInv' /\ InflightExact'
  OBVIOUS
<1>1. CandInv'
  BY CandNext
<1>2. ASSUME NEW q \in Requests, (TryAcquire(q) /\ pc'[q] = "held") \/ Reacquire(q) \/ Release(q)
      PROVE  InflightExact'
  <2>1. Step(q)
    BY <1>2 DEF Step, RequestStep
  <2> QED
    BY <1>2, <2>1, GuardTaken, GuardDropped
<1>3. CASE \A q \in Requests :
             ~(TryAcquire(q) /\ pc'[q] = "held") /\ ~Reacquire(q) /\ ~Release(q)
  <2>1. inflight' = inflight /\ \A p : Guards(p)' = Guards(p)
    BY <1>3, GuardsKept
  <2>2. \A p \in Profiles : inflight'[p] = LoadOf(Guards(p)')
    BY <2>1 DEF InflightExact, LoadOf
  <2> QED
    BY <1>1, <2>2, ExactLater
<1> QED
  BY <1>1, <1>2, <1>3

(* A profile's count is the weight of the guards on it, for any weights:   *)
(* no release ever meets a count below its weight, where it would have to  *)
(* stop at zero and hide a leak.                                           *)
THEOREM CountsAlwaysExact == Spec => []InflightExact
BY TypeInit, TypeNext, ExactInit, ExactNext, PTL DEF Spec

===============================================================================
