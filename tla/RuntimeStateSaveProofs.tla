------------------------ MODULE RuntimeStateSaveProofs ------------------------
(***************************************************************************)
(* Proofs about RuntimeStateSave, for any number of threads, of other      *)
(* processes, of retries, of failed writes and of crashes.                 *)
(***************************************************************************)
EXTENDS RuntimeStateSave, TLAPS

Busy == {"recheck", "prepare", "confirm", "write"}

(* The state-file lock is held by whoever is between reading state.json    *)
(* and writing it.                                                         *)
LockInv ==
  /\ wpc \in Busy => fileLock = "worker"
  /\ \A x \in Others : opc[x] = "saving" => fileLock = x

(* What the worker is about to write covers what is on disk, unless the    *)
(* fence will stop it.                                                     *)
CoverInv ==
  /\ \A s \in Sections : cached[s] <= gen[s]
  /\ wpc \in {"confirm", "write"} =>
       /\ \A s \in todo : Fenced(s) => disk[s] \subseteq prepared[s]
       /\ "core" \in todo => disk["bindings"] \subseteq prepared["bindings"]

(* The bindings about to be written to state.json are in the sidecar by    *)
(* the time it is their turn.                                              *)
OrderInv ==
  /\ BindingsBehindContinuations
  /\ wpc \in {"confirm", "write"} =>
       /\ "continuations" \in todo => prepared["bindings"] = prepared["continuations"]
       /\ "continuations" \notin todo /\ "core" \in todo
            => prepared["bindings"] \subseteq disk["continuations"]

IInv == TypeOK /\ LockInv /\ CoverInv /\ OrderInv

-----------------------------------------------------------------------------
(* The policy predicates of the mutation table are Boolean.                *)
LEMMA PolicyBoolean ==
  \A k : Hot(k) \in BOOLEAN /\ Journaled(k) \in BOOLEAN
BY DEF Hot, Journaled

(* A request for a save, and the coalescing of two, are jobs.              *)
LEMMA RequestedIsJob ==
  ASSUME TypeOK, NEW m \in Mutations
  PROVE  Requested(m) \in Jobs
<1>1. SectionsOf(m) \subseteq Sections
  BY DEF SectionsOf
<1> QED
  BY <1>1 DEF Requested, Jobs, TypeOK

LEMMA CoalescedIsJob ==
  ASSUME NEW previous \in Jobs, NEW new \in Jobs
  PROVE  /\ Coalesced(previous, new) \in Jobs
         /\ Coalesced(previous, new).left <= previous.left
         /\ Coalesced(previous, new).left <= new.left
<1>1. Earlier(new.left, previous.left) \in Nat
  BY DEF Earlier, Jobs
<1>2. Coalesced(previous, new) \in Jobs
  BY <1>1 DEF Coalesced, Jobs
<1>3. Coalesced(previous, new).left = Earlier(new.left, previous.left)
  BY DEF Coalesced, Jobs
<1>4. new.left \in Nat /\ previous.left \in Nat
  BY DEF Jobs
<1> QED
  BY <1>2, <1>3, <1>4 DEF Earlier

(* Time passing leaves a job what it is, but for the time it has left.     *)
LEMMA TickedJob ==
  ASSUME NEW j \in Jobs
  PROVE  /\ [j EXCEPT !.left = Less(@)] \in Jobs
         /\ [j EXCEPT !.left = Less(@)].left = Less(j.left)
         /\ [j EXCEPT !.left = Less(@)].live = j.live
         /\ [j EXCEPT !.left = Less(@)].sections = j.sections
         /\ [j EXCEPT !.left = Less(@)].snap = j.snap
         /\ [j EXCEPT !.left = Less(@)].rev = j.rev
BY DEF Jobs, Less

(* Applying a mutation leaves memory well typed.                           *)
LEMMA AppliedType ==
  ASSUME TypeOK, NEW m \in Mutations
  PROVE  Applied(m) \in [Sections -> SUBSET Updates]
BY DEF Applied, TypeOK, Updates

(* Writing a section of the merged state leaves the files well typed.      *)
LEMMA WrittenType ==
  ASSUME TypeOK, NEW s \in Sections
  PROVE  /\ Written(s) \in [Stored -> SUBSET Updates]
         /\ Bumped(s) \in [Sections -> Nat]
<1>1. \A t \in Stored : (t = s \/ (s = "core" /\ t = "bindings"))
                          => t \in Sections \cup {"bindings"}
  BY DEF Sections
<1> QED
  BY <1>1 DEF Written, Bumped, TypeOK

(* So is the result of the merge: a job never names the bindings.          *)
LEMMA MergedType ==
  ASSUME TypeOK, wpc # "idle"
  PROVE  Merged \in [Sections \cup {"bindings"} -> SUBSET Updates]
<1>1. /\ "bindings" \in Stored /\ "continuations" \in Stored
      /\ "continuations" \in Sections /\ Sections \subseteq Stored
      /\ "bindings" \notin Sections
  BY DEF Stored, Sections
<1>2. \A s \in Sections : disk[s] \cup snap[s] \in SUBSET Updates
  BY <1>1 DEF TypeOK
<1>3. disk["continuations"] \cup snap["continuations"] \in SUBSET Updates
  BY <1>1, <1>2
<1>4. disk["bindings"] \in SUBSET Updates
  BY <1>1 DEF TypeOK
<1>5. ASSUME NEW s \in Sections \cup {"bindings"}
      PROVE  (IF s \in job.sections THEN disk[s] \cup snap[s]
              ELSE IF s = "bindings"
              THEN IF "continuations" \in job.sections
                   THEN disk["continuations"] \cup snap["continuations"]
                   ELSE disk["bindings"]
              ELSE {}) \in SUBSET Updates
  <2>1. CASE s \in Sections
    BY <1>1, <1>2, <2>1
  <2>2. CASE s = "bindings"
    <3>1. s \notin job.sections
      BY <1>1, <2>2 DEF TypeOK, Jobs
    <3> QED
      BY <1>3, <1>4, <2>2, <3>1
  <2> QED
    BY <2>1, <2>2
<1> QED
  BY <1>5 DEF Merged
-----------------------------------------------------------------------------
(* The steps that touch neither the worker's variables nor the files.      *)
LEMMA TypeInit == Init => TypeOK
<1> SUFFICES ASSUME Init PROVE TypeOK
  OBVIOUS
<1> QED
  BY DEF Init, TypeOK, Blank, Unprepared, ThreadPC, WorkerPC, Stored

LEMMA TypeThread ==
  ASSUME TypeOK, NEW m \in Mutations, ThreadStep(m)
  PROVE  TypeOK'
<1> USE DEF TypeOK, Goto, ThreadPC, memory, files, queue, requests, threads, journaling, worker, history
<1>1. CASE Mutate(m)
  BY <1>1, AppliedType DEF Mutate
<1>2. CASE Clone(m)
  BY <1>2, AppliedType DEF Clone
<1>3. CASE Publish(m)
  <2>1. timer' \in [Mutations -> Nat]
    BY <1>3, PolicyBoolean, StateSaveAssumption DEF Publish
  <2> QED
    BY <1>3, <2>1 DEF Publish
<1>4. CASE Enqueue(m)
  <2>1. pending' \in Jobs
    BY <1>4, RequestedIsJob, CoalescedIsJob DEF Enqueue
  <2>2. Journaled(Kind[m]) \in BOOLEAN
    BY PolicyBoolean
  <2>3. Displaced(m) \subseteq Mutations
    BY DEF Displaced
  <2> QED
    BY <1>4, <2>1, <2>2, <2>3 DEF Enqueue, Unlocked
<1>5. CASE EnqueueJournal(m)
  <2>1. Hot(Kind[m]) \in BOOLEAN
    BY PolicyBoolean
  <2> QED
    BY <1>5, <2>1 DEF EnqueueJournal, Unlocked
<1> QED
  BY <1>1, <1>2, <1>3, <1>4, <1>5 DEF ThreadStep

LEMMA TypeWorker ==
  ASSUME TypeOK, WorkerStep
  PROVE  TypeOK'
<1>0. Blank \in [Sections -> SUBSET Updates]
      /\ Unprepared \in [Sections \cup {"bindings"} -> SUBSET Updates]
  BY DEF Blank, Unprepared
<1> USE DEF TypeOK, WorkerPC, memory, files, queue, requests, threads, journaling, worker, history
<1>1. CASE TakeJob
  BY <1>1 DEF TakeJob, Jobs
<1>2. CASE ReadLive
  BY <1>2 DEF ReadLive
<1>3. CASE Check
  BY <1>3 DEF Check, Advance
<1>4. CASE LockFiles
  BY <1>4 DEF LockFiles
<1>5. CASE Recheck
  BY <1>5 DEF Recheck, Advance
<1>6. CASE Prepare
  <2>1. prepared' \in [Sections \cup {"bindings"} -> SUBSET Updates]
    BY <1>6, MergedType DEF Prepare
  <2>2. todo' \subseteq Sections
    BY <1>6 DEF Prepare, Jobs
  <2>3. cached' \in [Sections -> Nat]
    BY <1>6 DEF Prepare
  <2> QED
    BY <1>6, <2>1, <2>2, <2>3 DEF Prepare
<1>7. CASE Confirm
  BY <1>7 DEF Confirm, Advance
<1>8. CASE GiveUp
  BY <1>0, <1>8 DEF GiveUp, Rest, WorkerUnlock
<1>9. ASSUME NEW s \in Sections, Persist(s)
      PROVE  TypeOK'
  BY <1>0, <1>9, WrittenType DEF Persist, Rest, WorkerUnlock
<1>10. ASSUME NEW s \in Sections, Stale(s)
       PROVE  TypeOK'
  BY <1>0, <1>10 DEF Stale, Rest, WorkerUnlock
<1> QED
  BY <1>1, <1>2, <1>3, <1>4, <1>5, <1>6, <1>7, <1>8, <1>9, <1>10 DEF WorkerStep

LEMMA TypeRest ==
  ASSUME TypeOK
  PROVE  /\ \A s \in Sections : PrepareFails(s) \/ WriteFails(s) => TypeOK'
         /\ JournalStep \/ Tick \/ JournalDebounceElapses => TypeOK'
         /\ \A x \in Others : OtherStep(x) => TypeOK'
         /\ Crash => TypeOK'
<1>0. Blank \in [Sections -> SUBSET Updates]
      /\ Unprepared \in [Sections \cup {"bindings"} -> SUBSET Updates]
  BY DEF Blank, Unprepared
<1> USE DEF TypeOK, memory, files, queue, requests, threads, journaling, worker, history
<1>1. ASSUME NEW s \in Sections, WriteFails(s)
      PROVE  TypeOK'
  BY <1>0, <1>1, WrittenType DEF WriteFails, Rest, WorkerUnlock, WorkerPC
<1>9. ASSUME NEW s \in Sections, PrepareFails(s)
      PROVE  TypeOK'
  <2>1. cached' \in [Sections -> Nat]
    BY <1>9 DEF PrepareFails
  <2> QED
    BY <1>0, <1>9, <2>1 DEF PrepareFails, Rest, WorkerUnlock, WorkerPC
<1>2. CASE TakeJournal \/ ReadJournal \/ JournalDebounceElapses
  <2>1. CASE TakeJournal
    BY <2>1 DEF TakeJournal
  <2>2. CASE ReadJournal
    <3>1. jsnap' \in SUBSET Updates
      BY <2>2 DEF ReadJournal, Sections
    <3> QED
      BY <2>2, <3>1 DEF ReadJournal
  <2>3. CASE JournalDebounceElapses
    BY <2>3 DEF JournalDebounceElapses
  <2> QED
    BY <1>2, <2>1, <2>2, <2>3
<1>3. CASE SaveJournal
  <2>1. disk' \in [Stored -> SUBSET Updates]
    BY <1>3 DEF SaveJournal, Stored
  <2> QED
    BY <1>3, <2>1 DEF SaveJournal
<1>4. CASE Tick
  <2>1. pending' \in Jobs \cup {NoJob}
    <3>1. CASE pending = NoJob
      BY <1>4, <3>1 DEF Tick
    <3>2. CASE pending # NoJob
      <4>1. pending \in Jobs /\ pending' = [pending EXCEPT !.left = Less(@)]
        BY <1>4, <3>2 DEF Tick
      <4> QED
        BY <4>1, TickedJob
    <3> QED
      BY <3>1, <3>2
  <2>2. timer' \in [Mutations -> Nat]
    <3>1. \A n \in Nat : Less(n) \in Nat
      BY DEF Less
    <3>2. timer' = [m \in Mutations |-> Less(timer[m])]
      BY <1>4 DEF Tick
    <3>3. \A m \in Mutations : Less(timer[m]) \in Nat
      BY <3>1
    <3> QED
      BY <3>2, <3>3
  <2>3. UNCHANGED <<memory, files, fileLock, cached, latest, waiting, displaced, pc, revOf,
                    snapOf, journaling, worker, opc, history>>
    BY <1>4 DEF Tick
  <2> QED
    BY <2>1, <2>2, <2>3
<1>5. ASSUME NEW x \in Others, OtherLock(x)
      PROVE  TypeOK'
  BY <1>5 DEF OtherLock
<1>6. ASSUME NEW x \in Others, OtherSave(x)
       PROVE  TypeOK'
  <2>1. disk' \in [Stored -> SUBSET Updates]
    BY <1>6 DEF OtherSave, Stored, Updates
  <2> QED
    BY <1>6, <2>1 DEF OtherSave
<1>7. ASSUME NEW x \in Others, OtherSidecar(x)
      PROVE  TypeOK'
  <2>1. OtherSection[x] \in Sections /\ Sections \subseteq Stored
    BY StateSaveAssumption DEF Stored
  <2>2. disk' \in [Stored -> SUBSET Updates]
    BY <1>7, <2>1 DEF OtherSidecar, Updates
  <2> QED
    BY <1>7, <2>1, <2>2 DEF OtherSidecar, Bumped
<1>8. CASE Crash
  <2>1. Restored \in [Sections -> SUBSET Updates]
    BY DEF Restored, Stored
  <2>2. pc' \in [Mutations -> ThreadPC]
    BY <1>8 DEF Crash, ThreadPC
  <2> QED
    BY <1>0, <1>8, <2>1, <2>2 DEF Crash, Rest, WorkerUnlock, WorkerPC
<1> QED
  BY <1>1, <1>2, <1>3, <1>4, <1>5, <1>6, <1>7, <1>8, <1>9 DEF JournalStep, OtherStep

(* Every step keeps the types.                                             *)
LEMMA TypeNext == TypeOK /\ [Next]_vars => TypeOK'
<1> SUFFICES ASSUME TypeOK, [Next]_vars PROVE TypeOK'
  OBVIOUS
<1>1. CASE UNCHANGED vars
  BY <1>1 DEF TypeOK, vars, memory, files, queue, requests, threads, journaling, worker, history
<1>2. CASE Next
  BY <1>2, TypeThread, TypeWorker, TypeRest DEF Next
<1> QED
  BY <1>1, <1>2

(* The types of the variables, for every value of the constants.           *)
THEOREM TypeCorrect == Spec => []TypeOK
BY TypeInit, TypeNext, PTL DEF Spec

-----------------------------------------------------------------------------
(* The lock, cover and order invariants.                                   *)
LEMMA InvInit == Init => IInv
<1> SUFFICES ASSUME Init PROVE IInv
  OBVIOUS
<1>1. TypeOK
  BY TypeInit
<1>2. LockInv
  BY DEF Init, LockInv, Busy
<1>3. CoverInv
  BY DEF Init, CoverInv
<1>4. OrderInv
  BY DEF Init, OrderInv, BindingsBehindContinuations, Stored
<1> QED
  BY <1>1, <1>2, <1>3, <1>4 DEF IInv

(* Steps that change neither the files, their generations, the lock nor    *)
(* the worker keep the three invariants.                                   *)
LEMMA InvQuiet ==
  ASSUME IInv,
         UNCHANGED <<disk, gen, cached, fileLock, wpc, prepared, todo, opc>>
  PROVE  (LockInv /\ CoverInv /\ OrderInv)'
<1>1. LockInv'
  BY DEF IInv, LockInv
<1>2. CoverInv'
  BY DEF IInv, CoverInv, Fenced
<1>3. OrderInv'
  BY DEF IInv, OrderInv, BindingsBehindContinuations
<1> QED
  BY <1>1, <1>2, <1>3

LEMMA InvThread ==
  ASSUME IInv, NEW m \in Mutations, ThreadStep(m)
  PROVE  (LockInv /\ CoverInv /\ OrderInv)'
<1>1. UNCHANGED <<disk, gen, cached, fileLock, wpc, prepared, todo, opc>>
  BY DEF ThreadStep, Mutate, Clone, Publish, Enqueue, EnqueueJournal, files, worker
<1> QED
  BY <1>1, InvQuiet

(* A worker outside the merge and the writes has nothing to cover.         *)
LEMMA InvOutside ==
  ASSUME IInv, UNCHANGED <<disk, gen, cached, opc>>,
         wpc' \notin {"confirm", "write"},
         wpc' \in Busy => fileLock' = "worker",
         \A x \in Others : opc[x] = "saving" => fileLock' = fileLock
  PROVE  (LockInv /\ CoverInv /\ OrderInv)'
BY DEF IInv, LockInv, CoverInv, OrderInv, BindingsBehindContinuations

(* Writing the file of a section keeps the bindings behind and loses       *)
(* nothing, the fence and the order of the writes permitting.              *)
LEMMA WrittenCovers ==
  ASSUME IInv, NEW s \in Sections, wpc = "write", IsNext(s), Fenced(s),
         disk' = Written(s)
  PROVE  /\ \A t \in Stored : disk[t] \subseteq disk'[t]
         /\ BindingsBehindContinuations'
<1>1. s \in todo /\ disk[s] \subseteq prepared[s]
  BY DEF IInv, CoverInv, IsNext
<1>2. s = "core" => disk["bindings"] \subseteq prepared["bindings"]
  BY <1>1 DEF IInv, CoverInv
<1>3. \A t \in Stored : disk[t] \subseteq disk'[t]
  BY <1>1, <1>2 DEF Written
<1>4. /\ "continuations" \in Stored /\ "bindings" \in Stored
      /\ "continuations" # "core" /\ "bindings" # "continuations"
      /\ s # "bindings"
  BY DEF Stored, Sections
<1>5. CASE s = "core"
  <2>1. "continuations" \notin todo
    BY <1>5 DEF IsNext, Before
  <2>2. prepared["bindings"] \subseteq disk["continuations"]
    BY <1>1, <1>5, <2>1 DEF IInv, OrderInv
  <2>3. disk'["bindings"] = prepared["bindings"]
    BY <1>4, <1>5 DEF Written
  <2>4. disk'["continuations"] = disk["continuations"]
    BY <1>4, <1>5 DEF Written
  <2> QED
    BY <1>3, <2>2, <2>3, <2>4 DEF BindingsBehindContinuations
<1>6. CASE s # "core"
  <2>1. disk'["bindings"] = disk["bindings"]
    BY <1>4, <1>6 DEF Written
  <2> QED
    BY <1>3, <1>4, <2>1 DEF IInv, OrderInv, BindingsBehindContinuations
<1> QED
  BY <1>3, <1>5, <1>6

LEMMA InvPersist ==
  ASSUME IInv, NEW s \in Sections, Persist(s)
  PROVE  (LockInv /\ CoverInv /\ OrderInv)'
<1>1. /\ wpc = "write" /\ IsNext(s) /\ Fenced(s) /\ disk' = Written(s)
      /\ opc' = opc
      /\ wpc' = "idle" \/ (wpc' = "write" /\ todo' = todo \ {s} /\ prepared' = prepared)
      /\ gen' = Bumped(s) /\ cached' = [cached EXCEPT ![s] = gen[s] + 1]
  BY DEF Persist, Rest, worker
<1>2. "worker" \notin Others
  BY StateSaveAssumption
<1>3. LockInv'
  BY <1>2 DEF IInv, LockInv, Busy, Persist, Rest, WorkerUnlock
<1>4. \A t \in Sections \ {s} : gen'[t] = gen[t] /\ cached'[t] = cached[t]
  BY <1>1 DEF Bumped, IInv, TypeOK
<1>5. gen'[s] = gen[s] + 1 /\ cached'[s] = gen[s] + 1 /\ gen[s] \in Nat
  BY <1>1 DEF Bumped, IInv, TypeOK
<1>6. \A t \in Stored \ {s} : t # "bindings" \/ s # "core" => disk'[t] = disk[t]
  BY <1>1 DEF Written
<1>7. /\ Sections \subseteq Stored /\ "bindings" \in Stored /\ "bindings" \notin Sections
      /\ "core" \in Sections /\ "continuations" \in Sections
  BY DEF Stored, Sections
<1>8. CoverInv'
  <2>1. \A t \in Sections : cached'[t] <= gen'[t]
    BY <1>4, <1>5 DEF IInv, CoverInv
  <2>2. ASSUME wpc' = "write", NEW t \in todo', Fenced(t)'
        PROVE  disk'[t] \subseteq prepared'[t]
    <3>1. t \in todo /\ t # s /\ t \in Sections
      BY <1>1, <2>2 DEF IInv, TypeOK
    <3>2. Fenced(t)
      BY <1>4, <2>2, <3>1 DEF Fenced
    <3>3. disk'[t] = disk[t]
      BY <1>6, <1>7, <3>1
    <3> QED
      BY <1>1, <2>2, <3>1, <3>2, <3>3 DEF IInv, CoverInv
  <2>3. wpc' = "write" /\ "core" \in todo' => disk'["bindings"] \subseteq prepared'["bindings"]
    BY <1>1, <1>6, <1>7 DEF IInv, CoverInv
  <2> QED
    BY <1>1, <2>1, <2>2, <2>3 DEF CoverInv
<1>9. OrderInv'
  <2>1. BindingsBehindContinuations'
    BY <1>1, WrittenCovers
  <2>2. wpc' = "write" /\ "continuations" \in todo'
          => prepared'["bindings"] = prepared'["continuations"]
    BY <1>1 DEF IInv, OrderInv
  <2>3. ASSUME wpc' = "write", "continuations" \notin todo', "core" \in todo'
        PROVE  prepared'["bindings"] \subseteq disk'["continuations"]
    <3>1. CASE s = "continuations"
      <4>1. disk'["continuations"] = prepared["continuations"]
        BY <1>1, <1>7, <3>1 DEF Written
      <4>2. prepared["bindings"] = prepared["continuations"]
        BY <1>1, <3>1 DEF IInv, OrderInv, IsNext
      <4> QED
        BY <1>1, <2>3, <4>1, <4>2
    <3>2. CASE s # "continuations"
      <4>1. disk'["continuations"] = disk["continuations"]
        BY <1>6, <1>7, <3>2
      <4> QED
        BY <1>1, <2>3, <3>2, <4>1 DEF IInv, OrderInv
    <3> QED
      BY <3>1, <3>2
  <2> QED
    BY <1>1, <2>1, <2>2, <2>3 DEF OrderInv
<1> QED
  BY <1>3, <1>8, <1>9

LEMMA InvPrepare ==
  ASSUME IInv, Prepare
  PROVE  (LockInv /\ CoverInv /\ OrderInv)'
<1>1. /\ wpc = "prepare" /\ wpc' = "confirm" /\ prepared' = Merged
      /\ todo' = job.sections
      /\ cached' = [s \in Sections |-> IF s \in job.sections THEN gen[s] ELSE cached[s]]
      /\ UNCHANGED <<disk, gen, fileLock, opc>>
  BY DEF Prepare, files
<1>2. job.sections \subseteq Sections
  BY <1>1 DEF IInv, TypeOK, Jobs
<1>3. "bindings" \notin Sections
  BY DEF Sections
<1>4. LockInv'
  BY <1>1 DEF IInv, LockInv, Busy
<1>5. \A s \in Sections : cached'[s] <= gen'[s]
  BY <1>1 DEF IInv, TypeOK, CoverInv
<1>6. \A s \in job.sections : prepared'[s] = disk[s] \cup snap[s]
  BY <1>1, <1>2 DEF Merged
<1>7. prepared'["bindings"] = IF "continuations" \in job.sections
                              THEN disk["continuations"] \cup snap["continuations"]
                              ELSE disk["bindings"]
  BY <1>1, <1>2, <1>3 DEF Merged
<1>8. disk["bindings"] \subseteq disk["continuations"]
  BY DEF IInv, OrderInv, BindingsBehindContinuations
<1>9. CoverInv'
  BY <1>1, <1>5, <1>6, <1>7, <1>8 DEF CoverInv
<1>10. OrderInv'
  BY <1>1, <1>6, <1>7, <1>8 DEF OrderInv, BindingsBehindContinuations
<1> QED
  BY <1>4, <1>9, <1>10

LEMMA InvWorker ==
  ASSUME IInv, WorkerStep
  PROVE  (LockInv /\ CoverInv /\ OrderInv)'
<1> USE DEF memory, files, queue, requests, threads, journaling, worker, history
<1>1. NoOne \notin Others /\ "worker" \notin Others
  BY StateSaveAssumption
<1>2. CASE TakeJob
  BY <1>2, InvOutside DEF TakeJob, IInv, LockInv, Busy
<1>3. CASE ReadLive
  BY <1>3, InvOutside DEF ReadLive, IInv, LockInv, Busy
<1>4. CASE Check
  BY <1>4, InvOutside DEF Check, Advance, IInv, LockInv, Busy
<1>5. CASE LockFiles
  BY <1>1, <1>5, InvOutside DEF LockFiles, IInv, LockInv
<1>6. CASE Recheck
  BY <1>6, InvOutside DEF Recheck, Advance, IInv, LockInv, Busy
<1>7. CASE Prepare
  BY <1>7, InvPrepare
<1>8. CASE Confirm
  <2>1. LockInv'
    BY <1>8 DEF Confirm, Advance, IInv, LockInv, Busy
  <2>2. CoverInv'
    BY <1>8 DEF Confirm, Advance, IInv, CoverInv, Fenced
  <2>3. OrderInv'
    BY <1>8 DEF Confirm, Advance, IInv, OrderInv, BindingsBehindContinuations
  <2> QED
    BY <2>1, <2>2, <2>3
<1>9. CASE GiveUp
  BY <1>1, <1>9, InvOutside DEF GiveUp, Rest, WorkerUnlock, IInv, LockInv, Busy
<1>10. ASSUME NEW s \in Sections, Persist(s)
       PROVE  (LockInv /\ CoverInv /\ OrderInv)'
  BY <1>10, InvPersist
<1>11. ASSUME NEW s \in Sections, Stale(s)
       PROVE  (LockInv /\ CoverInv /\ OrderInv)'
  BY <1>1, <1>11, InvOutside DEF Stale, Rest, WorkerUnlock, IInv, LockInv, Busy
<1> QED
  BY <1>2, <1>3, <1>4, <1>5, <1>6, <1>7, <1>8, <1>9, <1>10, <1>11 DEF WorkerStep

(* What another process writes leaves the bindings alone, grows the files, *)
(* and either the worker holds no lock or the fence sees the write.        *)
LEMMA InvOther ==
  ASSUME IInv, NEW x \in Others, OtherStep(x)
  PROVE  /\ (LockInv /\ CoverInv /\ OrderInv)'
         /\ \A s \in Stored : disk[s] \subseteq disk'[s]
<1> USE DEF memory, files, queue, requests, threads, journaling, worker, history
<1>1. NoOne \notin Others /\ "worker" \notin Others /\ NoOne # "worker"
  BY StateSaveAssumption
<1>2. /\ Sections \subseteq Stored /\ "continuations" \in Stored /\ "core" \in Stored
      /\ "bindings" \in Stored /\ "bindings" \notin Sections /\ "core" # "continuations"
      /\ "bindings" # "core"
  BY DEF Stored, Sections
<1>3. CASE OtherLock(x)
  <2>1. LockInv'
    BY <1>1, <1>3 DEF OtherLock, IInv, LockInv, TypeOK
  <2>2. CoverInv'
    BY <1>3 DEF OtherLock, IInv, CoverInv, Fenced
  <2>3. OrderInv'
    BY <1>3 DEF OtherLock, IInv, OrderInv, BindingsBehindContinuations
  <2> QED
    BY <1>3, <2>1, <2>2, <2>3 DEF OtherLock
<1>4. CASE OtherSave(x)
  <2>1. fileLock = x /\ wpc \notin Busy
    BY <1>1, <1>4 DEF OtherSave, IInv, LockInv
  <2>2. LockInv'
    BY <1>1, <1>4, <2>1 DEF OtherSave, IInv, LockInv, TypeOK
  <2>3. CoverInv'
    BY <1>4, <2>1 DEF OtherSave, IInv, CoverInv, Busy
  <2>4. disk' = [disk EXCEPT !["core"] = @ \cup {x}] /\ disk \in [Stored -> SUBSET Updates]
    BY <1>4 DEF OtherSave, IInv, TypeOK
  <2>5. OrderInv'
    BY <1>2, <1>4, <2>1, <2>4 DEF OtherSave, IInv, OrderInv, BindingsBehindContinuations, Busy
  <2> QED
    BY <2>2, <2>3, <2>4, <2>5
<1>5. CASE OtherSidecar(x)
  <2> DEFINE s == OtherSection[x]
  <2>1. s \in Sections /\ s \in Stored /\ s # "bindings" /\ s # "core"
    BY <1>2, <1>5, StateSaveAssumption DEF OtherSidecar
  <2>2. LockInv'
    BY <1>5 DEF OtherSidecar, IInv, LockInv, TypeOK
  <2>3. disk' = [disk EXCEPT ![s] = @ \cup {x}] /\ disk \in [Stored -> SUBSET Updates]
    BY <1>5 DEF OtherSidecar, IInv, TypeOK
  <2>4. gen' = [gen EXCEPT ![s] = @ + 1] /\ gen \in [Sections -> Nat] /\ cached \in [Sections -> Nat]
    BY <1>5 DEF OtherSidecar, Bumped, IInv, TypeOK
  <2>5. UNCHANGED <<cached, wpc, todo, prepared>>
    BY <1>5 DEF OtherSidecar
  <2> HIDE DEF s
  <2>6. CoverInv'
    <3>1. \A t \in Sections : cached'[t] <= gen'[t]
      BY <2>1, <2>4, <2>5 DEF IInv, CoverInv
    <3>2. ASSUME wpc \in {"confirm", "write"}, NEW t \in todo, Fenced(t)'
          PROVE  disk'[t] \subseteq prepared[t]
      <4>1. t \in Sections
        BY DEF IInv, TypeOK
      <4>2. t # s
        BY <2>1, <2>4, <2>5, <3>2, <4>1 DEF Fenced, IInv, CoverInv
      <4>3. Fenced(t) /\ disk'[t] = disk[t]
        BY <1>2, <2>3, <2>4, <2>5, <3>2, <4>1, <4>2 DEF Fenced
      <4> QED
        BY <3>2, <4>3 DEF IInv, CoverInv
    <3>3. disk'["bindings"] = disk["bindings"]
      BY <1>2, <2>1, <2>3
    <3> QED
      BY <2>5, <3>1, <3>2, <3>3 DEF IInv, CoverInv
  <2>7. \A t \in Stored : disk[t] \subseteq disk'[t]
    BY <2>3
  <2>8. disk'["bindings"] = disk["bindings"]
    BY <1>2, <2>1, <2>3
  <2>9. OrderInv'
    BY <1>2, <2>5, <2>7, <2>8 DEF IInv, OrderInv, BindingsBehindContinuations
  <2> QED
    BY <2>2, <2>6, <2>7, <2>9
<1> QED
  BY <1>3, <1>4, <1>5 DEF OtherStep

LEMMA InvFails ==
  ASSUME IInv, NEW s \in Sections, WriteFails(s)
  PROVE  (LockInv /\ CoverInv /\ OrderInv)'
<1>1. "worker" \notin Others
  BY StateSaveAssumption
<1>2. /\ wpc = "write" /\ IsNext(s) /\ Fenced(s) /\ wpc' = "idle"
      /\ cached' = cached /\ opc' = opc
  BY DEF WriteFails, Rest
<1>3. LockInv'
  BY <1>1, <1>2 DEF WriteFails, WorkerUnlock, IInv, LockInv, Busy
<1>4. CoverInv'
  <2>1. gen' = Bumped(s) \/ gen' = gen
    BY DEF WriteFails, files
  <2>2. \A t \in Sections : gen[t] <= gen'[t]
    BY <2>1 DEF Bumped, IInv, TypeOK
  <2>3. gen' \in [Sections -> Nat] /\ gen \in [Sections -> Nat] /\ cached \in [Sections -> Nat]
    BY <2>1 DEF Bumped, IInv, TypeOK
  <2>4. \A t \in Sections : cached[t] <= gen[t]
    BY DEF IInv, CoverInv
  <2>5. \A t \in Sections : cached'[t] <= gen'[t]
    BY <1>2, <2>2, <2>3, <2>4
  <2> QED
    BY <1>2, <2>5 DEF CoverInv
<1>5. BindingsBehindContinuations'
  <2>1. CASE disk' = Written(s)
    BY <1>2, <2>1, WrittenCovers
  <2>2. CASE UNCHANGED files
    BY <2>2 DEF files, IInv, OrderInv, BindingsBehindContinuations
  <2> QED
    BY <2>1, <2>2 DEF WriteFails
<1>6. OrderInv'
  BY <1>2, <1>5 DEF OrderInv
<1> QED
  BY <1>3, <1>4, <1>6

(* A save that fails to read its files has written none.                   *)
LEMMA InvPrepareFails ==
  ASSUME IInv, NEW s \in Sections, PrepareFails(s)
  PROVE  /\ (LockInv /\ CoverInv /\ OrderInv)'
         /\ disk' = disk
<1>1. "worker" \notin Others
  BY StateSaveAssumption
<1>2. /\ wpc = "prepare" /\ wpc' = "idle" /\ UNCHANGED <<disk, gen, opc>>
      /\ \A t \in Sections : cached'[t] \in {gen[t], cached[t]}
  BY DEF PrepareFails, Rest, files
<1>3. LockInv'
  BY <1>1, <1>2 DEF PrepareFails, WorkerUnlock, IInv, LockInv, Busy
<1>4. \A t \in Sections : cached'[t] <= gen'[t]
  BY <1>2 DEF IInv, TypeOK, CoverInv
<1>5. CoverInv'
  BY <1>2, <1>4 DEF CoverInv
<1>6. OrderInv'
  BY <1>2 DEF IInv, OrderInv, BindingsBehindContinuations
<1> QED
  BY <1>2, <1>3, <1>5, <1>6

LEMMA InvJournal ==
  ASSUME IInv, JournalStep \/ Tick \/ JournalDebounceElapses
  PROVE  /\ (LockInv /\ CoverInv /\ OrderInv)'
         /\ \A s \in Stored : disk[s] \subseteq disk'[s]
<1> USE DEF memory, files, queue, requests, threads, journaling, worker, history
<1>1. CASE TakeJournal \/ ReadJournal \/ Tick \/ JournalDebounceElapses
  <2>1. UNCHANGED <<disk, gen, cached, fileLock, wpc, prepared, todo, opc>>
    BY <1>1 DEF TakeJournal, ReadJournal, Tick, JournalDebounceElapses
  <2> QED
    BY <2>1, InvQuiet
<1>2. CASE SaveJournal
  <2>1. UNCHANGED <<gen, cached, fileLock, wpc, prepared, todo, opc>>
    BY <1>2 DEF SaveJournal
  <2>2. disk' = [disk EXCEPT !["journal"] = @ \cup jsnap] \/ disk' = disk
    BY <1>2 DEF SaveJournal
  <2>3. \A t \in Stored : t # "journal" => disk'[t] = disk[t]
    BY <2>2 DEF IInv, TypeOK
  <2>4. \A t \in Sections \cup {"bindings"} : disk'[t] = disk[t]
    BY <2>3 DEF Stored, Sections
  <2>5. "continuations" \in Sections
    BY DEF Sections
  <2>6. LockInv'
    BY <2>1 DEF IInv, LockInv
  <2>7. CoverInv'
    BY <2>1, <2>4 DEF IInv, TypeOK, CoverInv, Fenced
  <2>8. OrderInv'
    BY <2>1, <2>4, <2>5 DEF IInv, OrderInv, BindingsBehindContinuations
  <2>9. \A s \in Stored : disk[s] \subseteq disk'[s]
    BY <2>2 DEF IInv, TypeOK
  <2> QED
    BY <2>6, <2>7, <2>8, <2>9
<1> QED
  BY <1>1, <1>2 DEF JournalStep

LEMMA InvCrash ==
  ASSUME IInv, Crash
  PROVE  (LockInv /\ CoverInv /\ OrderInv)'
<1>1. "worker" \notin Others
  BY StateSaveAssumption
<1>2. wpc' = "idle" /\ cached' = gen /\ UNCHANGED <<disk, gen, opc>>
  BY DEF Crash, Rest, files
<1>3. LockInv'
  BY <1>1, <1>2 DEF Crash, WorkerUnlock, IInv, LockInv, Busy
<1>4. CoverInv'
  BY <1>2 DEF IInv, TypeOK, CoverInv
<1>5. OrderInv'
  BY <1>2 DEF IInv, OrderInv, BindingsBehindContinuations
<1> QED
  BY <1>3, <1>4, <1>5

(* Every step keeps the invariant, and none takes anything off the disk.   *)
LEMMA InvNext == IInv /\ [Next]_vars => IInv'
<1> SUFFICES ASSUME IInv, [Next]_vars PROVE IInv'
  OBVIOUS
<1>1. TypeOK'
  BY TypeNext DEF IInv
<1>2. CASE UNCHANGED vars
  <2>1. UNCHANGED <<disk, gen, cached, fileLock, wpc, prepared, todo, opc>>
    BY <1>2 DEF vars, files, worker
  <2> QED
    BY <1>1, <2>1, InvQuiet DEF IInv
<1>3. CASE Next
  <2>1. (LockInv /\ CoverInv /\ OrderInv)'
    BY <1>3, InvThread, InvWorker, InvFails, InvPrepareFails, InvJournal, InvOther, InvCrash DEF Next
  <2> QED
    BY <1>1, <2>1 DEF IInv
<1> QED
  BY <1>2, <1>3

LEMMA DiskGrows ==
  IInv /\ [Next]_vars => \A s \in Stored : disk[s] \subseteq disk'[s]
<1> SUFFICES ASSUME IInv, [Next]_vars PROVE \A s \in Stored : disk[s] \subseteq disk'[s]
  OBVIOUS
<1> USE DEF files
<1>1. CASE UNCHANGED vars
  BY <1>1 DEF vars
<1>2. ASSUME NEW m \in Mutations, ThreadStep(m)
      PROVE  disk' = disk
  BY <1>2 DEF ThreadStep, Mutate, Clone, Publish, Enqueue, EnqueueJournal
<1>3. CASE WorkerStep
  <2>1. ASSUME NEW s \in Sections, Persist(s)
        PROVE  \A t \in Stored : disk[t] \subseteq disk'[t]
    BY <2>1, WrittenCovers DEF Persist
  <2>2. ASSUME NEW s \in Sections, Stale(s)
        PROVE  disk' = disk
    BY <2>2 DEF Stale
  <2>3. CASE \/ TakeJob \/ ReadLive \/ Check \/ LockFiles \/ Recheck
             \/ Prepare \/ Confirm \/ GiveUp
    BY <2>3 DEF TakeJob, ReadLive, Check, LockFiles, Recheck, Prepare, Confirm, GiveUp
  <2> QED
    BY <1>3, <2>1, <2>2, <2>3 DEF WorkerStep
<1>4. ASSUME NEW s \in Sections, WriteFails(s)
      PROVE  \A t \in Stored : disk[t] \subseteq disk'[t]
  BY <1>4, WrittenCovers DEF WriteFails
<1>5. CASE Crash
  BY <1>5 DEF Crash
<1> QED
  BY <1>1, <1>2, <1>3, <1>4, <1>5, InvPrepareFails, InvJournal, InvOther DEF Next

(* At no point of any execution, crashes and failed writes included, are   *)
(* the bindings of state.json ahead of the continuation sidecar.           *)
THEOREM BindingsNeverAhead == Spec => []BindingsBehindContinuations
<1>1. IInv => BindingsBehindContinuations
  BY DEF IInv, OrderInv
<1> QED
  BY <1>1, InvInit, InvNext, PTL DEF Spec

(* Whatever is retried, abandoned, interrupted or written by others, no    *)
(* step takes anything off the disk.                                       *)
THEOREM DiskNeverLoses == Spec => NothingOnDiskIsLost
<1>1. IInv /\ [Next]_vars => [\A s \in Stored : disk[s] \subseteq disk'[s]]_vars
  BY DiskGrows
<1> QED
  BY <1>1, InvInit, InvNext, PTL DEF Spec, NothingOnDiskIsLost

-----------------------------------------------------------------------------
(* The journal.                                                            *)
Between == {"publish", "enqueue", "journal"}

(* What a mutation has changed stays in memory.                            *)
MemoryInv ==
  \A m \in Mutations : pc[m] \in Between \cup {"done"} => \A s \in SectionsOf(m) : m \in live[s]

(* A journaled mutation, once enqueued, is in a journal job or in the file.*)
InJournal(m) ==
  journal # "none" \/ jpc = "read" \/ (jpc = "save" /\ m \in jsnap) \/ m \in disk["journal"]

JournalInv ==
  faults = 0 => \A m \in Mutations : pc[m] = "done" /\ Journaled(Kind[m]) => InJournal(m)

(* Journaled mutations change the continuations.                           *)
LEMMA JournaledChanges ==
  ASSUME NEW m \in Mutations, Journaled(Kind[m])
  PROVE  "continuations" \in SectionsOf(m)
<1>1. "continuations" \in Sections /\ "continuations" # "core"
  BY DEF Sections
<1>2. Kind[m] \in (0..2) \cup (4..21)
  BY DEF Journaled
<1>3. Saves("continuations", Kind[m])
  BY <1>1, <1>2 DEF Saves
<1> QED
  BY <1>1, <1>3 DEF SectionsOf

(* Which steps change the memory, and which a thread's progress.           *)
LEMMA MemorySteps ==
  ASSUME TypeOK, [Next]_vars
  PROVE  \/ Crash
         \/ \E m \in Mutations :
              /\ Mutate(m) \/ Clone(m)
              /\ live' = Applied(m) /\ pc[m] = "new" /\ pc' = [pc EXCEPT ![m] = "publish"]
              /\ IF m \in Probes THEN snapOf' = [snapOf EXCEPT ![m] = Applied(m)]
                 ELSE snapOf' = snapOf
         \/ /\ UNCHANGED <<live, snapOf>>
            /\ \/ pc' = pc
               \/ \E m \in Mutations : Publish(m) \/ Enqueue(m) \/ EnqueueJournal(m)
<1> USE DEF memory, threads
<1>1. CASE UNCHANGED vars
  BY <1>1 DEF vars
<1>2. ASSUME NEW m \in Mutations, ThreadStep(m)
      PROVE  \/ /\ Mutate(m) \/ Clone(m)
                /\ live' = Applied(m) /\ pc[m] = "new" /\ pc' = [pc EXCEPT ![m] = "publish"]
                /\ IF m \in Probes THEN snapOf' = [snapOf EXCEPT ![m] = Applied(m)]
                   ELSE snapOf' = snapOf
             \/ UNCHANGED <<live, snapOf>> /\ (Publish(m) \/ Enqueue(m) \/ EnqueueJournal(m))
  BY <1>2 DEF ThreadStep, Mutate, Clone, Publish, Enqueue, EnqueueJournal, Goto
<1>3. CASE WorkerStep
  <2>1. UNCHANGED <<live, pc, snapOf>>
    BY <1>3 DEF WorkerStep, TakeJob, ReadLive, Check, LockFiles, Recheck, Prepare, Confirm,
                GiveUp, Persist, Stale
  <2> QED
    BY <2>1
<1>4. ASSUME \/ JournalStep \/ Tick \/ JournalDebounceElapses
             \/ \E s \in Sections : PrepareFails(s) \/ WriteFails(s)
             \/ \E x \in Others : OtherStep(x)
      PROVE  UNCHANGED <<live, pc, snapOf>>
  BY <1>4 DEF JournalStep, TakeJournal, ReadJournal, SaveJournal, Tick,
              JournalDebounceElapses, PrepareFails, WriteFails, OtherStep, OtherLock, OtherSave, OtherSidecar
<1> QED
  BY <1>1, <1>2, <1>3, <1>4 DEF Next

LEMMA MemoryNext == TypeOK /\ MemoryInv /\ [Next]_vars => MemoryInv'
<1> SUFFICES ASSUME TypeOK, MemoryInv, [Next]_vars PROVE MemoryInv'
  OBVIOUS
<1>1. CASE Crash
  <2>1. \A m \in Mutations : pc'[m] \in {"new", "lost"}
    BY <1>1 DEF Crash
  <2> QED
    BY <2>1 DEF MemoryInv, Between
<1>2. ASSUME NEW m \in Mutations, live' = Applied(m), pc' = [pc EXCEPT ![m] = "publish"]
      PROVE  MemoryInv'
  <2>1. \A s \in Sections : live[s] \subseteq live'[s]
    BY <1>2 DEF Applied
  <2>2. \A s \in SectionsOf(m) : m \in live'[s]
    BY <1>2 DEF Applied, SectionsOf
  <2>3. \A n \in Mutations : n # m => pc'[n] = pc[n]
    BY <1>2 DEF TypeOK
  <2>4. \A n \in Mutations : SectionsOf(n) \subseteq Sections
    BY DEF SectionsOf
  <2> QED
    BY <2>1, <2>2, <2>3, <2>4 DEF MemoryInv
<1>3. ASSUME live' = live, NEW m \in Mutations, Publish(m) \/ Enqueue(m) \/ EnqueueJournal(m)
      PROVE  MemoryInv'
  <2>1. pc[m] \in Between /\ \A n \in Mutations : n # m => pc'[n] = pc[n]
    BY <1>3 DEF Publish, Enqueue, EnqueueJournal, Goto, Between, TypeOK
  <2> QED
    BY <1>3, <2>1 DEF MemoryInv
<1>4. CASE live' = live /\ pc' = pc
  BY <1>4 DEF MemoryInv
<1> QED
  BY <1>1, <1>2, <1>3, <1>4, MemorySteps

(* The history counters never fall.                                        *)
LEMMA HistoryGrows ==
  ASSUME TypeOK, [Next]_vars
  PROVE  /\ faults' = 0 => faults = 0
         /\ crashes' = 0 => crashes = 0 /\ ~Crash
         /\ ~superseded' => ~superseded /\ ~GiveUp
<1> USE DEF memory, files, queue, requests, threads, journaling, worker, history
<1> DEFINE Grows == /\ faults' = faults \/ faults' = faults + 1
                    /\ crashes' = crashes \/ crashes' = crashes + 1
                    /\ superseded' = superseded \/ superseded' = TRUE
<1>2. ASSUME NEW m \in Mutations, ThreadStep(m) PROVE Grows
  BY <1>2 DEF ThreadStep, Mutate, Clone, Publish, Enqueue, EnqueueJournal
<1>3. TakeJob \/ ReadLive \/ Check \/ LockFiles \/ Recheck \/ Prepare \/ Confirm \/ GiveUp
        => Grows
  BY DEF TakeJob, ReadLive, Check, LockFiles, Recheck, Prepare, Confirm, GiveUp
<1>4. ASSUME NEW s \in Sections, Persist(s) \/ Stale(s) \/ PrepareFails(s) \/ WriteFails(s)
      PROVE  Grows
  <2>1. Persist(s) => Grows
    BY DEF Persist
  <2>2. Stale(s) => Grows
    BY DEF Stale
  <2>3. PrepareFails(s) \/ WriteFails(s) => Grows
    BY DEF PrepareFails, WriteFails
  <2> QED
    BY <1>4, <2>1, <2>2, <2>3
<1>5. JournalStep \/ Tick \/ JournalDebounceElapses => Grows
  BY DEF JournalStep, TakeJournal, ReadJournal, SaveJournal, Tick, JournalDebounceElapses
<1>6. ASSUME NEW x \in Others, OtherStep(x) PROVE Grows
  BY <1>6 DEF OtherStep, OtherLock, OtherSave, OtherSidecar
<1>7. Crash => Grows
  BY DEF Crash
<1>8. Grows
  <2>1. UNCHANGED vars => Grows
    BY DEF vars
  <2> QED
    BY <1>2, <1>3, <1>4, <1>5, <1>6, <1>7, <2>1 DEF Next, WorkerStep
<1>9. faults \in Nat /\ crashes \in Nat /\ superseded \in BOOLEAN
  BY DEF TypeOK
<1>10. (Crash => crashes' = crashes + 1) /\ (GiveUp => superseded' = TRUE)
  BY DEF Crash, GiveUp
<1> QED
  BY <1>8, <1>9, <1>10

(* No step takes a journaled change out of the journal job and its file.   *)
LEMMA JournalNext ==
  IInv /\ MemoryInv /\ JournalInv /\ [Next]_vars => JournalInv'
<1> SUFFICES ASSUME IInv, MemoryInv, JournalInv, [Next]_vars, faults' = 0,
                    NEW m \in Mutations, pc'[m] = "done", Journaled(Kind[m])
             PROVE  InJournal(m)'
  BY DEF JournalInv
<1> USE DEF memory, files, queue, requests, threads, journaling, worker, history
<1>1. TypeOK /\ "journal" \in Stored
  BY DEF IInv, Stored
<1>2. faults = 0
  BY <1>1, HistoryGrows
<1>3. disk["journal"] \subseteq disk'["journal"]
  BY <1>1, DiskGrows
<1>4. CASE pc[m] = "done"
  <2>1. InJournal(m)
    BY <1>2, <1>4 DEF JournalInv
  <2>2. m \in live["continuations"]
    BY <1>4, JournaledChanges DEF MemoryInv
  <2>3. CASE m \in disk["journal"]
    BY <1>3, <2>3 DEF InJournal
  <2>4. CASE UNCHANGED <<journal, jpc, jsnap>>
    BY <1>3, <2>1, <2>4 DEF InJournal
  <2>5. ASSUME NEW n \in Mutations, ThreadStep(n) PROVE InJournal(m)'
    <3>1. UNCHANGED <<journal, jpc, jsnap>> \/ journal' \in {"waiting", "due"}
      BY <2>5 DEF ThreadStep, Mutate, Clone, Publish, Enqueue, EnqueueJournal
    <3> QED
      BY <2>4, <3>1 DEF InJournal
  <2>6. CASE JournalStep
    <3>1. CASE TakeJournal
      BY <3>1 DEF TakeJournal, InJournal
    <3>2. CASE ReadJournal
      BY <2>2, <3>2 DEF ReadJournal, InJournal
    <3>3. CASE SaveJournal
      <4>1. disk'["journal"] = disk["journal"] \cup jsnap /\ journal' = journal /\ jpc = "save"
        BY <1>1, <1>2, <3>3 DEF SaveJournal, TypeOK
      <4> QED
        BY <2>1, <4>1 DEF InJournal
    <3> QED
      BY <2>6, <3>1, <3>2, <3>3 DEF JournalStep
  <2>7. CASE JournalDebounceElapses
    BY <2>7 DEF JournalDebounceElapses, InJournal
  <2>8. ASSUME \/ UNCHANGED vars \/ WorkerStep \/ Tick
               \/ \E s \in Sections : PrepareFails(s) \/ WriteFails(s)
               \/ \E x \in Others : OtherStep(x)
        PROVE  UNCHANGED <<journal, jpc, jsnap>>
    BY <2>8 DEF vars, WorkerStep, TakeJob, ReadLive, Check, LockFiles, Recheck, Prepare, Confirm,
      GiveUp, Persist, Stale, PrepareFails, WriteFails, Tick, OtherStep, OtherLock, OtherSave,
      OtherSidecar
  <2>9. ~Crash
    <3>1. Crash => pc'[m] # "done"
      BY DEF Crash
    <3> QED
      BY <3>1
  <2> QED
    BY <2>4, <2>5, <2>6, <2>7, <2>8, <2>9 DEF Next
<1>5. CASE pc[m] # "done"
  <2>1. EnqueueJournal(m)
    <3>1. ~Crash
      BY DEF Crash
    <3>2. pc' # pc /\ ~\E n \in Mutations : pc' = [pc EXCEPT ![n] = "publish"]
      BY <1>1, <1>5 DEF TypeOK
    <3>3. PICK n \in Mutations : Publish(n) \/ Enqueue(n) \/ EnqueueJournal(n)
      BY <1>1, <3>1, <3>2, MemorySteps
    <3>4. n = m
      BY <1>1, <1>5, <3>3 DEF Publish, Enqueue, EnqueueJournal, Goto, TypeOK
    <3>5. ~Publish(m) /\ ~Enqueue(m)
      BY <1>1, <1>5 DEF Publish, Enqueue, Goto, TypeOK
    <3> QED
      BY <3>3, <3>4, <3>5
  <2> QED
    BY <2>1 DEF EnqueueJournal, InJournal
<1> QED
  BY <1>4, <1>5

(* Once all is quiet, every journaled change that was enqueued is in the   *)
(* journal, whatever became of its save, unless a write failed.            *)
THEOREM JournaledAlwaysPersisted == Spec => []JournaledPersisted
<1>1. Init => MemoryInv /\ JournalInv
  BY DEF Init, MemoryInv, JournalInv, Between
<1>2. IInv /\ MemoryInv /\ JournalInv /\ [Next]_vars => (IInv /\ MemoryInv /\ JournalInv)'
  BY InvNext, MemoryNext, JournalNext DEF IInv
<1>3. JournalInv => JournaledPersisted
  BY DEF JournalInv, JournaledPersisted, Quiescent, InJournal
<1> QED
  BY <1>1, <1>2, <1>3, InvInit, PTL DEF Spec

-----------------------------------------------------------------------------
(* The threads and the queue.  Revisions are taken one by one; a probe's   *)
(* snapshot is a part of the memory, its own change included; and before   *)
(* the first crash the memory holds what the threads have changed.         *)
Published(m) == pc[m] \in {"enqueue", "journal", "done"}

RevisionInv ==
  /\ \A m \in Mutations : Published(m) => revOf[m] <= latest
  /\ \A m, n \in Mutations : Published(m) /\ Published(n) /\ revOf[m] = revOf[n] => m = n

SnapInv ==
  /\ \A m \in Mutations : \A s \in Sections : snapOf[m][s] \subseteq live[s]
  /\ \A m \in Probes : pc[m] \in Between \cup {"done"}
                         => \A s \in SectionsOf(m) : m \in snapOf[m][s]

(* A request that has been enqueued and not been taken is covered by the   *)
(* pending job: in time, and unless it has been displaced, in substance.   *)
Covered(m) ==
  \A s \in SectionsOf(m) : s \in pending.sections /\ (pending.live \/ m \in pending.snap[s])

WaitInv ==
  \A m \in waiting :
    /\ pc[m] \in {"journal", "done"}
    /\ pending # NoJob /\ pending.left <= timer[m]
    /\ m \notin displaced => Covered(m)

(* What a request puts into the queue.                                     *)
LEMMA RequestedFields ==
  ASSUME NEW m \in Mutations
  PROVE  /\ Requested(m).live = (m \notin Probes)
         /\ Requested(m).sections = (IF m \in Probes THEN Sections ELSE SectionsOf(m))
         /\ Requested(m).snap = snapOf[m] /\ Requested(m).rev = revOf[m]
         /\ Requested(m).left = timer[m]
         /\ SectionsOf(m) \subseteq Requested(m).sections
BY DEF Requested, SectionsOf

LEMMA CoalescedFields ==
  ASSUME NEW previous \in Jobs, NEW new \in Jobs
  PROVE  /\ Coalesced(previous, new).live = new.live
         /\ Coalesced(previous, new).snap = new.snap
         /\ Coalesced(previous, new).rev = new.rev
         /\ new.sections \subseteq Coalesced(previous, new).sections
         /\ new.live => previous.sections \subseteq Coalesced(previous, new).sections
BY DEF Coalesced, Jobs

LEMMA Enqueued ==
  ASSUME TypeOK, NEW m \in Mutations, Enqueue(m)
  PROVE  /\ pc[m] = "enqueue" /\ pending' \in Jobs /\ pending' # NoJob
         /\ pending'.rev = revOf[m] /\ pending'.snap = snapOf[m]
         /\ pending'.live = (m \notin Probes)
         /\ SectionsOf(m) \subseteq pending'.sections
         /\ m \in Probes => pending'.sections = Sections
         /\ pending'.left <= timer[m]
         /\ pending # NoJob =>
              /\ pending'.left <= pending.left
              /\ m \notin Probes => pending.sections \subseteq pending'.sections
         /\ waiting' = waiting \cup {m} /\ displaced' = displaced \cup Displaced(m)
         /\ UNCHANGED <<timer, snapOf, revOf, latest>>
<1> DEFINE new == Requested(m)
<1>1. new \in Jobs
  BY RequestedIsJob
<1>2. /\ new.live = (m \notin Probes) /\ new.snap = snapOf[m] /\ new.rev = revOf[m]
      /\ new.left = timer[m] /\ SectionsOf(m) \subseteq new.sections
      /\ m \in Probes => new.sections = Sections
  BY RequestedFields
<1> HIDE DEF new
<1>3. /\ pc[m] = "enqueue" /\ UNCHANGED <<timer, snapOf, revOf, latest>>
      /\ waiting' = waiting \cup {m} /\ displaced' = displaced \cup Displaced(m)
  BY DEF Enqueue, Goto
<1>4. new.left \in Nat
  BY <1>1 DEF Jobs
<1>5. CASE pending = NoJob
  <2>1. pending' = new
    BY <1>5 DEF Enqueue, new
  <2> QED
    BY <1>1, <1>2, <1>3, <1>4, <1>5, <2>1, JobAssumption
<1>6. CASE pending # NoJob
  <2>1. pending \in Jobs
    BY <1>6 DEF TypeOK
  <2>2. pending' = Coalesced(pending, new)
    BY <1>6 DEF Enqueue, new
  <2>3. /\ pending' \in Jobs /\ pending'.left <= pending.left /\ pending'.left <= new.left
    BY <1>1, <2>1, <2>2, CoalescedIsJob
  <2>4. /\ pending'.live = new.live /\ pending'.snap = new.snap /\ pending'.rev = new.rev
        /\ new.sections \subseteq pending'.sections
        /\ new.live => pending.sections \subseteq pending'.sections
    BY <1>1, <2>1, <2>2, CoalescedFields
  <2>5. pending'.sections \subseteq Sections
    BY <2>3 DEF Jobs
  <2>6. pending' # NoJob
    BY <2>3, JobAssumption
  <2> QED
    BY <1>2, <1>3, <2>3, <2>4, <2>5, <2>6
<1> QED
  BY <1>5, <1>6

(* Which steps change the queue and the revisions.                         *)
LEMMA QueueSteps ==
  ASSUME TypeOK, [Next]_vars
  PROVE  \/ Crash \/ TakeJob \/ Tick
         \/ \E m \in Mutations : Publish(m) \/ Enqueue(m)
         \/ UNCHANGED <<pending, waiting, displaced, timer, latest, revOf>>
<1> USE DEF memory, files, queue, requests, threads, journaling, worker, history
<1> DEFINE Same == UNCHANGED <<pending, waiting, displaced, timer, latest, revOf>>
<1>1. UNCHANGED vars => Same
  BY DEF vars
<1>2. ASSUME NEW m \in Mutations, Mutate(m) \/ Clone(m) \/ EnqueueJournal(m) PROVE Same
  BY <1>2 DEF Mutate, Clone, EnqueueJournal
<1>3. ReadLive \/ Check \/ LockFiles \/ Recheck \/ Prepare \/ Confirm \/ GiveUp => Same
  BY DEF ReadLive, Check, LockFiles, Recheck, Prepare, Confirm, GiveUp
<1>4. ASSUME NEW s \in Sections, Persist(s) \/ Stale(s) \/ PrepareFails(s) \/ WriteFails(s)
      PROVE  Same
  BY <1>4 DEF Persist, Stale, PrepareFails, WriteFails
<1>5. JournalStep \/ JournalDebounceElapses => Same
  BY DEF JournalStep, TakeJournal, ReadJournal, SaveJournal, JournalDebounceElapses
<1>6. ASSUME NEW x \in Others, OtherStep(x) PROVE Same
  BY <1>6 DEF OtherStep, OtherLock, OtherSave, OtherSidecar
<1> QED
  BY <1>1, <1>2, <1>3, <1>4, <1>5, <1>6 DEF Next, WorkerStep, ThreadStep

(* A thread that is about to schedule its save goes on to do so, and one   *)
(* that has stays where it is or journals it.                              *)
LEMMA Progress ==
  ASSUME TypeOK, [Next]_vars, ~Crash, NEW n \in Mutations
  PROVE  /\ pc[n] \in {"publish", "enqueue"} =>
              \/ pc'[n] = pc[n]
              \/ Publish(n) /\ pc[n] = "publish" /\ pc'[n] = "enqueue"
              \/ Enqueue(n) /\ pc[n] = "enqueue"
         /\ pc[n] \in {"journal", "done"} =>
              pc'[n] = pc[n] \/ (pc[n] = "journal" /\ pc'[n] = "done" /\ EnqueueJournal(n))
<1>1. ASSUME NEW m \in Mutations, pc[m] = "new", pc' = [pc EXCEPT ![m] = "publish"],
             pc[n] # "new"
      PROVE  pc'[n] = pc[n]
  BY <1>1 DEF TypeOK
<1>2. ASSUME NEW m \in Mutations, Publish(m) \/ Enqueue(m) \/ EnqueueJournal(m), m # n
      PROVE  pc'[n] = pc[n]
  BY <1>2 DEF Publish, Enqueue, EnqueueJournal, Goto, TypeOK
<1>3. EnqueueJournal(n) => pc[n] = "journal" /\ pc'[n] = "done"
  BY DEF EnqueueJournal, Goto, TypeOK
<1>4. Publish(n) => pc[n] = "publish" /\ pc'[n] = "enqueue"
  BY DEF Publish, Goto, TypeOK
<1>5. Enqueue(n) => pc[n] = "enqueue"
  BY DEF Enqueue, Goto
<1> QED
  BY <1>1, <1>2, <1>3, <1>4, <1>5, MemorySteps

LEMMA RevisionNext == TypeOK /\ RevisionInv /\ [Next]_vars => RevisionInv'
<1> SUFFICES ASSUME TypeOK, RevisionInv, [Next]_vars PROVE RevisionInv'
  OBVIOUS
<1>1. CASE Crash
  <2>1. \A m \in Mutations : ~Published(m)'
    BY <1>1 DEF Crash, Published
  <2> QED
    BY <2>1 DEF RevisionInv
<1>2. ASSUME NEW m \in Mutations, Publish(m)
      PROVE  RevisionInv'
  <2>1. /\ pc[m] = "publish" /\ latest' = latest + 1 /\ latest \in Nat /\ revOf'[m] = latest + 1
        /\ \A n \in Mutations : n # m => pc'[n] = pc[n] /\ revOf'[n] = revOf[n]
        /\ \A n \in Mutations : revOf[n] \in Nat
    BY <1>2 DEF Publish, Goto, TypeOK
  <2>2. \A n \in Mutations : n # m => (Published(n)' <=> Published(n))
    BY <2>1 DEF Published
  <2>3. \A n \in Mutations : Published(n)' => revOf'[n] <= latest' /\ (n # m => revOf'[n] # latest')
    BY <2>1, <2>2 DEF RevisionInv
  <2>4. ASSUME NEW i \in Mutations, NEW n \in Mutations, Published(i)', Published(n)',
               revOf'[i] = revOf'[n]
        PROVE  i = n
    BY <2>1, <2>2, <2>3, <2>4 DEF RevisionInv
  <2> QED
    BY <2>3, <2>4 DEF RevisionInv
<1>3. CASE ~Crash /\ \A m \in Mutations : ~Publish(m)
  <2>1. UNCHANGED <<latest, revOf>>
    <3>1. TakeJob \/ Tick \/ (\E m \in Mutations : Enqueue(m)) => UNCHANGED <<latest, revOf>>
      BY DEF TakeJob, Tick, Enqueue
    <3> QED
      BY <1>3, <3>1, QueueSteps
  <2>2. \A m \in Mutations : Published(m)' => Published(m)
    <3>1. ASSUME NEW m \in Mutations, Published(m)', ~Published(m) PROVE FALSE
      <4>1. pc' # pc /\ ~\E n \in Mutations : pc[n] = "new" /\ pc' = [pc EXCEPT ![n] = "publish"]
        BY <3>1 DEF Published, TypeOK
      <4>2. PICK n \in Mutations : Enqueue(n) \/ EnqueueJournal(n)
        BY <1>3, <4>1, MemorySteps
      <4>3. Published(n) /\ (n # m => pc'[m] = pc[m])
        BY <4>2 DEF Enqueue, EnqueueJournal, Goto, Published, TypeOK
      <4> QED
        BY <3>1, <4>3 DEF Published
    <3> QED
      BY <3>1
  <2> QED
    BY <2>1, <2>2 DEF RevisionInv
<1> QED
  BY <1>1, <1>2, <1>3

LEMMA SnapNext == TypeOK /\ SnapInv /\ [Next]_vars => SnapInv'
<1> SUFFICES ASSUME TypeOK, SnapInv, [Next]_vars PROVE SnapInv'
  OBVIOUS
<1>0. Probes \subseteq Mutations
  BY StateSaveAssumption
<1>1. CASE Crash
  <2>1. /\ \A m \in Mutations : pc'[m] \in {"new", "lost"}
        /\ \A m \in Mutations : \A s \in Sections : snapOf'[m][s] = {}
    BY <1>1 DEF Crash, Blank
  <2> QED
    BY <1>0, <2>1 DEF SnapInv, Between
<1>2. ASSUME NEW m \in Mutations, live' = Applied(m), pc' = [pc EXCEPT ![m] = "publish"],
             IF m \in Probes THEN snapOf' = [snapOf EXCEPT ![m] = Applied(m)]
             ELSE snapOf' = snapOf
      PROVE  SnapInv'
  <2>1. \A s \in Sections : live[s] \subseteq live'[s]
    BY <1>2 DEF Applied
  <2>2. \A s \in SectionsOf(m) : m \in live'[s]
    BY <1>2 DEF Applied, SectionsOf
  <2>3. \A n \in Mutations : n # m => pc'[n] = pc[n] /\ snapOf'[n] = snapOf[n]
    BY <1>2 DEF TypeOK
  <2>4. IF m \in Probes THEN snapOf'[m] = live' ELSE snapOf'[m] = snapOf[m]
    BY <1>2 DEF TypeOK
  <2> QED
    BY <1>0, <2>1, <2>2, <2>3, <2>4 DEF SnapInv
<1>3. CASE UNCHANGED <<live, snapOf, pc>>
  BY <1>3 DEF SnapInv
<1>4. ASSUME UNCHANGED <<live, snapOf>>, NEW m \in Mutations,
             Publish(m) \/ Enqueue(m) \/ EnqueueJournal(m)
      PROVE  SnapInv'
  <2>1. pc[m] \in Between /\ \A n \in Mutations : n # m => pc'[n] = pc[n]
    BY <1>4 DEF Publish, Enqueue, EnqueueJournal, Goto, Between, TypeOK
  <2> QED
    BY <1>0, <1>4, <2>1 DEF SnapInv
<1> QED
  BY <1>1, <1>2, <1>3, <1>4, MemorySteps

(* Time passing, a pending job keeps all but the time it has left.         *)
LEMMA Ticked ==
  ASSUME TypeOK, Tick, pending # NoJob
  PROVE  /\ pending' # NoJob
         /\ pending'.live = pending.live /\ pending'.sections = pending.sections
         /\ pending'.snap = pending.snap /\ pending'.rev = pending.rev
         /\ \A m \in Mutations : pending.left <= timer[m] => pending'.left <= timer'[m]
<1>1. pending \in Jobs /\ pending' = [pending EXCEPT !.left = Less(@)]
  BY DEF Tick, TypeOK
<1>2. \A m \in Mutations : timer'[m] = Less(timer[m]) /\ timer[m] \in Nat
  BY DEF Tick, TypeOK
<1>3. \A i, j \in Nat : i <= j => Less(i) <= Less(j)
  BY DEF Less
<1>4. pending.left \in Nat
  BY <1>1 DEF Jobs
<1> QED
  BY <1>1, <1>2, <1>3, <1>4, TickedJob, JobAssumption

(* No request waits beyond its deadline, nor leaves the pending job but    *)
(* with it, unless it is displaced.                                        *)
LEMMA WaitNext == TypeOK /\ SnapInv /\ WaitInv /\ [Next]_vars => WaitInv'
<1> SUFFICES ASSUME TypeOK, SnapInv, WaitInv, [Next]_vars,
                    NEW m \in Mutations, m \in waiting'
             PROVE  /\ pc'[m] \in {"journal", "done"}
                    /\ pending' # NoJob /\ pending'.left <= timer'[m]
                    /\ m \notin displaced' => Covered(m)'
  <2>1. ASSUME TypeOK, [Next]_vars PROVE waiting' \subseteq Mutations
    <3>1. TypeOK'
      BY <2>1, TypeNext
    <3> QED
      BY <3>1 DEF TypeOK
  <2> QED
    BY <2>1 DEF WaitInv
<1>1. ~Crash /\ ~TakeJob
  BY DEF Crash, TakeJob
<1>2. m \in waiting => pc'[m] \in {"journal", "done"}
  BY <1>1, Progress DEF WaitInv
<1>3. ASSUME NEW n \in Mutations, Enqueue(n)
      PROVE  /\ pc'[m] \in {"journal", "done"}
             /\ pending' # NoJob /\ pending'.left <= timer'[m]
             /\ m \notin displaced' => Covered(m)'
  <2>1. /\ pc[n] = "enqueue" /\ pending' # NoJob /\ pending' \in Jobs
        /\ pending'.snap = snapOf[n] /\ pending'.live = (n \notin Probes)
        /\ SectionsOf(n) \subseteq pending'.sections
        /\ n \in Probes => pending'.sections = Sections
        /\ pending'.left <= timer[n] /\ timer' = timer
        /\ pending # NoJob =>
             /\ pending'.left <= pending.left
             /\ n \notin Probes => pending.sections \subseteq pending'.sections
        /\ waiting' = waiting \cup {n} /\ displaced' = displaced \cup Displaced(n)
    BY <1>3, Enqueued
  <2>2. CASE m = n
    <3>1. pc'[n] \in {"journal", "done"}
      BY <1>3, PolicyBoolean DEF Enqueue, Goto, TypeOK
    <3>2. n \in Probes => \A s \in SectionsOf(n) : n \in snapOf[n][s]
      BY <2>1 DEF SnapInv, Between
    <3>3. Covered(n)'
      BY <2>1, <3>2 DEF Covered
    <3> QED
      BY <2>1, <2>2, <3>1, <3>3
  <2>3. CASE m # n
    <3>1. m \in waiting /\ pending # NoJob /\ pending.left <= timer[m]
      BY <2>1, <2>3 DEF WaitInv
    <3>2. pending \in Jobs /\ timer[m] \in Nat
      BY <3>1 DEF TypeOK
    <3>3. pending'.left <= timer'[m]
      <4>1. pending'.left \in Nat /\ pending.left \in Nat
        BY <2>1, <3>2 DEF Jobs
      <4> QED
        BY <2>1, <3>1, <3>2, <4>1
    <3>4. ASSUME m \notin displaced' PROVE Covered(m)'
      <4>1. m \notin displaced /\ m \notin Displaced(n)
        BY <2>1, <3>4
      <4>2. Covered(m)
        BY <3>1, <4>1 DEF WaitInv
      <4>3. n \in Probes => \A s \in SectionsOf(m) : m \in snapOf[n][s]
        BY <3>1, <4>1 DEF Displaced
      <4>4. SectionsOf(m) \subseteq Sections
        BY DEF SectionsOf
      <4> QED
        BY <2>1, <3>1, <4>2, <4>3, <4>4 DEF Covered
    <3> QED
      BY <1>2, <2>1, <3>1, <3>3, <3>4
  <2> QED
    BY <2>2, <2>3
<1>4. CASE Tick
  <2>1. m \in waiting /\ displaced' = displaced
    BY <1>4 DEF Tick
  <2>2. pending # NoJob /\ pending.left <= timer[m] /\ (m \notin displaced => Covered(m))
    BY <2>1 DEF WaitInv
  <2> QED
    BY <1>2, <1>4, <2>1, <2>2, Ticked DEF Covered
<1>5. ASSUME NEW n \in Mutations, Publish(n)
      PROVE  /\ pc'[m] \in {"journal", "done"}
             /\ pending' # NoJob /\ pending'.left <= timer'[m]
             /\ m \notin displaced' => Covered(m)'
  <2>1. /\ pc[n] = "publish" /\ UNCHANGED <<pending, waiting, displaced>>
        /\ m # n => timer'[m] = timer[m]
    BY <1>5 DEF Publish, Goto, requests, TypeOK
  <2>2. m # n
    BY <2>1 DEF WaitInv
  <2> QED
    BY <1>2, <2>1, <2>2 DEF WaitInv, Covered
<1>6. CASE UNCHANGED <<pending, waiting, displaced, timer, latest, revOf>>
  BY <1>2, <1>6 DEF WaitInv, Covered
<1> QED
  BY <1>1, <1>3, <1>4, <1>5, <1>6, QueueSteps

(* Until the worker takes its job, a request's save is due by the time its *)
(* own delay has elapsed, whatever is coalesced with it.                   *)
THEOREM DeadlinesAlwaysKept == Spec => []DeadlinesKept
<1>1. Init => SnapInv /\ WaitInv
  <2>1. Probes \subseteq Mutations
    BY StateSaveAssumption
  <2> QED
    BY <2>1 DEF Init, SnapInv, WaitInv, Between, Blank
<1>2. TypeOK /\ SnapInv /\ WaitInv /\ [Next]_vars => (TypeOK /\ SnapInv /\ WaitInv)'
  BY TypeNext, SnapNext, WaitNext
<1>3. WaitInv => DeadlinesKept
  BY DEF WaitInv, DeadlinesKept
<1> QED
  BY <1>1, <1>2, <1>3, TypeInit, PTL DEF Spec

-----------------------------------------------------------------------------
(* An update that is not on disk is on its way there.                      *)
WorkInv == wpc \in {"confirm", "write"} => todo \subseteq job.sections

Worked(u, s) ==
  \/ wpc = "read" /\ s \in job.sections
  \/ wpc \in {"check", "lock", "recheck", "prepare"} /\ s \in job.sections /\ u \in snap[s]
  \/ wpc \in {"confirm", "write"} /\ s \in todo /\ u \in snap[s] \cap prepared[s]

LEMMA WorkNext == WorkInv /\ [Next]_vars => WorkInv'
<1> SUFFICES ASSUME WorkInv, [Next]_vars PROVE WorkInv'
  OBVIOUS
<1> USE DEF WorkInv, memory, files, queue, requests, threads, journaling, worker, history
<1>1. CASE UNCHANGED <<wpc, todo, job>>
  BY <1>1
<1>2. ASSUME NEW m \in Mutations, ThreadStep(m) PROVE UNCHANGED <<wpc, todo, job>>
  BY <1>2 DEF ThreadStep, Mutate, Clone, Publish, Enqueue, EnqueueJournal
<1>3. TakeJob \/ ReadLive \/ Check \/ LockFiles \/ Recheck \/ GiveUp \/ Crash
        => wpc' \notin {"confirm", "write"}
  BY DEF TakeJob, ReadLive, Check, LockFiles, Recheck, Advance, GiveUp, Crash, Rest
<1>4. CASE Prepare
  BY <1>4 DEF Prepare
<1>5. CASE Confirm
  BY <1>5 DEF Confirm, Advance
<1>6. ASSUME NEW s \in Sections, Persist(s) PROVE WorkInv'
  BY <1>6 DEF Persist, Rest
<1>7. ASSUME NEW s \in Sections, Stale(s) \/ PrepareFails(s) \/ WriteFails(s)
      PROVE  wpc' \notin {"confirm", "write"}
  BY <1>7 DEF Stale, PrepareFails, WriteFails, Rest
<1>8. JournalStep \/ Tick \/ JournalDebounceElapses => UNCHANGED <<wpc, todo, job>>
  BY DEF JournalStep, TakeJournal, ReadJournal, SaveJournal, Tick, JournalDebounceElapses
<1>9. ASSUME NEW x \in Others, OtherStep(x) PROVE UNCHANGED <<wpc, todo, job>>
  BY <1>9 DEF OtherStep, OtherLock, OtherSave, OtherSidecar
<1>10. UNCHANGED vars => UNCHANGED <<wpc, todo, job>>
  BY DEF vars
<1> QED
  BY <1>1, <1>2, <1>3, <1>4, <1>5, <1>6, <1>7, <1>8, <1>9, <1>10 DEF Next, WorkerStep

(* The job the worker takes carries what the queue carried.                *)
LEMMA JobTaken ==
  ASSUME TakeJob
  PROVE  /\ pending # NoJob /\ job' = pending
         /\ \A s \in Sections : \A u :
              s \in pending.sections /\ (pending.live \/ u \in pending.snap[s]) => Worked(u, s)'
<1>1. /\ pending # NoJob /\ job' = pending /\ snap' = pending.snap
      /\ wpc' = IF pending.live THEN "read" ELSE "check"
  BY DEF TakeJob
<1> QED
  BY <1>1 DEF Worked

(* The worker drops nothing of a job but with the job.                     *)
LEMMA WorkKept ==
  ASSUME IInv, WorkInv, [Next]_vars, faults = 0, faults' = 0, ~GiveUp, ~Crash,
         NEW s \in Sections, NEW u, u \in live[s], Worked(u, s)
  PROVE  ~TakeJob /\ ((job' = job /\ Worked(u, s)') \/ u \in disk'[s])
<1> USE DEF memory, files, queue, requests, threads, journaling, worker, history
<1>1. TypeOK /\ s \in Stored
  BY DEF IInv, Stored
<1>2. ~TakeJob
  BY DEF Worked, TakeJob
<1>3. (job' = job /\ Worked(u, s)') \/ u \in disk'[s]
  <2>1. CASE UNCHANGED <<wpc, job, snap, todo, prepared>>
    BY <2>1 DEF Worked
  <2>2. CASE ReadLive
    <3>1. job' = job /\ wpc = "read" /\ wpc' = "check"
          /\ snap' = [t \in Sections |-> IF t \in job.sections THEN live[t] ELSE {}]
      BY <2>2 DEF ReadLive
    <3>2. s \in job.sections
      BY <3>1 DEF Worked
    <3> QED
      BY <3>1, <3>2 DEF Worked
  <2>3. CASE Check
    BY <2>3 DEF Check, Advance, Worked
  <2>4. CASE LockFiles
    BY <2>4 DEF LockFiles, Worked
  <2>5. CASE Recheck
    BY <2>5 DEF Recheck, Advance, Worked
  <2>6. CASE Prepare
    <3>1. /\ wpc = "prepare" /\ wpc' = "confirm" /\ job' = job /\ snap' = snap
          /\ prepared' = Merged /\ todo' = job.sections
      BY <2>6 DEF Prepare
    <3>2. s \in job.sections /\ u \in snap[s]
      BY <3>1 DEF Worked
    <3>3. prepared'[s] = disk[s] \cup snap[s]
      BY <3>1, <3>2 DEF Merged
    <3> QED
      BY <3>1, <3>2, <3>3 DEF Worked
  <2>7. CASE Confirm
    BY <2>7 DEF Confirm, Advance, Worked
  <2>8. ASSUME NEW t \in Sections, Persist(t)
        PROVE  (job' = job /\ Worked(u, s)') \/ u \in disk'[s]
    <3>1. /\ wpc = "write" /\ disk' = Written(t) /\ t \in todo
          /\ \/ todo = {t}
             \/ UNCHANGED <<job, snap, prepared, wpc>> /\ todo' = todo \ {t}
      BY <2>8 DEF Persist, IsNext
    <3>2. s \in todo /\ u \in snap[s] \cap prepared[s]
      BY <3>1 DEF Worked
    <3>3. CASE s = t
      <4>1. disk'[s] = prepared[s]
        BY <1>1, <3>1, <3>3 DEF Written
      <4> QED
        BY <3>1, <3>2, <4>1
    <3>4. CASE s # t
      BY <3>1, <3>2, <3>4 DEF Worked
    <3> QED
      BY <3>3, <3>4
  <2>9. ASSUME NEW t \in Sections, Stale(t)
        PROVE  (job' = job /\ Worked(u, s)') \/ u \in disk'[s]
    <3>1. wpc = "write" /\ wpc' = "check" /\ UNCHANGED <<job, snap>>
      BY <1>1, <2>9 DEF Stale, TypeOK
    <3>2. s \in job.sections /\ u \in snap[s]
      BY <3>1 DEF Worked, WorkInv
    <3> QED
      BY <3>1, <3>2 DEF Worked
  <2>10. ASSUME NEW t \in Sections PROVE ~WriteFails(t) /\ ~PrepareFails(t)
    BY <1>1 DEF WriteFails, PrepareFails, TypeOK
  <2>11. ASSUME \/ UNCHANGED vars \/ \E m \in Mutations : ThreadStep(m)
                \/ JournalStep \/ Tick \/ JournalDebounceElapses
                \/ \E x \in Others : OtherStep(x)
         PROVE  UNCHANGED <<wpc, job, snap, todo, prepared>>
    BY <2>11 DEF vars, ThreadStep, Mutate, Clone, Publish, Enqueue, EnqueueJournal,
      JournalStep, TakeJournal, ReadJournal, SaveJournal, Tick,
      JournalDebounceElapses, OtherStep, OtherLock, OtherSave, OtherSidecar
  <2> QED
    BY <1>2, <2>1, <2>2, <2>3, <2>4, <2>5, <2>6, <2>7, <2>8, <2>9, <2>10, <2>11 DEF Next, WorkerStep
<1> QED
  BY <1>2, <1>3

(* Every update in memory that is not on disk and that no request has      *)
(* displaced is about to be scheduled, waiting, or being written, as long  *)
(* as no save has been given up.                                           *)
Carried(u, s) ==
  \/ /\ u \in Mutations /\ s \in SectionsOf(u)
     /\ pc[u] \in {"publish", "enqueue"} \/ u \in waiting
  \/ Worked(u, s)

CarriedInv ==
  faults = 0 /\ crashes = 0 /\ ~superseded =>
    \A s \in Sections : \A u \in live[s] \ displaced : u \in disk[s] \/ Carried(u, s)

(* What the latest mutation was to save: as it is in memory, or for a      *)
(* probe as it has cloned it.                                              *)
Target(m, s) == IF m \in Probes THEN snapOf[m][s] ELSE live[s]

(* It is in a job that no newer revision makes the worker give up.         *)
CarriedNow(m, u, s) ==
  \/ pc[m] = "enqueue"
  \/ \E n \in Mutations : pc[n] = "publish"
  \/ /\ m \in waiting /\ pending # NoJob /\ pending.rev = latest
     /\ s \in pending.sections /\ (pending.live \/ u \in pending.snap[s])
  \/ job # NoJob /\ job.rev = latest /\ Worked(u, s)

LatestInv ==
  faults = 0 =>
    \A m \in Mutations \ displaced : Published(m) /\ revOf[m] = latest =>
      \A s \in SectionsOf(m) : \A u \in Target(m, s) : u \in disk[s] \/ CarriedNow(m, u, s)

(* What a change adds to the memory is its own mutation, in its sections.  *)
LEMMA Added ==
  ASSUME TypeOK, [Next]_vars, ~Crash, NEW s \in Sections, NEW u \in live'[s], u \notin live[s]
  PROVE  u \in Mutations /\ s \in SectionsOf(u) /\ pc'[u] = "publish"
<1>1. PICK m \in Mutations : live' = Applied(m) /\ pc' = [pc EXCEPT ![m] = "publish"]
  BY MemorySteps
<1>2. u = m /\ s \in SectionsOf(m)
  BY <1>1 DEF Applied
<1>3. pc'[m] = "publish"
  BY <1>1 DEF TypeOK
<1> QED
  BY <1>2, <1>3

(* Short of a crash, a displaced request remains one.                      *)
LEMMA DisplacedStay ==
  ASSUME TypeOK, [Next]_vars, ~Crash
  PROVE  displaced \subseteq displaced'
<1>1. TakeJob \/ Tick \/ (\E m \in Mutations : Publish(m)) => displaced' = displaced
  BY DEF TakeJob, Tick, Publish, requests
<1>2. ASSUME NEW m \in Mutations, Enqueue(m) PROVE displaced \subseteq displaced'
  BY <1>2, Enqueued
<1> QED
  BY <1>1, <1>2, QueueSteps

LEMMA CarriedNext ==
  ASSUME IInv, WorkInv, WaitInv, CarriedInv, [Next]_vars
  PROVE  CarriedInv'
<1> SUFFICES ASSUME faults' = 0, crashes' = 0, ~superseded',
                    NEW s \in Sections, NEW u \in live'[s], u \notin displaced'
             PROVE  u \in disk'[s] \/ Carried(u, s)'
  BY DEF CarriedInv
<1>1. TypeOK /\ faults = 0 /\ crashes = 0 /\ ~superseded /\ ~Crash /\ ~GiveUp
  BY HistoryGrows DEF IInv
<1>2. CASE u \notin live[s]
  BY <1>1, <1>2, Added DEF Carried
<1>3. CASE u \in live[s]
  <2>1. u \notin displaced
    BY <1>1, DisplacedStay
  <2>2. u \in disk[s] \/ Carried(u, s)
    BY <1>1, <1>3, <2>1 DEF CarriedInv
  <2>3. CASE u \in disk[s]
    BY <2>3, DiskGrows DEF Stored
  <2>4. ASSUME u \in Mutations, s \in SectionsOf(u), pc[u] \in {"publish", "enqueue"}
        PROVE  Carried(u, s)'
    <3>1. CASE pc'[u] \in {"publish", "enqueue"}
      BY <2>4, <3>1 DEF Carried
    <3>2. CASE Enqueue(u)
      BY <1>1, <2>4, <3>2, Enqueued DEF Carried
    <3> QED
      BY <1>1, <2>4, <3>1, <3>2, Progress
  <2>5. ASSUME u \in Mutations, s \in SectionsOf(u), u \in waiting
        PROVE  Carried(u, s)'
    <3>1. CASE TakeJob
      <4>1. s \in pending.sections /\ (pending.live \/ u \in pending.snap[s])
        BY <2>1, <2>5 DEF WaitInv, Covered
      <4> QED
        BY <3>1, <4>1, JobTaken DEF Carried
    <3>2. CASE ~TakeJob
      <4>1. waiting \subseteq waiting'
        <5>1. Tick \/ (\E m \in Mutations : Publish(m)) => waiting' = waiting
          BY DEF Tick, Publish, requests
        <5>2. ASSUME NEW m \in Mutations, Enqueue(m) PROVE waiting \subseteq waiting'
          BY <1>1, <5>2, Enqueued
        <5> QED
          BY <1>1, <3>2, <5>1, <5>2, QueueSteps
      <4> QED
        BY <2>5, <4>1 DEF Carried
    <3> QED
      BY <3>1, <3>2
  <2>6. ASSUME Worked(u, s) PROVE u \in disk'[s] \/ Carried(u, s)'
    BY <1>1, <1>3, <2>6, WorkKept DEF Carried
  <2> QED
    BY <2>2, <2>3, <2>4, <2>5, <2>6 DEF Carried
<1> QED
  BY <1>2, <1>3

(* However requests are coalesced, once all is quiet all that is in memory *)
(* is on disk, but for what a probe's snapshot has displaced, unless a     *)
(* save was given up on the way.                                           *)
THEOREM CoalescedAlwaysPersisted == Spec => []CoalescedSectionsPersisted
<1>1. Init => SnapInv /\ WaitInv /\ WorkInv /\ CarriedInv
  <2>1. Probes \subseteq Mutations
    BY StateSaveAssumption
  <2> QED
    BY <2>1 DEF Init, SnapInv, WaitInv, WorkInv, CarriedInv, Between, Blank
<1>2. IInv /\ SnapInv /\ WaitInv /\ WorkInv /\ CarriedInv /\ [Next]_vars
        => (IInv /\ SnapInv /\ WaitInv /\ WorkInv /\ CarriedInv)'
  BY InvNext, SnapNext, WaitNext, WorkNext, CarriedNext DEF IInv
<1>3. WaitInv /\ CarriedInv => CoalescedSectionsPersisted
  <2> SUFFICES ASSUME WaitInv, CarriedInv, Quiescent, faults = 0, crashes = 0, ~superseded,
                      NEW s \in Sections, NEW u \in live[s] \ displaced
               PROVE  u \in disk[s]
    BY DEF CoalescedSectionsPersisted
  <2>1. u \in Mutations => u \notin waiting /\ pc[u] \notin {"publish", "enqueue"}
    BY DEF Quiescent, WaitInv
  <2>2. ~Worked(u, s)
    BY DEF Quiescent, Worked
  <2> QED
    BY <2>1, <2>2 DEF CarriedInv, Carried
<1> QED
  BY <1>1, <1>2, <1>3, InvInit, PTL DEF Spec

LEMMA LatestNext ==
  ASSUME IInv, RevisionInv, SnapInv, WorkInv, LatestInv, [Next]_vars
  PROVE  LatestInv'
<1> SUFFICES ASSUME faults' = 0, NEW m \in Mutations, m \notin displaced', Published(m)',
                    revOf'[m] = latest', NEW s \in SectionsOf(m), NEW u \in Target(m, s)',
                    pc'[m] # "enqueue", \A n \in Mutations : pc'[n] # "publish"
             PROVE  u \in disk'[s] \/ CarriedNow(m, u, s)'
  BY DEF LatestInv, CarriedNow
<1>1. TypeOK /\ faults = 0 /\ s \in Sections /\ s \in Stored
  BY HistoryGrows DEF IInv, SectionsOf, Stored
<1>2. ~Crash
  BY DEF Crash, Published
<1>3. m \notin displaced
  BY <1>1, <1>2, DisplacedStay
<1>4. ASSUME NEW n \in Mutations PROVE ~Publish(n)
  <2> SUFFICES ASSUME Publish(n) PROVE FALSE
    OBVIOUS
  <2>1. /\ latest' = latest + 1 /\ latest \in Nat /\ pc'[n] = "enqueue" /\ n # m
        /\ pc'[m] = pc[m] /\ revOf'[m] = revOf[m] /\ revOf[m] \in Nat
    BY <1>1 DEF Publish, Goto, TypeOK
  <2>2. revOf[m] <= latest
    BY <2>1 DEF RevisionInv, Published
  <2> QED
    BY <2>1, <2>2
<1>5. UNCHANGED <<latest, revOf>>
  <2>1. TakeJob \/ Tick \/ (\E n \in Mutations : Enqueue(n)) => UNCHANGED <<latest, revOf>>
    BY DEF TakeJob, Tick, Enqueue
  <2> QED
    BY <1>1, <1>2, <1>4, <2>1, QueueSteps
<1>6. UNCHANGED <<live, snapOf>>
  <2>1. ASSUME NEW n \in Mutations, pc' = [pc EXCEPT ![n] = "publish"] PROVE FALSE
    BY <1>1, <2>1 DEF TypeOK
  <2> QED
    BY <1>1, <1>2, <2>1, MemorySteps
<1>7. u \in Target(m, s) /\ u \in live[s]
  BY <1>1, <1>6 DEF Target, SnapInv
<1>8. \A n \in Mutations : pc[n] # "publish"
  BY <1>1, <1>2, <1>4, Progress
<1>9. Published(m) /\ revOf[m] = latest
  <2>1. pc[m] \in ThreadPC
    BY <1>1 DEF TypeOK
  <2>2. CASE pc'[m] = pc[m]
    BY <1>5, <2>2 DEF Published
  <2>3. CASE pc'[m] # pc[m]
    <3>1. PICK n \in Mutations : Enqueue(n) \/ EnqueueJournal(n)
      <4>1. ASSUME NEW n \in Mutations, pc' = [pc EXCEPT ![n] = "publish"] PROVE FALSE
        BY <1>1, <4>1 DEF TypeOK
      <4> QED
        BY <1>1, <1>2, <1>4, <2>3, <4>1, MemorySteps
    <3>2. pc[m] \in {"enqueue", "journal"}
      BY <1>1, <2>3, <3>1 DEF Enqueue, EnqueueJournal, Goto, TypeOK
    <3> QED
      BY <1>5, <3>2 DEF Published
  <2> QED
    BY <2>2, <2>3
<1>10. ASSUME Enqueue(m) PROVE CarriedNow(m, u, s)'
  <2>1. /\ pending' # NoJob /\ pending'.rev = revOf[m] /\ s \in pending'.sections
        /\ pending'.live = (m \notin Probes) /\ pending'.snap = snapOf[m]
        /\ waiting' = waiting \cup {m}
    BY <1>1, <1>10, Enqueued
  <2>2. m \in Probes => u \in snapOf[m][s]
    BY <1>7 DEF Target
  <2> QED
    BY <1>5, <1>9, <2>1, <2>2 DEF CarriedNow
<1>11. CASE ~Enqueue(m)
  <2>1. pc[m] # "enqueue"
    BY <1>1, <1>2, <1>4, <1>11, Progress
  <2>2. u \in disk[s] \/ CarriedNow(m, u, s)
    BY <1>1, <1>3, <1>7, <1>9 DEF LatestInv
  <2>3. CASE u \in disk[s]
    BY <1>1, <2>3, DiskGrows
  <2>4. ASSUME m \in waiting, pending # NoJob, pending.rev = latest,
               s \in pending.sections, pending.live \/ u \in pending.snap[s]
        PROVE  CarriedNow(m, u, s)'
    <3>1. CASE TakeJob
      <4>1. job' = pending /\ Worked(u, s)'
        BY <1>1, <2>4, <3>1, JobTaken
      <4> QED
        BY <1>1, <1>5, <2>4, <4>1, JobAssumption DEF CarriedNow, TypeOK
    <3>2. ASSUME NEW n \in Mutations, Enqueue(n) PROVE FALSE
      <4>1. n # m /\ pc[n] = "enqueue" /\ revOf[n] \in Nat /\ latest \in Nat
        BY <1>1, <1>11, <3>2 DEF Enqueue, Goto, TypeOK
      <4>2. revOf[n] <= latest /\ revOf[n] # latest
        BY <1>9, <4>1 DEF RevisionInv, Published
      <4>3. m \in Displaced(n)
        BY <2>4, <4>1, <4>2 DEF Displaced
      <4> QED
        BY <1>1, <3>2, <4>3, Enqueued
    <3>3. CASE Tick
      <4>1. waiting' = waiting
        BY <3>3 DEF Tick
      <4> QED
        BY <1>1, <1>5, <2>4, <3>3, <4>1, Ticked DEF CarriedNow
    <3>4. CASE UNCHANGED <<pending, waiting, displaced, timer, latest, revOf>>
      BY <2>4, <3>4 DEF CarriedNow
    <3> QED
      BY <1>1, <1>2, <1>4, <3>1, <3>2, <3>3, <3>4, QueueSteps
  <2>5. ASSUME job # NoJob, job.rev = latest, Worked(u, s)
        PROVE  u \in disk'[s] \/ CarriedNow(m, u, s)'
    <3>1. ~GiveUp
      BY <2>5 DEF GiveUp
    <3> QED
      BY <1>1, <1>2, <1>5, <1>7, <2>5, <3>1, WorkKept DEF CarriedNow
  <2> QED
    BY <1>8, <2>1, <2>2, <2>3, <2>4, <2>5 DEF CarriedNow
<1> QED
  BY <1>10, <1>11

(* The save of the latest mutation is never given up: once all is quiet,   *)
(* what it was to save is on disk, unless a request that it had overtaken  *)
(* or an older snapshot has displaced it, even if the saves before it were *)
(* superseded.                                                             *)
THEOREM LatestAlwaysPersisted == Spec => []LatestPersisted
<1>1. Init => RevisionInv /\ SnapInv /\ WorkInv /\ LatestInv
  <2>1. Probes \subseteq Mutations
    BY StateSaveAssumption
  <2> QED
    BY <2>1 DEF Init, RevisionInv, SnapInv, WorkInv, LatestInv, Between, Blank, Published
<1>2. IInv /\ RevisionInv /\ SnapInv /\ WorkInv /\ LatestInv /\ [Next]_vars
        => (IInv /\ RevisionInv /\ SnapInv /\ WorkInv /\ LatestInv)'
  BY InvNext, RevisionNext, SnapNext, WorkNext, LatestNext DEF IInv
<1>3. LatestInv => LatestPersisted
  <2> SUFFICES ASSUME LatestInv, Quiescent, faults = 0, NEW m \in Mutations \ displaced,
                      pc[m] = "done", revOf[m] = latest, NEW s \in SectionsOf(m),
                      NEW u \in Target(m, s)
               PROVE  u \in disk[s]
    BY DEF LatestPersisted, Target
  <2>1. ~CarriedNow(m, u, s)
    BY DEF Quiescent, CarriedNow, Worked
  <2> QED
    BY <2>1 DEF LatestInv, Published
<1> QED
  BY <1>1, <1>2, <1>3, InvInit, PTL DEF Spec

-----------------------------------------------------------------------------
(* Only probes displace.  Any other thread keeps the runtime lock from its *)
(* change until it has scheduled the save: when no probe takes part,       *)
(* revisions enter the queue in their order.                               *)
OrderedInv ==
  /\ \A m \in Mutations : pc[m] \in Between => runtimeLock = m
  /\ \A m \in Mutations : pc[m] = "enqueue" => revOf[m] = latest
  /\ pending # NoJob => pending.rev <= latest
  /\ displaced = {}

LEMMA OrderedThread ==
  ASSUME Probes = {}, TypeOK, OrderedInv, NEW m \in Mutations, ThreadStep(m)
  PROVE  OrderedInv'
<1> USE DEF memory, files, queue, requests, threads, journaling, worker, history
<1>1. NoOne \notin Mutations
  BY StateSaveAssumption
<1>2. \A n \in Mutations : revOf[n] \in Nat /\ latest \in Nat
  BY DEF TypeOK
<1>3. CASE Mutate(m)
  <2>1. /\ \A n \in Mutations : pc[n] \notin Between
        /\ pc' = [pc EXCEPT ![m] = "publish"] /\ runtimeLock' = m
        /\ UNCHANGED <<pending, latest, revOf, displaced>>
    BY <1>1, <1>3 DEF Mutate, Goto, OrderedInv
  <2>2. pc'[m] = "publish" /\ \A n \in Mutations : n # m => pc'[n] = pc[n]
    BY <2>1 DEF TypeOK
  <2> QED
    BY <2>1, <2>2 DEF OrderedInv, Between
<1>4. ~Clone(m)
  BY DEF Clone
<1>5. CASE Publish(m)
  <2>1. /\ pc[m] = "publish" /\ pc'[m] = "enqueue" /\ revOf'[m] = latest' /\ latest' = latest + 1
        /\ \A n \in Mutations : n # m => pc'[n] = pc[n]
        /\ UNCHANGED <<pending, runtimeLock, displaced>>
    BY <1>5 DEF Publish, Goto, TypeOK
  <2>2. runtimeLock = m /\ \A n \in Mutations : n # m => pc[n] \notin Between
    BY <2>1 DEF OrderedInv, Between
  <2>3. pending' # NoJob => pending'.rev <= latest'
    <3>1. pending # NoJob => pending.rev \in Nat
      BY DEF TypeOK, Jobs
    <3> QED
      BY <1>2, <2>1, <3>1 DEF OrderedInv
  <2>4. \A n \in Mutations : pc'[n] \in Between => runtimeLock' = n
    BY <2>1, <2>2 DEF OrderedInv
  <2>5. \A n \in Mutations : pc'[n] = "enqueue" => revOf'[n] = latest'
    BY <2>1, <2>2 DEF Between
  <2> QED
    BY <2>1, <2>3, <2>4, <2>5 DEF OrderedInv
<1>6. CASE Enqueue(m) \/ EnqueueJournal(m)
  <2>1. /\ pc[m] \in {"enqueue", "journal"} /\ pc'[m] \in {"journal", "done"}
        /\ \A n \in Mutations : n # m => pc'[n] = pc[n]
        /\ UNCHANGED <<latest, revOf>>
        /\ pc'[m] = "journal" => runtimeLock' = runtimeLock
    BY <1>6, PolicyBoolean DEF Enqueue, EnqueueJournal, Goto, TypeOK
  <2>2. runtimeLock = m /\ \A n \in Mutations : n # m => pc[n] \notin Between
    BY <2>1 DEF OrderedInv, Between
  <2>3. (pending' # NoJob => pending'.rev <= latest') /\ displaced' = {}
    <3>1. CASE Enqueue(m)
      <4>1. pending'.rev = revOf[m] /\ pc[m] = "enqueue" /\ displaced' = displaced \cup Displaced(m)
        BY <3>1, Enqueued
      <4>2. revOf[m] = latest
        BY <4>1 DEF OrderedInv
      <4>3. pending # NoJob => pending.rev \in Nat /\ pending.rev <= latest
        BY DEF OrderedInv, TypeOK, Jobs
      <4>4. Displaced(m) = {}
        BY <1>2, <4>2, <4>3 DEF Displaced
      <4> QED
        BY <1>2, <2>1, <4>1, <4>2, <4>4 DEF OrderedInv
    <3>2. CASE EnqueueJournal(m)
      BY <3>2 DEF EnqueueJournal, OrderedInv
    <3> QED
      BY <1>6, <3>1, <3>2
  <2>4. \A n \in Mutations : pc'[n] \in Between => runtimeLock' = n
    BY <2>1, <2>2 DEF OrderedInv, Between
  <2>5. \A n \in Mutations : pc'[n] = "enqueue" => revOf'[n] = latest'
    BY <2>1, <2>2 DEF Between
  <2> QED
    BY <2>3, <2>4, <2>5 DEF OrderedInv
<1> QED
  BY <1>3, <1>4, <1>5, <1>6 DEF ThreadStep

LEMMA OrderedNext ==
  ASSUME Probes = {}, TypeOK, OrderedInv, [Next]_vars
  PROVE  OrderedInv'
<1> USE DEF memory, files, queue, requests, threads, journaling, worker, history
<1> DEFINE Same == UNCHANGED <<pc, runtimeLock, latest, revOf, displaced>>
<1>1. CASE Same /\ (pending' = pending \/ pending' = NoJob)
  BY <1>1 DEF OrderedInv
<1>2. UNCHANGED vars => Same /\ pending' = pending
  BY DEF vars
<1>3. TakeJob => Same /\ pending' = NoJob
  BY DEF TakeJob
<1>4. ReadLive \/ Check \/ LockFiles \/ Recheck \/ Prepare \/ Confirm \/ GiveUp
        => Same /\ pending' = pending
  BY DEF ReadLive, Check, LockFiles, Recheck, Prepare, Confirm, GiveUp
<1>5. ASSUME NEW s \in Sections, Persist(s) \/ Stale(s) \/ PrepareFails(s) \/ WriteFails(s)
      PROVE  Same /\ pending' = pending
  BY <1>5 DEF Persist, Stale, PrepareFails, WriteFails
<1>6. JournalStep \/ JournalDebounceElapses => Same /\ pending' = pending
  BY DEF JournalStep, TakeJournal, ReadJournal, SaveJournal, JournalDebounceElapses
<1>7. ASSUME NEW x \in Others, OtherStep(x) PROVE Same /\ pending' = pending
  BY <1>7 DEF OtherStep, OtherLock, OtherSave, OtherSidecar
<1>8. CASE Tick
  <2>1. Same /\ (pending = NoJob => pending' = NoJob)
    BY <1>8 DEF Tick
  <2>2. pending # NoJob => pending'.rev = pending.rev
    BY <1>8, Ticked
  <2> QED
    BY <2>1, <2>2 DEF OrderedInv
<1>9. CASE Crash
  <2>1. /\ \A m \in Mutations : pc'[m] \in {"new", "lost"}
        /\ pending' = NoJob /\ displaced' = {}
    BY <1>9 DEF Crash
  <2> QED
    BY <2>1 DEF OrderedInv, Between
<1> QED
  BY <1>1, <1>2, <1>3, <1>4, <1>5, <1>6, <1>7, <1>8, <1>9, OrderedThread DEF Next, WorkerStep

(* When no probe takes part, no request is ever displaced: the two         *)
(* theorems above then make no exception.                                  *)
THEOREM OnlyProbesDisplace ==
  ASSUME Probes = {}
  PROVE  Spec => [](displaced = {})
<1>1. Init => OrderedInv
  BY DEF Init, OrderedInv, Between
<1>2. TypeOK /\ OrderedInv /\ [Next]_vars => (TypeOK /\ OrderedInv)'
  BY TypeNext, OrderedNext
<1>3. OrderedInv => displaced = {}
  BY DEF OrderedInv
<1> QED
  BY <1>1, <1>2, <1>3, TypeInit, PTL DEF Spec

=============================================================================
