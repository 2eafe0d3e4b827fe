-------------------------- MODULE SidecarStoreProofs --------------------------
(***************************************************************************)
(* Proofs about SidecarStore for any number of processes, updates, retries *)
(* and mishaps.                                                            *)
(***************************************************************************)
EXTENDS SidecarStore, TLAPS

(* Generations grow: from the backup to the primary, to what is about to   *)
(* be written.                                                             *)
RankInv ==
  /\ IsGood(primary) => primary.gen <= highest
  /\ IsGood(backup) => backup.gen <= highest
  /\ BackupNotNewer
  /\ \A p \in Processes :
       /\ cached[p] # Unknown => cached[p] <= highest
       /\ pc[p] = "write" => /\ IsGood(primary) => primary.gen < target[p]
                             /\ IsGood(backup) => backup.gen < target[p]
       /\ pc[p] = "backup" /\ IsGood(primary) => primary.gen = target[p]

(* The files agree: the primary has a backup, which it includes, and which *)
(* it equals when their generations do; the backup has all that has been   *)
(* acknowledged.                                                           *)
FilesAgree ==
  /\ IsGood(primary) => IsGood(backup) /\ backup.value \subseteq primary.value
  /\ IsGood(primary) /\ primary.gen = backup.gen => primary.value = backup.value
  /\ acknowledged \subseteq backup.value

(* A process that will pass the fence has read what it will overwrite.     *)
Covers(p) ==
  /\ pc[p] \in {"compare", "write"} => memory[p] \subseteq merged[p]
  /\ pc[p] = "compare" =>
       /\ IsGood(backup) => cached[p] # Unknown
       /\ IsGood(primary) /\ cached[p] = primary.gen => primary.value \subseteq merged[p]
       /\ IsGood(backup) /\ cached[p] = backup.gen => backup.value \subseteq merged[p]
  /\ pc[p] = "write" =>
       /\ IsGood(backup) => backup.value \subseteq merged[p]
       /\ ~IsGood(backup) => target[p] = 1
  /\ pc[p] = "backup" /\ IsGood(primary) => memory[p] \subseteq primary.value
  /\ pc[p] = "removeBackup" => acknowledged = {} /\ ~IsGood(primary)

(* All of this as long as no generation has been written twice.            *)
ContentInv ==
  /\ 1 <= highest
  /\ ~reused => FilesAgree /\ \A p \in Processes : Covers(p)

-----------------------------------------------------------------------------
(* What the files are made of.                                             *)
LEMMA Files ==
  /\ Missing \in File /\ ~IsGood(Missing)
  /\ Broken \in File /\ ~IsGood(Broken)
  /\ \A g \in Nat, v \in SUBSET Updates :
       /\ Good(g, v) \in File /\ IsGood(Good(g, v))
       /\ Good(g, v).gen = g /\ Good(g, v).value = v
  /\ \A f \in File : f.gen \in Nat /\ f.value \subseteq Updates
BY DEF File, Missing, Broken, Good, IsGood

(* The two files at the start.                                             *)
LEMMA InitialFile ==
  /\ Initial \in File
  /\ IsGood(Initial) <=> InitialGeneration # 0
  /\ IsGood(Initial) => Initial.gen = InitialGeneration /\ Initial.value = {}
BY Files, SidecarAssumption DEF Initial

LEMMA TypeInit == Init => TypeOK
<1> SUFFICES ASSUME Init
             PROVE  TypeOK
  OBVIOUS
<1> USE SidecarAssumption DEF Init, Processes, SaverPC, RemoverPC, Locked
<1>1. primary \in File /\ backup \in File
  BY InitialFile
<1>2. \A p \in Processes : /\ pc[p] \in IF p \in Savers THEN SaverPC ELSE RemoverPC
                          /\ lock = p <=> pc[p] \in Locked
  OBVIOUS
<1>3. pc \in [Processes -> SaverPC \cup RemoverPC]
  OBVIOUS
<1> QED
  BY <1>1, <1>2, <1>3 DEF TypeOK

(* What replacing the primary does.                                        *)
LEMMA ReplacedType ==
  ASSUME TypeOK, NEW p \in Processes, Replaced(p)
  PROVE  primary' \in File /\ highest' \in Nat /\ reused' \in BOOLEAN
<1>1. target[p] \in Nat /\ merged[p] \in SUBSET Updates /\ highest \in Nat
  BY DEF TypeOK
<1>2. reused' \in BOOLEAN
  BY DEF Replaced
<1> QED
  BY <1>1, <1>2, Files DEF Replaced

LEMMA TypeNext == TypeOK /\ [Next]_vars => TypeOK'
<1> SUFFICES ASSUME TypeOK, [Next]_vars
             PROVE  TypeOK'
  OBVIOUS
<1> USE SidecarAssumption, Files
    DEF TypeOK, Processes, SaverPC, RemoverPC, Locked, Goto, Mishap, Unlock,
        content, saving, history
<1>a. Current \in File
  BY DEF Current
<1>1. ASSUME NEW p \in Savers, Begin(p)
      PROVE  TypeOK'
  BY <1>1 DEF Begin
<1>2. ASSUME NEW p \in Savers, Exists(p)
      PROVE  TypeOK'
  BY <1>2 DEF Exists
<1>3. ASSUME NEW p \in Savers, Read(p)
      PROVE  TypeOK'
  BY <1>3 DEF Read, Loaded
<1>4. ASSUME NEW p \in Savers, Recover(p)
      PROVE  TypeOK'
  BY <1>4, <1>a DEF Recover, Loaded, Repair
<1>5. ASSUME NEW p \in Savers, Compare(p)
      PROVE  TypeOK'
  <2>1. CASE Stale(p)
    BY <1>5, <2>1, <1>a DEF Compare, Stale, Repair
  <2>2. CASE Fresh(p)
    BY <1>5, <2>2, <1>a DEF Compare, Fresh, Repair
  <2>3. CASE Recreate(p)
    BY <1>5, <2>3 DEF Compare, Recreate
  <2>4. CASE Unreadable(p)
    BY <1>5, <2>4 DEF Compare, Unreadable
  <2> QED
    BY <1>5, <2>1, <2>2, <2>3, <2>4 DEF Compare
<1>6. ASSUME NEW p \in Savers, WritePrimary(p)
      PROVE  TypeOK'
  BY <1>6, ReplacedType DEF WritePrimary
<1>7. ASSUME NEW p \in Savers, WriteBackup(p)
      PROVE  TypeOK'
  BY <1>7 DEF WriteBackup
<1>8. ASSUME NEW p \in Savers, Revalidate(p)
      PROVE  TypeOK'
  BY <1>8 DEF Revalidate
<1>9. ASSUME NEW p \in Savers, WriteFails(p)
      PROVE  TypeOK'
  <2>1. primary' \in File /\ backup' \in File /\ highest' \in Nat /\ reused' \in BOOLEAN
    <3>2. CASE Goto(p, "write", "idle")
      BY <1>9, <3>2, ReplacedType DEF WriteFails
    <3>3. CASE Goto(p, "backup", "idle")
      BY <1>9, <3>3 DEF WriteFails
    <3> QED
      BY <1>9, <3>2, <3>3 DEF WriteFails
  <2>2. pc[p] \in Locked /\ pc' = [pc EXCEPT ![p] = "idle"] /\ mishaps' \in Nat
    BY <1>9 DEF WriteFails
  <2> QED
    BY <1>9, <2>1, <2>2 DEF WriteFails
<1>10. ASSUME NEW p \in Removers, Remove(p)
       PROVE  TypeOK'
  BY <1>10 DEF Remove
<1>11. ASSUME NEW p \in Removers, RemoveBackup(p)
       PROVE  TypeOK'
  BY <1>11 DEF RemoveBackup
<1>12. ASSUME NEW p \in Processes, Crash(p)
       PROVE  TypeOK'
  BY <1>12 DEF Crash
<1>13. CASE Damage
  BY <1>13 DEF Damage
<1>14. CASE UNCHANGED vars
  BY <1>14 DEF vars
<1> QED
  BY <1>1, <1>2, <1>3, <1>4, <1>5, <1>6, <1>7, <1>8, <1>9, <1>10, <1>11, <1>12,
     <1>13, <1>14
     DEF Next, SaveStep

(* The state keeps its types, and the lock is always owned by the process  *)
(* in the middle of writing or removing (acquire_json_file_lock and Drop), *)
(* whatever the number of processes, retries, failures and crashes.        *)
THEOREM TypeCorrect == Spec => []TypeOK
BY TypeInit, TypeNext, PTL DEF Spec

-----------------------------------------------------------------------------
LEMMA RankInit == Init => RankInv
<1> SUFFICES ASSUME Init
             PROVE  RankInv
  OBVIOUS
<1> USE SidecarAssumption DEF Init, Processes
<1>1. \A p \in Processes : pc[p] \notin {"write", "backup"} /\ cached[p] = Unknown
  OBVIOUS
<1>2. BackupNotNewer
  BY InitialFile DEF BackupNotNewer
<1>3. /\ IsGood(primary) => primary.gen <= highest
      /\ IsGood(backup) => backup.gen <= highest
  BY InitialFile
<1>4. \A p \in Processes : pc[p] # "write" /\ pc[p] # "backup"
  BY <1>1
<1> HIDE DEF Init
<1> QED
  BY <1>1, <1>2, <1>3, <1>4 DEF RankInv

LEMMA RankNext == TypeOK /\ TypeOK' /\ RankInv /\ [Next]_vars => RankInv'
<1> SUFFICES ASSUME TypeOK, TypeOK', RankInv, [Next]_vars
             PROVE  RankInv'
  OBVIOUS
<1> USE SidecarAssumption, Files
    DEF TypeOK, RankInv, BackupNotNewer, Processes, Locked, Goto, Mishap, Unlock,
        content, saving, history
<1>1. ASSUME NEW p \in Savers, Begin(p)
      PROVE  RankInv'
  BY <1>1 DEF Begin
<1>2. ASSUME NEW p \in Savers, Exists(p)
      PROVE  RankInv'
  BY <1>2 DEF Exists
<1>3. ASSUME NEW p \in Savers, Read(p)
      PROVE  RankInv'
  BY <1>3 DEF Read, Loaded
<1>4. ASSUME NEW p \in Savers, Recover(p)
      PROVE  RankInv'
  <2>1. primary' = primary \/ (~IsGood(primary) /\ primary' = backup)
    BY <1>4 DEF Recover, Repair, Current
  <2>2. \A q \in Processes : pc'[q] \notin Locked
    BY <1>4 DEF Recover
  <2>3. cached' = cached \/ (IsGood(Current) /\ cached' = [cached EXCEPT ![p] = Current.gen])
    BY <1>4 DEF Recover, Loaded
  <2> QED
    BY <1>4, <2>1, <2>2, <2>3 DEF Recover, Current
<1>5. ASSUME NEW p \in Savers, Compare(p)
      PROVE  RankInv'
  <2>1. CASE Stale(p)
    BY <1>5, <2>1 DEF Compare, Stale, Repair, Current
  <2>2. CASE Fresh(p)
    BY <1>5, <2>2 DEF Compare, Fresh, Repair, Current
  <2>3. CASE Recreate(p)
    BY <1>5, <2>3 DEF Compare, Recreate, IsGood
  <2>4. CASE Unreadable(p)
    BY <1>5, <2>4 DEF Compare, Unreadable
  <2> QED
    BY <1>5, <2>1, <2>2, <2>3, <2>4 DEF Compare
<1>6. ASSUME NEW p \in Savers, WritePrimary(p)
      PROVE  RankInv'
  BY <1>6 DEF WritePrimary, Replaced
<1>7. ASSUME NEW p \in Savers, WriteBackup(p)
      PROVE  RankInv'
  BY <1>7 DEF WriteBackup
<1>8. ASSUME NEW p \in Savers, Revalidate(p)
      PROVE  RankInv'
  BY <1>8 DEF Revalidate
<1>9. ASSUME NEW p \in Savers, WriteFails(p)
      PROVE  RankInv'
  <2>1. CASE Goto(p, "write", "idle")
    BY <1>9, <2>1 DEF WriteFails, Replaced
  <2>2. CASE Goto(p, "backup", "idle")
    BY <1>9, <2>2 DEF WriteFails
  <2> QED
    BY <1>9, <2>1, <2>2 DEF WriteFails
<1>10. ASSUME NEW p \in Removers, Remove(p)
       PROVE  RankInv'
  BY <1>10 DEF Remove
<1>11. ASSUME NEW p \in Removers, RemoveBackup(p)
       PROVE  RankInv'
  BY <1>11 DEF RemoveBackup
<1>12. ASSUME NEW p \in Processes, Crash(p)
       PROVE  RankInv'
  BY <1>12 DEF Crash
<1>13. CASE Damage
  BY <1>13 DEF Damage
<1>14. CASE UNCHANGED vars
  BY <1>14 DEF vars
<1> QED
  BY <1>1, <1>2, <1>3, <1>4, <1>5, <1>6, <1>7, <1>8, <1>9, <1>10, <1>11, <1>12,
     <1>13, <1>14
     DEF Next, SaveStep

(* The backup never runs ahead of the primary (write_json_file_with_backup *)
(* refreshes it last), through repairs, failed writes, removals and        *)
(* crashes of any number of processes.                                     *)
THEOREM BackupNeverNewer == Spec => []BackupNotNewer
<1>1. RankInv => BackupNotNewer
  BY DEF RankInv
<1> QED
  BY TypeInit, TypeNext, RankInit, RankNext, <1>1, PTL DEF Spec

-----------------------------------------------------------------------------
LEMMA ContentInit == InitialGeneration > 0 /\ Init => ContentInv
<1> SUFFICES ASSUME InitialGeneration > 0, Init
             PROVE  ContentInv
  OBVIOUS
<1>1. 1 <= highest /\ acknowledged = {} /\ primary = Initial /\ backup = Initial
  BY SidecarAssumption DEF Init
<1>2. \A p \in Processes : pc[p] = "idle" \/ pc[p] = "remove"
  BY SidecarAssumption DEF Init, Processes
<1>3. FilesAgree
  BY <1>1, InitialFile, SidecarAssumption DEF FilesAgree
<1>4. \A p \in Processes : Covers(p)
  BY <1>2 DEF Covers
<1> QED
  BY <1>1, <1>3, <1>4 DEF ContentInv

(* What replaces the primary, if not a reused generation, is newer than    *)
(* anything written, and has a backup behind it.                           *)
LEMMA ReplacedNew ==
  ASSUME TypeOK, NEW p \in Processes, pc[p] = "write", Covers(p), 1 <= highest,
         Replaced(p), ~reused'
  PROVE  highest < target[p] /\ IsGood(backup)
<1>1. target[p] \in Nat /\ highest \in Nat
  BY DEF TypeOK
<1>2. ~(target[p] <= highest)
  BY DEF Replaced
<1>3. ~IsGood(backup) => target[p] = 1
  BY DEF Covers
<1> QED
  BY <1>1, <1>2, <1>3

(* Until a generation is reused, whoever passes the fence has read what it *)
(* is about to overwrite, and only what is newer than anything remembered  *)
(* is written.                                                             *)
LEMMA AgreeNext ==
  ASSUME TypeOK, TypeOK', RankInv, RankInv', FilesAgree, \A p \in Processes : Covers(p),
         1 <= highest, ~reused', [Next]_vars
  PROVE  FilesAgree' /\ \A q \in Processes : Covers(q)'
<1> DEFINE Goal == FilesAgree' /\ \A q \in Processes : Covers(q)'
<1> USE SidecarAssumption, Files
    DEF TypeOK, RankInv, FilesAgree, Covers, Processes, Locked, Goto, Mishap, Unlock,
        content, saving, history
<1>1. ASSUME NEW p \in Savers, Begin(p)
      PROVE  Goal
  BY <1>1 DEF Begin
<1>2. ASSUME NEW p \in Savers, Exists(p)
      PROVE  Goal
  <2>1. primary.kind = "missing" /\ backup.kind = "missing" => ~IsGood(primary) /\ ~IsGood(backup)
    BY DEF IsGood
  <2> QED
    BY <1>2, <2>1 DEF Exists
<1>3. ASSUME NEW p \in Savers, Read(p)
      PROVE  Goal
  BY <1>3 DEF Read, Loaded
<1>4. ASSUME NEW p \in Savers, Recover(p)
      PROVE  Goal
  <2>1. primary' = primary \/ (~IsGood(primary) /\ primary' = backup)
    BY <1>4 DEF Recover, Repair, Current
  <2>2. FilesAgree'
    BY <1>4, <2>1 DEF Recover
  <2>3. CASE IsGood(Current)
    BY <1>4, <2>1, <2>3 DEF Recover, Loaded, Current
  <2>4. CASE ~IsGood(Current)
    BY <1>4, <2>1, <2>4 DEF Recover
  <2> QED
    BY <2>2, <2>3, <2>4
<1>5. ASSUME NEW p \in Savers, Compare(p)
      PROVE  Goal
  <2>1. CASE Stale(p)
    BY <1>5, <2>1 DEF Compare, Stale, Repair, Current
  <2>2. CASE Fresh(p)
    <3>1. IsGood(backup) /\ Current.value \subseteq merged[p] /\ backup.value \subseteq Current.value
      BY <1>5, <2>2 DEF Compare, Fresh, Expects, Current
    <3>2. primary' = primary \/ (~IsGood(primary) /\ primary' = backup)
      BY <2>2 DEF Fresh, Repair, Current
    <3> QED
      BY <1>5, <2>2, <3>1, <3>2 DEF Compare, Fresh
  <2>3. CASE Recreate(p)
    BY <1>5, <2>3 DEF Compare, Recreate, IsGood
  <2>4. CASE Unreadable(p)
    BY <1>5, <2>4 DEF Compare, Unreadable
  <2> QED
    BY <1>5, <2>1, <2>2, <2>3, <2>4 DEF Compare
<1>6. ASSUME NEW p \in Savers, WritePrimary(p)
      PROVE  Goal
  <2>1. highest < target[p] /\ IsGood(backup)
    BY <1>6, ReplacedNew DEF WritePrimary
  <2>2. \A q \in Processes : cached[q] # target[p]
    BY <2>1
  <2>3. IsGood(primary') /\ primary'.gen = target[p] /\ primary'.value = merged[p]
    BY <1>6 DEF WritePrimary, Replaced
  <2>4. FilesAgree'
    BY <1>6, <2>1, <2>3 DEF WritePrimary
  <2>5. \A q \in Processes : Covers(q)'
    BY <1>6, <2>1, <2>2, <2>3 DEF WritePrimary
  <2> QED
    BY <2>4, <2>5
<1>7. ASSUME NEW p \in Savers, WriteBackup(p)
      PROVE  Goal
  BY <1>7 DEF WriteBackup
<1>8. ASSUME NEW p \in Savers, Revalidate(p)
      PROVE  Goal
  BY <1>8 DEF Revalidate
<1>9. ASSUME NEW p \in Savers, WriteFails(p)
      PROVE  Goal
  <2>1. CASE Goto(p, "write", "idle") /\ primary' = primary
    BY <1>9, <2>1 DEF WriteFails
  <2>2. CASE Goto(p, "write", "idle") /\ Replaced(p)
    <3>1. highest < target[p] /\ IsGood(backup)
      BY <2>2, ReplacedNew
    <3>2. \A q \in Processes : cached[q] # target[p]
      BY <3>1
    <3>3. IsGood(primary') /\ primary'.gen = target[p] /\ primary'.value = merged[p]
      BY <1>9, <2>2 DEF Replaced
    <3> QED
      BY <1>9, <2>2, <3>1, <3>2, <3>3 DEF WriteFails
  <2>3. CASE Goto(p, "backup", "idle")
    BY <1>9, <2>3 DEF WriteFails
  <2> QED
    BY <1>9, <2>1, <2>2, <2>3 DEF WriteFails
<1>10. ASSUME NEW p \in Removers, Remove(p)
       PROVE  Goal
  BY <1>10 DEF Remove
<1>11. ASSUME NEW p \in Removers, RemoveBackup(p)
       PROVE  Goal
  BY <1>11 DEF RemoveBackup
<1>12. ASSUME NEW p \in Processes, Crash(p)
       PROVE  Goal
  BY <1>12 DEF Crash
<1>13. CASE Damage
  BY <1>13 DEF Damage
<1>14. CASE UNCHANGED vars
  BY <1>14 DEF vars
<1> QED
  BY <1>1, <1>2, <1>3, <1>4, <1>5, <1>6, <1>7, <1>8, <1>9, <1>10, <1>11, <1>12,
     <1>13, <1>14
     DEF Next, SaveStep

(* History only goes on.                                                   *)
LEMMA HistoryNext ==
  ASSUME TypeOK, [Next]_vars
  PROVE  highest <= highest' /\ (reused => reused')
<1> USE DEF TypeOK, history, Processes
<1> QED
  BY DEF Next, SaveStep, vars, Begin, Exists, Read, Recover, Compare, WritePrimary, Replaced,
         WriteBackup, Revalidate, WriteFails, Remove, RemoveBackup, Crash, Damage

LEMMA ContentNext ==
  TypeOK /\ TypeOK' /\ RankInv /\ RankInv' /\ ContentInv /\ [Next]_vars => ContentInv'
<1> SUFFICES ASSUME TypeOK, TypeOK', RankInv, RankInv', ContentInv, [Next]_vars
             PROVE  ContentInv'
  OBVIOUS
<1>1. highest <= highest' /\ (reused => reused')
  BY HistoryNext
<1>2. 1 <= highest'
  BY <1>1 DEF ContentInv, TypeOK
<1>3. ASSUME ~reused'
      PROVE  FilesAgree' /\ \A q \in Processes : Covers(q)'
  BY <1>1, <1>3, AgreeNext DEF ContentInv
<1> QED
  BY <1>2, <1>3 DEF ContentInv

(* What a save has acknowledged is found by the next reader, in the        *)
(* primary or in the backup, through stale saves, crashes, failed writes   *)
(* and damage (the fence of save_versioned_json_file_with_fence), as long  *)
(* as no generation is used twice; provided that the file existed at first.*)
THEOREM AcknowledgedAlwaysSurvive ==
  ASSUME InitialGeneration > 0
  PROVE  Spec => []AcknowledgedSurvive
<1>1. ContentInv => AcknowledgedSurvive
  BY DEF ContentInv, FilesAgree, AcknowledgedSurvive, Current
<1>2. Init => ContentInv
  BY ContentInit
<1> QED
  BY TypeInit, TypeNext, RankInit, RankNext, <1>2, ContentNext, <1>1, PTL DEF Spec

=============================================================================
