----------------------------- MODULE SidecarStore -----------------------------
(***************************************************************************)
(* One versioned sidecar file and its backup, shared by the processes of   *)
(* one root: the continuation journal.  To save, a process loads the file, *)
(* merges what it has in memory, takes the file's lock, compares the       *)
(* file's generation with the one it remembers, writes the primary and     *)
(* then the backup.  A primary that cannot be read is repaired from the    *)
(* backup.  A command that removes the last profile removes both files.    *)
(*                                                                         *)
(* Each process has one thread that saves this file, as the proxy has; the *)
(* generation cache, a static of the process, is therefore the thread's.   *)
(* Files are replaced by renaming, so that readers without the lock see    *)
(* whole contents.  A content is the set of updates it reflects; merging   *)
(* keeps the newer entry of each key, which on such sets is union.         *)
(***************************************************************************)
EXTENDS Naturals

CONSTANTS
  Savers,            \* the processes that save
  Removers,          \* the processes that remove the file
  Updates,           \* the updates to be saved
  InitialGeneration, \* the generation of the file at the start, 0 for none
  RetryLimit,        \* RUNTIME_SIDECAR_STALE_SAVE_RETRY_LIMIT
  MaxMishaps,        \* bound on crashes, failed writes and damaged files
  Unknown,           \* no generation is remembered
  NoOne              \* the owner of a free lock

Processes == Savers \cup Removers

ASSUME SidecarAssumption ==
  /\ Savers \cap Removers = {}
  /\ InitialGeneration \in Nat
  /\ RetryLimit \in Nat
  /\ MaxMishaps \in Nat
  /\ Unknown \notin Nat
  /\ NoOne \notin Processes

VARIABLES
  primary,      \* the file
  backup,       \* its last-good copy
  lock,         \* the owner of the file's lock
  pc,           \* the next step of each process
  cached,       \* RUNTIME_SIDECAR_GENERATION_CACHE of each process
  memory,       \* the updates each process has in memory
  merged,       \* the content each is about to write
  target,       \* the generation it will have
  tries,        \* the attempts of each at this save
  issued,       \* the updates that have come up
  mishaps,      \* the crashes, failed writes and damaged files so far
  acknowledged, \* the updates whose save has returned Ok
  highest,      \* the highest generation ever written
  reused        \* whether a generation has been written for a second time

content == <<primary, backup>>
saving == <<cached, memory, merged, target, tries, issued>>
history == <<acknowledged, highest, reused>>
vars == <<content, lock, pc, saving, mishaps, history>>

File == [kind : {"missing", "broken", "good"}, gen : Nat, value : SUBSET Updates]

Missing == [kind |-> "missing", gen |-> 0, value |-> {}]
Broken == [kind |-> "broken", gen |-> 0, value |-> {}]
Good(g, v) == [kind |-> "good", gen |-> g, value |-> v]

IsGood(f) == f.kind = "good"

SaverPC == {"idle", "exists", "read", "recover", "compare", "write", "backup"}
RemoverPC == {"remove", "removeBackup", "done"}
Locked == {"write", "backup", "removeBackup"}

Goto(p, from, to) == pc[p] = from /\ pc' = [pc EXCEPT ![p] = to]

Mishap == mishaps < MaxMishaps /\ mishaps' = mishaps + 1

Unlock(p) == lock' = IF lock = p THEN NoOne ELSE lock

-----------------------------------------------------------------------------
Initial == IF InitialGeneration = 0 THEN Missing ELSE Good(InitialGeneration, {})

Init ==
  /\ primary = Initial
  /\ backup = Initial
  /\ lock = NoOne
  /\ pc = [p \in Processes |-> IF p \in Savers THEN "idle" ELSE "remove"]
  /\ cached = [p \in Processes |-> Unknown]
  /\ memory = [p \in Processes |-> {}]
  /\ merged = [p \in Processes |-> {}]
  /\ target = [p \in Processes |-> 0]
  /\ tries = [p \in Processes |-> 0]
  /\ issued = {}
  /\ mishaps = 0
  /\ acknowledged = {}
  /\ highest = InitialGeneration
  /\ reused = FALSE

-----------------------------------------------------------------------------
(* An update comes up, and a save of all that is in memory begins.         *)
Begin(p) ==
  /\ Goto(p, "idle", "exists")
  /\ \E u \in Updates \ issued :
       /\ issued' = issued \cup {u}
       /\ memory' = [memory EXCEPT ![p] = @ \cup {u}]
  /\ tries' = [tries EXCEPT ![p] = 0]
  /\ UNCHANGED <<content, lock, cached, merged, target, mishaps, history>>

(* The load: without either file nothing is read, and what generation is   *)
(* remembered does not change.                                             *)
Exists(p) ==
  /\ \/ /\ primary.kind = "missing" /\ backup.kind = "missing"
        /\ Goto(p, "exists", "compare")
        /\ merged' = [merged EXCEPT ![p] = memory[p]]
     \/ /\ primary.kind # "missing" \/ backup.kind # "missing"
        /\ Goto(p, "exists", "read")
        /\ UNCHANGED merged
  /\ UNCHANGED <<content, lock, cached, memory, target, tries, issued, mishaps, history>>

Loaded(p, f) ==
  /\ merged' = [merged EXCEPT ![p] = memory[p] \cup f.value]
  /\ cached' = [cached EXCEPT ![p] = f.gen]

(* A primary that cannot be read, or that is replaced while it is being    *)
(* opened, is read again under the lock.                                   *)
Read(p) ==
  /\ \/ /\ IsGood(primary)
        /\ Goto(p, "read", "compare")
        /\ Loaded(p, primary)
     \/ /\ Goto(p, "read", "recover")
        /\ UNCHANGED <<merged, cached>>
  /\ UNCHANGED <<content, lock, memory, target, tries, issued, mishaps, history>>

(* The file as the lock's owner reads it, and the repair of the primary,   *)
(* which is only attempted.                                                *)
Current == IF IsGood(primary) THEN primary ELSE backup

Repair ==
  \/ primary' = Current /\ UNCHANGED mishaps
  \/ ~IsGood(primary) /\ Mishap /\ UNCHANGED primary

(* Under the lock, for the one step this takes.                            *)
Recover(p) ==
  /\ lock = NoOne
  /\ \/ /\ IsGood(Current)
        /\ Goto(p, "recover", "compare")
        /\ Loaded(p, Current)
        /\ Repair
     \/ /\ ~IsGood(Current)
        /\ Goto(p, "recover", "idle")
        /\ UNCHANGED <<merged, cached, primary, mishaps>>
  /\ UNCHANGED <<backup, lock, memory, target, tries, issued, history>>

-----------------------------------------------------------------------------
(* The fence.  Mutant: the generation on disk is always the expected one.  *)
ExpectsAnything(p) == TRUE

(* A process that remembers no generation expects the one on disk.         *)
Expects(p) == cached[p] \in {Unknown, Current.gen}

(* Mutant: a refused save is compared again, without being loaded.         *)
StaleNotReloaded(p) ==
  /\ IsGood(Current)
  /\ ~Expects(p)
  /\ Repair
  /\ Goto(p, "compare", "compare")
  /\ UNCHANGED <<lock, cached, target, tries>>

(* Refused: the save starts again with a load, within the limit.           *)
Stale(p) ==
  /\ IsGood(Current)
  /\ ~Expects(p)
  /\ Repair
  /\ Goto(p, "compare", IF tries[p] < RetryLimit THEN "exists" ELSE "idle")
  /\ tries' = [tries EXCEPT ![p] = @ + 1]
  /\ UNCHANGED <<lock, cached, target>>

Fresh(p) ==
  /\ IsGood(Current)
  /\ Expects(p)
  /\ Repair
  /\ Goto(p, "compare", "write")
  /\ target' = [target EXCEPT ![p] = Current.gen + 1]
  /\ lock' = p
  /\ UNCHANGED <<cached, tries>>

(* Both files are gone: what is remembered is forgotten, and generations   *)
(* begin anew.                                                             *)
Recreate(p) ==
  /\ primary.kind = "missing" /\ backup.kind = "missing"
  /\ Goto(p, "compare", "write")
  /\ target' = [target EXCEPT ![p] = 1]
  /\ cached' = [cached EXCEPT ![p] = IF @ \in {Unknown, 0} THEN @ ELSE Unknown]
  /\ lock' = p
  /\ UNCHANGED <<primary, tries, mishaps>>

Unreadable(p) ==
  /\ ~IsGood(Current)
  /\ primary.kind # "missing" \/ backup.kind # "missing"
  /\ Goto(p, "compare", "idle")
  /\ UNCHANGED <<primary, lock, cached, target, tries, mishaps>>

Compare(p) ==
  /\ lock = NoOne
  /\ Stale(p) \/ Fresh(p) \/ Recreate(p) \/ Unreadable(p)
  /\ UNCHANGED <<backup, memory, merged, issued, history>>

(* Mutant: the backup is written first.                                    *)
WriteBackupFirst(p) ==
  /\ Goto(p, "write", "backup")
  /\ backup' = Good(target[p], merged[p])
  /\ UNCHANGED <<primary, lock, saving, mishaps, history>>

Replaced(p) ==
  /\ primary' = Good(target[p], merged[p])
  /\ highest' = IF target[p] > highest THEN target[p] ELSE highest
  /\ reused' = (reused \/ target[p] <= highest)

WritePrimary(p) ==
  /\ Goto(p, "write", "backup")
  /\ Replaced(p)
  /\ UNCHANGED <<backup, lock, saving, mishaps, acknowledged>>

(* The primary is read again and copied; the save has succeeded.           *)
WriteBackup(p) ==
  /\ IsGood(primary)
  /\ Goto(p, "backup", "idle")
  /\ backup' = primary
  /\ cached' = [cached EXCEPT ![p] = target[p]]
  /\ acknowledged' = acknowledged \cup memory[p]
  /\ Unlock(p)
  /\ UNCHANGED <<primary, memory, merged, target, tries, issued, mishaps, highest, reused>>

(* A write fails, before it has replaced its file or, when the directory   *)
(* cannot be synchronised, after.                                          *)
WriteFails(p) ==
  /\ Mishap
  /\ \/ /\ Goto(p, "write", "idle")
        /\ \/ UNCHANGED <<primary, highest, reused>>
           \/ Replaced(p)
        /\ UNCHANGED backup
     \/ /\ Goto(p, "backup", "idle")
        /\ backup' \in {backup, IF IsGood(primary) THEN primary ELSE backup}
        /\ UNCHANGED <<primary, highest, reused>>
  /\ Unlock(p)
  /\ UNCHANGED <<saving, acknowledged>>

(* The primary has been damaged since it was written.                      *)
Revalidate(p) ==
  /\ ~IsGood(primary)
  /\ Goto(p, "backup", "idle")
  /\ Unlock(p)
  /\ UNCHANGED <<content, saving, mishaps, history>>

-----------------------------------------------------------------------------
(* Removal of both files, the primary first, under the lock; the backup    *)
(* stays if the primary cannot be removed.                                 *)
Remove(p) ==
  /\ lock = NoOne
  /\ \/ /\ Goto(p, "remove", "removeBackup")
        /\ lock' = p
        /\ primary' = Missing
        /\ acknowledged' = {}
        /\ UNCHANGED mishaps
     \/ /\ Goto(p, "remove", "done")
        /\ Mishap
        /\ UNCHANGED <<lock, primary, acknowledged>>
  /\ UNCHANGED <<backup, saving, highest, reused>>

RemoveBackup(p) ==
  /\ Goto(p, "removeBackup", "done")
  /\ \/ backup' = Missing /\ UNCHANGED mishaps
     \/ Mishap /\ UNCHANGED backup
  /\ Unlock(p)
  /\ UNCHANGED <<primary, saving, history>>

-----------------------------------------------------------------------------
(* A process dies, and another takes its place; the lock dies with it.     *)
Crash(p) ==
  /\ pc[p] \notin {"remove", "done"}
  /\ Mishap
  /\ pc' = [pc EXCEPT ![p] = IF p \in Savers THEN "idle" ELSE "done"]
  /\ Unlock(p)
  /\ memory' = [memory EXCEPT ![p] = {}]
  /\ cached' = [cached EXCEPT ![p] = Unknown]
  /\ merged' = [merged EXCEPT ![p] = {}]
  /\ UNCHANGED <<content, target, tries, issued, history>>

(* The primary becomes unreadable.                                         *)
Damage ==
  /\ IsGood(primary)
  /\ Mishap
  /\ primary' = Broken
  /\ UNCHANGED <<backup, lock, pc, saving, history>>

-----------------------------------------------------------------------------
SaveStep(p) ==
  \/ Exists(p) \/ Read(p) \/ Recover(p) \/ Compare(p)
  \/ WritePrimary(p) \/ WriteBackup(p) \/ Revalidate(p)

Next ==
  \/ \E p \in Savers : Begin(p) \/ SaveStep(p) \/ WriteFails(p)
  \/ \E p \in Removers : Remove(p) \/ RemoveBackup(p)
  \/ \E p \in Processes : Crash(p)
  \/ Damage

Spec == Init /\ [][Next]_vars

(* A save goes on, and gets the file's lock in the end; so does a removal  *)
(* that has begun.                                                         *)
Fairness ==
  /\ \A p \in Savers : SF_vars(SaveStep(p))
  /\ \A p \in Removers : WF_vars(RemoveBackup(p))

FairSpec == Spec /\ Fairness

-----------------------------------------------------------------------------
(* Types of the variables; the lock is owned by whoever is in the middle   *)
(* of writing or removing, and by no one else.                             *)
TypeOK ==
  /\ primary \in File
  /\ backup \in File
  /\ lock \in Processes \cup {NoOne}
  /\ pc \in [Processes -> SaverPC \cup RemoverPC]
  /\ \A p \in Processes : pc[p] \in IF p \in Savers THEN SaverPC ELSE RemoverPC
  /\ \A p \in Processes : lock = p <=> pc[p] \in Locked
  /\ cached \in [Processes -> Nat \cup {Unknown}]
  /\ memory \in [Processes -> SUBSET Updates]
  /\ merged \in [Processes -> SUBSET Updates]
  /\ target \in [Processes -> Nat]
  /\ tries \in [Processes -> Nat]
  /\ issued \subseteq Updates
  /\ mishaps \in Nat
  /\ acknowledged \subseteq Updates
  /\ highest \in Nat
  /\ reused \in BOOLEAN

(* A stale writer never overwrites a newer state, and a crash, a failed    *)
(* write or a damaged primary never takes away what a save has             *)
(* acknowledged: the next reader finds it in the primary or, failing that, *)
(* in the backup.  This ends with the first generation number that is used *)
(* twice, because the fence tells contents apart by it.                    *)
AcknowledgedSurvive == ~reused => acknowledged \subseteq Current.value

(* The backup never runs ahead of the primary: it is refreshed only after  *)
(* the primary is durable, through repairs, failures and removals.         *)
BackupNotNewer == IsGood(primary) /\ IsGood(backup) => backup.gen <= primary.gen

(* Every save ends, with or without success: no refused, failed or         *)
(* abandoned save leaves the lock behind.                                  *)
SavesEnd == \A p \in Savers : pc[p] # "idle" ~> pc[p] = "idle"

=============================================================================
