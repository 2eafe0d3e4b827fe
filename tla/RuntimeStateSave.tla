--------------------------- MODULE RuntimeStateSave ---------------------------
(***************************************************************************)
(* Background saving of the runtime state.  A request thread changes the   *)
(* state under the runtime lock and schedules a save; requests for the     *)
(* same state file are coalesced into one pending job.  A worker takes the *)
(* job, reads the state back, and, under the state-file lock shared with   *)
(* other processes, merges it with the files and writes them one by one,   *)
(* giving up whenever a newer revision has been published.  Bindings that  *)
(* own a continuation also go to a journal, written by a second worker.    *)
(*                                                                         *)
(* Data: an update is a member of Mutations (made by this process) or of   *)
(* Others (made by another one), and a section of the state is the set of  *)
(* updates it reflects.  The merge functions keep the newer of two entries *)
(* key by key, which on such sets is union.                                *)
(***************************************************************************)
EXTENDS Naturals

CONSTANTS
  Mutations,    \* the changes made by this process, each by its own thread
  Kind,         \* the RuntimeStateMutation of each, by its number
  Probes,       \* those made by the probe refresh worker
  Others,       \* the updates of other processes
  OtherSection, \* the section each of those changes
  Debounce,     \* the delay of the save of a hot mutation
  RetryLimit,   \* RUNTIME_SIDECAR_STALE_SAVE_RETRY_LIMIT
  MaxFaults,    \* bound on the number of failed reads and writes
  MaxCrashes,   \* bound on the number of crashes
  NoJob,        \* the absence of a pending job
  NoOne         \* the owner of a free lock

Sections == {"core", "continuations", "scores", "usage", "backoffs"}

(* What is on disk besides: the bindings inside state.json, whose other    *)
(* fields are the core section, and the continuation journal.              *)
Stored == Sections \cup {"bindings", "journal"}

Updates == Mutations \cup Others

ASSUME StateSaveAssumption ==
  /\ Mutations \cap Others = {}
  /\ Kind \in [Mutations -> 0..31]
  /\ Probes \subseteq {m \in Mutations : Kind[m] = 23}
  /\ OtherSection \in [Others -> Sections]
  /\ Debounce \in Nat /\ RetryLimit \in Nat /\ MaxFaults \in Nat /\ MaxCrashes \in Nat
  /\ NoOne \notin Mutations \cup Others \cup {"worker"}
  /\ "worker" \notin Mutations \cup Others

-----------------------------------------------------------------------------
(* The mutation policy: which sections a kind of mutation saves, whether   *)
(* it is journaled, and whether its save is delayed by the debounce.       *)
(* Writing state.json with continuations always rewrites its bindings from *)
(* them, so a Full state section adds nothing to a Core one.               *)
Saves(s, k) ==
  CASE s = "core"          -> k \in (0..2) \cup (4..22)
    [] s = "continuations" -> k \in (0..2) \cup (4..21)
    [] s = "scores"        -> k \in (0..2) \cup (4..7) \cup {20, 22} \cup (27..31)
    [] s = "usage"         -> k \in (0..2) \cup {20, 23, 24}
    [] s = "backoffs"      -> k \in (0..3) \cup {20} \cup (22..28)

Journaled(k) == k \in {4, 5, 7, 9, 11, 13, 14, 15, 18, 19, 20}

Hot(k) == k \in {4, 5} \cup (8..12) \cup (14..17)

SectionsOf(m) == {s \in Sections : Saves(s, Kind[m])}

-----------------------------------------------------------------------------
VARIABLES
  live,        \* the state in memory, by section
  disk,        \* the files, by section
  runtimeLock, \* the owner of the runtime lock
  fileLock,    \* the owner of the state-file lock
  latest,      \* state_save_revision
  pc,          \* the next step of each mutating thread
  revOf,       \* the revision each thread has published
  timer,       \* the time left until its save is to be due
  snapOf,      \* the snapshot each probe has cloned
  pending,     \* the pending save job, or NoJob
  journal,     \* the pending journal job: "none", "waiting" or "due"
  jpc,         \* the next step of the journal worker
  jsnap,       \* the continuations it read
  wpc,         \* the next step of the save worker
  job,         \* its job
  snap,        \* the sections it read from memory
  prepared,    \* the merged sections it is about to write
  todo,        \* the sections it has yet to write
  tries,       \* its attempts for this job
  gen,         \* the generation of each file
  cached,      \* the generation this process has last seen of each file
  opc,         \* the next step of each other process
  faults,      \* the number of failed reads and writes
  crashes,     \* the number of crashes
  superseded,  \* whether a save has been given up for a newer revision
  waiting,     \* the requests enqueued since the worker last took a job
  displaced    \* those of them that another request has put out of the queue

memory == <<live, runtimeLock>>
threads == <<pc, revOf, timer, snapOf>>
requests == <<pending, waiting, displaced>>
queue == <<latest, requests>>
journaling == <<journal, jpc, jsnap>>
worker == <<wpc, job, snap, prepared, todo, tries>>
files == <<disk, gen>>
history == <<faults, crashes, superseded>>
vars == <<memory, files, fileLock, cached, queue, threads, journaling, worker,
          opc, history>>

Unprepared == [s \in Sections \cup {"bindings"} |-> {}]

Blank == [s \in Sections |-> {}]

ThreadPC == {"new", "publish", "enqueue", "journal", "done", "lost"}
WorkerPC == {"idle", "read", "check", "lock", "recheck", "prepare", "confirm", "write"}

Jobs == [live : BOOLEAN, sections : SUBSET Sections,
         snap : [Sections -> SUBSET Updates], rev : Nat, left : Nat]

ASSUME JobAssumption == NoJob \notin Jobs

Goto(m, from, to) == pc[m] = from /\ pc' = [pc EXCEPT ![m] = to]

(* Every file is there, with what it had been given before; its first      *)
(* creation is a subject of SidecarStore.                                  *)
Init ==
  /\ live = Blank
  /\ disk = [s \in Stored |-> {}]
  /\ runtimeLock = NoOne
  /\ fileLock = NoOne
  /\ latest = 0
  /\ pc = [m \in Mutations |-> "new"]
  /\ revOf = [m \in Mutations |-> 0]
  /\ timer = [m \in Mutations |-> 0]
  /\ snapOf = [m \in Mutations |-> Blank]
  /\ pending = NoJob
  /\ journal = "none"
  /\ jpc = "idle"
  /\ jsnap = {}
  /\ wpc = "idle"
  /\ job = NoJob
  /\ snap = Blank
  /\ prepared = Unprepared
  /\ todo = {}
  /\ tries = 0
  /\ gen = [s \in Sections |-> 0]
  /\ cached = [s \in Sections |-> 0]
  /\ opc = [x \in Others |-> "new"]
  /\ faults = 0
  /\ crashes = 0
  /\ superseded = FALSE
  /\ waiting = {}
  /\ displaced = {}

-----------------------------------------------------------------------------
(* A request thread changes the state and schedules the save, all of it    *)
(* under the runtime lock.                                                 *)
Applied(m) == [s \in Sections |-> IF s \in SectionsOf(m) THEN live[s] \cup {m} ELSE live[s]]

Mutate(m) ==
  /\ m \notin Probes
  /\ runtimeLock = NoOne
  /\ runtimeLock' = m
  /\ live' = Applied(m)
  /\ Goto(m, "new", "publish")
  /\ UNCHANGED <<files, fileLock, cached, queue, revOf, timer, snapOf, journaling, worker, opc, history>>

(* A probe clones the state under the lock, and drops the lock before it   *)
(* schedules the save.                                                     *)
Clone(m) ==
  /\ m \in Probes
  /\ runtimeLock = NoOne
  /\ live' = Applied(m)
  /\ snapOf' = [snapOf EXCEPT ![m] = Applied(m)]
  /\ Goto(m, "new", "publish")
  /\ UNCHANGED <<runtimeLock, files, fileLock, cached, queue, revOf, timer, journaling, worker, opc, history>>

(* The revision is taken, and the deadline set, before the queue's mutex   *)
(* is.                                                                     *)
Publish(m) ==
  /\ Goto(m, "publish", "enqueue")
  /\ latest' = latest + 1
  /\ revOf' = [revOf EXCEPT ![m] = latest + 1]
  /\ timer' = [timer EXCEPT ![m] = IF Hot(Kind[m]) THEN Debounce ELSE 0]
  /\ UNCHANGED <<memory, files, fileLock, cached, requests, snapOf, journaling, worker, opc, history>>

Requested(m) ==
  [live |-> m \notin Probes,
   sections |-> IF m \in Probes THEN Sections ELSE SectionsOf(m),
   snap |-> snapOf[m], rev |-> revOf[m], left |-> timer[m]]

Earlier(t, u) == IF t <= u THEN t ELSE u

(* Mutant: the newer request's sections replace those of the older one.    *)
CoalescedNoUnion(previous, new) ==
  [new EXCEPT !.left = Earlier(@, previous.left),
              !.sections = IF new.live /\ ~previous.live THEN Sections ELSE @]

(* Mutant: the pending job keeps its revision.                             *)
CoalescedOldRev(previous, new) ==
  [new EXCEPT !.left = Earlier(@, previous.left), !.rev = previous.rev,
              !.sections = IF ~new.live THEN @
                           ELSE IF previous.live THEN previous.sections \cup @
                           ELSE Sections]

(* Mutant: every request restarts the debounce.                            *)
CoalescedLater(previous, new) ==
  [new EXCEPT !.sections = IF ~new.live THEN @
                           ELSE IF previous.live THEN previous.sections \cup @
                           ELSE Sections]

(* Two live requests save the sections of both; a live request over a      *)
(* snapshot saves everything; a snapshot replaces whatever was pending.    *)
(* The job takes the newcomer's revision and the earlier deadline.         *)
Coalesced(previous, new) ==
  [new EXCEPT !.left = Earlier(@, previous.left),
              !.sections = IF ~new.live THEN @
                           ELSE IF previous.live THEN previous.sections \cup @
                           ELSE Sections]

Unlocked(m) == IF runtimeLock = m THEN NoOne ELSE runtimeLock

(* History: what a request puts out of the queue when it takes the place   *)
(* of the pending job.  A snapshot drops what was changed after it had     *)
(* been cloned; and a request with an older revision than the pending job  *)
(* has it given up.                                                        *)
Displaced(m) ==
  IF pending = NoJob THEN {}
  ELSE {u \in waiting : \/ revOf[m] < pending.rev
                        \/ m \in Probes /\ \E s \in SectionsOf(u) : u \notin snapOf[m][s]}

Enqueue(m) ==
  /\ Goto(m, "enqueue", IF Journaled(Kind[m]) THEN "journal" ELSE "done")
  /\ pending' = IF pending = NoJob THEN Requested(m)
                ELSE Coalesced(pending, Requested(m))
  /\ waiting' = waiting \cup {m}
  /\ displaced' = displaced \cup Displaced(m)
  /\ runtimeLock' = IF Journaled(Kind[m]) THEN runtimeLock ELSE Unlocked(m)
  /\ UNCHANGED <<live, files, fileLock, cached, latest, revOf, timer, snapOf, journaling, worker, opc, history>>

(* Mutant: no journal job is queued while one is being written.            *)
EnqueueJournalWhenIdle(m) ==
  /\ Goto(m, "journal", "done")
  /\ journal' = IF jpc = "save" THEN journal ELSE IF Hot(Kind[m]) THEN "waiting" ELSE "due"
  /\ runtimeLock' = Unlocked(m)
  /\ UNCHANGED <<live, files, fileLock, cached, queue, revOf, timer, snapOf, jpc, jsnap, worker, opc, history>>

(* The journal job replaces the pending one, its due time included.        *)
EnqueueJournal(m) ==
  /\ Goto(m, "journal", "done")
  /\ journal' = IF Hot(Kind[m]) THEN "waiting" ELSE "due"
  /\ runtimeLock' = Unlocked(m)
  /\ UNCHANGED <<live, files, fileLock, cached, queue, revOf, timer, snapOf, jpc, jsnap, worker, opc, history>>

(* The code keeps instants and compares them with the clock; the time that *)
(* is left is all that shows.  It passes while there is any, for the       *)
(* pending job or for a request on its way to the queue.                   *)
Less(t) == IF t = 0 THEN 0 ELSE t - 1

TimeLeft ==
  \/ pending # NoJob /\ pending.left > 0
  \/ \E m \in Mutations : pc[m] = "enqueue" /\ timer[m] > 0

Tick ==
  /\ TimeLeft
  /\ pending' = IF pending = NoJob THEN NoJob ELSE [pending EXCEPT !.left = Less(@)]
  /\ timer' = [m \in Mutations |-> Less(timer[m])]
  /\ UNCHANGED <<memory, files, fileLock, cached, latest, waiting, displaced, pc, revOf, snapOf,
                 journaling, worker, opc, history>>

JournalDebounceElapses ==
  /\ journal = "waiting"
  /\ journal' = "due"
  /\ UNCHANGED <<memory, files, fileLock, cached, queue, threads, jpc, jsnap, worker, opc, history>>

-----------------------------------------------------------------------------
(* The save worker.  A job that is due leaves the queue; nothing puts it   *)
(* back.                                                                   *)
TakeJob ==
  /\ wpc = "idle"
  /\ pending # NoJob
  /\ pending.left = 0
  /\ job' = pending
  /\ pending' = NoJob
  /\ waiting' = {}
  /\ timer' = [m \in Mutations |-> IF m \in waiting THEN 0 ELSE timer[m]]
  /\ snap' = pending.snap
  /\ tries' = 0
  /\ wpc' = IF pending.live THEN "read" ELSE "check"
  /\ UNCHANGED <<memory, files, fileLock, cached, latest, displaced, pc, revOf, snapOf, journaling, prepared, todo, opc, history>>

(* Mutant: the runtime lock is kept until the save ends.                   *)
ReadLiveKeepsLock ==
  /\ wpc = "read"
  /\ runtimeLock = NoOne
  /\ runtimeLock' = "worker"
  /\ snap' = [s \in Sections |-> IF s \in job.sections THEN live[s] ELSE {}]
  /\ wpc' = "check"
  /\ UNCHANGED <<live, files, fileLock, cached, queue, threads, journaling, job, prepared, todo, tries, opc, history>>

ReadLive ==
  /\ wpc = "read"
  /\ runtimeLock = NoOne
  /\ snap' = [s \in Sections |-> IF s \in job.sections THEN live[s] ELSE {}]
  /\ wpc' = "check"
  /\ UNCHANGED <<memory, files, fileLock, cached, queue, threads, journaling, job, prepared, todo, tries, opc, history>>

(* The revision is compared before the lock, under it, and after the merge. *)
Advance(from, to) == wpc = from /\ job.rev = latest /\ wpc' = to

Check ==
  /\ Advance("check", "lock")
  /\ UNCHANGED <<memory, files, fileLock, cached, queue, threads, journaling, job, snap, prepared, todo, tries, opc, history>>

LockFiles ==
  /\ wpc = "lock"
  /\ fileLock = NoOne
  /\ fileLock' = "worker"
  /\ wpc' = "recheck"
  /\ UNCHANGED <<memory, files, cached, queue, threads, journaling, job, snap, prepared, todo, tries, opc, history>>

Recheck ==
  /\ Advance("recheck", "prepare")
  /\ UNCHANGED <<memory, files, fileLock, cached, queue, threads, journaling, job, snap, prepared, todo, tries, opc, history>>

(* Each section is merged with its file; loading a file notes its          *)
(* generation.  The bindings of state.json follow the merged continuations *)
(* when these are saved, and are the file's own otherwise.                 *)
Merged ==
  [s \in Sections \cup {"bindings"} |->
     IF s \in job.sections THEN disk[s] \cup snap[s]
     ELSE IF s = "bindings"
     THEN IF "continuations" \in job.sections
          THEN disk["continuations"] \cup snap["continuations"] ELSE disk["bindings"]
     ELSE {}]

(* The worker drops its job and all it has read for it.                    *)
Rest ==
  /\ wpc' = "idle"
  /\ job' = NoJob
  /\ snap' = Blank
  /\ prepared' = Unprepared
  /\ todo' = {}
  /\ tries' = 0

WorkerUnlock == fileLock' = IF fileLock = "worker" THEN NoOne ELSE fileLock

Prepare ==
  /\ wpc = "prepare"
  /\ wpc' = "confirm"
  /\ prepared' = Merged
  /\ todo' = job.sections
  /\ cached' = [s \in Sections |-> IF s \in job.sections THEN gen[s] ELSE cached[s]]
  /\ UNCHANGED <<memory, files, fileLock, queue, threads, journaling, job, snap, tries, opc, history>>

(* state.json is read first, then the sidecars.                            *)
ReadBefore(s, t) ==
  LET order == [core |-> 1, continuations |-> 2, scores |-> 3, usage |-> 4, backoffs |-> 5]
  IN order[s] < order[t]

(* A file that the merge needs cannot be read: the job is dropped, those   *)
(* read before it having had their generations noted.                      *)
PrepareFails(s) ==
  /\ wpc = "prepare"
  /\ s \in job.sections
  /\ faults < MaxFaults
  /\ faults' = faults + 1
  /\ Rest
  /\ WorkerUnlock
  /\ cached' = [t \in Sections |->
                 IF t \in job.sections /\ ReadBefore(t, s) THEN gen[t] ELSE cached[t]]
  /\ UNCHANGED <<memory, files, queue, threads, journaling, opc, crashes, superseded>>

Confirm ==
  /\ Advance("confirm", "write")
  /\ UNCHANGED <<memory, files, fileLock, cached, queue, threads, journaling, job, snap, prepared, todo, tries, opc, history>>

GiveUp ==
  /\ wpc \in {"check", "recheck", "confirm"}
  /\ job.rev # latest
  /\ Rest
  /\ WorkerUnlock
  /\ superseded' = TRUE
  /\ UNCHANGED <<memory, files, cached, queue, threads, journaling, opc, faults, crashes>>

(* Mutant: state.json is written before the continuations.                 *)
StateFirst(s, t) ==
  LET order == [core |-> 1, continuations |-> 2, scores |-> 3, usage |-> 4, backoffs |-> 5]
  IN order[s] <= order[t]

(* The order of the writes.                                                *)
Before(s, t) ==
  LET order == [continuations |-> 1, core |-> 2, scores |-> 3, usage |-> 4, backoffs |-> 5]
  IN order[s] <= order[t]

IsNext(s) == s \in todo /\ \A t \in todo : Before(s, t)

(* Writing a section replaces its file; state.json carries the bindings.   *)
Written(s) ==
  [t \in Stored |-> IF t = s \/ (s = "core" /\ t = "bindings") THEN prepared[t] ELSE disk[t]]

Bumped(s) == [gen EXCEPT ![s] = @ + 1]

(* Mutant: a file is written whatever its generation.                      *)
Unfenced(s) == TRUE

(* A sidecar is written only if nobody has written it since it was loaded; *)
(* state.json has no generation.                                           *)
Fenced(s) == s = "core" \/ gen[s] = cached[s]

Persist(s) ==
  /\ wpc = "write"
  /\ IsNext(s)
  /\ Fenced(s)
  /\ disk' = Written(s)
  /\ gen' = Bumped(s)
  /\ cached' = [cached EXCEPT ![s] = gen[s] + 1]
  /\ \/ /\ todo = {s}
        /\ Rest
        /\ WorkerUnlock
     \/ /\ todo # {s}
        /\ todo' = todo \ {s}
        /\ UNCHANGED <<wpc, job, snap, prepared, tries, fileLock>>
  /\ UNCHANGED <<memory, queue, threads, journaling, opc, history>>

(* Mutant: a retry goes back to the first check without leaving the lock.  *)
StaleKeepsLock(s) ==
  /\ wpc = "write"
  /\ IsNext(s)
  /\ ~Fenced(s)
  /\ tries < RetryLimit
  /\ tries' = tries + 1
  /\ wpc' = "check"
  /\ UNCHANGED <<memory, files, fileLock, cached, queue, threads, journaling, job, snap, prepared, todo, opc, history>>

(* A stale sidecar starts the attempt again, within the limit; beyond it,  *)
(* the job is dropped.                                                     *)
Stale(s) ==
  /\ wpc = "write"
  /\ IsNext(s)
  /\ ~Fenced(s)
  /\ WorkerUnlock
  /\ \/ /\ tries < RetryLimit
        /\ tries' = tries + 1
        /\ wpc' = "check"
        /\ prepared' = Unprepared
        /\ todo' = {}
        /\ UNCHANGED <<job, snap, faults>>
     \/ /\ tries >= RetryLimit
        /\ Rest
        /\ faults' = faults + 1
  /\ UNCHANGED <<memory, files, cached, queue, threads, journaling, opc, crashes, superseded>>

(* A write fails, with or without its file replaced: the job is dropped.   *)
WriteFails(s) ==
  /\ wpc = "write"
  /\ IsNext(s)
  /\ Fenced(s)
  /\ faults < MaxFaults
  /\ faults' = faults + 1
  /\ \/ disk' = Written(s) /\ gen' = Bumped(s)
     \/ UNCHANGED files
  /\ Rest
  /\ WorkerUnlock
  /\ UNCHANGED <<memory, cached, queue, threads, journaling, opc, crashes, superseded>>

-----------------------------------------------------------------------------
(* The journal worker reads the continuations when it runs, and merges     *)
(* them with the file in a loop fenced by the file's generation.           *)
TakeJournal ==
  /\ jpc = "idle"
  /\ journal = "due"
  /\ journal' = "none"
  /\ jpc' = "read"
  /\ UNCHANGED <<memory, files, fileLock, cached, queue, threads, jsnap, worker, opc, history>>

ReadJournal ==
  /\ jpc = "read"
  /\ runtimeLock = NoOne
  /\ jsnap' = live["continuations"]
  /\ jpc' = "save"
  /\ UNCHANGED <<memory, files, fileLock, cached, queue, threads, journal, worker, opc, history>>

SaveJournal ==
  /\ jpc = "save"
  /\ jpc' = "idle"
  /\ jsnap' = {}
  /\ \/ /\ disk' = [disk EXCEPT !["journal"] = @ \cup jsnap]
        /\ UNCHANGED faults
     \/ /\ faults < MaxFaults
        /\ faults' = faults + 1
        /\ UNCHANGED disk
  /\ UNCHANGED <<memory, gen, fileLock, cached, queue, threads, journal, worker, opc, crashes, superseded>>

-----------------------------------------------------------------------------
(* Another process saves state.json under the state-file lock, or merges   *)
(* into a sidecar with the fence alone.                                    *)
OtherLock(x) ==
  /\ OtherSection[x] = "core"
  /\ opc[x] = "new"
  /\ fileLock = NoOne
  /\ fileLock' = x
  /\ opc' = [opc EXCEPT ![x] = "saving"]
  /\ UNCHANGED <<memory, files, cached, queue, threads, journaling, worker, history>>

OtherSave(x) ==
  /\ opc[x] = "saving"
  /\ opc' = [opc EXCEPT ![x] = "done"]
  /\ disk' = [disk EXCEPT !["core"] = @ \cup {x}]
  /\ fileLock' = IF fileLock = x THEN NoOne ELSE fileLock
  /\ UNCHANGED <<memory, gen, cached, queue, threads, journaling, worker, history>>

OtherSidecar(x) ==
  LET s == OtherSection[x] IN
  /\ s # "core"
  /\ opc[x] = "new"
  /\ opc' = [opc EXCEPT ![x] = "done"]
  /\ disk' = [disk EXCEPT ![s] = @ \cup {x}]
  /\ gen' = Bumped(s)
  /\ UNCHANGED <<memory, fileLock, cached, queue, threads, journaling, worker, history>>

(* The process dies and starts again from its files.  The continuations it *)
(* restores come from the sidecar, state.json and the journal.             *)
Restored ==
  [s \in Sections |->
     IF s = "continuations" THEN disk[s] \cup disk["bindings"] \cup disk["journal"]
     ELSE disk[s]]

Crash ==
  /\ crashes < MaxCrashes
  /\ crashes' = crashes + 1
  /\ live' = Restored
  /\ runtimeLock' = NoOne
  /\ WorkerUnlock
  /\ latest' = 0
  /\ pending' = NoJob
  /\ waiting' = {}
  /\ displaced' = {}
  /\ pc' = [m \in Mutations |-> IF pc[m] = "new" THEN "new" ELSE "lost"]
  /\ revOf' = [m \in Mutations |-> 0]
  /\ timer' = [m \in Mutations |-> 0]
  /\ snapOf' = [m \in Mutations |-> Blank]
  /\ journal' = "none"
  /\ jpc' = "idle"
  /\ jsnap' = {}
  /\ Rest
  /\ cached' = gen
  /\ UNCHANGED <<files, opc, faults, superseded>>

-----------------------------------------------------------------------------
ThreadStep(m) ==
  Mutate(m) \/ Clone(m) \/ Publish(m) \/ Enqueue(m) \/ EnqueueJournal(m)

WorkerStep ==
  \/ TakeJob \/ ReadLive \/ Check \/ LockFiles \/ Recheck \/ Prepare \/ Confirm
  \/ GiveUp
  \/ \E s \in Sections : Persist(s) \/ Stale(s)

JournalStep == TakeJournal \/ ReadJournal \/ SaveJournal

OtherStep(x) == OtherLock(x) \/ OtherSave(x) \/ OtherSidecar(x)

Next ==
  \/ \E m \in Mutations : ThreadStep(m)
  \/ WorkerStep
  \/ \E s \in Sections : PrepareFails(s) \/ WriteFails(s)
  \/ JournalStep
  \/ Tick \/ JournalDebounceElapses
  \/ \E x \in Others : OtherStep(x)
  \/ Crash

Spec == Init /\ [][Next]_vars

(* The threads of this process run, and its timers elapse.                 *)
Fairness ==
  /\ \A m \in Mutations : WF_vars(ThreadStep(m))
  /\ WF_vars(WorkerStep)
  /\ WF_vars(JournalStep)
  /\ WF_vars(Tick)
  /\ WF_vars(JournalDebounceElapses)

FairSpec == Spec /\ Fairness

-----------------------------------------------------------------------------
(* Types of the variables.                                                 *)
TypeOK ==
  /\ live \in [Sections -> SUBSET Updates]
  /\ disk \in [Stored -> SUBSET Updates]
  /\ runtimeLock \in Mutations \cup {NoOne}
  /\ fileLock \in Others \cup {"worker", NoOne}
  /\ latest \in Nat
  /\ pc \in [Mutations -> ThreadPC]
  /\ revOf \in [Mutations -> Nat]
  /\ timer \in [Mutations -> Nat]
  /\ snapOf \in [Mutations -> [Sections -> SUBSET Updates]]
  /\ pending \in Jobs \cup {NoJob}
  /\ journal \in {"none", "waiting", "due"}
  /\ jpc \in {"idle", "read", "save"}
  /\ jsnap \subseteq Updates
  /\ wpc \in WorkerPC
  /\ job \in Jobs \cup {NoJob}
  /\ wpc # "idle" => job # NoJob
  /\ snap \in [Sections -> SUBSET Updates]
  /\ prepared \in [Sections \cup {"bindings"} -> SUBSET Updates]
  /\ todo \subseteq Sections
  /\ tries \in Nat
  /\ gen \in [Sections -> Nat]
  /\ cached \in [Sections -> Nat]
  /\ opc \in [Others -> {"new", "saving", "done"}]
  /\ faults \in Nat
  /\ crashes \in Nat
  /\ superseded \in BOOLEAN
  /\ waiting \subseteq Mutations
  /\ displaced \subseteq Mutations

(* The bindings of state.json never run ahead of the continuation sidecar, *)
(* at any point where the process may die: no newer state file can be      *)
(* overwritten by an older sidecar at the next start.  This is the reason  *)
(* persist_runtime_state_snapshot_save gives for its order.                *)
BindingsBehindContinuations == disk["bindings"] \subseteq disk["continuations"]

(* What is on disk is never lost: a save neither overwrites an update that *)
(* another process made in the meantime, nor puts back an older state,     *)
(* whatever is retried, abandoned or interrupted.                          *)
NothingOnDiskIsLost == [][\A s \in Stored : disk[s] \subseteq disk'[s]]_vars

(* No request waits beyond its own deadline: until the worker takes its    *)
(* job, that job is pending and due by then, whatever revision, sections   *)
(* or snapshot later requests have given it, and whenever they set their   *)
(* own deadlines.                                                          *)
DeadlinesKept ==
  \A m \in waiting : pending # NoJob /\ pending.left <= timer[m]

(* Nothing is left to do: no thread is scheduling, no job waits or runs.   *)
Quiescent ==
  /\ pending = NoJob /\ wpc = "idle"
  /\ journal = "none" /\ jpc = "idle"
  /\ \A m \in Mutations : pc[m] \in {"new", "done", "lost"}

(* However requests were coalesced, once all is quiet everything in memory *)
(* is on disk but for what a probe's snapshot has displaced, provided no   *)
(* save was abandoned on the way: by a newer revision, a failure or a      *)
(* crash.                                                                  *)
CoalescedSectionsPersisted ==
  Quiescent /\ faults = 0 /\ crashes = 0 /\ ~superseded
    => \A s \in Sections : live[s] \ displaced \subseteq disk[s]

(* Once all is quiet, what the latest mutation was to save is on disk,     *)
(* even if saves before it were abandoned, unless a request overtaken by   *)
(* it, or an older snapshot, has displaced it: the sections it changed,    *)
(* as they are in memory, or for a probe as it has cloned them.            *)
LatestPersisted ==
  Quiescent /\ faults = 0
    => \A m \in Mutations \ displaced :
         pc[m] = "done" /\ revOf[m] = latest
           => \A s \in SectionsOf(m) :
                (IF m \in Probes THEN snapOf[m][s] ELSE live[s]) \subseteq disk[s]

(* A journaled change of ownership survives the abandonment of its save:   *)
(* once all is quiet the journal has it, so the next start restores it.    *)
JournaledPersisted ==
  Quiescent /\ faults = 0
    => \A m \in Mutations :
         pc[m] = "done" /\ Journaled(Kind[m]) => m \in disk["journal"]

(* Runtime state saves do not block request paths: every thread completes  *)
(* its mutation even if another process never leaves the state-file lock.  *)
SavesNeverBlockMutations == \A m \in Mutations : <>(pc[m] = "done")

(* The queues drain, provided that no other process keeps the state-file   *)
(* lock for ever: no lock is left held, and no retry is endless.           *)
QueuesDrain == (\A x \in Others : []<>(opc[x] # "saving")) => <>[]Quiescent

=============================================================================
