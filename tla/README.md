# A verification development for prodex

prodex runs the Codex CLI (and other agent front ends) on a pool of accounts
("profiles").  Its heart is a local HTTP/WebSocket proxy: every request of the
front end is admitted against local limits, given to one of the profiles, sent
upstream, and, while nothing has been committed to the client yet, rotated to
another profile when the first one is out of quota, overloaded or unreachable.
A continuation (a request that names an earlier response, turn or session)
must return to the profile that owns it, so ownership is recorded in memory and
written to disk in the background, from where other prodex processes and the
next start of this one read it back.

The TLA+ modules beside this file model the parts of that proxy that are
concurrent, crash-prone or shared between processes.  Paths below are relative
to `src/`.

## 1. The system: components, state, operations, interaction

| component | state | operations | interacts with |
|---|---|---|---|
| **Request admission** (`crates/prodex-runtime-state/src/admission.rs`, `crates/prodex-app/src/runtime_proxy/lifecycle.rs`) | the proxy-wide active counter, one counter per lane, two revisions, one mutex and condition variable | `try_acquire`, drop of a permit, the waiting loop, `notify_selection_change` | runtime state (ownership facts), every request handler |
| **Profile in-flight limits and the relief wait** (`crates/prodex-runtime-state/src/admission.rs`, `crates/prodex-app/src/runtime_proxy/lifecycle/wait.rs`, `selection/waitable.rs`) | weighted in-flight count per profile, the release revision, the admission condition variable | acquire and drop of an in-flight guard, register / wait / re-register of a relief wait | selection, health, quota |
| **Ingress queue** (`crates/prodex-app/src/runtime_proxy/lifecycle/queue.rs`, `runtime_launch/proxy_startup.rs`) | a bounded deque per route, its condition variable, the shutdown flag | accept, `try_send`, `recv`, `take_expired`, drop of the proxy | accept loop, worker pool, expiry worker, broker |
| **Background state save and continuation journal** (`crates/prodex-app/src/runtime_background/`, `crates/prodex-app/src/runtime_persistence/`, `crates/prodex-runtime-state/src/background.rs`, `mojo/prodex_core/runtime_state_background.mojo`) | the latest revision, one pending job per state file, the due time | schedule (from a snapshot or live), coalesce, take due, merge with disk, persist in order | runtime lock, state-file lock, sidecar store |
| **Sidecar store** (`crates/prodex-app/src/runtime_store/`) | versioned JSON files with a backup, the process-wide generation cache | load with recovery, fenced save, remove | every process on the same root |
| **Continuation bindings, lineage, status** (`crates/prodex-runtime-store/src/continuations/`, `crates/prodex-state/src/lib.rs`, `crates/prodex-app/src/runtime_proxy/lineage/`) | response, turn and session bindings, their status, release epochs | remember, release, mark dead, merge, compact | state save, selection |
| **Selection and affinity** (`runtime_proxy/selection/`, `selection_plan.rs`, `affinity.rs`) | none of its own | candidate order, hard and soft affinity | in-flight, health, quota, bindings |
| **Precommit rotation** (`runtime_proxy/precommit_loop.rs`, `responses/`, `standard/`, `websocket_message/`, `dispatch*`) | the excluded set, attempt counters, deadline of one request | select, attempt, classify, rotate, wait for relief, commit | all of the above |
| **Health: score, backoff, circuit** (`runtime_proxy/health_*.rs`) | per profile and route: score, backoff deadline, circuit state | note failure or success, decay, half-open probe | selection, state save |
| **Probe refresh** (`crates/prodex-app/src/runtime_background/probe_refresh/`) | pending and scheduled sets, a revision | schedule, take, probe, apply, note progress | quota cache, state save |
| **Quota** (`crates/prodex-quota`, `crates/prodex-runtime-quota`, `runtime_proxy/quota/`, `quota_support/`) | usage snapshots, redeem journal | fetch, classify, auto-redeem | probe refresh, selection |
| **WebSocket sessions** (`runtime_proxy/websocket/`, `websocket.rs`) | cached upstream connection per session, lease | connect, reuse, invalidate, relay | bindings, in-flight |
| **Prefetch** (`runtime_proxy/prefetch*`) | a channel of a few slots between the upstream reader and the client's thread, a byte counter, a terminal error | receive, send with retries, look ahead, commit or reject, read, abandon | response forwarding |
| **Runtime broker** (`crates/prodex-app/src/runtime_broker/`, `app_commands/broker.rs`, `crates/prodex-runtime-broker`) | registry and capability file per broker key, leases, the ensure lock, the broker process | ensure (probe, reuse, replace, spawn, await), lease, publish, scan, stop when idle | launch, proxy |
| **Launch and usage-limit recovery** (`app_commands/runtime_launch/`) | a child front end, its session, a recovery workflow | launch, watch, stop, resume | broker, session store |
| **Profile commands and lifecycle journals** (`profile_commands/`, `crates/prodex-profile-export`) | `state.json`, the profile homes, a journal per operation | add, login, remove, import, export, roll back | state lock, secret store, sidecars |
| **Session store** (`crates/prodex-session-store`, `app_commands/session`) | session files and their index | list, repair, delete | bindings |
| **Secret store**, **audit log**, **housekeeping** | secrets by backend; append-only files | read, write, rotate, prune | profile commands |
| **Provider adapters, gateway, smart context, Presidio** | request-local | rewrite of requests and responses | proxy |
| **CLI, TUI, doctor, reports, logs, MCP, super expose** | none or read-only | parse, render, report | all |
| **Mojo kernels** (`mojo/prodex_core`, `crates/prodex-mojo-core`) | none: pure decision tables called over FFI | plan | the components above; each is modelled with its caller |

How they interact: request threads share one runtime lock (`RuntimeRotationState`),
one admission condition variable and one in-flight table.  Mutations of the
runtime state happen under the runtime lock; they bump the selection revision,
notify the admission condition variable, and schedule a background save.  The
saver thread reads the runtime state back under that lock, takes the state-file
lock shared with the other processes, merges with what is on disk, and writes
several files one after another.

## 2. What is hard about it

* check-then-act over atomics (limits tested against a loaded value, reservations
  that are undone), and sleeping on a condition variable that several kinds of
  event share;
* a revision published outside the lock that guards the queue it describes;
* coalescing of requests of different strength (a section set, a snapshot, a
  "live" request) into one pending job;
* several files written without a transaction, next to other processes;
* fences kept in a per-process cache;
* two files that name the same process, published one after the other, by a
  process that may die between them, for launchers that may die themselves;
* the same binding in several memories, files and pending saves, merged by time
  stamps of one second;
* a bounded buffer with two bounds, whose producer and consumer give up on each
  other independently;
* timeouts that race with the notification that would have answered.

## 3. The modules

| module | what it is |
|---|---|
| `RuntimeAdmission` | request admission, one action per atomic operation or lock operation |
| `PermitPool` | what admission promises: a pool of permits without counters or threads |
| `RuntimeAdmissionProofs` | theorems about `RuntimeAdmission` |
| `InflightRelief` | selection below the in-flight limits and the relief wait |
| `InflightReliefProofs` | theorems about `InflightRelief` |
| `RuntimeStateSave` | background saves, the journal, the files, the other processes, crashes |
| `RuntimeStateSaveProofs` | theorems about `RuntimeStateSave` |
| `SidecarStore` | one versioned file and its backup, between processes that save, repair and remove it |
| `SidecarStoreProofs` | theorems about `SidecarStore` |
| `ProxyIngress` | acceptors, the queue of each route, workers, the reaper, the stop of the proxy |
| `ProxyIngressProofs` | theorems about `ProxyIngress` |
| `RuntimeBroker` | launchers and brokers of one key, their files, leases and locks |
| `RuntimeBrokerProofs` | theorems about `RuntimeBroker` |
| `ResponseStream` | one streamed response from the upstream through the prefetch channel to the client |
| `CommittedStream` | what the client is promised of a streamed response |
| `ResponseStreamProofs` | theorems about `ResponseStream` |
| `SessionOwnership` | the owner of one session: requests that rotate it, stores that are merged, files, commands |
| `SessionOwnershipProofs` | theorems about `SessionOwnership` |
| `MC...` | the instances TLC checks; each `MC<module>_<question>.cfg` asks one question |

Operators whose comment begins with "Mutant:" are plausible mistakes in the
definition that follows them.  No specification uses them; `PROJECT.json` names,
for every checked property, the mistake that breaks it.

### RuntimeAdmission

`active` and `laneActive` are the two atomics of
`RuntimeProxyLaneAdmission`; `mutex` is the mutex of the shared condition
variable and `runtimeLock` the lock on the runtime state.  A request's `pc`
follows `acquire_runtime_proxy_active_request_slot_with_wait`:

* `BeginRound` and `ProjectFacts` are the head of the waiting loop (`lifecycle.rs`):
  the deadline, the revision that dates the facts, then the projection of the
  ownership facts under the runtime lock;
* `LoadActive`, `LoadLane`, `CasActive`, `CasLane`, `UndoActive` are
  `try_acquire` (`admission.rs`).  The same steps serve the probe without the
  mutex and the second probe with it, which `mutex = r` tells apart;
* `LockToWait`, `Recheck`, `WaitTimeout`, `WakeUp` are the wait;
* `LockToRelease`, `ReleaseActive`, `ReleaseLane` are `Drop` of a permit;
* `WriteState`, `BumpRevision`, `NotifySelection` are a thread that changes
  the ownership of continuations and notifies the sleepers, its runtime lock
  still held (`notify_selection_change`).

All atomics of the code are sequentially consistent, so each is one step.  The
load/exchange loop of `release_counter` cannot be told from one atomic
saturating decrement and is modelled as one.  `seenActive` and `seenLane` are
the locals a thread compares against; `events` is history: that a release found a
counter at zero, and that a reservation was undone.

`Pool == INSTANCE PermitPool` maps the detailed state to the abstract one: a
request holds a permit between the exchange that completes the acquisition
(`CasLane`) and the decrement that begins the release (`ReleaseActive`).  A
reservation that is later undone is a stuttering step.

### InflightRelief

`inflight` is the weighted count per profile, `releaseRev` and `selRev` the two
revisions, `ready` the set of eligible profiles.  A request runs

* `BeginSelection`, `Select`, `Scan`, `TryAcquire`: it notes the release revision
  *before* reading the state, tests the candidates one at a time, and takes a
  guard, testing the limit again under the in-flight mutex.  A request bound to
  the owner of its continuation (`Owner`) skips the limit;
* `Register`, `Collect`, `Count`, `Decide`: the beginning of
  `runtime_proxy_maybe_wait_for_interactive_inflight_relief`: both revisions, the
  saturated profiles worth waiting for, and the verdict when there are none;
* `CheckRelief`, `Probe`, `Sleep`, `WaitTimeout`, `Woken`, `Late`, `Reregister`:
  the loop `run_runtime_inflight_backpressure_wait`;
* `Release`, `PublishRelease`, `Notify`: drop of a guard.  The count is lowered,
  then the revision is raised, both under the in-flight mutex, and the sleepers
  are notified after it.  While a thread is between the first two
  (`pc = "freeing"`) `CountsReadable` keeps all others from reading a count;
* `Reacquire`: the retry of a bound request that upstream reported overloaded
  (`BoundOverloadRetry`), which takes its guard again over the limit.

`Change`, `Publish`, `NotifyChange` are a probe that learns a profile's quota;
`PermitReturned` is an admission permit returned elsewhere, which notifies the
same condition variable without changing either revision.  `steady` is
history: the profiles eligible ever since a request began selecting.

### RuntimeStateSave

An update is a member of `Mutations` (this process, one thread each) or
`Others` (another process), and a section of the state, in memory or on disk,
is the set of updates it reflects.  The merges of the code keep the newer of two
entries key by key; on sets of distinct updates that is union.  `Saves`,
`Journaled` and `Hot` are the mutation policy, a table of the Mojo kernel over
the numbers of `RuntimeStateMutation`.

* `Mutate`, `Publish`, `Enqueue`, `EnqueueJournal` are
  `schedule_runtime_state_save_request`, in the code's order: revision and
  deadline first, then the queue's own mutex, then the journal's.  `Clone` is the
  probe, which has dropped the runtime lock by then and enqueues a snapshot;
* `Coalesced` is the rule by which a request replaces a pending job, whose deadline
  is the earlier of the two.  The code keeps instants (`ready_at`) and compares them
  with the clock; the model keeps what is left until then, for the pending job
  (`pending.left`) and for each request (`timer`), and `Tick` takes one unit off all of
  them.  A job leaves the queue when nothing is left;
* `TakeJob` to `Persist` are the save worker with its three comparisons with the
  latest revision (`GiveUp`), the state-file lock, the merge (`Prepare`), and one
  `Persist` per file in the order of `persist_runtime_state_snapshot_save`.
  `PrepareFails` is a file that cannot be read for the merge, which ends the job before
  anything is written, `Stale` a refused fence, `WriteFails` an I/O error, with or
  without its file replaced;
* `TakeJournal`, `ReadJournal`, `SaveJournal` are the journal worker, which has
  its own fenced loop and no revision check;
* `OtherLock`, `OtherSave`, `OtherSidecar` are other processes; `Crash` is a
  death of this one at any step, followed by its restart from the files.

`superseded`, `waiting` and `displaced` are history.  `waiting` has the requests that have
been enqueued since the worker last took a job: it is for them that the pending job must
be due in time.  `displaced` has those of them that the code does put out of the queue,
which only a probe brings about (`OnlyProbesDisplace`): its snapshot replaces a live job
and with it what was changed after it was cloned, and a request overtaken on its way to
the queue gives the pending job an older revision, with which it is given up.

In this module every file exists from the start and has one name; what happens
between the primary and its backup, and when there is no file, is the subject of
the next one.

### SidecarStore

`primary` and `backup` are the journal and its last-good copy: missing, broken or
good, with a generation and the set of updates they reflect.  `cached` is the
generation cache, a static of the process.  A saver runs

* `Begin`, `Exists`, `Read`, `Recover`: a save begins with a load without the lock;
  if the primary cannot be read, it is read again under the lock, and repaired from
  the backup (`Repair`, best effort);
* `Compare`: the fence of `save_versioned_json_file_with_fence`, which takes the
  lock and then refuses (`Stale`: load again, up to the limit), goes on (`Fresh`),
  starts generations anew (`Recreate`), or fails (`Unreadable`);
* `WritePrimary`, `WriteBackup` (with `Revalidate` and `WriteFails`): both writes of
  `write_json_file_with_backup`, then the new generation is remembered.

Reads and repairs that begin and end under the lock are one step; the two writes
are two, since a process may die, and a reader without the lock may look, in
between.  `Remove` and `RemoveBackup` are a command that removes the files,
`Crash` a death of any of them at any step (the operating system releases its
lock), `Damage` an unreadable primary.  `acknowledged`, `highest` and `reused` are
history: the updates whose save has returned `Ok`, the highest generation ever
written, and whether one has been written a second time.

### ProxyIngress

One queue per route kind; `pc` has the acceptors, the workers and, under the name
of its lane, the reaper of the WebSocket queue.

* `Accept`, `Dispatch`, `Reject`, `AcceptorLoop`: the accept loop, which answers
  control requests itself, sends the others to their queue (`try_send`, which
  notifies one sleeper, here *some* sleeper), and refuses what finds it full;
* `Take`, `WaitTimeout`, `Start`, `Handle`: `recv` with its 100 ms slices, then the
  worker, which answers a request whose watchdog has fired without handling it;
* `ReaperLoop`, `Reap`, `AnswerReaped`: `take_expired` and its thread;
* `DeadlinePasses` is the watchdog of a request, `Shutdown` the drop of the proxy,
  which raises the flag and unblocks every acceptor once, and notifies no worker;
  `DropQueues` is the end of the queues, with all that is still in them, after the
  last thread has ended.

The queue is only touched under its mutex, so each operation is one step.
`KeepLive` is what `take_expired` leaves of a queue, stated by the positions that stay.

### RuntimeBroker

A broker is named after the launcher that spawned it: a launcher makes sure of its
endpoint once and spawns at most one.  `registry` and `capability` are the two
files that name a broker; they are separate steps of whoever writes or removes both,
under the artifact lock (`artifact`), and whoever does may die in between: the lock, which
is the operating system's, falls, and what is half done stays.  `torn` is history: the
brokers whose files a death has left so.  The registry file and its backup, which are
written and removed together, count as one.

* `Acquire`, `Load`, `Stale`, `Probe`, `Guard`, `Terminate`, `Discard`, `Spawn`, `Ready`,
  `Activate`, `Lease` are a launcher under the ensure lock, in the order of
  `ensure_runtime_broker`: look until the wait ends (`WaitTimeout`), a last look, a
  look for a broker of a matching configuration, then a broker of its own.  `Guard` is
  the version guard: a free broker of another version is replaced, a busy one used.
  `Forget` and `Withdraw` are the two steps of
  `remove_runtime_broker_registry_if_instance_matches`: the registry, if it is still that
  instance's, then the capability.  A broker that serves may answer a probe or an
  activation too late or not at all;
  `UseElsewhere` and `Foreign` launchers are looks across keys, which hold another
  key's lock;
* `BeginRequest`, `EndRequest`, `Detach`, `Crash` are a session with its lease;
* `PublishCapability`, `PublishRegistry`, `Announce`, then `Observe`, `Scan`, `Tick`,
  `Shutdown`, `Unregister`, `WithdrawOwn`, `RemoveCapability` are the broker and its idle
  loop, which removes the leases of dead processes when it scans; `BrokerDies` is its death;
* `SweepRegistry`, `SweepCapability`, `SweepOrphan` are the housekeeping command: it removes
  both files of a broker that is proven absent, in the same two steps, and a capability
  without a registry (`remove_runtime_broker_orphaned_capability`); `SweepDies` is its end
  between the two.

Time is what it orders: the startup grace outlasts the wait of the launcher, and an
idle period sees several scans (`idle` goes from `begun` to `ripe`).

### ResponseStream

`worker` is the async task that fills the channel, `client` the other side.

* `Receive`, `ReceiveEnd`, `ReceiveError`: a chunk, split into pieces, or the end of
  the body; `Expire` is the send timeout, `RetryOrTimeOut` and `AwaitCapacity` the wait
  for bytes, `Count`, `TrySend`, `Uncount`, `Wake` the attempt with its byte counter,
  which is raised before and lowered after a refused send; `GiveUp` and `Leave` record
  the terminal error, `Aborted` is the abort when the stream is dropped;
* `LookAhead`, `Inspect`, `LookAheadEnd`, `LookAheadFails`, `RejectHeld`: the lookahead of
  the request, which holds pieces until one decides.  What it finds in a piece
  is a choice;
* `ReadPiece`, `ReleasePiece`, `Deliver`, `ReadLast`, `ReadDisconnected`, `ReadTimeout`: the
  reader in the thread that writes to the client; `Stall` and `Abandon` are the client.

`Promise == INSTANCE CommittedStream` reads the abstract variables (`upstream`,
`produced`, `client`, `delivered`) directly.

### SessionOwnership

A store is a binding of the session (owner and time), the release epoch and the
time of the newest event in its lifecycle status; files, memories and pending saves
hold stores, `state.json` only the binding.

* `HardMerge`, `Fenced` and `Merge` are the merge of bindings and of stores (an older
  binding than the release epoch of either side is dropped first, then two owners
  that disagree become `Conflict`), `Touched`, `Released`, `Remembered` what a lookup, a
  release and a commit make of a store, `NextEvent` and `RebindTime` their clocks,
  which run ahead of the real one when several events share a second;
* `Begin`, `Select`, `Fail`, `Commit` are a request that looks up the owner, releases it
  when it rotates away (or fails on it), and binds the profile that served it;
* `ReadLaunchState`, `TryOwn`, `ReadState`, `Restore`, `Promote` are the start of a proxy and
  its role: only the holder of the owner lock schedules saves, the others
  follow and keep what they change in memory;
* `ReadLive`, `SaveSidecar`, `SaveState`, `FailSave` are a save, `Stop` and `Exit` the end of
  a proxy: it gives up the owner lock first while its workers go on;
* `LoadCommand` and `SaveCommand` are a command that saves `state.json` again.

`latest` and `disturbed` are history.  Rotation is promised to prevail as long as each
request begins on the view of the proxy that changed the session last, and beside no
other request of the session; `disturbed` says that this no longer holds.

## 4. What is checked

Sizes are distinct states.  The runs of a module share their instance: `MC`
modules give the constants, the `.cfg` files the bounds.

| run | checks | size |
|---|---|---|
| `admission` | `CountersExact`, `ActiveWithinLimit`, `SleepsOnCurrentOwnership`, `NoLostWakeup`, `EveryRequestSettles`, and that admission implements `PermitPool` (`GrantsWithinLimits`) | 539 902 |
| `inflight_safety` | `NeverFalselyExhausted`, `NoLostRelease` with two profiles and a change of eligibility | 584 978 |
| `inflight_served` | `InflightExact`, `EveryRequestServed` with one profile, retries and a deadline | 246 938 |
| `ingress` | `TypeOK`, `NoSleepBesideWork`, `NoOvertaking`, `ExpiredNeedNoWorker`, `EveryRequestAnswered`, `ProxyStops` | 658 680 |
| `broker_safety` | `ArtifactsAgree`, `AwaitedBrokerIsRegistered`, `StopsOnlyOnUnseen`, `LiveRegistrationStands`, `ReplacesOnlyUnused` | 581 248 |
| `broker_live` | `EnsuresEnd`, `BrokersEnd` | 30 000 |
| `stream` | `QueuedBytesExact`, `EveryStreamEnds`, and that the stream implements `CommittedStream` (`CommittedStreamKept`) | 5 396 |
| `sessions` | `RotationPrevails`, `OwnerMovesOnlyAcrossRelease`, `ReleasesFence` | 3 113 626 |
| `state_save_crash` | `BindingsBehindContinuations`, `DeadlinesKept`, `CoalescedSectionsPersisted`, `LatestPersisted`, `JournaledPersisted` with a probe, another process and a crash | 1 322 483 |
| `state_save_live` | `NothingOnDiskIsLost` with a probe, other processes and a failure; `SavesNeverBlockMutations` although another process may never leave the lock, and `QueuesDrain` when all others do | 29 356 |
| `sidecar_fence` | `AcknowledgedSurvive`, `BackupNotNewer`, `SavesEnd` | 95 151 |
| `sidecar_creation` | finding: `AcknowledgedSurvive` fails when two processes find no file | |

The type invariants of all modules are theorems (`TypeCorrect`).  Only that of
`ProxyIngress`, which has the capacity of its queues in it, is run as well.

`CHECK_DEADLOCK FALSE` stands in every configuration but `stream`, because these
systems may stop: all requests are done or asleep, all mutations saved.  That no thread
stops where it should go on is what the liveness properties, `NoSleepBesideWork`,
`NoLostWakeup`, `NoLostRelease` and `QueuesDrain` say.  A stream ends in a state of its
own (`Done`), and TLC checks that it gets stuck nowhere else.

### Bounds

* **Admission.**  Three requests are the fewest with which one can hold a permit,
  one can have a reservation that it undoes, and one can be refused because of
  the two; two lanes so that lane and proxy-wide limits can disagree; one writer
  and `MaxRevision` 1, because a fact is stale or it is not.  `ActiveLimit` is 2.
  Lane limits are tight (1), so a reservation may have to be undone; the undo
  makes other requests fail and sleep, and notifies nobody (`admission.rs:278`), so
  `NoLostWakeup` and `EveryRequestSettles` are stated up to the first undone
  reservation.  The sleeper's wait slice bounds the delay.
* **In-flight.**  Three requests of weights 2, 1, 2 under a limit of 2: a heavy
  request fills a profile, a light one leaves it "below the limit" for another
  light one only.  The third is bound to the first profile, so that counts exceed
  the limit.  `MaxChanges` 1: one change of eligibility can fall between any two
  steps of a waiter.  `inflight_served` has one profile, because beside a second
  one a request may sleep until a timeout (section 6).
* **Ingress.**  Two workers, so that a notification may reach the wrong one; four
  WebSocket requests, so that the queue of two is full while both workers are busy;
  one of them may expire, wherever it is; a control request for the acceptor alone.
* **Broker.**  Two launchers of different versions, so that one may find, use or
  replace the other's broker, and one launcher of another key, which does so without
  the ensure lock; one launcher that may crash at any step and one broker that may
  die or fail to publish; the housekeeping command, which may be stopped between its two
  removals, whenever there is something to sweep.  The live run leaves out the
  foreign launcher, whose steps are looks from another key, without the lock.  One broker
  to find and one to spawn are all that can meet under the ensure lock; the theorems
  cover more.
* **Stream.**  Six pieces in five chunks, with two slots and a limit of two bytes:
  small pieces fill the slots, others the bytes; one is empty; two are larger than the
  limit, the last of them just before the end of the body.  The body may end or fail
  after any chunk.
* **Sessions.**  Two proxies, one of which follows; one command; two requests, so that
  they may overlap, or follow each other on different proxies; two profiles; two
  seconds, because the clocks of events only differ from the real one when several
  fall into one second or into the next.  Proxies, requests and profiles are
  symmetric, and the properties are safety properties.
* **State save.**  Kinds are chosen for their policy.  `state_save_crash` has two hot and
  journaled ones, a turn-state owner and the ids of a response, of which the second saves
  the scores too, and a probed usage snapshot (a snapshot of all sections, due at once):
  any two can be coalesced in either order, and a probe can overtake or be overtaken by
  a live request before and after it has cloned the state.  `Debounce` 2 lets two
  deadlines differ while neither is due, so that a later request can find the pending job
  half elapsed.  One other process, pruning the continuations, and one crash, at any step
  and between any two writes.  Failed reads and writes are left to the other run, since what
  this one says of a quiet proxy is stated without them.
  `state_save_live` has one hot request and the probe, two other processes, one that holds
  the state-file lock and one that writes a sidecar, and one failed read or write: a second
  failure finds the files in a state that the first could have left.  `RetryLimit` 1 tells
  "retried" from "dropped", which is all the limit does.
* **Sidecar store.**  Two savers are enough for one to be overtaken between its load
  and its fence; three updates let one of them save twice, so that what it remembers
  is out of date; one remover.  One mishap: a crash, a failed write or a damaged
  primary at any step.  `RetryLimit` 1 tells a retry from giving up.  The invariant
  of the proofs has been checked with two mishaps as well (381 734 states).
* `NoRevision`, `NoOne`, `NoJob`, `NoProfile`, `Unknown` are model values.  Only `sessions`
  uses symmetry: in the others the requests, launchers or threads differ.

### Fairness

* `RuntimeAdmission!Fairness` and `InflightRelief!Fairness`: strong fairness of each
  request's steps, because they contend for mutexes (a step is enabled only while
  nobody has the lock) and the platform's locks do not starve a thread for ever;
  handlers end, so what is held is dropped.  Writers in the middle of a publication
  finish it.  Nothing is assumed of timeouts, deadlines, new writes or other
  requests' permits: the properties hold without any timeout ever firing.
* `RuntimeStateSave!FairSpec`: weak fairness of the threads and the two workers of
  this process, and of the passing of time while a deadline is ahead (`Tick`, and the
  journal's debounce).  Weak is enough, since the locks are
  held for finitely many steps and each thread takes them once.  It says nothing
  of other processes, which is the point of `SavesNeverBlockMutations`.
  `QueuesDrain` makes its own assumption: no other process keeps the lock for ever.
* `SidecarStore!FairSpec`: strong fairness of a saver's steps, because it contends for
  the file's lock (`flock`, held for a few steps by each), and a removal that has
  begun goes on.  New updates, removals and mishaps are not fair.
* `ProxyIngress!FairSpec`: weak fairness of the acceptors' own steps (`Accept` only after
  the stop, when it is the unblocked `recv` that returns), of the workers and of the
  reaper, whose waits time out after 100 ms.  Nothing makes a handler end, a client send
  or a proxy stop: `EveryRequestAnswered` and `ProxyStops` assume that handlers end, and
  `ExpiredNeedNoWorker` holds although no handler ever does.
* `RuntimeBroker!FairSpec`: processes run and their waits are bounded by the ready timeout.
  Strong fairness of `WaitTimeout`, `Scan` and `Shutdown`, because the deadline of the wait, the
  scan interval and the idle period elapse in real time whatever else the same loop does
  meanwhile.  Crashes, requests and the end of a session are not fair.
* `ResponseStream!Spec`: weak fairness of the worker, its timer, the lookahead (a task
  of the same runtime) and the reader, until the client stalls.  The client and the
  upstream promise nothing: a receive that never ends is cut by the read timeout.
* `SessionOwnership!Spec` has none; its properties are safety properties.

## 5. What is proved

The theorems hold for every value of the constants that the modules' assumptions
allow: any finite number of requests, any lanes, limits and weights, any number
of threads, other processes, retries, failures and crashes.  Every safety property
and action property of section 4, and both refinements, are theorems;
`AcknowledgedAlwaysSurvive` and `OnlyProbesDisplace` have a hypothesis of their own, which
is named with them.

**Admission** (`AdmissionAssumption`).  `IInv` is `TypeOK`, `CountersExact`,
`PlanInv`, `BypassInv`, `ActiveWithinLimit` and `NoReleaseUnderflow`.  The types
alone are not inductive: the decrements stay natural numbers only because each
counter equals the cardinality of the set of threads it stands for, so a thread
about to decrement finds it positive.  The limit needs `PlanInv`: between its
loads and its exchanges a thread remembers values that allowed the admission, and
the exchange compares with those very values.  From `IInv`: `TypeCorrect`,
`CountersAlwaysExact`, `LimitNeverExceeded`, `ReleasesNeverUnderflow`, and
`ImplementsPermitPool`: `Init` maps to the empty pool, `CasLane` to `Admit`
(within the lane's limit, or by a bypass that `BypassInv` bounds to the
requests that may), `ReleaseActive` to `Release`, everything else to a stutter.

Sleeping needs `WakeInv` besides.  `LockInv`: who has the mutex is at a step that needs it.
`FactsInv`: facts that carry the current revision miss an owner only while its writer has
yet to raise the revision.  `CurrentInv`: who sleeps, or probes with the mutex, has
current facts, or a writer is about to notify.  Hence `SleepersKnowOwnership`.  `ProbeInv`
and `RefusedInv`: while a thread probes with the mutex no permit is returned, so what it
is refused for still holds when it falls asleep, and whoever changes that later
notifies.  Hence `WakeupsNeverLost`, up to the first undone reservation like the property.

**In-flight** (`InflightAssumption`).  `IInv` is `TypeOK`, `RevInv`, and per
request `ExhaustInv` and `WaitInv`.  The argument: a count that a request has
found at the limit can fall only by a `Release`, after which nobody can read a
count until the revision has been raised (`Full`, `Readable`, `FullKept`).  So as
long as a request's observed revision is the current one, the profiles it has
passed over are still full (`ExhaustInv`), and as long as what it registered
is current, the profiles it waits for are (`WaitInv`); once it is not, the thread
that raised the revision has yet to notify.  Two lemmas per part cover the
steps of the request itself and of the others.  From `IInv`: `TypeCorrect`,
`NeverExhaustedByMistake`, `ReleasesNeverLost`.

`CountsAlwaysExact` says that a count is the sum of the weights of the guards held on its
profile, which one step changes by one guard's weight.  The sum is a fold over a set
(`MapThenSumSet`), whose defining function `CHOOSE` picks: the lemmas show by
induction that there is such a function (`SumTakes` and those before it), and that the sum
does not depend on the order.  `CandInv` adds that a holder has a profile.

**State save** (`StateSaveAssumption`; `JobAssumption`, that no job is `NoJob`).  `IInv` is
`TypeOK`, `LockInv`, `CoverInv`, `OrderInv`.  `LockInv`: whoever is between reading and writing
`state.json` has the state-file lock.  `CoverInv`: what the worker is about to write covers what
is on disk, or the fence will refuse it.  `OrderInv`: bindings about to go to
`state.json` are in the sidecar when their turn comes.  From `IInv`: `TypeCorrect`,
`BindingsNeverAhead` and `DiskNeverLoses` (an action property).

What a quiet proxy leaves on disk takes several accounts of every change.  `JournalInv`: a
journaled change, once enqueued, is in a waiting journal job, in the snapshot being written
or in the file; with `MemoryInv`, that the memory has it when the journal worker reads.
It gives `JournaledAlwaysPersisted`: the journal has every change of ownership, whatever was
superseded, by whatever request.

`WaitInv` is about the queue: as long as a request waits there is a pending job that is due
no later than the request, and that covers it unless it has been displaced (`Covered`: it
names the request's sections and either reads the live state or is a snapshot that has the
change).  It is inductive because a request that is coalesced takes the earlier deadline, and
because `Tick` takes as much off the job as off the requests.  Hence `DeadlinesAlwaysKept`, for
every `Debounce`, whatever kinds of requests follow each other.  `CarriedInv`: as long as no
save has been given up, every change not on disk that has not been displaced belongs to a
thread about to enqueue, to a waiting request, or to the job being written, whose snapshot
and merge have it (`Worked`).  `LatestInv` says of the latest mutation that each update it is
to save is on disk, or that it, or a newer one, is about to enqueue, or that a job of the
latest revision, which is never given up, has it (`CarriedNow`).  Both rest on `RevisionInv`
(revisions are taken one by one), `SnapInv` (what a probe has cloned is part of the memory)
and `WorkInv`.  `CoalescedAlwaysPersisted` and `LatestAlwaysPersisted` hold with probes;
what they except is `displaced`, and `OnlyProbesDisplace` shows by an invariant of its own
(`OrderedInv`: without probes, revisions enter the queue in their order, since a mutation
keeps the runtime lock until it has enqueued) that it is empty where no probe takes part.

**Sidecar store** (`SidecarAssumption`).  `RankInv` orders the generations, from the
backup to the primary to what is about to be written, all bounded by `highest`;
with `TypeOK`, which has the lock's ownership, it is inductive and gives
`BackupNeverNewer`.  `ContentInv` says that, as long as no generation has been used
twice, the primary includes its backup, the backup has all that has been
acknowledged (`FilesAgree`), and whoever will pass the fence has read what it will
overwrite (`Covers`).  It is inductive if the file exists at first
(`InitialGeneration > 0`, the hypothesis of `AcknowledgedAlwaysSurvive`), because
then a file that is there again after a removal has a reused generation.
`sidecar_creation` shows that the hypothesis is needed.

**Ingress** (`IngressAssumption`).  `IInv` is `TypeOK`, `JobInv`, `OnceInv` and
`NoSleepBesideWork`.  `OnceInv`: a request that an acceptor holds is in no queue and in no
other acceptor's hands, and stands once in its queue.  A queue gains one element at its end,
loses its head, is thinned by the reaper, or is dropped; `NoSleepBesideWork` (at least as
many workers awake as requests queued, while any sleeps) survives the first because
`try_send` wakes a sleeper, the second because the worker that takes was awake.  Thinning needs
`PositionsListed`: the positions that stay can be listed in increasing order, by induction
over their number.  From `IInv`: `TypeCorrect`, with the capacities, `WorkersWakeForWork`
and, as `OnceInv` gives each request one position, the action property `NeverOvertaken`.

**Broker** (`BrokerAssumption`).  `IInv` is `Types`, `Locked`, `Origins`, `Registered`,
`Publishing`, `Seen`, `Unused`, `Awaited`.  `Locked`: launchers of the key that look at or
change its broker have the ensure lock.  `Origins`: a foreign launcher never spawns, and a
launcher that has not spawned has no broker.  `Registered`: what the registry names, or
named when a launcher looked, has been published, and what a launcher is about to discard
has ended.  `Publishing`: the artifact lock is held, beyond one step, by exactly those who
are between two writes or two removals; between the writes the capability names the broker;
between the removals nothing is registered and the capability is that of the broker being
removed, or the residue of one that died between its writes (`Removing`, `Residue`); a broker
that has not published is named by no capability; and `ArtifactsAgree`.  Its lemmas follow the
life of a removal: `Unlisting` begins it, `Unheld` ends it, `Death` cuts it short, and
`PublishingFrame` covers the steps that touch no file.  `Seen`: attached launchers have their leases, and whoever is attached
to a broker that does not count a lease has not been met by a scan.  `Unused`: nobody of the key
is attached while one of the key kills a broker.  `Awaited`: until a launcher fails or crashes,
every broker not done with its publication is awaited, and an awaited one that is done has the
registration.  From `IInv`:
`ArtifactsNameOneBroker`, `StoppedBrokersWereUnseen`, `AwaitedAreRegistered`, and the action
properties `RegistrationsStand` and `OnlyUnusedAreReplaced`.

**Stream** (`StreamAssumption`).  `IInv` is `TypeOK`, `InOrder` (delivered, held, taken and
queued pieces are, in this order, an initial run of what was sent), `Fresh` (the reader
has handed over what it holds before it awaits more), `Accounted` while the receiver
lives (what the worker has produced is sent, about to be sent, or given up with a terminal
error set before the channel closes) and `Closed` afterwards.  Then every step maps to one
of `CommittedStream` (`PromiseKept`): `Receive` to `Produce`, `ReceiveEnd` and `ReceiveError` to
`Finish`, the end of the lookahead to `Commit`, `Deliver` to `Deliver`, `ReadLast` and
`ReadDisconnected` to `Complete` or `Break`, rejection, timeout and abandonment to `Break`, the
rest to a stutter.  What matters is `ReadDisconnected`: the terminal error is read after the
channel is found closed, and `Accounted` says that it is set if anything is missing.

`QueuedBytesCorrect` is from `QueueInv`: while the receiver lives, the counter is the sum of
the bytes queued, counted for a send in progress, and taken but not released; and it exceeds
the limit only by one piece that counts alone (`Alone`), since what fitted when the worker
looked still fits when it counts.  The sum over the channel is a fold too, and equals the last
prefix sum (`PrefixSumsExist`), from which what an append and a removal do to it follows.

**Sessions** (`SessionAssumption`).  The types are inductive with one relation, that a
request trying a candidate has one.  `OwnerMoves` follows from what `Merge` does to its first
argument (`MergeKeepsOrReleases`): the binding either survives the common epoch, and then
the merged owner is it or a conflict, or the epoch is not older than it; only
`SaveSidecar` writes the sidecar (`SidecarWritten`).

`SessionInv` adds two invariants.  `DateInv`, which holds always: every copy of the binding, in
the files, memories, pending saves and commands, is dated by the clock or, at most, one
second after the release epoch it was bound under, the sidecar's epoch standing for that of
copies read from `state.json`, which have none.  A release takes an epoch no older than any
of these, so it fences them all: `ReleasesAlwaysFence`.  `Chain` and `Turn`, which hold until
the session is disturbed: the views of the session are ordered by epoch, released before
bound (`Rank`); the sidecar has one of them; at most one proxy is ahead of it (`Leads`) and has
the latest view, its pending save one in between; every other memory and pending save is
no later than the sidecar and yields to it when merged (`Tame`); and the request in
progress works on the latest view (`Turn`).  A merge then gives the later of two views and never a
conflict, which is `RotationAlwaysPrevails`, for any number of followers, restarts,
promotions and commands that save in between.

Induction over data is used where a sum or a list of positions needs it, in the form the
provers can take: a set of numbers that holds 0 and every successor holds all numbers
(`SetInduction`), since a least number outside would have a predecessor inside, by the
well-foundedness of `<`.

**Only model-checked**: what is temporal beyond safety (`EveryRequestSettles`,
`EveryRequestServed`, `SavesNeverBlockMutations`, `QueuesDrain`, `SavesEnd`, `ExpiredNeedNoWorker`,
`EveryRequestAnswered`, `ProxyStops`, `EnsuresEnd`, `BrokersEnd`, `EveryStreamEnds`), which needs
fairness and `ENABLED`, for which no prover is at hand.  The fairness part of
no specification is used in a theorem.

## 6. Findings and observations

One statement of the repository's comments does not hold of the code.

1. **Two processes create the same file** (`sidecar_creation`).  A process that finds no
   journal remembers no generation, and its fence then expects whatever is on disk
   when it has the lock: it overwrites what another has created, saved and
   acknowledged in between.

What follows are behaviours met while modelling that the code does not promise to
avoid.  Properties are stated so that they hold beside them.

* *Admission and selection.*  An undone reservation can leave a request asleep beside
  free capacity for a wait slice.  A request whose chosen candidate fills up may wait
  its slice beside a ready profile, because the wait considers saturated profiles only
  (`responses/loop_control.rs:367`).  A change of eligibility can be swallowed when a
  waiter registers the selection revision anew (`selection/waitable.rs:480`).
* *Ingress.*  `queue.rs:1-2` says that expiration "cannot require a free worker", which is
  so for the WebSocket queue, the only one with a reaper; a request expired in another
  queue waits for a worker.
* *State save.*  A save found superseded takes its sections with it; they stay in
  memory until a later mutation of the same sections (`scheduled_save/workers.rs:58`).
  Revisions and queue order can disagree when a probe takes part, which takes its
  revision without the runtime lock (`scheduled_save.rs:60`).  The snapshot of a probe replaces
  a pending live job (`scheduled_save.rs:356`): what was changed after it was cloned then waits
  for the next save of the same sections, although nothing was superseded.  Changes of
  ownership are in the journal either way.
* *Broker.*  A launcher may attach to a broker that has just decided to stop.  A
  publication that fails between its writes removes the capability of the live
  broker it was to replace (`runtime_broker/store.rs:199-208`).  A launcher of another
  key can kill a broker under an attached launcher.  A death between the two removals leaves
  a capability that no registration names, until the next publication or the cleanup.  The slow broker of a launcher that
  timed out may register over the next one's.  Launchers of alternating versions can
  leave several brokers behind for a while.  Idleness is measured with the wall clock.
* *Stream.*  A worker that panics leaves no terminal error, so a truncated body would look
  complete.  An end of the body whose send times out is a clean end for the reader, whose
  data is complete by then, but a broken pipe for the lookahead.  The end of a body waits
  until an oversized piece before it is drained.
* *Sessions.*  A command merges two bindings of `state.json` without epochs; if they
  disagree, the conflict it writes is restored by a proxy that starts before the next
  save of the sidecar, until a request with full history resets it.  A proxy with an
  outdated view (a follower) that serves the session after another's release can
  bring the former owner back.  Overlapping requests of one session can bind different
  profiles.  What a follower changes is saved only after it has been promoted and
  changes something again.

## 7. What is not modelled

* In the modelled components: metrics and log events; in `InflightRelief` upstream
  failures, backoff and rotation, the direct fallback and the recovery wait after
  an exhausted pool; in `RuntimeStateSave` `invalidate_pending_runtime_saves`
  (called by commands, not by the proxy), a state without profiles, and the content of
  the merges (whose session part is `SessionOwnership`'s); in `SidecarStore` two threads of
  one process saving one file, files that are saved without a load (the cache of the
  quota watch), damage to the backup, and the limit on the size of a file; in
  `ProxyIngress` the restart of a panicked worker and the gateway's own front end; in
  `RuntimeBroker` what the activation sends, registries of earlier formats, leases of
  child processes, and a death between the registry file and its backup; in `ResponseStream` a panic of the worker and the
  end of the runtime; in `SessionOwnership` the continuation journal (below),
  previous responses and turn states, compact lineage, the ageing of statuses, retention (seven days) and limits of bindings
  and epochs, and the deletion of a session.
* The continuation journal of a session.  A start merges it into the sidecar's store before
  everything else (`runtime_launch/proxy_startup/continuation_restore.rs:12`).  In
  `RuntimeStateSave` the journal is a file like the others and `Crash` restores from it, but
  an update there has no owner; `SessionOwnership`, where it has, restores from the sidecar,
  the launch state and `state.json` only.  So a rotation that only the journal holds when
  its proxy ends before its save is forgotten by `Exit`, and neither `RotationPrevails` nor
  `ReleasesFence` says anything of it, or of the copies in the journal.  With the journal, a
  view that no running proxy has could come back by a later start, beside rotations that
  a follower promoted meanwhile has made on an older one.
* `PrecommitRotation`: the attempts of one request are decided by some twenty kernels and
  special cases (cold start, automatic redeem, last chance, retry on the owner of a
  previous response).  A model small enough to check would leave out most of what
  decides; the parts that share state are modelled where the state is (`InflightRelief`,
  `SessionOwnership`).
* `HealthCircuit`, `ProbeQueue`, WebSocket sessions, the journals of profile commands and the
  recovery after a usage limit are within reach of the method and are listed in the plan;
  `PROJECT.json` names the hazards they leave open.
* The other components have no shared control state (request-local rewriting for
  providers, smart context, Presidio), or are input and output (command line, terminal UI,
  reports, configuration).
* Time: deadlines and timeouts may fire at any moment; durations are not modelled, but
  for the debounce of a state save, the order of the broker's intervals and the seconds of
  `SessionOwnership`.

## 8. Plan

Done: (1) `RuntimeAdmission` with `PermitPool`, (2) `RuntimeStateSave`, (3) `InflightRelief`,
(4) `SidecarStore`, (5) `RuntimeBroker`, (6) `ProxyIngress`, (7) `ResponseStream` with
`CommittedStream`, (8) `SessionOwnership`; each with its proofs, which cover every safety and
action property of the runs.

Proofs to add:

* `AcknowledgedSurvive` of the sidecar store for a file that does not exist at first, when
  only one process may create it.

Modules to add, if the system is modelled further: `ProbeQueue` and `HealthCircuit` (the waiter's
progress against rescheduling, the half-open reservation against the in-flight refusal
that leaves it behind), the WebSocket session cache, the lifecycle journals of the profile
commands; in `SidecarStore` a second saving thread, which shares the generation cache, and a
saver that never loads; in `SessionOwnership` the continuation journal, whose views would have
to be part of the chain, previous responses and turn states.
