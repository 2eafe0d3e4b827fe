-------------------------- MODULE SessionOwnership --------------------------
(***************************************************************************)
(* Which profile owns a session.  Every proxy keeps a binding of the       *)
(* session in memory, with the time it was made; a release of the binding  *)
(* leaves a release epoch, which fences older bindings of the session when *)
(* stores are merged.  One proxy at a time, the holder of the owner lock,  *)
(* merges its store into the continuation sidecar and then writes the      *)
(* sidecar's binding, without its epoch, to state.json; the others follow  *)
(* and may be promoted when it is gone.  `prodex` commands merge what they *)
(* loaded from state.json into it again.  Two bindings that disagree merge *)
(* into a conflict.                                                        *)
(*                                                                         *)
(* One session, and requests without previous response or turn state.      *)
(* Times are seconds; 0 stands for a time that is absent.  Revisions are   *)
(* RuntimeStateSave's; retention and limits are left out.                  *)
(*                                                                         *)
(* So is the continuation journal, which a start merges into the sidecar's *)
(* store before everything else: here a store is restored as if the        *)
(* journal held nothing that the sidecar does not.  A rotation that only   *)
(* the journal holds when its proxy ends is forgotten by `latest`, and     *)
(* nothing is said of it.                                                  *)
(***************************************************************************)
EXTENDS Naturals

CONSTANTS
  Proxies,    \* the proxy processes
  Commands,   \* the commands that save state.json
  Requests,   \* the requests of the session
  Profiles,
  NoProfile,  \* the owner of a session nobody owns
  Conflict,   \* HARD_BINDING_CONFLICT_PROFILE
  MaxTime     \* bound of the clock

ASSUME SessionAssumption ==
  /\ NoProfile \notin Profiles
  /\ Conflict \notin Profiles \cup {NoProfile}
  /\ MaxTime \in Nat \ {0}

VARIABLES
  now,        \* the clock, in seconds
  sidecar,    \* the store in the continuation sidecar
  stateFile,  \* the binding in state.json
  writer,     \* who holds the state-file lock (at most one)
  ownerLock,  \* who holds the owner lock (at most one)
  persisting, \* the proxies that schedule saves
  proxy,      \* what each proxy is doing
  memory,     \* its store
  queued,     \* the proxies with a save in their queue
  saving,     \* the proxies whose save worker has taken a snapshot
  snapshot,   \* the snapshot
  command,    \* what each command is doing
  view,       \* the binding it loaded
  request,    \* what each request is doing
  server,     \* the proxy that serves it
  owner,      \* the session's profile as it knows it
  chosen,     \* the candidate it tries
  failed,     \* the profiles it has excluded
  latest,     \* history: the view of the proxy that changed its own last
  disturbed   \* history: see Disturbs

files   == <<sidecar, stateFile, writer>>
roles   == <<ownerLock, persisting>>
jobs    == <<queued, saving, snapshot>>
proxies == <<roles, proxy, memory, jobs>>
cmds    == <<command, view>>
reqs    == <<request, server, owner, chosen, failed>>
history == <<latest, disturbed>>
vars == <<now, files, proxies, cmds, reqs, history>>

Later(a, b) == IF a > b THEN a ELSE b

Unbound == [owner |-> NoProfile, at |-> 0]

\* the newest event is the latest time in the lifecycle status of the session
Empty == [binding |-> Unbound, epoch |-> 0, event |-> 0]

Bindings == [owner : Profiles \cup {NoProfile, Conflict}, at : Nat]
Stores   == [binding : Bindings, epoch : Nat, event : Nat]

View(s) == <<s.binding.owner, s.epoch>>

-----------------------------------------------------------------------------
(* Merging.                                                                *)

(* Mutant: the later binding wins.                                         *)
LatestWins(a, b) == IF b.at > a.at THEN b ELSE a

HardMerge(a, b) ==
  IF a.owner = NoProfile THEN b
  ELSE IF b.owner = NoProfile THEN a
  ELSE [owner |-> IF a.owner = b.owner THEN a.owner ELSE Conflict,
        at    |-> Later(a.at, b.at)]

Survives(b, epoch) == epoch = 0 \/ b.at > epoch

Fenced(b, epoch) == IF Survives(b, epoch) THEN b ELSE Unbound

(* Mutant: the epochs are learned only after the bindings are merged.      *)
MergeThenFence(s, t) ==
  LET epoch == Later(s.epoch, t.epoch)
  IN  [binding |-> Fenced(HardMerge(s.binding, t.binding), epoch),
       epoch   |-> epoch,
       event   |-> Later(s.event, t.event)]

Merge(s, t) ==
  LET epoch == Later(s.epoch, t.epoch)
  IN  [binding |-> HardMerge(Fenced(s.binding, epoch), Fenced(t.binding, epoch)),
       epoch   |-> epoch,
       event   |-> Later(s.event, t.event)]

\* a store that knows the binding of state.json and nothing else
Legacy(b) == [Empty EXCEPT !.binding = b]

-----------------------------------------------------------------------------
(* What requests do to the store of their proxy.                           *)

NextEvent(event, t) == IF event >= t /\ event > 0 THEN event + 1 ELSE t

\* a lookup touches the binding of a profile
Touched(s) ==
  IF s.binding.owner \in Profiles
  THEN [s EXCEPT !.binding.at = Later(s.binding.at, now),
                 !.event = NextEvent(s.event, now)]
  ELSE s

(* Mutant: the release is dated by the clock alone.                        *)
ReleasedNow(s) == [binding |-> Unbound, epoch |-> Later(s.epoch, now), event |-> now]

Released(s) ==
  LET event == NextEvent(s.event, now)
  IN  [binding |-> Unbound, epoch |-> Later(s.epoch, event), event |-> event]

ReleasedFrom(s, profile) ==
  IF profile \in Profiles /\ s.binding.owner = profile THEN Released(s) ELSE s

RebindTime(s) == IF s.epoch = 0 THEN now ELSE Later(now, s.epoch + 1)

\* refresh: the status was old enough to be verified anew
Remembered(s, profile, refresh) ==
  LET t     == RebindTime(s)
      bound == HardMerge(s.binding, [owner |-> profile, at |-> t])
  IN  [s EXCEPT !.binding = bound,
                !.event = IF refresh \/ s.binding.owner = NoProfile \/ bound.owner = Conflict
                          THEN NextEvent(s.event, t) ELSE s.event]

-----------------------------------------------------------------------------
\* on disk the session is new or has been bound before
Init ==
  /\ now = 1
  /\ sidecar \in {Empty} \cup {Remembered(Empty, profile, TRUE) : profile \in Profiles}
  /\ stateFile = sidecar.binding
  /\ writer = {}
  /\ ownerLock = {}
  /\ persisting = {}
  /\ proxy = [p \in Proxies |-> "new"]
  /\ memory = [p \in Proxies |-> Empty]
  /\ queued = {}
  /\ saving = {}
  /\ snapshot = [p \in Proxies |-> Empty]
  /\ command = [c \in Commands |-> "new"]
  /\ view = [c \in Commands |-> Unbound]
  /\ request = [r \in Requests |-> "new"]
  /\ server \in [Requests -> Proxies]
  /\ owner = [r \in Requests |-> NoProfile]
  /\ chosen = [r \in Requests |-> NoProfile]
  /\ failed = [r \in Requests |-> {}]
  /\ latest = View(sidecar)
  /\ disturbed = FALSE

Tick ==
  /\ now < MaxTime
  /\ now' = now + 1
  /\ UNCHANGED <<files, proxies, cmds, reqs, history>>

(* A command loads state.json when it starts and later merges what it has  *)
(* loaded into the file, under the lock.                                   *)

LoadCommand(c) ==
  /\ command[c] = "new"
  /\ command' = [command EXCEPT ![c] = "loaded"]
  /\ view' = [view EXCEPT ![c] = stateFile]
  /\ UNCHANGED <<now, files, proxies, reqs, history>>

SaveCommand(c) ==
  /\ command[c] = "loaded"
  /\ writer = {}
  /\ command' = [command EXCEPT ![c] = "done"]
  /\ view' = [view EXCEPT ![c] = Unbound]
  /\ stateFile' = HardMerge(stateFile, view[c])
  /\ disturbed' = (disturbed \/ stateFile'.owner = Conflict)
  /\ UNCHANGED <<now, sidecar, writer, proxies, reqs, latest>>

(* A proxy starts from the state its command loaded, the state on disk and *)
(* the sidecar, read in this order; the sidecar comes first in the merge.  *)
(* While it starts its memory holds the launch state, its snapshot the     *)
(* state on disk.                                                          *)

Moves(p, from, to) ==
  /\ proxy[p] = from
  /\ proxy' = [proxy EXCEPT ![p] = to]

ReadLaunchState(p) ==
  /\ Moves(p, "new", "launched")
  /\ memory' = [memory EXCEPT ![p] = Legacy(stateFile)]
  /\ UNCHANGED <<now, files, roles, jobs, cmds, reqs, history>>

Own(p) ==
  /\ ownerLock = {}
  /\ ownerLock' = {p}
  /\ persisting' = persisting \cup {p}

TryOwn(p) ==
  /\ Moves(p, "launched", "starting")
  /\ IF ownerLock = {} THEN Own(p) ELSE UNCHANGED roles
  /\ UNCHANGED <<now, files, memory, jobs, cmds, reqs, history>>

ReadState(p) ==
  /\ Moves(p, "starting", "loading")
  /\ snapshot' = [snapshot EXCEPT ![p] = Legacy(stateFile)]
  /\ UNCHANGED <<now, files, roles, memory, queued, saving, cmds, reqs, history>>

\* all the stores a start merges but the journal's
Restored(p) == Merge(Merge(sidecar, memory[p]), snapshot[p])

Restore(p) ==
  /\ Moves(p, "loading", "up")
  /\ memory' = [memory EXCEPT ![p] = Restored(p)]
  /\ snapshot' = [snapshot EXCEPT ![p] = Empty]
  /\ UNCHANGED <<now, files, roles, queued, saving, cmds, reqs, history>>

\* a running follower takes the owner lock once it is free
Promote(p) ==
  /\ proxy[p] = "up"
  /\ p \notin persisting
  /\ Own(p)
  /\ UNCHANGED <<now, files, proxy, memory, jobs, cmds, reqs, history>>

(* Its save worker reads the live memory and, under the state-file lock,   *)
(* writes the sidecar and then state.json; a save that fails is dropped.   *)

Running(p) == proxy[p] \in {"up", "stopping"}

ReadLive(p) ==
  /\ p \in queued
  /\ p \notin saving \cup writer
  /\ queued' = queued \ {p}
  /\ saving' = saving \cup {p}
  /\ snapshot' = [snapshot EXCEPT ![p] = memory[p]]
  /\ UNCHANGED <<now, files, roles, proxy, memory, cmds, reqs, history>>

EndSave(p) ==
  /\ p \in saving
  /\ saving' = saving \ {p}
  /\ snapshot' = [snapshot EXCEPT ![p] = Empty]

SaveSidecar(p) ==
  /\ EndSave(p)
  /\ writer = {}
  /\ writer' = {p}
  /\ sidecar' = Merge(sidecar, snapshot[p])
  /\ UNCHANGED <<now, stateFile, roles, proxy, memory, queued, cmds, reqs, history>>

SaveState(p) ==
  /\ p \in writer
  /\ writer' = {}
  /\ stateFile' = sidecar.binding
  /\ UNCHANGED <<now, sidecar, proxies, cmds, reqs, history>>

InProgress(r) == request[r] \in {"choosing", "trying"}

\* a request that is over has no locals any more
Finish(rs) ==
  /\ request' = [r \in Requests |-> IF r \in rs THEN "over" ELSE request[r]]
  /\ owner' = [r \in Requests |-> IF r \in rs THEN NoProfile ELSE owner[r]]
  /\ chosen' = [r \in Requests |-> IF r \in rs THEN NoProfile ELSE chosen[r]]
  /\ failed' = [r \in Requests |-> IF r \in rs THEN {} ELSE failed[r]]

FailSave(p) ==
  /\ EndSave(p)
  /\ UNCHANGED <<now, files, roles, proxy, memory, queued, cmds, reqs, history>>

(* A proxy that stops gives up the owner lock while its workers go on; a   *)
(* process that ends takes with it what it had not saved, and its          *)
(* requests.  The latest view is the sidecar's then, unless another proxy  *)
(* has it; the journal, which may have a later one, is left out.           *)

Stop(p) ==
  /\ Moves(p, "up", "stopping")
  /\ ownerLock' = ownerLock \ {p}
  /\ UNCHANGED <<now, files, persisting, memory, jobs, cmds, reqs, history>>

Exit(p) ==
  /\ Running(p)
  /\ proxy' = [proxy EXCEPT ![p] = "over"]
  /\ writer' = writer \ {p}
  /\ ownerLock' = ownerLock \ {p}
  /\ persisting' = persisting \ {p}
  /\ memory' = [memory EXCEPT ![p] = Empty]
  /\ queued' = queued \ {p}
  /\ saving' = saving \ {p}
  /\ snapshot' = [snapshot EXCEPT ![p] = Empty]
  /\ Finish({r \in Requests : server[r] = p /\ InProgress(r)})
  /\ latest' = IF \E q \in Proxies \ {p} : Running(q) /\ View(memory[q]) = latest
               THEN latest ELSE View(sidecar)
  /\ UNCHANGED <<now, sidecar, stateFile, cmds, server, disturbed>>

(* A request looks up the owner of its session.  One that carries the full *)
(* history first releases a session in conflict; for the others a conflict *)
(* is no affinity.                                                         *)

\* Rotation is not promised to prevail once a request begins on an outdated
\* view or beside another request of the session, or once a command has
\* merged two owners without their epochs.
Disturbs(r) ==
  \/ View(memory[server[r]]) # latest
  \/ \E q \in Requests \ {r} : InProgress(q)

Update(r, store) ==
  /\ memory' = [memory EXCEPT ![server[r]] = store]
  /\ latest' = View(store)
  /\ UNCHANGED <<now, files, roles, proxy, saving, snapshot, cmds, server>>

\* a change of the memory is queued for saving, if the proxy persists at all
Schedule(r, changed) ==
  queued' = queued \cup IF changed THEN {server[r]} \cap persisting ELSE {}

Begin(r) ==
  LET store == memory[server[r]]
      bound == store.binding.owner
  IN  /\ request[r] = "new"
      /\ proxy[server[r]] = "up"
      /\ request' = [request EXCEPT ![r] = "choosing"]
      /\ owner' = [owner EXCEPT ![r] = IF bound = Conflict THEN NoProfile ELSE bound]
      /\ \/ Update(r, Touched(store)) /\ (\E due \in BOOLEAN : Schedule(r, due))
         \/ bound = Conflict /\ Update(r, Released(store)) /\ Schedule(r, TRUE)
      /\ disturbed' = (disturbed \/ Disturbs(r))
      /\ UNCHANGED <<chosen, failed>>

\* a candidate other than the session's profile releases it before it is tried
Select(r) ==
  /\ request[r] = "choosing"
  /\ request' = [request EXCEPT ![r] = "trying"]
  /\ \E profile \in Profiles \ failed[r] :
       LET store == memory[server[r]]
       IN  /\ chosen' = [chosen EXCEPT ![r] = profile]
           /\ Update(r, IF profile = owner[r] THEN store ELSE ReleasedFrom(store, owner[r]))
  /\ Schedule(r, memory' # memory)
  /\ UNCHANGED <<owner, failed, disturbed>>

\* quota, authentication or a retryable failure, before the commit
Fail(r) ==
  /\ request[r] = "trying"
  /\ \/ /\ failed[r] \cup {chosen[r]} = Profiles
        /\ Finish({r})
     \/ /\ failed[r] \cup {chosen[r]} # Profiles
        /\ request' = [request EXCEPT ![r] = "choosing"]
        /\ failed' = [failed EXCEPT ![r] = @ \cup {chosen[r]}]
        /\ owner' = [owner EXCEPT ![r] = IF @ = chosen[r] THEN NoProfile ELSE @]
        /\ chosen' = [chosen EXCEPT ![r] = NoProfile]
  /\ Update(r, ReleasedFrom(memory[server[r]], chosen[r]))
  /\ Schedule(r, memory' # memory)
  /\ UNCHANGED disturbed

Commit(r) ==
  /\ request[r] = "trying"
  /\ \E refresh \in BOOLEAN :
       LET store == memory[server[r]]
       IN  /\ Update(r, Remembered(store, chosen[r], refresh))
           /\ Schedule(r, refresh \/ latest' # View(store))
  /\ Finish({r})
  /\ UNCHANGED disturbed

Next ==
  \/ Tick
  \/ \E c \in Commands : LoadCommand(c) \/ SaveCommand(c)
  \/ \E p \in Proxies :
       \/ ReadLaunchState(p) \/ TryOwn(p) \/ ReadState(p) \/ Restore(p) \/ Promote(p)
       \/ ReadLive(p) \/ SaveSidecar(p) \/ SaveState(p) \/ FailSave(p)
       \/ Stop(p) \/ Exit(p)
  \/ \E r \in Requests : Begin(r) \/ Select(r) \/ Fail(r) \/ Commit(r)

Spec == Init /\ [][Next]_vars

-----------------------------------------------------------------------------
(* Properties.                                                             *)

TypeOK ==
  /\ now \in 1..MaxTime
  /\ sidecar \in Stores /\ stateFile \in Bindings /\ writer \subseteq Proxies
  /\ ownerLock \subseteq Proxies /\ persisting \subseteq Proxies
  /\ proxy \in [Proxies -> {"new", "launched", "starting", "loading", "up", "stopping", "over"}]
  /\ queued \subseteq Proxies /\ saving \subseteq Proxies
  /\ memory \in [Proxies -> Stores] /\ snapshot \in [Proxies -> Stores]
  /\ command \in [Commands -> {"new", "loaded", "done"}]
  /\ view \in [Commands -> Bindings]
  /\ request \in [Requests -> {"new", "choosing", "trying", "over"}]
  /\ server \in [Requests -> Proxies]
  /\ owner \in [Requests -> Profiles \cup {NoProfile}]
  /\ chosen \in [Requests -> Profiles \cup {NoProfile}]
  /\ \A r \in Requests : request[r] = "trying" => chosen[r] \in Profiles
  /\ failed \in [Requests -> SUBSET Profiles]
  /\ latest \in (Profiles \cup {NoProfile, Conflict}) \X Nat
  /\ disturbed \in BOOLEAN

Copies ==
  {sidecar.binding, stateFile} \cup {view[c] : c \in Commands}
    \cup UNION {{memory[p].binding, snapshot[p].binding} : p \in Proxies}

\* A legitimate rotation never becomes a conflict, and nothing undoes it: as
\* long as requests of the session do not overlap and begin on the latest view,
\* no file, memory or pending save holds a conflict, and whatever saves of
\* older views are still pending in other proxies, the files they leave and the
\* memory of the proxy that rotated last merge into that proxy's view.  A view
\* is lost with its proxy before it is in the sidecar: of one that only the
\* continuation journal has by then, nothing is said.
RotationPrevails ==
  ~disturbed =>
    /\ Conflict \notin {sidecar.binding.owner, stateFile.owner}
    /\ \A p \in Proxies : Conflict \notin {memory[p].binding.owner, snapshot[p].binding.owner}
    /\ \A p, q \in Proxies :
         Running(p) /\ View(memory[p]) = latest =>
           View(Merge(Merge(sidecar, snapshot[q]), memory[p])) = latest

\* "Session routing can move only across an explicit release": a save that
\* replaces or drops the profile in the sidecar leaves a release epoch that is
\* not older than the binding, or a conflict.
OwnerMovesOnlyAcrossRelease ==
  [][ LET old == sidecar.binding
      IN  old.owner \in Profiles /\ sidecar'.binding.owner # old.owner =>
            sidecar'.binding.owner = Conflict \/ sidecar'.epoch >= old.at ]_vars

\* A release fences every copy of the binding it drops: its epoch is not older
\* than the binding in memory and, while rotation is promised to prevail, than
\* any copy for the same owner in the files, in other proxies, in pending saves
\* and in commands, although their clocks may count several events a second.  The
\* copies in the continuation journal are not among them.
ReleasesFence ==
  [][ \A p \in Proxies :
        LET old    == memory[p].binding
            copies == {old} \cup IF disturbed THEN {} ELSE {b \in Copies : b.owner = old.owner}
        IN  Running(p) /\ Running(p)'
              /\ old.owner # NoProfile /\ memory'[p].binding.owner = NoProfile
            => \A b \in copies : ~Survives(b, memory'[p].epoch) ]_vars
=============================================================================
