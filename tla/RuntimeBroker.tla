---------------------------- MODULE RuntimeBroker ----------------------------
(***************************************************************************)
(* The shared broker process of one broker key: the registry and the       *)
(* capability file that name it, the leases that keep it alive, and the    *)
(* launchers that find, reuse, replace or spawn it under the ensure lock   *)
(* of the key.  A launcher of another key whose configuration matches may  *)
(* reuse the broker without that lock.                                     *)
(*                                                                         *)
(* A launcher makes sure of its endpoint once and spawns at most one       *)
(* broker, so a broker is named after the launcher that spawns it.  Time   *)
(* appears as what it orders: waits may end, scans come several times      *)
(* during an idle period, and the grace of a young broker outlasts the     *)
(* wait of its launcher.  Clocks do not jump.                              *)
(*                                                                         *)
(* A registration is removed in two steps under the artifact lock, the     *)
(* registry file and then the capability file, by a launcher, by the       *)
(* broker itself or by the housekeeping command; any of them may die in    *)
(* between.  The registry file and its backup count as one file.           *)
(***************************************************************************)
EXTENDS Naturals, FiniteSets

CONSTANTS
  Launchers,    \* processes that launch a session through a broker
  Foreign,      \* those of another broker key
  Version,      \* the version of each, and of the broker it spawns
  Mortal,       \* launchers that may crash
  Fragile,      \* brokers that may crash or fail to publish
  None

ASSUME BrokerAssumption ==
  /\ Foreign \subseteq Launchers
  /\ Mortal \subseteq Launchers
  /\ Fragile \subseteq Launchers \ Foreign
  /\ None \notin Launchers
  /\ None \notin {"launcher", "broker", "housekeeping"} \X Launchers

VARIABLES
  pc,           \* the step of each launcher
  look,         \* which look at the registry it is taking
  found,        \* the broker it looks at, awaits or is attached to
  health,       \* what the probe of that broker said
  lock,         \* the holder of the ensure lock
  registry,     \* the instance the registry file names
  capability,   \* the instance the capability file names
  artifact,     \* who holds the artifact lock over several steps
  torn,         \* brokers with one file handled when its handler died (history)
  leases,       \* the launchers with a lease file
  bpc,          \* the state of each broker
  loop,         \* where the broker's loop is
  counted,      \* brokers whose last scan found a lease
  idle,         \* how far the idle period of each broker is
  young,        \* brokers within their startup grace
  busy,         \* launchers with a request at their broker
  unseen        \* attached launchers no scan of their broker has met

launch == <<pc, look, found, health, lock>>
files == <<registry, capability, artifact, torn>>
service == <<bpc, loop, counted, idle, young>>
usage == <<leases, busy, unseen>>
vars == <<launch, files, service, usage>>

Brokers == Launchers \ Foreign

(* A launcher or a broker holds the artifact lock, or the housekeeping     *)
(* command does, for the sake of a broker.                                 *)
Holders == {"launcher", "broker", "housekeeping"} \X Launchers
Ended == {"elsewhere", "failed", "done", "crashed"}
PC == {"idle", "lock", "load", "stale", "probe", "guard", "terminate", "discard",
       "withdraw", "spawn", "await", "activate", "lease", "attached"} \cup Ended
BPC == {"unborn", "starting", "publishing", "announcing", "serving", "stopping",
        "withdrawing", "leaving", "gone", "killed", "dead", "botched"}
Absent == {"unborn", "gone", "killed", "dead", "botched"}

Ensuring(l) == pc[l] \notin {"idle", "attached"} \cup Ended
AttachedTo(b) == {l \in Launchers : pc[l] = "attached" /\ found[l] = b}
AtBroker(b) == {l \in busy : found[l] = b}

(* Metadata is registered, so the admin requests of the broker's own       *)
(* capability are answered.                                                *)
Answers(b) == capability = b /\ bpc[b] = "serving"

(* Leases of processes that are proven absent do not count.                *)
LiveLeases == {l \in leases : pc[l] # "crashed"}

Init ==
  /\ pc = [l \in Launchers |-> "idle"]
  /\ look = [l \in Launchers |-> IF l \in Foreign THEN "compatible" ELSE "wait"]
  /\ found = [l \in Launchers |-> None]
  /\ health = [l \in Launchers |-> "none"]
  /\ lock = None
  /\ registry = None
  /\ capability = None
  /\ artifact = None
  /\ torn = {}
  /\ leases = {}
  /\ bpc = [b \in Brokers |-> "unborn"]
  /\ loop = [b \in Brokers |-> "top"]
  /\ counted = {}
  /\ idle = [b \in Brokers |-> "no"]
  /\ young = Brokers
  /\ busy = {}
  /\ unseen = {}

-----------------------------------------------------------------------------
(* A broker's proxy ends, with its requests and the state of its loop.     *)
Halt(b, state) ==
  /\ bpc' = [bpc EXCEPT ![b] = state]
  /\ loop' = [loop EXCEPT ![b] = "top"]
  /\ counted' = counted \ {b}
  /\ idle' = [idle EXCEPT ![b] = "no"]
  /\ young' = young \ {b}
  /\ busy' = busy \ AtBroker(b)
  /\ UNCHANGED <<leases, unseen>>

-----------------------------------------------------------------------------
(* Launchers.                                                              *)
Goto(l, from, to) == pc[l] = from /\ pc' = [pc EXCEPT ![l] = to]

(* The ensure lock is released however the function returns.               *)
Release(l) == lock' = IF lock = l THEN None ELSE lock

(* A launcher has its broker, or none: the looks are over.                 *)
Over(l) == look' = [look EXCEPT ![l] = "over"]

Fail(l, from) ==
  /\ Goto(l, from, "failed")
  /\ Over(l)
  /\ Release(l)
  /\ found' = [found EXCEPT ![l] = None]
  /\ UNCHANGED health

(* A look that finds nothing to reuse is followed by the next one: the     *)
(* waiting look by a last one, the last one by a spawn.                    *)
NextLook(l, from) ==
  /\ found' = [found EXCEPT ![l] = None]
  /\ \/ /\ look[l] = "wait"
        /\ Goto(l, from, "load")
        /\ look' = [look EXCEPT ![l] = "last"]
     \/ /\ look[l] = "last"
        /\ Goto(l, from, "spawn")
        /\ Over(l)
     \/ /\ look[l] = "compatible"
        /\ Goto(l, from, "elsewhere")
        /\ Over(l)

(* The waiting look sleeps and looks again instead.                        *)
LookAgain(l, from) ==
  \/ /\ look[l] = "wait"
     /\ Goto(l, from, "load")
     /\ found' = [found EXCEPT ![l] = None]
     /\ UNCHANGED look
  \/ /\ look[l] # "wait"
     /\ NextLook(l, from)

Launch(l) ==
  /\ Goto(l, "idle", IF l \in Foreign THEN "load" ELSE "lock")
  /\ UNCHANGED <<look, found, health, lock, files, service, usage>>

(* Mutant: nobody waits for the lock.                                      *)
AcquireHeedless(l) ==
  /\ Goto(l, "lock", "load")
  /\ lock' = l
  /\ UNCHANGED <<look, found, health, files, service, usage>>

Acquire(l) ==
  /\ lock = None
  /\ Goto(l, "lock", "load")
  /\ lock' = l
  /\ UNCHANGED <<look, found, health, files, service, usage>>

(* With neither file there is nothing to lock.                             *)
Load(l) ==
  /\ artifact = None \/ (registry = None /\ capability = None)
  /\ \/ /\ registry = None
        /\ NextLook(l, "load")
     \/ /\ registry # None
        /\ Goto(l, "load", "stale")
        /\ found' = [found EXCEPT ![l] = registry]
        /\ UNCHANGED look
  /\ UNCHANGED <<health, lock, files, service, usage>>

WaitTimeout(l) ==
  /\ pc[l] = "load"
  /\ look[l] = "wait"
  /\ look' = [look EXCEPT ![l] = "last"]
  /\ UNCHANGED <<pc, found, health, lock, files, service, usage>>

(* Mutant: whatever broker is registered is removed.                       *)
UnlistAny(b, holder) ==
  /\ artifact = None
  /\ registry' = None
  /\ artifact' = holder
  /\ UNCHANGED <<capability, torn>>

(* The registration is removed if it is still this instance's; the lock is *)
(* kept for the capability.                                                *)
Unlist(b, holder) ==
  /\ artifact = None
  /\ registry = b
  /\ registry' = None
  /\ artifact' = holder
  /\ UNCHANGED <<capability, torn>>

(* The capability follows, if it is this instance's.                       *)
DropCapability(b, holder) ==
  /\ artifact = holder
  /\ capability' = IF capability = b THEN None ELSE capability
  /\ artifact' = None
  /\ UNCHANGED <<registry, torn>>

(* A holder dies: the lock is the operating system's, and falls.           *)
LetGo(b, holder) ==
  /\ artifact' = IF artifact = holder THEN None ELSE artifact
  /\ torn' = IF artifact = holder THEN torn \cup {b} ELSE torn
  /\ UNCHANGED <<registry, capability>>

Forget(l, from) ==
  \/ /\ Unlist(found[l], <<"launcher", l>>)
     /\ Goto(l, from, "withdraw")
     /\ UNCHANGED <<look, found>>
  \/ /\ artifact = None
     /\ registry # found[l]
     /\ NextLook(l, from)
     /\ UNCHANGED files

Withdraw(l) ==
  /\ DropCapability(found[l], <<"launcher", l>>)
  /\ NextLook(l, "withdraw")
  /\ UNCHANGED <<health, lock, service, usage>>

Stale(l) ==
  /\ pc[l] = "stale"
  /\ \/ /\ bpc[found[l]] \in Absent
        /\ Forget(l, "stale")
     \/ /\ bpc[found[l]] \notin Absent
        /\ Goto(l, "stale", "probe")
        /\ UNCHANGED <<look, found, files>>
  /\ UNCHANGED <<health, lock, service, usage>>

(* A broker that answers may do so too late, or be cut short.              *)
Probe(l) ==
  LET b == found[l] IN
  /\ pc[l] = "probe"
  /\ \/ /\ Goto(l, "probe", "guard")
        /\ health' = [health EXCEPT ![l] = "none"]
        /\ UNCHANGED <<look, found, lock>>
     \/ /\ Answers(b)
        /\ Goto(l, "probe", "guard")
        /\ health' = [health EXCEPT ![l] = IF AtBroker(b) = {} THEN "free" ELSE "busy"]
        /\ UNCHANGED <<look, found, lock>>
     \/ /\ Answers(b)
        /\ Fail(l, "probe")
  /\ UNCHANGED <<files, service, usage>>

(* Mutant: leases are not counted.                                         *)
GuardLeaseless(l) ==
  LET b == found[l]
      mismatch == bpc[b] \notin Absent /\ Version[b] # Version[l] IN
  /\ pc[l] = "guard"
  /\ health' = [health EXCEPT ![l] = "none"]
  /\ leases' = LiveLeases
  /\ \/ /\ ~mismatch /\ health[l] # "none"
        /\ Goto(l, "guard", "activate") /\ Over(l) /\ UNCHANGED found
     \/ /\ ~mismatch /\ health[l] = "none"
        /\ LookAgain(l, "guard")
     \/ /\ mismatch /\ health[l] = "busy"
        /\ NextLook(l, "guard")
     \/ /\ mismatch /\ health[l] # "busy"
        /\ Goto(l, "guard", "terminate") /\ UNCHANGED <<look, found>>
  /\ UNCHANGED <<lock, files, service, busy, unseen>>

(* The version guard and the reuse decision: another version in use is     *)
(* left alone, another version unused is replaced, and a broker of this    *)
(* version is reused if it answered.                                       *)
Guard(l) ==
  LET b == found[l]
      mismatch == bpc[b] \notin Absent /\ Version[b] # Version[l]
      used == health[l] = "busy" \/ LiveLeases # {} IN
  /\ pc[l] = "guard"
  /\ health' = [health EXCEPT ![l] = "none"]
  /\ leases' = LiveLeases
  /\ \/ /\ ~mismatch /\ health[l] # "none"
        /\ Goto(l, "guard", "activate") /\ Over(l) /\ UNCHANGED found
     \/ /\ ~mismatch /\ health[l] = "none"
        /\ LookAgain(l, "guard")
     \/ /\ mismatch /\ used
        /\ NextLook(l, "guard")
     \/ /\ mismatch /\ ~used
        /\ Goto(l, "guard", "terminate") /\ UNCHANGED <<look, found>>
  /\ UNCHANGED <<lock, files, service, busy, unseen>>

(* The process is killed, unless it is gone or its ownership is unproven.  *)
Terminate(l) ==
  LET b == found[l] IN
  /\ pc[l] = "terminate"
  /\ \/ /\ bpc[b] \in Absent
        /\ Goto(l, "terminate", "discard")
        /\ UNCHANGED <<look, found, lock, files, service, usage>>
     \/ /\ bpc[b] \notin Absent
        /\ Goto(l, "terminate", "discard")
        /\ Halt(b, "killed")
        /\ LetGo(b, <<"broker", b>>)
        /\ UNCHANGED <<look, found, lock>>
     \/ /\ bpc[b] \notin Absent
        /\ IF l \in Foreign
           THEN NextLook(l, "terminate") /\ UNCHANGED lock
           ELSE Fail(l, "terminate")
        /\ UNCHANGED <<files, service, usage>>
  /\ UNCHANGED health

Discard(l) ==
  /\ pc[l] = "discard"
  /\ Forget(l, "discard")
  /\ UNCHANGED <<health, lock, service, usage>>

(* Before it spawns, a launcher tries the brokers of the other keys.       *)
UseElsewhere(l) ==
  /\ Goto(l, "spawn", "elsewhere")
  /\ Release(l)
  /\ UNCHANGED <<look, found, health, files, service, usage>>

Spawn(l) ==
  /\ Goto(l, "spawn", "await")
  /\ found' = [found EXCEPT ![l] = l]
  /\ bpc' = [bpc EXCEPT ![l] = "starting"]
  /\ UNCHANGED <<look, health, lock, files, loop, counted, idle, young, usage>>

Ready(l) ==
  /\ artifact = None
  /\ registry = l /\ Answers(l)
  /\ Goto(l, "await", "activate")
  /\ UNCHANGED <<look, found, health, lock, files, service, usage>>

(* Mutant: only another broker's registration ends the wait.               *)
AwaitForever(l) ==
  /\ registry \notin {None, l}
  /\ Fail(l, "await") /\ UNCHANGED <<files, service, usage>>

AwaitTimeout(l) == Fail(l, "await") /\ UNCHANGED <<files, service, usage>>

(* The broker may have stopped since it was probed, or answer too late.    *)
Activate(l) ==
  /\ pc[l] = "activate"
  /\ \/ /\ Answers(found[l])
        /\ Goto(l, "activate", "lease")
        /\ UNCHANGED <<look, found, health, lock>>
     \/ Fail(l, "activate")
  /\ UNCHANGED <<files, service, usage>>

Lease(l) ==
  /\ Goto(l, "lease", "attached")
  /\ leases' = leases \cup {l}
  /\ unseen' = unseen \cup {l}
  /\ Release(l)
  /\ UNCHANGED <<look, found, health, files, service, busy>>

BeginRequest(l) ==
  /\ pc[l] = "attached" /\ l \notin busy
  /\ bpc[found[l]] = "serving"
  /\ busy' = busy \cup {l}
  /\ UNCHANGED <<launch, files, service, leases, unseen>>

EndRequest(l) ==
  /\ l \in busy
  /\ busy' = busy \ {l}
  /\ UNCHANGED <<launch, files, service, leases, unseen>>

(* The session ends, and the lease is dropped with the endpoint.           *)
Detach(l) ==
  /\ Goto(l, "attached", "done")
  /\ l \notin busy
  /\ found' = [found EXCEPT ![l] = None]
  /\ leases' = leases \ {l}
  /\ unseen' = unseen \ {l}
  /\ UNCHANGED <<look, health, lock, files, service, busy>>

(* A crash leaves the lease file behind, and what it has half removed.     *)
Crash(l) ==
  /\ l \in Mortal
  /\ Ensuring(l) \/ pc[l] = "attached"
  /\ pc' = [pc EXCEPT ![l] = "crashed"]
  /\ Over(l)
  /\ Release(l)
  /\ found' = [found EXCEPT ![l] = None]
  /\ health' = [health EXCEPT ![l] = "none"]
  /\ busy' = busy \ {l}
  /\ unseen' = unseen \ {l}
  /\ LetGo(found[l], <<"launcher", l>>)
  /\ UNCHANGED <<service, leases>>

-----------------------------------------------------------------------------
(* Brokers.                                                                *)
Turn(b, from, to) == bpc[b] = from /\ bpc' = [bpc EXCEPT ![b] = to]

PublishCapability(b) ==
  /\ artifact = None
  /\ Turn(b, "starting", "publishing")
  /\ artifact' = <<"broker", b>>
  /\ capability' = b
  /\ UNCHANGED <<launch, registry, torn, loop, counted, idle, young, usage>>

(* If the registry cannot be written, the capability is removed again.     *)
PublishRegistry(b) ==
  /\ artifact' = None
  /\ \/ /\ Turn(b, "publishing", "announcing")
        /\ registry' = b
        /\ UNCHANGED capability
     \/ /\ b \in Fragile
        /\ Turn(b, "publishing", "botched")
        /\ capability' = None
        /\ UNCHANGED registry
  /\ UNCHANGED <<launch, torn, loop, counted, idle, young, usage>>

Announce(b) ==
  /\ Turn(b, "announcing", "serving")
  /\ UNCHANGED <<launch, files, loop, counted, idle, young, usage>>

(* The grace of a broker is longer than its launcher waits for it.         *)
GraceElapses(b) ==
  /\ bpc[b] = "serving" /\ b \in young
  /\ pc[b] \notin {"await", "activate", "lease"}
  /\ young' = young \ {b}
  /\ UNCHANGED <<launch, files, bpc, loop, counted, idle, usage>>

(* The active requests are read; leases are not scanned beside them, nor   *)
(* before the interval has passed.                                         *)
Observe(b) ==
  /\ bpc[b] = "serving" /\ loop[b] = "top"
  /\ loop' = [loop EXCEPT ![b] = IF AtBroker(b) = {} THEN "free" ELSE "busy"]
  /\ UNCHANGED <<launch, files, bpc, counted, idle, young, usage>>

(* Mutant: once the idle period has begun, nothing new is counted.         *)
ScanOnlyBefore(b) ==
  /\ bpc[b] = "serving" /\ loop[b] = "top"
  /\ AtBroker(b) = {}
  /\ loop' = [loop EXCEPT ![b] = "free"]
  /\ idle' = [idle EXCEPT ![b] = IF @ = "begun" THEN "ripe" ELSE @]
  /\ counted' = IF idle[b] # "no" \/ LiveLeases = {} THEN counted \ {b}
                ELSE counted \cup {b}
  /\ leases' = LiveLeases
  /\ unseen' = {l \in unseen : found[l] # b}
  /\ UNCHANGED <<launch, files, bpc, young, busy>>

(* Mutant: leases of absent processes count.                               *)
ScanKeepsAll(b) ==
  /\ bpc[b] = "serving" /\ loop[b] = "top"
  /\ AtBroker(b) = {}
  /\ loop' = [loop EXCEPT ![b] = "free"]
  /\ idle' = [idle EXCEPT ![b] = IF @ = "begun" THEN "ripe" ELSE @]
  /\ counted' = IF leases = {} THEN counted \ {b} ELSE counted \cup {b}
  /\ unseen' = {l \in unseen : found[l] # b}
  /\ UNCHANGED <<launch, files, bpc, young, busy, leases>>

Scan(b) ==
  /\ bpc[b] = "serving" /\ loop[b] = "top"
  /\ AtBroker(b) = {}
  /\ loop' = [loop EXCEPT ![b] = "free"]
  /\ idle' = [idle EXCEPT ![b] = IF @ = "begun" THEN "ripe" ELSE @]
  /\ counted' = IF LiveLeases = {} THEN counted \ {b} ELSE counted \cup {b}
  /\ leases' = LiveLeases
  /\ unseen' = {l \in unseen : found[l] # b}
  /\ UNCHANGED <<launch, files, bpc, young, busy>>

Quiet(b) == loop[b] = "free" /\ b \notin counted \cup young

Tick(b) ==
  /\ bpc[b] = "serving" /\ loop[b] # "top"
  /\ loop' = [loop EXCEPT ![b] = "top"]
  /\ idle' = [idle EXCEPT ![b] = IF ~Quiet(b) THEN "no"
                                 ELSE IF @ = "no" THEN "begun" ELSE @]
  /\ UNCHANGED <<launch, files, bpc, counted, young, usage>>

(* The proxy is dropped, with the requests that have begun meanwhile.      *)
Shutdown(b) ==
  /\ bpc[b] = "serving"
  /\ Quiet(b) /\ idle[b] = "ripe"
  /\ Halt(b, "stopping")
  /\ UNCHANGED <<launch, files>>

Unregister(b) ==
  /\ \/ /\ Turn(b, "stopping", "withdrawing")
        /\ Unlist(b, <<"broker", b>>)
     \/ /\ artifact = None
        /\ registry # b
        /\ Turn(b, "stopping", "leaving")
        /\ UNCHANGED files
  /\ UNCHANGED <<launch, loop, counted, idle, young, usage>>

WithdrawOwn(b) ==
  /\ Turn(b, "withdrawing", "leaving")
  /\ DropCapability(b, <<"broker", b>>)
  /\ UNCHANGED <<launch, loop, counted, idle, young, usage>>

(* Mutant: whatever capability is there is removed.                        *)
RemoveAnyCapability(b) ==
  /\ artifact = None
  /\ Turn(b, "leaving", "gone")
  /\ capability' = None
  /\ UNCHANGED <<launch, registry, artifact, torn, loop, counted, idle, young, usage>>

RemoveCapability(b) ==
  /\ artifact = None
  /\ Turn(b, "leaving", "gone")
  /\ capability' = IF capability = b THEN None ELSE capability
  /\ UNCHANGED <<launch, registry, artifact, torn, loop, counted, idle, young, usage>>

BrokerDies(b) ==
  /\ b \in Fragile /\ bpc[b] \notin Absent
  /\ Halt(b, IF bpc[b] = "publishing" THEN "botched" ELSE "dead")
  /\ LetGo(b, <<"broker", b>>)
  /\ UNCHANGED launch

-----------------------------------------------------------------------------
(* The housekeeping command removes the files of a broker that is proven   *)
(* absent, and a capability without a registry; it may be stopped.         *)
SweepRegistry(b) ==
  /\ bpc[b] \in Absent
  /\ Unlist(b, <<"housekeeping", b>>)
  /\ UNCHANGED <<launch, service, usage>>

SweepCapability(b) ==
  /\ DropCapability(b, <<"housekeeping", b>>)
  /\ UNCHANGED <<launch, service, usage>>

SweepDies(b) ==
  /\ artifact = <<"housekeeping", b>>
  /\ LetGo(b, <<"housekeeping", b>>)
  /\ UNCHANGED <<launch, service, usage>>

SweepOrphan ==
  /\ artifact = None
  /\ registry = None /\ capability # None
  /\ capability' = None
  /\ UNCHANGED <<launch, registry, artifact, torn, service, usage>>

-----------------------------------------------------------------------------
LauncherStep(l) ==
  \/ Acquire(l) \/ Load(l) \/ Stale(l) \/ Probe(l) \/ Guard(l)
  \/ Terminate(l) \/ Discard(l) \/ Withdraw(l) \/ UseElsewhere(l) \/ Spawn(l)
  \/ Ready(l) \/ Activate(l) \/ Lease(l)

SessionStep(l) == Launch(l) \/ BeginRequest(l) \/ EndRequest(l) \/ Detach(l)

BrokerStep(b) ==
  \/ PublishCapability(b) \/ PublishRegistry(b) \/ Announce(b)
  \/ Observe(b) \/ Scan(b) \/ Tick(b) \/ Shutdown(b)
  \/ Unregister(b) \/ WithdrawOwn(b) \/ RemoveCapability(b)

SweepStep(b) == SweepRegistry(b) \/ SweepCapability(b) \/ SweepDies(b)

Next ==
  \/ \E l \in Launchers :
       \/ LauncherStep(l) \/ WaitTimeout(l) \/ AwaitTimeout(l)
       \/ SessionStep(l) \/ Crash(l)
  \/ \E b \in Brokers :
       BrokerStep(b) \/ GraceElapses(b) \/ BrokerDies(b) \/ SweepStep(b)
  \/ SweepOrphan

Spec == Init /\ [][Next]_vars

(* Processes run, waits are bounded by the ready timeout, the grace        *)
(* elapses, a scan is due every second and an idle period ends after five. *)
Fairness ==
  /\ \A l \in Launchers :
       /\ WF_vars(LauncherStep(l) \/ AwaitTimeout(l))
       /\ SF_vars(WaitTimeout(l))
  /\ \A b \in Brokers :
       /\ WF_vars(BrokerStep(b))
       /\ WF_vars(GraceElapses(b))
       /\ WF_vars(SweepCapability(b))
       /\ SF_vars(Scan(b))
       /\ SF_vars(Shutdown(b))

FairSpec == Spec /\ Fairness

-----------------------------------------------------------------------------
(* Types of the variables; the launchers of the key that look at or change *)
(* its broker hold the ensure lock, so there is one of them at a time.     *)
TypeOK ==
  /\ pc \in [Launchers -> PC]
  /\ look \in [Launchers -> {"wait", "last", "compatible", "over"}]
  /\ found \in [Launchers -> Brokers \cup {None}]
  /\ health \in [Launchers -> {"none", "free", "busy"}]
  /\ lock \in Launchers \cup {None}
  /\ registry \in Brokers \cup {None}
  /\ capability \in Brokers \cup {None}
  /\ artifact \in Holders \cup {None}
  /\ torn \subseteq Brokers
  /\ leases \subseteq Launchers
  /\ bpc \in [Brokers -> BPC]
  /\ loop \in [Brokers -> {"top", "free", "busy"}]
  /\ counted \subseteq Brokers
  /\ idle \in [Brokers -> {"no", "begun", "ripe"}]
  /\ young \subseteq Brokers
  /\ busy \subseteq Launchers
  /\ unseen \subseteq Launchers
  /\ \A l \in Launchers \ Foreign : Ensuring(l) /\ pc[l] # "lock" => lock = l

(* Registry and capability name the same broker whenever nobody is just    *)
(* writing or removing them, however many brokers publish, stop, crash and *)
(* are replaced.  A death between the two removals leaves at most the      *)
(* capability of a broker that has ended, and no registry; a broker that   *)
(* died or failed between its two writes leaves its own capability or none *)
(* beside another's registration.                                          *)
ArtifactsAgree ==
  artifact = None =>
    \/ capability = registry
    \/ registry = None /\ capability \in torn /\ bpc[capability] \in Absent
    \/ \E b \in Brokers : bpc[b] = "botched" /\ capability \in {None, b}

(* Nobody takes the registration of a running broker away: it is replaced  *)
(* by a new broker's, or ends when the broker stops or is killed.          *)
LiveRegistrationStands ==
  [][\A b \in Brokers :
       registry = b /\ bpc[b] = "serving" /\ bpc'[b] = "serving"
         => registry' = b \/ registry' \in {c \in Brokers : bpc[c] = "publishing"}]_vars

(* While no launcher has failed or crashed, a broker that serves is        *)
(* registered and reachable as long as its launcher awaits it: nobody      *)
(* publishes another one over it.                                          *)
AwaitedBrokerIsRegistered ==
  (\A k \in Launchers : pc[k] \notin {"failed", "crashed"})
    => \A l \in Launchers :
         pc[l] = "await" /\ bpc[l] = "serving" /\ artifact = None
           => registry = l /\ capability = l

(* A broker stops on an attached launcher only if no scan could have met   *)
(* its lease: it was created after the last scan of the idle period.       *)
StopsOnlyOnUnseen ==
  \A b \in Brokers :
    bpc[b] \in {"stopping", "withdrawing", "leaving", "gone"}
      => AttachedTo(b) \subseteq unseen

(* Only a launcher that looks from another key, without the ensure lock,   *)
(* can kill a broker of another version under an attached launcher.        *)
ReplacesOnlyUnused ==
  [][\A b \in Brokers :
       bpc'[b] = "killed" /\ bpc[b] # "killed"
         => \/ AttachedTo(b) \subseteq Foreign
            \/ \E f \in Foreign : pc[f] = "terminate" /\ pc'[f] = "discard"]_vars

(* Every launcher gets an endpoint or an error, whatever brokers and other *)
(* launchers do.                                                           *)
EnsuresEnd == []<>(\A l \in Launchers : ~Ensuring(l))

(* Once all sessions are over, crashed ones included, every broker ends,   *)
(* superseded ones included.                                               *)
Deserted == \A l \in Launchers : ~Ensuring(l) /\ pc[l] # "attached"

BrokersEnd == <>[]Deserted => <>[](\A b \in Brokers : bpc[b] \in Absent)

=============================================================================
