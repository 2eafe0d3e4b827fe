------------------------- MODULE RuntimeBrokerProofs -------------------------
(* Proofs about RuntimeBroker, for any number of launchers and versions.   *)
EXTENDS RuntimeBroker, TLAPS

(* Types alone, and the ensure lock.                                       *)
Types ==
  /\ pc \in [Launchers -> PC]
  /\ look \in [Launchers -> {"wait", "last", "compatible", "over"}]
  /\ found \in [Launchers -> Brokers \cup {None}]
  /\ health \in [Launchers -> {"none", "free", "busy"}]
  /\ lock \in Launchers \cup {None}
  /\ registry \in Brokers \cup {None}
  /\ capability \in Brokers \cup {None}
  /\ artifact \in Holders \cup {None}
  /\ torn \subseteq Brokers
  /\ leases \subseteq Launchers
  /\ bpc \in [Brokers -> BPC]
  /\ loop \in [Brokers -> {"top", "free", "busy"}]
  /\ counted \subseteq Brokers
  /\ idle \in [Brokers -> {"no", "begun", "ripe"}]
  /\ young \subseteq Brokers
  /\ busy \subseteq Launchers
  /\ unseen \subseteq Launchers

Locked == \A l \in Launchers \ Foreign : Ensuring(l) /\ pc[l] # "lock" => lock = l

Unpublished == {"unborn", "starting", "publishing", "botched"}

(* A foreign launcher never spawns; a launcher that has not spawned yet    *)
(* has no broker.                                                          *)
Origins ==
  /\ \A l \in Foreign : /\ look[l] \in {"compatible", "over"}
                        /\ pc[l] \notin {"lock", "spawn", "await"}
  /\ \A b \in Brokers :
       pc[b] \in {"idle", "lock", "load", "stale", "probe", "guard", "terminate",
                  "discard", "withdraw", "spawn"} => bpc[b] = "unborn"

Looking == {"stale", "probe", "guard", "terminate", "discard", "withdraw"}

(* What is registered, or was when a launcher looked, has been published;  *)
(* what a launcher is about to discard, or is removing, has ended.         *)
Registered ==
  /\ registry # None => bpc[registry] \notin Unpublished \cup {"withdrawing", "leaving"}
  /\ \A l \in Launchers :
       /\ pc[l] \in Looking => found[l] \in Brokers /\ bpc[found[l]] \notin Unpublished
       /\ pc[l] \in {"discard", "withdraw"} => bpc[found[l]] \in Absent

(* The residue of a broker that died or failed between its two writes.     *)
Residue == \E b \in Brokers : bpc[b] = "botched" /\ capability \in {None, b}

(* Between the two removals there is no registry, and the capability is    *)
(* that of the broker being removed.                                       *)
Removing(b) == registry = None /\ (capability = b \/ Residue)

(* The artifact lock is held beyond a step by a broker between its two     *)
(* writes and by whoever is between two removals.                          *)
Publishing ==
  /\ \A l \in Launchers : pc[l] = "withdraw" <=> artifact = <<"launcher", l>>
  /\ \A b \in Brokers :
       bpc[b] \in {"publishing", "withdrawing"} <=> artifact = <<"broker", b>>
  /\ \A l \in Launchers : pc[l] = "withdraw" => Removing(found[l])
  /\ \A b \in Brokers :
       /\ bpc[b] = "publishing" => capability = b
       /\ bpc[b] = "withdrawing" => Removing(b)
       /\ artifact = <<"housekeeping", b>>
            => bpc[b] \in Absent \ {"unborn"} /\ Removing(b)
  /\ capability # None => bpc[capability] \notin {"unborn", "starting"}
  /\ ArtifactsAgree

(* Attached launchers have their leases; those of a broker that has not    *)
(* been killed are counted, by a broker that serves, or no scan of it has  *)
(* met them.                                                               *)
Seen ==
  /\ \A b \in counted : bpc[b] = "serving"
  /\ \A l \in Launchers : pc[l] = "attached" => l \in leases
  /\ \A b \in Brokers :
       bpc[b] \notin {"killed", "dead", "botched"} /\ b \notin counted
         => AttachedTo(b) \subseteq unseen

(* Nobody of the key is attached while one of the key kills a broker.      *)
Unused ==
  \A l, k \in Launchers \ Foreign : pc[l] = "terminate" => pc[k] # "attached"

(* Until a launcher fails or crashes, each broker that is not done with    *)
(* its publication is awaited, and an awaited one that is done has the     *)
(* registration.                                                           *)
NoFailure == \A k \in Launchers : pc[k] \notin {"failed", "crashed"}

Awaited ==
  NoFailure =>
    \A b \in Brokers :
      /\ bpc[b] \in {"starting", "publishing", "announcing", "botched"} => pc[b] = "await"
      /\ pc[b] = "await" /\ bpc[b] \in {"announcing", "serving"} => registry = b

-----------------------------------------------------------------------------
USE DEF launch, files, service, usage

LEMMA InitTypes == Init => TypeOK
BY BrokerAssumption DEF Init, TypeOK, PC, BPC, Brokers, Ensuring, Ended

LEMMA TypesLocked == TypeOK <=> Types /\ Locked
BY DEF TypeOK, Types, Locked

LEMMA StepTypes ==
  Types /\ Origins /\ Registered /\ Publishing /\ [Next]_vars => Types'
<1> SUFFICES ASSUME Types, Registered, Publishing PROVE Origins /\ [Next]_vars => Types'
  OBVIOUS
<1> USE BrokerAssumption DEF Types, PC, BPC, Brokers, Ended
<1>1. ASSUME NEW l \in Launchers, Acquire(l) PROVE Types'
  BY <1>1 DEF Acquire, Goto
<1>2. ASSUME NEW l \in Launchers, Load(l) PROVE Types'
  BY <1>2 DEF Load, Goto, NextLook, Over
<1>3. ASSUME NEW l \in Launchers, Stale(l) PROVE Types'
  BY <1>3 DEF Stale, Goto, NextLook, Over, Forget, Unlist, Holders
<1>4. ASSUME NEW l \in Launchers, Probe(l) PROVE Types'
  BY <1>4 DEF Probe, Goto, Fail, Over, Release
<1>5. ASSUME NEW l \in Launchers, Guard(l) PROVE Types'
  <2>1. LiveLeases \subseteq Launchers
    BY DEF LiveLeases
  <2>2. CASE LookAgain(l, "guard")
    BY <1>5, <2>1, <2>2 DEF Guard, Goto, LookAgain, NextLook, Over
  <2>3. CASE NextLook(l, "guard")
    BY <1>5, <2>1, <2>3 DEF Guard, Goto, NextLook, Over
  <2>4. CASE \/ Goto(l, "guard", "activate") /\ Over(l) /\ UNCHANGED found
             \/ Goto(l, "guard", "terminate") /\ UNCHANGED <<look, found>>
    BY <1>5, <2>1, <2>4 DEF Guard, Goto, Over
  <2> QED BY <1>5, <2>2, <2>3, <2>4 DEF Guard
<1>6. ASSUME NEW l \in Launchers, Terminate(l) PROVE Types'
  <2>1. found[l] \in Brokers
    BY <1>6 DEF Terminate, Registered, Looking
  <2> HIDE DEF Brokers
  <2>2. torn' \subseteq Brokers /\ artifact' \in Holders \cup {None}
    BY <1>6, <2>1 DEF Terminate, LetGo
  <2> QED BY <1>6, <2>1, <2>2 DEF Terminate, Goto, NextLook, Over, Fail, Release, Halt, AtBroker,
             LetGo, Brokers
<1>7. ASSUME NEW l \in Launchers, Discard(l) PROVE Types'
  BY <1>7 DEF Discard, Goto, NextLook, Over, Forget, Unlist, Holders
<1>8. ASSUME NEW l \in Launchers, UseElsewhere(l) PROVE Types'
  BY <1>8 DEF UseElsewhere, Goto, Release
<1>9. ASSUME NEW l \in Launchers, Spawn(l), Origins PROVE Types'
  BY <1>9 DEF Spawn, Goto, Origins
<1>10. ASSUME NEW l \in Launchers, Ready(l) PROVE Types'
  BY <1>10 DEF Ready, Goto
<1>11. ASSUME NEW l \in Launchers, Activate(l) PROVE Types'
  BY <1>11 DEF Activate, Goto, Fail, Over, Release
<1>12. ASSUME NEW l \in Launchers, Lease(l) PROVE Types'
  BY <1>12 DEF Lease, Goto, Release
<1>13. ASSUME NEW l \in Launchers, WaitTimeout(l) \/ AwaitTimeout(l) PROVE Types'
  BY <1>13 DEF WaitTimeout, AwaitTimeout, Goto, Fail, Over, Release
<1>14. ASSUME NEW l \in Launchers, SessionStep(l) PROVE Types'
  BY <1>14 DEF SessionStep, Launch, BeginRequest, EndRequest, Detach, Goto
<1>15. ASSUME NEW l \in Launchers, Crash(l) PROVE Types'
  <2>1. torn' \subseteq Brokers /\ artifact' \in Holders \cup {None}
    BY <1>15 DEF Crash, LetGo, Publishing, Registered, Looking
  <2> QED BY <1>15, <2>1 DEF Crash, Over, Release, Ended, LetGo
<1>16. ASSUME NEW b \in Brokers,
              PublishCapability(b) \/ PublishRegistry(b) \/ Announce(b)
                \/ Unregister(b) \/ WithdrawOwn(b) \/ RemoveCapability(b)
       PROVE Types'
  BY <1>16 DEF PublishCapability, PublishRegistry, Announce, Unregister,
               WithdrawOwn, RemoveCapability, Turn, Unlist, DropCapability, Holders
<1>17. ASSUME NEW b \in Brokers,
              Observe(b) \/ Scan(b) \/ Tick(b) \/ GraceElapses(b) PROVE Types'
  BY <1>17 DEF Observe, Scan, Tick, GraceElapses, LiveLeases
<1>18. ASSUME NEW b \in Brokers, Shutdown(b) \/ BrokerDies(b) PROVE Types'
  BY <1>18 DEF Shutdown, BrokerDies, Halt, AtBroker, LetGo
<1>19. CASE UNCHANGED vars
  BY <1>19 DEF vars
<1>20. ASSUME NEW l \in Launchers, Withdraw(l) PROVE Types'
  BY <1>20 DEF Withdraw, DropCapability, Goto, NextLook, Over
<1>21. ASSUME SweepOrphan \/ \E b \in Brokers : SweepStep(b) PROVE Types'
  BY <1>21 DEF SweepStep, SweepRegistry, SweepCapability, SweepDies, SweepOrphan, Unlist, DropCapability, LetGo, Holders
<1> QED
  BY <1>21, <1>20, <1>1, <1>2, <1>3, <1>4, <1>5, <1>6, <1>7, <1>8, <1>9, <1>10, <1>11, <1>12,
     <1>13, <1>14, <1>15, <1>16, <1>17, <1>18, <1>19
  DEF Next, LauncherStep, BrokerStep

LEMMA StepLocked == Types /\ Locked /\ [Next]_vars => Locked'
<1> SUFFICES ASSUME Types, Locked, [Next]_vars PROVE Locked'
  OBVIOUS
<1> USE BrokerAssumption DEF Types, Locked, Ensuring, Ended
<1>1. ASSUME NEW l \in Launchers, Acquire(l) PROVE Locked'
  BY <1>1 DEF Acquire, Goto
<1>2. ASSUME NEW l \in Launchers, Load(l) PROVE Locked'
  BY <1>2 DEF Load, Goto, NextLook, Over
<1>3. ASSUME NEW l \in Launchers, Stale(l) \/ Discard(l) \/ Withdraw(l) PROVE Locked'
  BY <1>3 DEF Stale, Discard, Withdraw, Forget, Goto, NextLook, Over
<1>4. ASSUME NEW l \in Launchers, Probe(l) \/ Spawn(l) \/ Ready(l) PROVE Locked'
  BY <1>4 DEF Probe, Spawn, Ready, Goto, Fail, Release
<1>5. ASSUME NEW l \in Launchers, Guard(l) PROVE Locked'
  BY <1>5 DEF Guard, Goto, LookAgain, NextLook, Over
<1>6. ASSUME NEW l \in Launchers, Terminate(l) PROVE Locked'
  BY <1>6 DEF Terminate, Goto, NextLook, Over, Fail, Release
<1>7. ASSUME NEW l \in Launchers, UseElsewhere(l) \/ Lease(l) PROVE Locked'
  BY <1>7 DEF UseElsewhere, Lease, Goto, Release
<1>8. ASSUME NEW l \in Launchers, Activate(l) PROVE Locked'
  BY <1>8 DEF Activate, Goto, Fail, Release
<1>9. ASSUME NEW l \in Launchers, WaitTimeout(l) \/ AwaitTimeout(l) PROVE Locked'
  BY <1>9 DEF WaitTimeout, AwaitTimeout, Goto, Fail, Release
<1>10. ASSUME NEW l \in Launchers, SessionStep(l) PROVE Locked'
  BY <1>10 DEF SessionStep, Launch, BeginRequest, EndRequest, Detach, Goto
<1>11. ASSUME NEW l \in Launchers, Crash(l) PROVE Locked'
  BY <1>11 DEF Crash, Release
<1>12. ASSUME NEW b \in Brokers, BrokerStep(b) \/ GraceElapses(b) \/ BrokerDies(b) \/ SweepStep(b)
       PROVE Locked'
  BY <1>12 DEF BrokerStep, GraceElapses, BrokerDies, PublishCapability, PublishRegistry,
     Announce, Observe, Scan, Tick, Shutdown, Unregister, WithdrawOwn, RemoveCapability,
     SweepStep, SweepRegistry, SweepCapability, SweepDies
<1>13. CASE UNCHANGED vars
  BY <1>13 DEF vars
<1>14. CASE SweepOrphan
  BY <1>14 DEF SweepOrphan
<1> QED
  BY <1>14, <1>1, <1>2, <1>3, <1>4, <1>5, <1>6, <1>7, <1>8, <1>9, <1>10, <1>11, <1>12, <1>13
  DEF Next, LauncherStep

LEMMA StepOrigins == Types /\ Origins /\ Registered /\ [Next]_vars => Origins'
<1> SUFFICES ASSUME Types, Origins, Registered, [Next]_vars PROVE Origins'
  OBVIOUS
<1> USE BrokerAssumption DEF Types, Origins, Brokers
<1>1. ASSUME NEW l \in Launchers, Acquire(l) \/ Probe(l) \/ Ready(l) \/ UseElsewhere(l)
      PROVE Origins'
  BY <1>1 DEF Acquire, Probe, Ready, UseElsewhere, Goto, Fail, Over
<1>2. ASSUME NEW l \in Launchers, Load(l) PROVE Origins'
  BY <1>2 DEF Load, Goto, NextLook, Over
<1>3. ASSUME NEW l \in Launchers, Stale(l) PROVE Origins'
  BY <1>3 DEF Stale, Forget, Goto, NextLook, Over
<1>4. ASSUME NEW l \in Launchers, Discard(l) \/ Withdraw(l) PROVE Origins'
  BY <1>4 DEF Discard, Withdraw, Forget, Goto, NextLook, Over
<1>5. ASSUME NEW l \in Launchers, Guard(l) PROVE Origins'
  BY <1>5 DEF Guard, Goto, LookAgain, NextLook, Over
<1>6. ASSUME NEW l \in Launchers, Terminate(l) PROVE Origins'
  <2>1. found[l] \in Brokers /\ bpc[found[l]] # "unborn"
    BY <1>6 DEF Terminate, Registered, Unpublished, Looking
  <2>2. bpc' = [b \in Brokers |->
                 IF bpc' # bpc /\ b = found[l] THEN "killed" ELSE bpc[b]]
    BY <1>6, <2>1 DEF Terminate, Halt
  <2>3. \/ pc' = [pc EXCEPT ![l] = "discard"] /\ look' = look
        \/ NextLook(l, "terminate")
        \/ pc' = [pc EXCEPT ![l] = "failed"] /\ Over(l)
    BY <1>6 DEF Terminate, Goto, Fail
  <2>4. pc[l] = "terminate"
    BY <1>6 DEF Terminate
  <2> QED BY <2>1, <2>2, <2>3, <2>4 DEF NextLook, Goto, Over
<1>7. ASSUME NEW l \in Launchers, Spawn(l) PROVE Origins'
  BY <1>7 DEF Spawn, Goto
<1>8. ASSUME NEW l \in Launchers, Activate(l) \/ Lease(l) PROVE Origins'
  BY <1>8 DEF Activate, Lease, Goto, Fail, Over
<1>9. ASSUME NEW l \in Launchers, WaitTimeout(l) \/ AwaitTimeout(l) PROVE Origins'
  BY <1>9 DEF WaitTimeout, AwaitTimeout, Goto, Fail, Over
<1>10. ASSUME NEW l \in Launchers, SessionStep(l) PROVE Origins'
  BY <1>10 DEF SessionStep, Launch, BeginRequest, EndRequest, Detach, Goto
<1>11. ASSUME NEW l \in Launchers, Crash(l) PROVE Origins'
  BY <1>11 DEF Crash, Over
<1>12. ASSUME NEW b \in Brokers,
              \/ PublishCapability(b) \/ PublishRegistry(b) \/ Announce(b)
              \/ Unregister(b) \/ WithdrawOwn(b) \/ RemoveCapability(b)
       PROVE Origins'
  BY <1>12 DEF PublishCapability, PublishRegistry, Announce, Unregister,
               WithdrawOwn, RemoveCapability, Turn
<1>13. ASSUME NEW b \in Brokers, Observe(b) \/ Scan(b) \/ Tick(b) \/ GraceElapses(b)
       PROVE Origins'
  BY <1>13 DEF Observe, Scan, Tick, GraceElapses
<1>14. ASSUME NEW b \in Brokers, Shutdown(b) \/ BrokerDies(b) PROVE Origins'
  BY <1>14 DEF Shutdown, BrokerDies, Halt, Absent
<1>15. CASE UNCHANGED vars
  BY <1>15 DEF vars
<1>20. ASSUME SweepOrphan \/ \E b \in Brokers : SweepStep(b) PROVE Origins'
  BY <1>20 DEF SweepStep, SweepRegistry, SweepCapability, SweepDies, SweepOrphan
<1> QED
  BY <1>20, <1>1, <1>2, <1>3, <1>4, <1>5, <1>6, <1>7, <1>8, <1>9, <1>10, <1>11, <1>12,
     <1>13, <1>14, <1>15
  DEF Next, LauncherStep, BrokerStep

(* A broker keeps the fact that it has published; one that has ended and   *)
(* had been started does not come back.                                    *)
LEMMA PublishedStays ==
  ASSUME Types, Origins, Registered, [Next]_vars, NEW b \in Brokers,
         bpc[b] \notin Unpublished
  PROVE  /\ bpc'[b] \notin Unpublished
         /\ bpc[b] \in Absent => bpc'[b] \in Absent
<1> USE BrokerAssumption DEF Types, Unpublished, Absent, Brokers
<1>1. ASSUME NEW l \in Launchers, Terminate(l) \/ Spawn(l)
      PROVE /\ bpc'[b] \notin Unpublished
            /\ bpc[b] \in Absent => bpc'[b] \in Absent
  <2>1. CASE Terminate(l)
    BY <1>1, <2>1 DEF Terminate, Halt, BPC
  <2>2. CASE Spawn(l)
    BY <1>1, <2>2 DEF Spawn, Goto, Origins
  <2> QED BY <1>1, <2>1, <2>2
<1>2. ASSUME NEW l \in Launchers,
             \/ Acquire(l) \/ Load(l) \/ Stale(l) \/ Probe(l) \/ Guard(l) \/ Discard(l)
             \/ Withdraw(l)
             \/ UseElsewhere(l) \/ Ready(l) \/ Activate(l) \/ Lease(l)
             \/ WaitTimeout(l) \/ AwaitTimeout(l) \/ SessionStep(l) \/ Crash(l)
      PROVE bpc' = bpc
  BY <1>2 DEF Acquire, Load, Stale, Probe, Guard, Discard, Withdraw, UseElsewhere, Ready, Activate,
     Lease, WaitTimeout, AwaitTimeout, SessionStep, Launch, BeginRequest, EndRequest,
     Detach, Crash
<1>3. ASSUME NEW c \in Brokers,
             \/ PublishCapability(c) \/ PublishRegistry(c) \/ Announce(c)
             \/ Unregister(c) \/ WithdrawOwn(c) \/ RemoveCapability(c)
      PROVE /\ bpc'[b] \notin Unpublished
            /\ bpc[b] \in Absent => bpc'[b] \in Absent
  BY <1>3 DEF PublishCapability, PublishRegistry, Announce, Unregister,
              WithdrawOwn, RemoveCapability, Turn
<1>4. ASSUME NEW c \in Brokers, Observe(c) \/ Scan(c) \/ Tick(c) \/ GraceElapses(c)
      PROVE bpc' = bpc
  BY <1>4 DEF Observe, Scan, Tick, GraceElapses
<1>5. ASSUME NEW c \in Brokers, Shutdown(c) \/ BrokerDies(c)
      PROVE /\ bpc'[b] \notin Unpublished
            /\ bpc[b] \in Absent => bpc'[b] \in Absent
  BY <1>5 DEF Shutdown, BrokerDies, Halt
<1>6. CASE UNCHANGED vars
  BY <1>6 DEF vars
<1>20. ASSUME SweepOrphan \/ \E c \in Brokers : SweepStep(c) PROVE bpc' = bpc
  BY <1>20 DEF SweepStep, SweepRegistry, SweepCapability, SweepDies, SweepOrphan
<1> QED
  BY <1>20, <1>1, <1>2, <1>3, <1>4, <1>5, <1>6 DEF Next, LauncherStep, BrokerStep

(* Nobody begins to take his registration away.                            *)
LeaversStay ==
  \A b \in Brokers : bpc'[b] \in {"withdrawing", "leaving"} => bpc[b] \in {"withdrawing", "leaving"}

(* Who writes the registry file.                                           *)
LEMMA RegistryChanges ==
  ASSUME Types, [Next]_vars
  PROVE  \/ registry' = registry /\ LeaversStay
         \/ registry' = registry /\ \E b \in Brokers :
              /\ registry # b
              /\ bpc[b] = "stopping" /\ bpc' = [bpc EXCEPT ![b] = "leaving"]
         \/ registry' = None
         \/ \E b \in Brokers : /\ bpc[b] = "publishing" /\ registry' = b
                              /\ bpc' = [bpc EXCEPT ![b] = "announcing"]
<1> USE BrokerAssumption DEF Types, Brokers, LeaversStay
<1>1. ASSUME NEW l \in Launchers, Stale(l) \/ Discard(l) \/ Withdraw(l)
      PROVE bpc' = bpc /\ registry' \in {registry, None}
  BY <1>1 DEF Stale, Discard, Withdraw, Forget, Unlist, DropCapability
<1>2. ASSUME NEW l \in Launchers, Terminate(l) \/ Spawn(l)
      PROVE /\ registry' = registry
            /\ LeaversStay
  BY <1>2 DEF Terminate, Spawn, Halt, LetGo
<1>3. ASSUME NEW l \in Launchers,
             \/ Acquire(l) \/ Load(l) \/ Probe(l) \/ Guard(l) \/ UseElsewhere(l)
             \/ Ready(l) \/ Activate(l) \/ Lease(l)
             \/ WaitTimeout(l) \/ AwaitTimeout(l) \/ SessionStep(l) \/ Crash(l)
      PROVE bpc' = bpc /\ registry' = registry
  BY <1>3 DEF Acquire, Load, Probe, Guard, UseElsewhere, Ready, Activate, Lease,
     WaitTimeout, AwaitTimeout, SessionStep, Launch, BeginRequest, EndRequest, Detach, Crash,
     LetGo
<1>4. ASSUME NEW b \in Brokers,
             \/ PublishCapability(b) \/ Announce(b) \/ RemoveCapability(b)
             \/ Shutdown(b) \/ BrokerDies(b)
      PROVE /\ registry' = registry
            /\ LeaversStay
  BY <1>4 DEF PublishCapability, Announce, RemoveCapability, Shutdown, BrokerDies, Turn, Halt,
     LetGo
<1>5. ASSUME NEW b \in Brokers, Observe(b) \/ Scan(b) \/ Tick(b) \/ GraceElapses(b)
      PROVE bpc' = bpc /\ registry' = registry
  BY <1>5 DEF Observe, Scan, Tick, GraceElapses
<1>6. ASSUME NEW b \in Brokers, Unregister(b)
      PROVE \/ registry' = None
            \/ /\ registry' = registry /\ registry # b
               /\ bpc[b] = "stopping" /\ bpc' = [bpc EXCEPT ![b] = "leaving"]
  BY <1>6 DEF Unregister, Turn, Unlist
<1>7. ASSUME NEW b \in Brokers, PublishRegistry(b)
      PROVE \/ /\ bpc[b] = "publishing" /\ registry' = b
               /\ bpc' = [bpc EXCEPT ![b] = "announcing"]
            \/ /\ registry' = registry
               /\ LeaversStay
  BY <1>7 DEF PublishRegistry, Turn
<1>8. CASE UNCHANGED vars
  BY <1>8 DEF vars
<1>11. ASSUME NEW b \in Brokers, WithdrawOwn(b) PROVE registry' = registry /\ LeaversStay
  BY <1>11 DEF WithdrawOwn, Turn, DropCapability
<1>12. ASSUME SweepOrphan \/ \E b \in Brokers : SweepStep(b)
       PROVE bpc' = bpc /\ registry' \in {registry, None}
  BY <1>12 DEF SweepStep, SweepRegistry, SweepCapability, SweepDies, SweepOrphan, Unlist, DropCapability, LetGo
<1>9. CASE \E l \in Launchers :
             \/ LauncherStep(l) \/ WaitTimeout(l) \/ AwaitTimeout(l)
             \/ SessionStep(l) \/ Crash(l)
  BY <1>1, <1>2, <1>3, <1>9 DEF LauncherStep
<1>10. CASE \E b \in Brokers : BrokerStep(b) \/ GraceElapses(b) \/ BrokerDies(b) \/ SweepStep(b)
  BY <1>11, <1>12, <1>4, <1>5, <1>6, <1>7, <1>10 DEF BrokerStep
<1> QED
  BY <1>12, <1>8, <1>9, <1>10 DEF Next

(* What a launcher looks at is what it read from the registry file, and it *)
(* goes on to discard only what has ended.                                 *)
LEMMA FoundChanges ==
  ASSUME Types, [Next]_vars, NEW k \in Launchers, pc'[k] \in Looking
  PROVE  \/ pc[k] = "load" /\ pc'[k] = "stale" /\ registry # None /\ found'[k] = registry
         \/ /\ pc[k] \in Looking /\ found'[k] = found[k]
            /\ \/ pc'[k] \in {"discard", "withdraw"} => pc[k] \in {"discard", "withdraw"}
               \/ bpc[found[k]] \in Absent
               \/ pc'[k] = "discard" /\ Halt(found[k], "killed")
<1> USE BrokerAssumption DEF Types, Looking
<1> DEFINE Goal == \/ pc[k] = "load" /\ pc'[k] = "stale" /\ registry # None /\ found'[k] = registry
                   \/ /\ pc[k] \in Looking /\ found'[k] = found[k]
                      /\ \/ pc'[k] \in {"discard", "withdraw"} => pc[k] \in {"discard", "withdraw"}
                         \/ bpc[found[k]] \in Absent
                         \/ pc'[k] = "discard" /\ Halt(found[k], "killed")
<1>1. ASSUME NEW l \in Launchers, Load(l) PROVE Goal
  BY <1>1 DEF Load, Goto, NextLook
<1>2. ASSUME NEW l \in Launchers, Stale(l) \/ Discard(l) \/ Withdraw(l) PROVE Goal
  BY <1>2 DEF Stale, Discard, Withdraw, Forget, Goto, NextLook
<1>3. ASSUME NEW l \in Launchers, Guard(l) PROVE Goal
  BY <1>3 DEF Guard, Goto, LookAgain, NextLook
<1>4. ASSUME NEW l \in Launchers, Terminate(l) PROVE Goal
  BY <1>4 DEF Terminate, Goto, NextLook, Fail
<1>5. ASSUME NEW l \in Launchers,
             \/ Acquire(l) \/ Probe(l) \/ UseElsewhere(l) \/ Spawn(l)
             \/ Ready(l) \/ Lease(l) \/ WaitTimeout(l) \/ AwaitTimeout(l)
      PROVE Goal
  BY <1>5 DEF Acquire, Probe, UseElsewhere, Spawn, Ready, Lease, WaitTimeout,
     AwaitTimeout, Goto, Fail
<1>6. ASSUME NEW l \in Launchers, Activate(l) \/ SessionStep(l) \/ Crash(l) PROVE Goal
  BY <1>6 DEF Activate, SessionStep, Launch, BeginRequest, EndRequest, Detach, Crash,
     Goto, Fail
<1>7. ASSUME NEW b \in Brokers, BrokerStep(b) \/ GraceElapses(b) \/ BrokerDies(b) \/ SweepStep(b)
      PROVE Goal
  BY <1>7 DEF BrokerStep, GraceElapses, BrokerDies, PublishCapability, PublishRegistry,
     Announce, Observe, Scan, Tick, Shutdown, Unregister, WithdrawOwn, RemoveCapability,
     SweepStep, SweepRegistry, SweepCapability, SweepDies
<1>8. CASE UNCHANGED vars
  BY <1>8 DEF vars
<1>9. CASE SweepOrphan
  BY <1>9 DEF SweepOrphan
<1> QED
  BY <1>9, <1>1, <1>2, <1>3, <1>4, <1>5, <1>6, <1>7, <1>8 DEF Next, LauncherStep

LEMMA StepRegistered ==
  Types /\ Origins /\ Registered /\ [Next]_vars => Registered'
<1> SUFFICES ASSUME Types, Origins, Registered, [Next]_vars PROVE Registered'
  OBVIOUS
<1> USE BrokerAssumption
<1>1. \A b \in Brokers : bpc[b] \notin Unpublished
                         => /\ bpc'[b] \notin Unpublished
                            /\ bpc[b] \in Absent => bpc'[b] \in Absent
  BY PublishedStays
<1>2. registry' # None => bpc'[registry'] \notin Unpublished \cup {"withdrawing", "leaving"}
  BY <1>1, RegistryChanges DEF Types, Registered, Unpublished, Brokers, LeaversStay
<1>3. ASSUME NEW k \in Launchers, pc'[k] \in Looking
      PROVE  /\ found'[k] \in Brokers /\ bpc'[found'[k]] \notin Unpublished
             /\ pc'[k] \in {"discard", "withdraw"} => bpc'[found'[k]] \in Absent
  <2>1. CASE pc[k] = "load" /\ pc'[k] = "stale" /\ registry # None /\ found'[k] = registry
    BY <1>1, <2>1 DEF Types, Registered
  <2>2. CASE pc[k] \in Looking /\ found'[k] = found[k]
    <3>1. found[k] \in Brokers /\ bpc[found[k]] \notin Unpublished
      BY <2>2 DEF Registered, Looking
    <3>2. CASE pc'[k] = "discard" /\ Halt(found[k], "killed")
      BY <2>2, <3>1, <3>2, <1>1 DEF Halt, Types, Absent
    <3>3. CASE \/ pc'[k] \in {"discard", "withdraw"} => pc[k] \in {"discard", "withdraw"}
              \/ bpc[found[k]] \in Absent
      BY <2>2, <3>1, <3>3, <1>1 DEF Registered
    <3> QED BY <1>3, <2>2, <3>1, <3>2, <3>3, FoundChanges
  <2> QED BY <1>3, <2>1, <2>2, FoundChanges
<1> QED
  BY <1>2, <1>3 DEF Registered, Looking

(* Launchers that are removing go on, and nobody begins.                   *)
WithdrawalsStay ==
  \A l \in Launchers : /\ pc'[l] = "withdraw" <=> pc[l] = "withdraw"
                       /\ pc[l] = "withdraw" => found'[l] = found[l]

(* Steps that leave the files alone and no broker between two of its own.  *)
LEMMA PublishingFrame ==
  ASSUME Types, Publishing, UNCHANGED files, WithdrawalsStay,
         \A b \in Brokers :
           \/ bpc'[b] = bpc[b]
           \/ /\ bpc[b] \notin {"publishing", "withdrawing"} \cup Absent
              /\ bpc'[b] \notin {"publishing", "withdrawing", "unborn", "starting"}
           \/ bpc[b] = "unborn" /\ bpc'[b] = "starting"
  PROVE  Publishing'
<1> USE BrokerAssumption DEF Types, Absent
<1>1. Residue => Residue'
  BY DEF Residue
<1>2. \A b : Removing(b) => Removing(b)'
  BY <1>1 DEF Removing
<1>3. ArtifactsAgree'
  <2> SUFFICES ASSUME artifact = None PROVE ArtifactsAgree'
    BY DEF ArtifactsAgree
  <2>1. CASE Residue
    BY <1>1, <2>1 DEF ArtifactsAgree, Residue
  <2>2. CASE capability = registry
    BY <2>2 DEF ArtifactsAgree
  <2>3. CASE registry = None /\ capability \in torn /\ bpc[capability] \in Absent
    BY <2>3 DEF ArtifactsAgree, Publishing
  <2> QED BY <2>1, <2>2, <2>3 DEF Publishing, ArtifactsAgree, Residue
<1>4. capability # None => bpc'[capability] \notin {"unborn", "starting"}
  BY DEF Publishing
<1>5. \A l \in Launchers : /\ pc'[l] = "withdraw" <=> artifact = <<"launcher", l>>
                           /\ pc'[l] = "withdraw" => Removing(found[l])' /\ found'[l] = found[l]
  BY <1>2 DEF Publishing, WithdrawalsStay
<1>6. ASSUME NEW b \in Brokers
      PROVE  /\ bpc'[b] \in {"publishing", "withdrawing"} <=> artifact = <<"broker", b>>
             /\ bpc'[b] = "publishing" => capability = b
             /\ bpc'[b] = "withdrawing" => Removing(b)'
             /\ artifact = <<"housekeeping", b>>
                  => bpc'[b] \in Absent \ {"unborn"} /\ Removing(b)'
  BY <1>2 DEF Publishing
<1> QED BY <1>3, <1>4, <1>5, <1>6 DEF Publishing, Removing

(* A holder begins to remove what is registered.                           *)
LEMMA Unlisting ==
  ASSUME Types, Registered, Publishing, NEW b \in Brokers, NEW h, Unlist(b, h)
  PROVE  /\ registry' = None /\ capability' = capability /\ torn' = torn
         /\ artifact' = h
         /\ capability = b \/ Residue
         /\ \A l \in Launchers : pc[l] # "withdraw" /\ artifact # <<"launcher", l>>
         /\ \A c \in Brokers : /\ bpc[c] \notin {"publishing", "withdrawing"}
                               /\ artifact # <<"broker", c>>
                               /\ artifact # <<"housekeeping", c>>
         /\ bpc[b] # "unborn"
<1> USE BrokerAssumption DEF Types
<1>1. b # None
  BY DEF Brokers
<1>2. registry = b /\ artifact = None
  BY DEF Unlist
<1>3. \A l \in Launchers : artifact # <<"launcher", l>> /\ artifact # <<"broker", l>>
                           /\ artifact # <<"housekeeping", l>>
  BY <1>2
<1>4. capability = b \/ Residue
  BY <1>1, <1>2 DEF Publishing, ArtifactsAgree, Residue
<1>5. \A c \in Brokers : c \in Launchers
  BY DEF Brokers
<1> QED BY <1>1, <1>2, <1>3, <1>4, <1>5 DEF Unlist, Publishing, Registered, Unpublished

(* A holder that removes b ends, having removed the capability or not.     *)
LEMMA Unheld ==
  ASSUME Types, Publishing, NEW b \in Brokers, Removing(b), b \in Launchers,
         artifact' = None, registry' = registry,
         \/ capability' = (IF capability = b THEN None ELSE capability) /\ torn' = torn
         \/ capability' = capability /\ b \in torn' /\ bpc'[b] \in Absent,
         \A l \in Launchers : pc'[l] # "withdraw",
         \A c \in Brokers : /\ bpc'[c] \notin {"publishing", "withdrawing"}
                            /\ bpc[c] = "botched" => bpc'[c] = "botched"
                            /\ bpc[c] \notin {"unborn", "starting"}
                                 => bpc'[c] \notin {"unborn", "starting"}
  PROVE  Publishing'
<1> USE BrokerAssumption DEF Types
<1>1. \A l \in Launchers : /\ artifact' # <<"launcher", l>> /\ artifact' # <<"broker", l>>
                           /\ artifact' # <<"housekeeping", l>>
  OBVIOUS
<1>2. capability' # None => bpc'[capability'] \notin {"unborn", "starting"}
  BY DEF Publishing
<1>3. ArtifactsAgree'
  <2>1. CASE capability = b
    BY <2>1 DEF ArtifactsAgree, Removing
  <2>2. CASE Residue /\ capability # b
    BY <2>2 DEF ArtifactsAgree, Residue
  <2> QED BY <2>1, <2>2 DEF Removing
<1>4. \A c \in Brokers : c \in Launchers
  BY DEF Brokers
<1> QED BY <1>1, <1>2, <1>3, <1>4 DEF Publishing

(* A broker dies or is killed, between two of its steps or not.            *)
LEMMA Death ==
  ASSUME Types, Publishing, NEW b \in Brokers, WithdrawalsStay,
         LetGo(b, <<"broker", b>>), bpc[b] \notin Absent,
         NEW s \in {"killed", "dead", "botched"},
         bpc' = [bpc EXCEPT ![b] = s], s = "botched" <=> bpc[b] = "publishing"
  PROVE  Publishing'
<1> USE BrokerAssumption DEF Types
<1>0. b \in Launchers /\ \A c \in Brokers : c \in Launchers
  BY DEF Brokers
<1>1. CASE bpc[b] = "withdrawing"
  <2>1. artifact = <<"broker", b>> /\ Removing(b)
    BY <1>1 DEF Publishing
  <2>2. \A l \in Launchers : pc'[l] # "withdraw"
    BY <2>1 DEF Publishing, WithdrawalsStay
  <2>3. \A c \in Brokers : c # b => bpc[c] \notin {"publishing", "withdrawing"}
    BY <2>1 DEF Publishing
  <2>4. s # "botched"
    BY <1>1
  <2>5. \A c \in Brokers : /\ bpc'[c] \notin {"publishing", "withdrawing"}
                           /\ bpc[c] = "botched" => bpc'[c] = "botched"
                           /\ bpc[c] \notin {"unborn", "starting"}
                                => bpc'[c] \notin {"unborn", "starting"}
    BY <1>1, <2>3
  <2>6. artifact' = None /\ registry' = registry /\ capability' = capability
        /\ b \in torn' /\ bpc'[b] \in Absent
    BY <2>1, <2>4 DEF LetGo, Absent
  <2> QED BY <1>0, <2>1, <2>2, <2>5, <2>6, Unheld
<1>2. CASE bpc[b] = "publishing"
  <2>1. artifact = <<"broker", b>> /\ capability = b /\ s = "botched"
    BY <1>2 DEF Publishing
  <2>2. \A l \in Launchers : pc'[l] # "withdraw"
    BY <2>1 DEF Publishing, WithdrawalsStay
  <2>3. \A c \in Brokers : c # b => bpc[c] \notin {"publishing", "withdrawing"}
    BY <2>1 DEF Publishing
  <2>4. artifact' = None /\ capability' = b /\ bpc'[b] = "botched"
    BY <2>1 DEF LetGo
  <2>5. ArtifactsAgree'
    BY <2>4 DEF ArtifactsAgree
  <2>6. \A l \in Launchers : /\ artifact' # <<"launcher", l>> /\ artifact' # <<"broker", l>>
                             /\ artifact' # <<"housekeeping", l>>
    BY <2>4
  <2> QED BY <1>0, <2>1, <2>2, <2>3, <2>4, <2>5, <2>6 DEF Publishing
<1>3. CASE bpc[b] \notin {"publishing", "withdrawing"}
  <2>1. artifact # <<"broker", b>>
    BY <1>3 DEF Publishing
  <2>2. UNCHANGED files
    BY <2>1 DEF LetGo
  <2>3. s \in {"killed", "dead"}
    BY <1>3
  <2> QED BY <1>3, <2>2, <2>3, PublishingFrame
<1> QED BY <1>1, <1>2, <1>3

LEMMA StepPublishing ==
  Types /\ Origins /\ Registered /\ Publishing /\ [Next]_vars => Publishing'
<1> SUFFICES ASSUME Types, Origins, Registered, Publishing, [Next]_vars PROVE Publishing'
  OBVIOUS
<1> USE BrokerAssumption
<1>0. \A c \in Brokers : c \in Launchers
  BY DEF Brokers
<1>1. ASSUME NEW l \in Launchers, Stale(l) \/ Discard(l) PROVE Publishing'
  <2>1. pc[l] \in {"stale", "discard"} /\ found[l] \in Brokers /\ bpc' = bpc
    BY <1>1 DEF Stale, Discard, Registered, Looking
  <2>2. CASE /\ Unlist(found[l], <<"launcher", l>>)
             /\ pc' = [pc EXCEPT ![l] = "withdraw"] /\ found' = found
    <3>1. \A k \in Launchers : pc'[k] = "withdraw" <=> artifact' = <<"launcher", k>>
      BY <2>1, <2>2, Unlisting DEF Types
    <3>2. Removing(found[l])'
      BY <2>1, <2>2, Unlisting DEF Removing, Residue
    <3>3. \A c \in Brokers : /\ bpc'[c] \notin {"publishing", "withdrawing"}
                             /\ artifact' # <<"broker", c>>
                             /\ artifact' # <<"housekeeping", c>>
      BY <2>1, <2>2, Unlisting
    <3>4. \A k \in Launchers : pc'[k] = "withdraw" => k = l
      BY <2>1, <2>2, Unlisting DEF Types
    <3>5. capability' # None => bpc'[capability'] \notin {"unborn", "starting"}
      BY <2>1, <2>2, Unlisting DEF Publishing
    <3>6. ArtifactsAgree'
      BY <2>1, <2>2, Unlisting DEF ArtifactsAgree
    <3>7. \A k \in Launchers : pc'[k] = "withdraw" => Removing(found[k])'
      BY <2>2, <3>2, <3>4
    <3> QED BY <3>1, <3>3, <3>5, <3>6, <3>7 DEF Publishing
  <2>3. CASE UNCHANGED files /\ WithdrawalsStay
    BY <2>1, <2>3, PublishingFrame
  <2>4. ASSUME UNCHANGED files, \/ NextLook(l, "stale") \/ NextLook(l, "discard")
                                \/ Goto(l, "stale", "probe") /\ UNCHANGED found
        PROVE  WithdrawalsStay
    BY <2>1, <2>4 DEF WithdrawalsStay, Types, NextLook, Goto
  <2> QED BY <1>1, <2>2, <2>3, <2>4 DEF Stale, Discard, Forget, Goto
<1>2. ASSUME NEW l \in Launchers, Withdraw(l) PROVE Publishing'
  <2>1. pc[l] = "withdraw" /\ artifact = <<"launcher", l>> /\ found[l] \in Brokers
    BY <1>2 DEF Withdraw, DropCapability, NextLook, Goto, Registered, Looking
  <2>2. \A k \in Launchers : k # l => pc[k] # "withdraw"
    BY <2>1 DEF Publishing
  <2>3. \A k \in Launchers : pc'[k] # "withdraw"
    BY <1>2, <2>2 DEF Withdraw, NextLook, Goto, Types
  <2>4. \A c \in Brokers : bpc[c] \notin {"publishing", "withdrawing"}
    BY <2>1 DEF Publishing
  <2>5. bpc' = bpc /\ registry' = registry /\ artifact' = None /\ torn' = torn
        /\ capability' = (IF capability = found[l] THEN None ELSE capability)
    BY <1>2 DEF Withdraw, DropCapability
  <2>6. Removing(found[l])
    BY <2>1 DEF Publishing
  <2> QED BY <1>0, <2>1, <2>3, <2>4, <2>5, <2>6, Unheld
<1>3. ASSUME NEW l \in Launchers, Crash(l) PROVE Publishing'
  <2>1. bpc' = bpc /\ pc' = [pc EXCEPT ![l] = "crashed"] /\ found' = [found EXCEPT ![l] = None]
    BY <1>3 DEF Crash
  <2>2. CASE pc[l] = "withdraw"
    <3>1. artifact = <<"launcher", l>> /\ Removing(found[l])
          /\ found[l] \in Brokers /\ bpc[found[l]] \in Absent
      BY <2>2 DEF Publishing, Registered, Looking
    <3>2. \A k \in Launchers : k # l => pc[k] # "withdraw"
      BY <3>1 DEF Publishing
    <3>3. \A k \in Launchers : pc'[k] # "withdraw"
      BY <2>1, <3>2 DEF Types
    <3>4. \A c \in Brokers : bpc[c] \notin {"publishing", "withdrawing"}
      BY <3>1 DEF Publishing
    <3>5. artifact' = None /\ registry' = registry /\ capability' = capability
          /\ found[l] \in torn'
      BY <1>3, <3>1 DEF Crash, LetGo
    <3> QED BY <1>0, <2>1, <3>1, <3>3, <3>4, <3>5, Unheld
  <2>3. CASE pc[l] # "withdraw"
    <3>1. UNCHANGED files
      BY <1>3, <2>3 DEF Crash, LetGo, Publishing
    <3>2. WithdrawalsStay
      BY <2>1, <2>3 DEF WithdrawalsStay, Types
    <3> QED BY <2>1, <3>1, <3>2, PublishingFrame
  <2> QED BY <2>2, <2>3
<1>4. ASSUME NEW l \in Launchers, Terminate(l) PROVE Publishing'
  <2>1. found[l] \in Brokers /\ bpc[found[l]] # "publishing"
    BY <1>4 DEF Terminate, Registered, Unpublished, Looking
  <2>2. WithdrawalsStay
    <3>1. \/ pc' = [pc EXCEPT ![l] = "discard"] /\ found' = found
          \/ NextLook(l, "terminate")
          \/ Fail(l, "terminate")
      BY <1>4 DEF Terminate, Goto
    <3>2. pc[l] = "terminate"
      BY <1>4 DEF Terminate
    <3> QED BY <3>1, <3>2 DEF NextLook, Fail, Goto, WithdrawalsStay, Types
  <2>3. CASE UNCHANGED <<files, bpc>>
    BY <2>2, <2>3, PublishingFrame
  <2>4. CASE /\ bpc[found[l]] \notin Absent /\ Halt(found[l], "killed")
             /\ LetGo(found[l], <<"broker", found[l]>>)
    BY <2>1, <2>2, <2>4, Death DEF Halt
  <2> QED BY <1>4, <2>3, <2>4 DEF Terminate
<1>5. ASSUME NEW l \in Launchers, Spawn(l) PROVE Publishing'
  <2>1. l \in Brokers /\ bpc[l] = "unborn" /\ pc[l] = "spawn"
    BY <1>5 DEF Spawn, Goto, Origins, Brokers
  <2>2. UNCHANGED files /\ bpc' = [bpc EXCEPT ![l] = "starting"]
    BY <1>5 DEF Spawn
  <2>3. WithdrawalsStay
    BY <1>5 DEF Spawn, Goto, WithdrawalsStay, Types
  <2> QED BY <2>1, <2>2, <2>3, PublishingFrame DEF Types
<1>6. ASSUME NEW l \in Launchers,
             \/ Acquire(l) \/ Load(l) \/ Probe(l) \/ Guard(l) \/ UseElsewhere(l)
             \/ Ready(l) \/ Activate(l) \/ Lease(l)
             \/ WaitTimeout(l) \/ AwaitTimeout(l) \/ SessionStep(l)
      PROVE Publishing'
  <2>1. UNCHANGED <<files, bpc>>
    BY <1>6 DEF Acquire, Load, Probe, Guard, UseElsewhere, Ready, Activate, Lease,
       WaitTimeout, AwaitTimeout, SessionStep, Launch, BeginRequest, EndRequest, Detach
  <2>2. CASE Acquire(l) \/ Load(l) \/ Probe(l) \/ UseElsewhere(l) \/ Ready(l)
    <3>1. WithdrawalsStay
      BY <2>2 DEF Acquire, Load, Probe, UseElsewhere, Ready, Goto, NextLook, Fail,
         WithdrawalsStay, Types
    <3> QED BY <2>1, <3>1, PublishingFrame
  <2>3. CASE Guard(l)
    <3>1. WithdrawalsStay
      BY <2>3 DEF Guard, LookAgain, NextLook, Goto, WithdrawalsStay, Types
    <3> QED BY <2>1, <3>1, PublishingFrame
  <2>4. CASE Activate(l) \/ Lease(l) \/ WaitTimeout(l) \/ AwaitTimeout(l) \/ SessionStep(l)
    <3>1. WithdrawalsStay
      BY <2>4 DEF Activate, Lease, WaitTimeout, AwaitTimeout, SessionStep, Launch,
         BeginRequest, EndRequest, Detach, Goto, Fail, WithdrawalsStay, Types
    <3> QED BY <2>1, <3>1, PublishingFrame
  <2> QED BY <1>6, <2>2, <2>3, <2>4
<1>7. ASSUME NEW b \in Brokers, BrokerStep(b) \/ GraceElapses(b) \/ BrokerDies(b) \/ SweepStep(b)
      PROVE Publishing'
  <2> USE <1>0
  <2>0. b \in Launchers
    OBVIOUS
  <2>1. WithdrawalsStay
    BY <1>7 DEF WithdrawalsStay, BrokerStep, GraceElapses, BrokerDies, PublishCapability,
     PublishRegistry, Announce, Observe, Scan, Tick, Shutdown, Unregister, WithdrawOwn,
     RemoveCapability, SweepStep, SweepRegistry, SweepCapability, SweepDies
  <2>2. CASE PublishCapability(b)
    <3>1. /\ artifact = None /\ artifact' = <<"broker", b>> /\ capability' = b
          /\ bpc[b] = "starting" /\ bpc' = [bpc EXCEPT ![b] = "publishing"]
          /\ pc' = pc /\ found' = found
      BY <2>2 DEF PublishCapability, Turn
    <3>2. \A l \in Launchers : pc[l] # "withdraw" /\ artifact' # <<"launcher", l>>
                               /\ artifact' # <<"housekeeping", l>>
      BY <3>1 DEF Publishing
    <3>3. \A c \in Brokers : bpc[c] \notin {"publishing", "withdrawing"}
      BY <3>1 DEF Publishing
    <3>4. ArtifactsAgree'
      BY <3>1 DEF ArtifactsAgree
    <3> QED BY <3>1, <3>2, <3>3, <3>4 DEF Publishing, Types
  <2>3. CASE PublishRegistry(b)
    <3>1. bpc[b] = "publishing" /\ artifact' = None /\ pc' = pc
      BY <2>3 DEF PublishRegistry, Turn
    <3>2. artifact = <<"broker", b>> /\ capability = b
      BY <3>1 DEF Publishing
    <3>3. \A l \in Launchers : /\ pc[l] # "withdraw" /\ artifact' # <<"launcher", l>>
                               /\ artifact' # <<"broker", l>>
                               /\ artifact' # <<"housekeeping", l>>
      BY <3>1, <3>2 DEF Publishing
    <3>4. \A c \in Brokers : c # b => bpc[c] \notin {"publishing", "withdrawing"}
      BY <3>2 DEF Publishing
    <3>5. CASE bpc' = [bpc EXCEPT ![b] = "announcing"] /\ registry' = b /\ capability' = capability
      <4>1. ArtifactsAgree'
        BY <3>2, <3>5 DEF ArtifactsAgree
      <4> QED BY <3>1, <3>2, <3>3, <3>4, <3>5, <4>1 DEF Publishing, Types
    <3>6. CASE bpc' = [bpc EXCEPT ![b] = "botched"] /\ capability' = None
      <4>1. ArtifactsAgree'
        BY <3>6 DEF ArtifactsAgree, Types
      <4> QED BY <3>1, <3>2, <3>3, <3>4, <3>6, <4>1 DEF Publishing, Types
    <3> QED BY <2>3, <3>5, <3>6 DEF PublishRegistry, Turn
  <2>4. CASE Announce(b)
    <3>1. UNCHANGED files /\ bpc[b] = "announcing" /\ bpc' = [bpc EXCEPT ![b] = "serving"]
      BY <2>4 DEF Announce, Turn
    <3> QED BY <2>1, <3>1, PublishingFrame DEF Types, Absent
  <2>5. CASE Observe(b) \/ Scan(b) \/ Tick(b) \/ GraceElapses(b)
    <3>1. UNCHANGED <<files, bpc>>
      BY <2>5 DEF Observe, Scan, Tick, GraceElapses
    <3> QED BY <2>1, <3>1, PublishingFrame
  <2>6. CASE Shutdown(b)
    <3>1. UNCHANGED files /\ bpc[b] = "serving" /\ bpc' = [bpc EXCEPT ![b] = "stopping"]
      BY <2>6 DEF Shutdown, Halt
    <3> QED BY <2>1, <3>1, PublishingFrame DEF Types, Absent
  <2>7. CASE Unregister(b)
    <3>1. CASE Turn(b, "stopping", "leaving") /\ UNCHANGED files
      <4>1. bpc[b] = "stopping" /\ bpc' = [bpc EXCEPT ![b] = "leaving"]
        BY <3>1 DEF Turn
      <4> QED BY <2>1, <3>1, <4>1, PublishingFrame DEF Types, Absent
    <3>2. CASE Turn(b, "stopping", "withdrawing") /\ Unlist(b, <<"broker", b>>)
      <4>1. bpc[b] = "stopping" /\ bpc' = [bpc EXCEPT ![b] = "withdrawing"] /\ pc' = pc
        BY <2>7, <3>2 DEF Turn, Unregister
      <4>2. Removing(b)'
        BY <3>2, <4>1, Unlisting DEF Removing, Residue, Types
      <4>3. \A l \in Launchers : pc'[l] # "withdraw" /\ artifact' # <<"launcher", l>>
                                 /\ artifact' # <<"housekeeping", l>>
        BY <3>2, <4>1, Unlisting
      <4>4. \A c \in Brokers : c # b => bpc'[c] \notin {"publishing", "withdrawing"}
        BY <3>2, <4>1, Unlisting DEF Types
      <4>5. ArtifactsAgree' /\ artifact' = <<"broker", b>>
        BY <3>2, Unlisting DEF ArtifactsAgree
      <4>6. capability' # None => bpc'[capability'] \notin {"unborn", "starting"}
        BY <3>2, <4>1, Unlisting DEF Publishing, Types
      <4> QED BY <4>1, <4>2, <4>3, <4>4, <4>5, <4>6 DEF Publishing, Types
    <3> QED BY <2>7, <3>1, <3>2 DEF Unregister
  <2>8. CASE WithdrawOwn(b)
    <3>1. bpc[b] = "withdrawing" /\ bpc' = [bpc EXCEPT ![b] = "leaving"] /\ pc' = pc
      BY <2>8 DEF WithdrawOwn, Turn
    <3>2. artifact = <<"broker", b>> /\ Removing(b)
      BY <3>1 DEF Publishing
    <3>3. \A l \in Launchers : pc'[l] # "withdraw"
      BY <3>1, <3>2 DEF Publishing
    <3>4. \A c \in Brokers : c # b => bpc[c] \notin {"publishing", "withdrawing"}
      BY <3>2 DEF Publishing
    <3>5. registry' = registry /\ artifact' = None /\ torn' = torn
          /\ capability' = (IF capability = b THEN None ELSE capability)
      BY <2>8 DEF WithdrawOwn, DropCapability
    <3>6. \A c \in Brokers : /\ bpc'[c] \notin {"publishing", "withdrawing"}
                             /\ bpc[c] = "botched" => bpc'[c] = "botched"
                             /\ bpc[c] \notin {"unborn", "starting"}
                                  => bpc'[c] \notin {"unborn", "starting"}
      BY <3>1, <3>4 DEF Types
    <3> QED BY <3>2, <3>3, <3>5, <3>6, Unheld
  <2>9. CASE RemoveCapability(b)
    <3>1. /\ bpc[b] = "leaving" /\ bpc' = [bpc EXCEPT ![b] = "gone"] /\ artifact = None
          /\ artifact' = artifact /\ registry' = registry /\ torn' = torn
          /\ capability' = IF capability = b THEN None ELSE capability
      BY <2>9 DEF RemoveCapability, Turn
    <3>2. registry # b
      BY <3>1 DEF Registered, Types, Brokers
    <3>3. capability # b
      BY <3>1, <3>2 DEF Publishing, ArtifactsAgree, Absent, Brokers
    <3>4. UNCHANGED files
      BY <3>1, <3>3
    <3> QED BY <2>1, <3>1, <3>4, PublishingFrame DEF Types, Absent
  <2>10. CASE BrokerDies(b)
    <3>1. /\ bpc[b] \notin Absent /\ LetGo(b, <<"broker", b>>)
          /\ bpc' = [bpc EXCEPT ![b] = IF bpc[b] = "publishing" THEN "botched" ELSE "dead"]
      BY <2>10 DEF BrokerDies, Halt
    <3>2. CASE bpc[b] = "publishing"
      BY <2>1, <3>1, <3>2, Death
    <3>3. CASE bpc[b] # "publishing"
      BY <2>1, <3>1, <3>3, Death
    <3> QED BY <3>2, <3>3
  <2>11. CASE SweepRegistry(b)
    <3>1. bpc[b] \in Absent /\ Unlist(b, <<"housekeeping", b>>) /\ bpc' = bpc /\ pc' = pc
      BY <2>11 DEF SweepRegistry
    <3>2. Removing(b)' /\ bpc[b] # "unborn"
      BY <3>1, Unlisting DEF Removing, Residue
    <3>3. \A l \in Launchers : pc'[l] # "withdraw" /\ artifact' # <<"launcher", l>>
                               /\ artifact' # <<"broker", l>>
      BY <3>1, Unlisting
    <3>4. \A c \in Brokers : bpc'[c] \notin {"publishing", "withdrawing"}
      BY <3>1, Unlisting
    <3>5. ArtifactsAgree' /\ artifact' = <<"housekeeping", b>>
      BY <3>1, Unlisting DEF ArtifactsAgree
    <3>6. capability' # None => bpc'[capability'] \notin {"unborn", "starting"}
      BY <3>1, Unlisting DEF Publishing
    <3> QED BY <3>1, <3>2, <3>3, <3>4, <3>5, <3>6 DEF Publishing
  <2>12. CASE SweepCapability(b) \/ SweepDies(b)
    <3>1. artifact = <<"housekeeping", b>> /\ bpc' = bpc /\ pc' = pc
      BY <2>12 DEF SweepCapability, SweepDies, DropCapability
    <3>2. bpc[b] \in Absent /\ Removing(b)
      BY <3>1 DEF Publishing
    <3>3. /\ artifact' = None /\ registry' = registry
          /\ \/ capability' = (IF capability = b THEN None ELSE capability) /\ torn' = torn
             \/ capability' = capability /\ b \in torn'
      BY <2>12, <3>1 DEF SweepCapability, SweepDies, DropCapability, LetGo
    <3>4. \A l \in Launchers : pc'[l] # "withdraw"
      BY <3>1 DEF Publishing
    <3>5. \A c \in Brokers : bpc'[c] \notin {"publishing", "withdrawing"}
      BY <3>1 DEF Publishing
    <3> QED BY <3>1, <3>2, <3>3, <3>4, <3>5, Unheld
  <2> QED
    BY <1>7, <2>2, <2>3, <2>4, <2>5, <2>6, <2>7, <2>8, <2>9, <2>10, <2>11, <2>12
    DEF BrokerStep, SweepStep
<1>8. CASE SweepOrphan
  <2>1. /\ artifact = None /\ artifact' = None /\ registry = None /\ registry' = None
        /\ capability' = None /\ bpc' = bpc /\ pc' = pc
    BY <1>8 DEF SweepOrphan
  <2>2. \A l \in Launchers : /\ pc[l] # "withdraw" /\ artifact' # <<"launcher", l>>
                             /\ artifact' # <<"broker", l>>
                             /\ artifact' # <<"housekeeping", l>>
    BY <2>1 DEF Publishing
  <2>3. \A c \in Brokers : bpc[c] \notin {"publishing", "withdrawing"}
    BY <1>0, <2>1, <2>2 DEF Publishing
  <2>4. ArtifactsAgree'
    BY <2>1 DEF ArtifactsAgree
  <2> QED BY <1>0, <2>1, <2>2, <2>3, <2>4 DEF Publishing
<1>9. CASE UNCHANGED vars
  <2>1. WithdrawalsStay
    BY <1>9 DEF vars, WithdrawalsStay
  <2> QED BY <1>9, <2>1, PublishingFrame DEF vars
<1> QED
  BY <1>1, <1>2, <1>3, <1>4, <1>5, <1>6, <1>7, <1>8, <1>9 DEF Next, LauncherStep

LEMMA StandsStep ==
  ASSUME Types, Registered, [Next]_vars, NEW b \in Brokers,
         registry = b, bpc[b] = "serving", bpc'[b] = "serving"
  PROVE  registry' = b \/ registry' \in {c \in Brokers : bpc[c] = "publishing"}
<1> USE BrokerAssumption DEF Types, Brokers
<1>1. ASSUME NEW l \in Launchers, Stale(l) \/ Discard(l) \/ Withdraw(l) PROVE registry' = registry
  BY <1>1 DEF Stale, Discard, Withdraw, Forget, Unlist, DropCapability, Registered, Absent,
     Looking
<1>2. ASSUME NEW l \in Launchers,
             \/ Acquire(l) \/ Load(l) \/ Probe(l) \/ Guard(l) \/ Terminate(l)
             \/ UseElsewhere(l) \/ Spawn(l) \/ Ready(l) \/ Activate(l) \/ Lease(l)
             \/ WaitTimeout(l) \/ AwaitTimeout(l) \/ SessionStep(l) \/ Crash(l)
      PROVE registry' = registry
  BY <1>2 DEF Acquire, Load, Probe, Guard, Terminate, UseElsewhere, Spawn, Ready, Activate,
     Lease, WaitTimeout, AwaitTimeout, SessionStep, Launch, BeginRequest, EndRequest,
     Detach, Crash, LetGo
<1>3. ASSUME NEW c \in Brokers, Unregister(c) \/ WithdrawOwn(c) PROVE registry' = registry
  BY <1>3 DEF Unregister, WithdrawOwn, Turn, Unlist, DropCapability
<1>4. ASSUME NEW c \in Brokers, PublishRegistry(c)
      PROVE registry' = registry \/ (registry' = c /\ bpc[c] = "publishing")
  BY <1>4 DEF PublishRegistry, Turn
<1>5. ASSUME NEW c \in Brokers,
             \/ PublishCapability(c) \/ Announce(c) \/ Observe(c) \/ Scan(c) \/ Tick(c)
             \/ Shutdown(c) \/ RemoveCapability(c) \/ GraceElapses(c) \/ BrokerDies(c)
      PROVE registry' = registry
  BY <1>5 DEF PublishCapability, Announce, Observe, Scan, Tick, Shutdown, RemoveCapability,
     GraceElapses, BrokerDies, LetGo
<1>6. CASE UNCHANGED vars
  BY <1>6 DEF vars
<1>7. ASSUME SweepOrphan \/ \E c \in Brokers : SweepStep(c) PROVE registry' = registry
  BY <1>7 DEF SweepStep, SweepRegistry, SweepCapability, SweepDies, SweepOrphan, Unlist, DropCapability, LetGo, Absent
<1> QED
  BY <1>7, <1>1, <1>2, <1>3, <1>4, <1>5, <1>6 DEF Next, LauncherStep, BrokerStep

LEMMA TerminateService ==
  ASSUME NEW l \in Launchers, Terminate(l)
  PROVE  \/ bpc' = bpc /\ counted' = counted
         \/ /\ bpc' = [bpc EXCEPT ![found[l]] = "killed"]
            /\ counted' = counted \ {found[l]}
BY DEF Terminate, Halt

LEMMA StepSeen == Types /\ Origins /\ Registered /\ Seen /\ [Next]_vars => Seen'
<1> SUFFICES ASSUME Types, Origins, Registered, Seen, [Next]_vars PROVE Seen'
  OBVIOUS
<1> USE BrokerAssumption DEF Types, Seen, AttachedTo, Brokers
<1>1. ASSUME NEW l \in Launchers,
             \/ Acquire(l) \/ Load(l) \/ Stale(l) \/ Probe(l)
             \/ Discard(l) \/ Withdraw(l) \/ UseElsewhere(l) \/ Ready(l)
      PROVE Seen'
  BY <1>1 DEF Acquire, Load, Stale, Probe, Discard, Withdraw, Forget, UseElsewhere, Ready, Goto,
     NextLook, Fail
<1>2. ASSUME NEW l \in Launchers, Guard(l) PROVE Seen'
  BY <1>2 DEF Guard, LiveLeases, Goto, LookAgain, NextLook
<1>3. ASSUME NEW l \in Launchers, Terminate(l) PROVE Seen'
  <2>1. found[l] \in Brokers
    BY <1>3 DEF Terminate, Registered, Looking
  <2>2. \A k \in Launchers : pc'[k] = "attached" => pc[k] = "attached" /\ found'[k] = found[k]
    <3>1. \/ pc' = [pc EXCEPT ![l] = "discard"] /\ found' = found
          \/ NextLook(l, "terminate")
          \/ Fail(l, "terminate")
      BY <1>3 DEF Terminate, Goto
    <3> QED BY <3>1 DEF NextLook, Fail, Goto
  <2>3. UNCHANGED <<leases, unseen>>
    BY <1>3 DEF Terminate, Halt
  <2>4. \A b \in Brokers :
          \/ bpc'[b] = "killed" /\ b \notin counted'
          \/ bpc'[b] = bpc[b] /\ (b \in counted' <=> b \in counted)
    <3>1. \/ bpc' = bpc /\ counted' = counted
          \/ /\ bpc' = [bpc EXCEPT ![found[l]] = "killed"]
             /\ counted' = counted \ {found[l]}
      BY <1>3, TerminateService
    <3> QED BY <2>1, <3>1
  <2>5. counted' \subseteq Brokers
    BY <1>3, TerminateService
  <2> QED BY <2>2, <2>3, <2>4, <2>5
<1>4. ASSUME NEW l \in Launchers, Spawn(l) PROVE Seen'
  <2>1. l \in Brokers /\ bpc[l] = "unborn"
    BY <1>4 DEF Spawn, Goto, Origins
  <2> QED BY <1>4, <2>1 DEF Spawn, Goto
<1>5. ASSUME NEW l \in Launchers, Activate(l) \/ Lease(l) PROVE Seen'
  BY <1>5 DEF Activate, Lease, Goto, Fail
<1>6. ASSUME NEW l \in Launchers, WaitTimeout(l) \/ AwaitTimeout(l) PROVE Seen'
  BY <1>6 DEF WaitTimeout, AwaitTimeout, Goto, Fail
<1>7. ASSUME NEW l \in Launchers, SessionStep(l) \/ Crash(l) PROVE Seen'
  BY <1>7 DEF SessionStep, Launch, BeginRequest, EndRequest, Detach, Crash, Goto
<1>8. ASSUME NEW b \in Brokers,
             \/ PublishCapability(b) \/ PublishRegistry(b) \/ Announce(b)
             \/ Unregister(b) \/ WithdrawOwn(b) \/ RemoveCapability(b)
      PROVE Seen'
  BY <1>8 DEF PublishCapability, PublishRegistry, Announce, Unregister, WithdrawOwn,
     RemoveCapability,
     Turn
<1>9. ASSUME NEW b \in Brokers, Observe(b) \/ Tick(b) \/ GraceElapses(b) PROVE Seen'
  BY <1>9 DEF Observe, Tick, GraceElapses
<1>10. ASSUME NEW b \in Brokers, Scan(b) PROVE Seen'
  BY <1>10 DEF Scan, LiveLeases
<1>11. ASSUME NEW b \in Brokers, Shutdown(b) PROVE Seen'
  BY <1>11 DEF Shutdown, Halt, Quiet
<1>12. ASSUME NEW b \in Brokers, BrokerDies(b) PROVE Seen'
  BY <1>12 DEF BrokerDies, Halt
<1>13. CASE UNCHANGED vars
  BY <1>13 DEF vars
<1>20. ASSUME SweepOrphan \/ \E b \in Brokers : SweepStep(b) PROVE Seen'
  BY <1>20 DEF SweepStep, SweepRegistry, SweepCapability, SweepDies, SweepOrphan
<1> QED
  BY <1>20, <1>1, <1>2, <1>3, <1>4, <1>5, <1>6, <1>7, <1>8, <1>9, <1>10, <1>11, <1>12, <1>13
  DEF Next, LauncherStep, BrokerStep

LEMMA StepUnused == Types /\ Locked /\ Seen /\ Unused /\ [Next]_vars => Unused'
<1> SUFFICES ASSUME Types, Locked, Seen, Unused, [Next]_vars PROVE Unused'
  OBVIOUS
<1> USE BrokerAssumption DEF Types, Unused
<1>1. ASSUME NEW l \in Launchers,
             \/ Acquire(l) \/ Load(l) \/ Stale(l) \/ Probe(l) \/ Discard(l) \/ Withdraw(l)
             \/ UseElsewhere(l) \/ Spawn(l) \/ Ready(l)
             \/ Activate(l) \/ WaitTimeout(l) \/ AwaitTimeout(l)
      PROVE Unused'
  BY <1>1 DEF Acquire, Load, Stale, Probe, Discard, Withdraw, Forget, UseElsewhere, Spawn, Ready, Activate,
     WaitTimeout, AwaitTimeout, Goto, NextLook, Fail
<1>2. ASSUME NEW l \in Launchers, Guard(l) PROVE Unused'
  <2>1. CASE LiveLeases = {}
    <3>1. \A k \in Launchers : pc[k] # "attached"
      BY <2>1 DEF Seen, LiveLeases
    <3>2. \A k \in Launchers : pc'[k] # "attached"
      BY <1>2, <3>1 DEF Guard, Goto, LookAgain, NextLook
    <3> QED BY <3>2
  <2>2. CASE LiveLeases # {}
    BY <1>2, <2>2 DEF Guard, Goto, LookAgain, NextLook
  <2> QED BY <2>1, <2>2
<1>3. ASSUME NEW l \in Launchers, Terminate(l) PROVE Unused'
  <2>1. \/ pc' = [pc EXCEPT ![l] = "discard"]
        \/ NextLook(l, "terminate")
        \/ Fail(l, "terminate")
    BY <1>3 DEF Terminate, Goto
  <2> QED BY <2>1 DEF NextLook, Fail, Goto
<1>4. ASSUME NEW l \in Launchers, Lease(l) PROVE Unused'
  BY <1>4 DEF Lease, Goto, Locked, Ensuring, Ended
<1>5. ASSUME NEW l \in Launchers, SessionStep(l) \/ Crash(l) PROVE Unused'
  BY <1>5 DEF SessionStep, Launch, BeginRequest, EndRequest, Detach, Crash, Goto
<1>6. ASSUME NEW b \in Brokers, BrokerStep(b) \/ GraceElapses(b) \/ BrokerDies(b) \/ SweepStep(b)
      PROVE Unused'
  BY <1>6 DEF BrokerStep, GraceElapses, BrokerDies, PublishCapability, PublishRegistry,
     Announce, Observe, Scan, Tick, Shutdown, Unregister, WithdrawOwn, RemoveCapability,
     SweepStep, SweepRegistry, SweepCapability, SweepDies
<1>7. CASE UNCHANGED vars
  BY <1>7 DEF vars
<1>8. CASE SweepOrphan
  BY <1>8 DEF SweepOrphan
<1> QED
  BY <1>8, <1>1, <1>2, <1>3, <1>4, <1>5, <1>6, <1>7 DEF Next, LauncherStep

(* Only Terminate kills.                                                   *)
LEMMA ReplacesStep ==
  ASSUME Types, Registered, Unused, [Next]_vars, NEW b \in Brokers,
         bpc'[b] = "killed", bpc[b] # "killed"
  PROVE  \/ AttachedTo(b) \subseteq Foreign
         \/ \E f \in Foreign : pc[f] = "terminate" /\ pc'[f] = "discard"
<1> USE BrokerAssumption DEF Types, Brokers
<1>1. ASSUME NEW l \in Launchers, Terminate(l)
      PROVE \/ AttachedTo(b) \subseteq Foreign
            \/ \E f \in Foreign : pc[f] = "terminate" /\ pc'[f] = "discard"
  <2>1. pc[l] = "terminate" /\ pc'[l] = "discard"
    BY <1>1 DEF Terminate, Goto
  <2>2. CASE l \in Foreign
    BY <2>1, <2>2
  <2>3. CASE l \notin Foreign
    BY <2>1, <2>3 DEF Unused, AttachedTo
  <2> QED BY <2>2, <2>3
<1>2. ASSUME NEW l \in Launchers,
             \/ Acquire(l) \/ Load(l) \/ Stale(l) \/ Probe(l) \/ Guard(l) \/ Discard(l) \/ Withdraw(l)
             \/ UseElsewhere(l) \/ Spawn(l) \/ Ready(l) \/ Activate(l) \/ Lease(l)
             \/ WaitTimeout(l) \/ AwaitTimeout(l) \/ SessionStep(l) \/ Crash(l)
      PROVE bpc'[b] \in {bpc[b], "starting"}
  BY <1>2 DEF Acquire, Load, Stale, Probe, Guard, Discard, Withdraw, UseElsewhere, Spawn, Ready,
     Activate, Lease, WaitTimeout, AwaitTimeout, SessionStep, Launch, BeginRequest,
     EndRequest, Detach, Crash
<1>3. ASSUME NEW c \in Brokers, BrokerStep(c) \/ GraceElapses(c) \/ BrokerDies(c) \/ SweepStep(c)
      PROVE bpc'[b] # "killed"
  BY <1>3 DEF BrokerStep, GraceElapses, BrokerDies, PublishCapability, PublishRegistry,
     Announce, Observe, Scan, Tick, Shutdown, Unregister, WithdrawOwn, RemoveCapability,
     SweepStep, SweepRegistry, SweepCapability, SweepDies, Turn, Halt
<1>4. CASE UNCHANGED vars
  BY <1>4 DEF vars
<1>5. CASE SweepOrphan
  BY <1>5 DEF SweepOrphan
<1> QED
  BY <1>5, <1>1, <1>2, <1>3, <1>4 DEF Next, LauncherStep

(* Failed and crashed launchers are over.                                  *)
LEMMA FailuresStay ==
  ASSUME Types, [Next]_vars, NoFailure'
  PROVE  NoFailure
<1> SUFFICES ASSUME NEW k \in Launchers, pc[k] \in {"failed", "crashed"}
             PROVE  pc'[k] \in {"failed", "crashed"}
  BY DEF NoFailure
<1> USE BrokerAssumption DEF Types
<1>1. ASSUME NEW l \in Launchers,
             \/ Acquire(l) \/ Load(l) \/ Stale(l) \/ Probe(l) \/ Discard(l) \/ Withdraw(l)
             \/ UseElsewhere(l) \/ Spawn(l) \/ Ready(l) \/ Lease(l)
             \/ Activate(l) \/ WaitTimeout(l) \/ AwaitTimeout(l)
      PROVE pc'[k] = pc[k]
  BY <1>1 DEF Acquire, Load, Stale, Probe, Discard, Withdraw, Forget, UseElsewhere, Spawn, Ready, Lease,
     Activate, WaitTimeout, AwaitTimeout, Goto, NextLook, Fail
<1>2. ASSUME NEW l \in Launchers, Guard(l) PROVE pc'[k] = pc[k]
  BY <1>2 DEF Guard, Goto, LookAgain, NextLook
<1>3. ASSUME NEW l \in Launchers, Terminate(l) PROVE pc'[k] = pc[k]
  BY <1>3 DEF Terminate, Goto, NextLook, Fail
<1>4. ASSUME NEW l \in Launchers, SessionStep(l) \/ Crash(l) PROVE pc'[k] = pc[k]
  BY <1>4 DEF SessionStep, Launch, BeginRequest, EndRequest, Detach, Crash, Goto,
     Ensuring, Ended
<1>5. ASSUME NEW b \in Brokers, BrokerStep(b) \/ GraceElapses(b) \/ BrokerDies(b) \/ SweepStep(b)
      PROVE pc' = pc
  BY <1>5 DEF BrokerStep, GraceElapses, BrokerDies, PublishCapability, PublishRegistry,
     Announce, Observe, Scan, Tick, Shutdown, Unregister, WithdrawOwn, RemoveCapability,
     SweepStep, SweepRegistry, SweepCapability, SweepDies
<1>6. CASE UNCHANGED vars
  BY <1>6 DEF vars
<1>7. CASE SweepOrphan
  BY <1>7 DEF SweepOrphan
<1> QED
  BY <1>7, <1>1, <1>2, <1>3, <1>4, <1>5, <1>6 DEF Next, LauncherStep

LEMMA StepAwaited ==
  Types /\ Locked /\ Origins /\ Registered /\ Awaited /\ [Next]_vars => Awaited'
<1> SUFFICES ASSUME Types, Locked, Origins, Registered, Awaited, [Next]_vars, NoFailure'
             PROVE \A b \in Brokers :
                     /\ bpc'[b] \in {"starting", "publishing", "announcing", "botched"}
                          => pc'[b] = "await"
                     /\ pc'[b] = "await" /\ bpc'[b] \in {"announcing", "serving"}
                          => registry' = b
  BY DEF Awaited
<1> DEFINE Goal == \A b \in Brokers :
                     /\ bpc'[b] \in {"starting", "publishing", "announcing", "botched"}
                          => pc'[b] = "await"
                     /\ pc'[b] = "await" /\ bpc'[b] \in {"announcing", "serving"}
                          => registry' = b
<1> USE BrokerAssumption DEF Types, Brokers
<1>0. ASSUME NoFailure PROVE Goal
  <2> USE <1>0 DEF Awaited
  <2>1. ASSUME NEW l \in Launchers,
               \/ Acquire(l) \/ Load(l) \/ Guard(l)
               \/ UseElsewhere(l) \/ WaitTimeout(l)
        PROVE Goal
    BY <2>1 DEF Acquire, Load, Guard, UseElsewhere, WaitTimeout, Goto, LookAgain,
       NextLook
  <2>2. ASSUME NEW l \in Launchers, Stale(l) \/ Discard(l) \/ Withdraw(l) PROVE Goal
    <3>1. pc[l] \in {"stale", "discard", "withdraw"} /\ bpc' = bpc
      BY <2>2 DEF Stale, Discard, Withdraw, NextLook, Goto
    <3>2. \A k \in Launchers : pc'[k] = "await" <=> pc[k] = "await"
      BY <2>2, <3>1 DEF Stale, Discard, Withdraw, Forget, Goto, NextLook
    <3>3. registry' = registry \/ bpc[registry] \in Absent
      BY <2>2 DEF Stale, Discard, Withdraw, Forget, Unlist, DropCapability, Registered
    <3> QED BY <3>1, <3>2, <3>3 DEF Absent
  <2>3. ASSUME NEW l \in Launchers, Terminate(l) PROVE Goal
    <3>1. found[l] \in Brokers /\ registry' = registry
      BY <2>3 DEF Terminate, Registered, Looking, LetGo
    <3>2. bpc' = bpc \/ bpc' = [bpc EXCEPT ![found[l]] = "killed"]
      BY <2>3 DEF Terminate, Halt
    <3>3. \A k \in Launchers : pc'[k] = "await" <=> pc[k] = "await"
      <4>1. \/ pc[l] = "terminate" /\ pc' = [pc EXCEPT ![l] = "discard"]
            \/ NextLook(l, "terminate")
            \/ Fail(l, "terminate")
        BY <2>3 DEF Terminate, Goto
      <4> QED BY <4>1 DEF NextLook, Fail, Goto
    <3> QED BY <3>1, <3>2, <3>3
  <2>4. ASSUME NEW l \in Launchers, Spawn(l) PROVE Goal
    BY <2>4 DEF Spawn, Goto
  <2>5. ASSUME NEW l \in Launchers,
               Probe(l) \/ Ready(l) \/ Activate(l) \/ Lease(l) \/ AwaitTimeout(l)
        PROVE Goal
    <3>1. CASE pc'[l] = "failed"
      BY <3>1 DEF NoFailure
    <3>2. CASE pc'[l] # "failed"
      BY <2>5, <3>2 DEF Probe, Ready, Activate, Lease, AwaitTimeout, Goto, Fail, Answers
    <3> QED BY <3>1, <3>2
  <2>6. ASSUME NEW l \in Launchers, SessionStep(l) PROVE Goal
    BY <2>6 DEF SessionStep, Launch, BeginRequest, EndRequest, Detach, Goto
  <2>7. ASSUME NEW l \in Launchers, Crash(l) PROVE Goal
    BY <2>7 DEF Crash, NoFailure
  <2>8. ASSUME NEW b \in Brokers, PublishRegistry(b) PROVE Goal
    <3>1. \A c \in Brokers : pc[c] = "await" => lock = c
      BY DEF Locked, Ensuring, Ended
    <3>2. pc[b] = "await" /\ lock = b /\ bpc[b] = "publishing" /\ pc' = pc
      BY <2>8, <3>1 DEF PublishRegistry, Turn
    <3> QED BY <2>8, <3>1, <3>2 DEF PublishRegistry, Turn
  <2>9. ASSUME NEW b \in Brokers,
               PublishCapability(b) \/ Announce(b) \/ RemoveCapability(b)
        PROVE Goal
    BY <2>9 DEF PublishCapability, Announce, RemoveCapability, Turn
  <2>10. ASSUME NEW b \in Brokers, Unregister(b) \/ WithdrawOwn(b) PROVE Goal
    BY <2>10 DEF Unregister, WithdrawOwn, Turn, Unlist, DropCapability
  <2>11. ASSUME NEW b \in Brokers, Observe(b) \/ Scan(b) \/ Tick(b) \/ GraceElapses(b)
         PROVE Goal
    BY <2>11 DEF Observe, Scan, Tick, GraceElapses
  <2>12. ASSUME NEW b \in Brokers, Shutdown(b) \/ BrokerDies(b) PROVE Goal
    BY <2>12 DEF Shutdown, BrokerDies, Halt, LetGo
  <2>14. ASSUME NEW b \in Brokers, SweepStep(b) PROVE Goal
    BY <2>14 DEF SweepStep, SweepRegistry, SweepCapability, SweepDies, Unlist, DropCapability,
       LetGo, Absent
  <2>15. CASE SweepOrphan
    BY <2>15 DEF SweepOrphan
  <2>13. CASE UNCHANGED vars
    BY <2>13 DEF vars
  <2> QED
    BY <2>1, <2>2, <2>3, <2>4, <2>5, <2>6, <2>7, <2>8, <2>9, <2>10, <2>11, <2>12,
       <2>13, <2>14, <2>15
    DEF Next, LauncherStep, BrokerStep
<1> QED BY <1>0, FailuresStay

-----------------------------------------------------------------------------
(* The inductive invariant.                                                *)
IInv ==
  /\ Types /\ Locked /\ Origins /\ Registered /\ Publishing
  /\ Seen /\ Unused /\ Awaited

LEMMA InitIInv == Init => IInv
<1> SUFFICES ASSUME Init PROVE IInv
  OBVIOUS
<1> USE BrokerAssumption
<1>1. Types /\ Locked
  BY InitTypes, TypesLocked
<1>2. Origins
  BY DEF Init, Origins, Brokers
<1>3. Registered
  BY DEF Init, Registered, Looking
<1>4. Publishing
  <2>1. \A l \in Launchers : /\ artifact # <<"launcher", l>> /\ artifact # <<"broker", l>>
                             /\ artifact # <<"housekeeping", l>>
    BY DEF Init
  <2>2. \A b \in Brokers : b \in Launchers
    BY DEF Brokers
  <2> QED BY <2>1, <2>2 DEF Init, Publishing, ArtifactsAgree
<1>5. Seen /\ Unused
  BY DEF Init, Seen, Unused, AttachedTo
<1>6. Awaited
  BY DEF Init, Awaited
<1> QED BY <1>1, <1>2, <1>3, <1>4, <1>5, <1>6 DEF IInv

LEMMA StepIInv == IInv /\ [Next]_vars => IInv'
BY StepTypes, StepLocked, StepOrigins, StepRegistered, StepPublishing, StepSeen,
   StepUnused, StepAwaited
DEF IInv

LEMMA Inductive == Spec => []IInv
BY InitIInv, StepIInv, PTL DEF Spec

-----------------------------------------------------------------------------
(* The types of the variables, and that the launchers of the key that look *)
(* at or change its broker hold the ensure lock, one at a time.            *)
THEOREM TypeCorrect == Spec => []TypeOK
<1>1. IInv => TypeOK
  BY TypesLocked DEF IInv
<1> QED BY <1>1, Inductive, PTL

(* Registry and capability name the same broker whenever nobody is just    *)
(* writing or removing them; after a death in between they differ only by  *)
(* the capability of a broker that has ended.                              *)
THEOREM ArtifactsNameOneBroker == Spec => []ArtifactsAgree
<1>1. IInv => ArtifactsAgree
  BY DEF IInv, Publishing
<1> QED BY <1>1, Inductive, PTL

(* Nobody takes the registration of a running broker away.                 *)
THEOREM RegistrationsStand == Spec => LiveRegistrationStands
<1>1. IInv /\ [Next]_vars
        => [\A b \in Brokers :
              registry = b /\ bpc[b] = "serving" /\ bpc'[b] = "serving"
                => registry' = b \/ registry' \in {c \in Brokers : bpc[c] = "publishing"}]_vars
  BY StandsStep DEF IInv
<1> QED BY <1>1, Inductive, PTL DEF Spec, LiveRegistrationStands

(* A broker stops on an attached launcher only if no scan of its has met   *)
(* the lease.                                                              *)
THEOREM StoppedBrokersWereUnseen == Spec => []StopsOnlyOnUnseen
<1>1. IInv => StopsOnlyOnUnseen
  <2> SUFFICES ASSUME IInv, NEW b \in Brokers, bpc[b] \in {"stopping", "withdrawing", "leaving", "gone"}
               PROVE  AttachedTo(b) \subseteq unseen
    BY DEF StopsOnlyOnUnseen
  <2>1. bpc[b] \notin {"killed", "dead", "botched"}
    OBVIOUS
  <2>2. b \notin counted
    BY DEF IInv, Seen
  <2> QED BY <2>1, <2>2 DEF IInv, Seen
<1> QED BY <1>1, Inductive, PTL

(* Under the ensure lock, only an unused broker is replaced.               *)
THEOREM OnlyUnusedAreReplaced == Spec => ReplacesOnlyUnused
<1>1. IInv /\ [Next]_vars
        => [\A b \in Brokers :
              bpc'[b] = "killed" /\ bpc[b] # "killed"
                => \/ AttachedTo(b) \subseteq Foreign
                   \/ \E f \in Foreign : pc[f] = "terminate" /\ pc'[f] = "discard"]_vars
  BY ReplacesStep DEF IInv
<1> QED BY <1>1, Inductive, PTL DEF Spec, ReplacesOnlyUnused

(* While no launcher has failed or crashed, an awaited broker that serves  *)
(* is registered and reachable.                                            *)
THEOREM AwaitedAreRegistered == Spec => []AwaitedBrokerIsRegistered
<1>1. IInv => AwaitedBrokerIsRegistered
  <2> SUFFICES ASSUME IInv, NoFailure, NEW l \in Launchers,
                      pc[l] = "await", bpc[l] = "serving", artifact = None
               PROVE  registry = l /\ capability = l
    BY DEF AwaitedBrokerIsRegistered, NoFailure
  <2> USE DEF IInv
  <2>1. l \in Brokers
    BY DEF Origins, Brokers
  <2>2. registry = l
    BY <2>1 DEF Awaited
  <2>3. \A b \in Brokers : pc[b] = "await" => b = l
    BY <2>1 DEF Locked, Ensuring, Ended, Brokers
  <2>4. \A b \in Brokers : bpc[b] # "botched"
    BY <2>1, <2>3 DEF Awaited
  <2>5. registry # None
    BY <2>1, <2>2, BrokerAssumption DEF Brokers
  <2> QED BY <2>2, <2>4, <2>5 DEF Publishing, ArtifactsAgree
<1> QED BY <1>1, Inductive, PTL
=============================================================================
