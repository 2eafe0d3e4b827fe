----------------------- MODULE SessionOwnershipProofs -----------------------
(***************************************************************************)
(* Theorems about SessionOwnership, for any number of proxies, commands,   *)
(* requests and profiles.  The types are an inductive invariant; that the  *)
(* sidecar's owner moves only across a release follows from what Merge     *)
(* does to the binding of its first argument.  That a release fences every *)
(* copy, and that no rotation is undone, rest on two more invariants: one  *)
(* on the dates of all copies, one on the order of the views they have.    *)
(***************************************************************************)
EXTENDS SessionOwnership, TLAPS

Owners == Profiles \cup {NoProfile, Conflict}

LEMMA OperatorTypes ==
  /\ Unbound \in Bindings /\ Empty \in Stores
  /\ \A a, b \in Bindings : HardMerge(a, b) \in Bindings
  /\ \A b \in Bindings : Legacy(b) \in Stores
  /\ \A s \in Stores : s.binding \in Bindings /\ View(s) \in Owners \X Nat
<1>1. Unbound \in Bindings /\ Empty \in Stores
  BY DEF Unbound, Empty, Bindings, Stores
<1>2. ASSUME NEW a \in Bindings, NEW b \in Bindings PROVE HardMerge(a, b) \in Bindings
  BY DEF HardMerge, Later, Bindings
<1>3. ASSUME NEW b \in Bindings PROVE Legacy(b) \in Stores
  BY <1>1 DEF Legacy, Empty, Stores
<1>4. ASSUME NEW s \in Stores PROVE s.binding \in Bindings /\ View(s) \in Owners \X Nat
  BY DEF View, Stores, Bindings, Owners
<1> QED BY <1>1, <1>2, <1>3, <1>4

LEMMA MergeType ==
  ASSUME NEW s \in Stores, NEW t \in Stores
  PROVE  Merge(s, t) \in Stores
<1> DEFINE epoch == Later(s.epoch, t.epoch)
<1>1. epoch \in Nat /\ Later(s.event, t.event) \in Nat
  BY DEF Later, Stores
<1>2. Fenced(s.binding, epoch) \in Bindings /\ Fenced(t.binding, epoch) \in Bindings
  BY OperatorTypes DEF Fenced, Stores
<1>3. HardMerge(Fenced(s.binding, epoch), Fenced(t.binding, epoch)) \in Bindings
  BY <1>2, OperatorTypes
<1> QED BY <1>1, <1>3 DEF Merge, Stores

(* What a request makes of a store is a store.                             *)
LEMMA RequestTypes ==
  ASSUME NEW s \in Stores, now \in Nat
  PROVE  /\ Touched(s) \in Stores /\ Released(s) \in Stores
         /\ \A a : ReleasedFrom(s, a) \in Stores
         /\ \A a \in Profiles, refresh \in BOOLEAN : Remembered(s, a, refresh) \in Stores
<1>1. ASSUME NEW t \in Nat PROVE NextEvent(s.event, t) \in Nat
  BY DEF NextEvent, Stores
<1>2. Touched(s) \in Stores
  <2>1. NextEvent(s.event, now) \in Nat BY <1>1
  <2>2. Later(s.binding.at, now) \in Nat BY DEF Later, Stores, Bindings
  <2> QED BY <2>1, <2>2 DEF Touched, Stores, Bindings
<1>3. Released(s) \in Stores
  BY <1>1, OperatorTypes DEF Released, Later, Stores
<1>4. ASSUME NEW a \in Profiles, NEW refresh \in BOOLEAN
      PROVE  Remembered(s, a, refresh) \in Stores
  <2> DEFINE t == RebindTime(s)
             bound == HardMerge(s.binding, [owner |-> a, at |-> t])
  <2>1. t \in Nat BY DEF RebindTime, Later, Stores
  <2>2. [owner |-> a, at |-> t] \in Bindings BY <2>1 DEF Bindings
  <2>3. bound \in Bindings BY <2>2, OperatorTypes
  <2>4. NextEvent(s.event, t) \in Nat BY <1>1, <2>1
  <2> QED BY <2>3, <2>4 DEF Remembered, Stores
<1> QED BY <1>2, <1>3, <1>4 DEF ReleasedFrom

-----------------------------------------------------------------------------
LEMMA TypeInit == Init => TypeOK
<1> SUFFICES ASSUME Init PROVE TypeOK
  OBVIOUS
<1>1. now = 1 /\ now \in Nat /\ now \in 1..MaxTime
  BY SessionAssumption DEF Init
<1>2. sidecar \in Stores /\ stateFile \in Bindings
  BY <1>1, OperatorTypes, RequestTypes DEF Init
<1>3. latest \in Owners \X Nat
  BY <1>2, OperatorTypes DEF Init
<1> QED BY <1>1, <1>2, <1>3, OperatorTypes DEF Init, TypeOK, Owners

(* The clock and the commands.                                             *)
LEMMA TypeCommand ==
  ASSUME TypeOK, Tick \/ \E c \in Commands : LoadCommand(c) \/ SaveCommand(c)
  PROVE  TypeOK'
<1> USE DEF TypeOK, files, proxies, roles, jobs, cmds, reqs, history
<1>1. CASE Tick
  BY <1>1, SessionAssumption DEF Tick
<1>2. ASSUME NEW c \in Commands, LoadCommand(c) PROVE TypeOK'
  BY <1>2 DEF LoadCommand
<1>3. ASSUME NEW c \in Commands, SaveCommand(c) PROVE TypeOK'
  <2>1. stateFile' \in Bindings /\ view' \in [Commands -> Bindings]
    BY <1>3, OperatorTypes DEF SaveCommand
  <2>2. disturbed' \in BOOLEAN
    BY <1>3 DEF SaveCommand
  <2> QED BY <1>3, <2>1, <2>2 DEF SaveCommand
<1> QED BY <1>1, <1>2, <1>3

(* The start of a proxy and its promotion.                                 *)
LEMMA TypeStart ==
  ASSUME TypeOK, NEW p \in Proxies,
         ReadLaunchState(p) \/ TryOwn(p) \/ ReadState(p) \/ Restore(p) \/ Promote(p)
  PROVE  TypeOK'
<1> USE DEF TypeOK, files, proxies, roles, jobs, cmds, reqs, history
<1>1. CASE ReadLaunchState(p)
  <2>1. Legacy(stateFile) \in Stores BY OperatorTypes
  <2> QED BY <1>1, <2>1 DEF ReadLaunchState, Moves
<1>2. CASE TryOwn(p)
  BY <1>2 DEF TryOwn, Own, Moves
<1>3. CASE ReadState(p)
  <2>1. Legacy(stateFile) \in Stores BY OperatorTypes
  <2> QED BY <1>3, <2>1 DEF ReadState, Moves
<1>4. CASE Restore(p)
  <2>1. Merge(sidecar, memory[p]) \in Stores BY MergeType
  <2>2. Restored(p) \in Stores BY <2>1, MergeType DEF Restored
  <2> QED BY <1>4, <2>2, OperatorTypes DEF Restore, Moves
<1>5. CASE Promote(p)
  BY <1>5 DEF Promote, Own
<1> QED BY <1>1, <1>2, <1>3, <1>4, <1>5

(* The save worker.                                                        *)
LEMMA TypeSave ==
  ASSUME TypeOK, NEW p \in Proxies,
         ReadLive(p) \/ SaveSidecar(p) \/ SaveState(p) \/ FailSave(p)
  PROVE  TypeOK'
<1> USE DEF TypeOK, files, proxies, roles, jobs, cmds, reqs, history
<1>1. CASE ReadLive(p)
  BY <1>1 DEF ReadLive
<1>2. CASE SaveSidecar(p)
  <2>1. sidecar' \in Stores BY <1>2, MergeType DEF SaveSidecar
  <2> QED BY <1>2, <2>1, OperatorTypes DEF SaveSidecar, EndSave
<1>3. CASE SaveState(p)
  BY <1>3, OperatorTypes DEF SaveState
<1>4. CASE FailSave(p)
  BY <1>4, OperatorTypes DEF FailSave, EndSave
<1> QED BY <1>1, <1>2, <1>3, <1>4

(* The end of a proxy.                                                     *)
LEMMA TypeEnd ==
  ASSUME TypeOK, NEW p \in Proxies, Stop(p) \/ Exit(p)
  PROVE  TypeOK'
<1> USE DEF TypeOK, files, proxies, roles, jobs, cmds, reqs, history
<1>1. CASE Stop(p)
  BY <1>1 DEF Stop, Moves
<1>2. CASE Exit(p)
  <2>1. latest' \in Owners \X Nat
    BY <1>2, OperatorTypes DEF Exit, Owners
  <2>2. /\ request' \in [Requests -> {"new", "choosing", "trying", "over"}]
        /\ owner' \in [Requests -> Profiles \cup {NoProfile}]
        /\ chosen' \in [Requests -> Profiles \cup {NoProfile}]
        /\ \A q \in Requests : request'[q] = "trying" => chosen'[q] \in Profiles
        /\ failed' \in [Requests -> SUBSET Profiles]
    BY <1>2 DEF Exit, Finish
  <2>3. /\ proxy' \in [Proxies -> {"new", "launched", "starting", "loading", "up", "stopping", "over"}]
        /\ memory' \in [Proxies -> Stores] /\ snapshot' \in [Proxies -> Stores]
    BY <1>2, OperatorTypes DEF Exit
  <2> QED BY <1>2, <2>1, <2>2, <2>3 DEF Exit, Owners
<1> QED BY <1>1, <1>2

(* The requests.                                                           *)
LEMMA TypeRequest ==
  ASSUME TypeOK, NEW r \in Requests, Begin(r) \/ Select(r) \/ Fail(r) \/ Commit(r)
  PROVE  TypeOK'
<1> DEFINE p == server[r]
           store == memory[p]
<1> USE DEF TypeOK, files, proxies, roles, jobs, cmds, reqs, history
<1>1. p \in Proxies /\ store \in Stores /\ now \in Nat /\ store.binding.owner \in Owners
  BY SessionAssumption DEF Stores, Bindings, Owners
<1>2. ASSUME NEW s \in Stores, Update(r, s)
      PROVE  /\ memory' \in [Proxies -> Stores] /\ latest' \in Owners \X Nat
             /\ UNCHANGED <<now, files, roles, proxy, saving, snapshot, cmds, server>>
  BY <1>1, <1>2, OperatorTypes DEF Update
<1>3. ASSUME NEW changed \in BOOLEAN, Schedule(r, changed)
      PROVE  queued' \subseteq Proxies
  BY <1>3 DEF Schedule
<1>4. CASE Begin(r)
  <2>1. /\ request' \in [Requests -> {"new", "choosing", "trying", "over"}]
        /\ owner' \in [Requests -> Profiles \cup {NoProfile}]
        /\ disturbed' \in BOOLEAN /\ chosen' = chosen /\ failed' = failed
        /\ \A q \in Requests : request'[q] = "trying" => chosen'[q] \in Profiles
    BY <1>1, <1>4 DEF Begin, Owners, Disturbs
  <2>2. PICK s \in {Touched(store), Released(store)}, due \in BOOLEAN :
          Update(r, s) /\ Schedule(r, due)
    BY <1>4 DEF Begin
  <2>3. s \in Stores BY <1>1, RequestTypes
  <2> QED BY <1>2, <1>3, <2>1, <2>2, <2>3 DEF Owners
<1>5. CASE Select(r)
  <2>1. PICK a \in Profiles \ failed[r] :
          /\ chosen' = [chosen EXCEPT ![r] = a]
          /\ Update(r, IF a = owner[r] THEN store ELSE ReleasedFrom(store, owner[r]))
    BY <1>5 DEF Select
  <2>2. (IF a = owner[r] THEN store ELSE ReleasedFrom(store, owner[r])) \in Stores
    BY <1>1, RequestTypes
  <2>3. /\ request' \in [Requests -> {"new", "choosing", "trying", "over"}]
        /\ chosen' \in [Requests -> Profiles \cup {NoProfile}]
        /\ \A q \in Requests : request'[q] = "trying" => chosen'[q] \in Profiles
        /\ UNCHANGED <<owner, failed, disturbed>>
    BY <1>5, <2>1 DEF Select
  <2>4. queued' \subseteq Proxies BY <1>5, <1>3 DEF Select
  <2> QED BY <1>2, <2>1, <2>2, <2>3, <2>4 DEF Owners
<1>6. CASE Fail(r)
  <2>1. ReleasedFrom(store, chosen[r]) \in Stores BY <1>1, RequestTypes
  <2>2. Update(r, ReleasedFrom(store, chosen[r])) /\ UNCHANGED disturbed
    BY <1>6 DEF Fail
  <2>3. /\ request' \in [Requests -> {"new", "choosing", "trying", "over"}]
        /\ owner' \in [Requests -> Profiles \cup {NoProfile}]
        /\ chosen' \in [Requests -> Profiles \cup {NoProfile}]
        /\ \A q \in Requests : request'[q] = "trying" => chosen'[q] \in Profiles
        /\ failed' \in [Requests -> SUBSET Profiles]
    <3>1. CASE Finish({r})
      BY <3>1 DEF Finish
    <3>2. CASE /\ failed[r] \cup {chosen[r]} # Profiles
               /\ request' = [request EXCEPT ![r] = "choosing"]
               /\ failed' = [failed EXCEPT ![r] = @ \cup {chosen[r]}]
               /\ owner' = [owner EXCEPT ![r] = IF @ = chosen[r] THEN NoProfile ELSE @]
               /\ chosen' = [chosen EXCEPT ![r] = NoProfile]
      <4>1. ASSUME NEW q \in Requests, request'[q] = "trying" PROVE chosen'[q] \in Profiles
        <5>1. q # r BY <3>2, <4>1
        <5> QED BY <3>2, <4>1, <5>1
      <4>2. failed' \in [Requests -> SUBSET Profiles]
        <5>1. chosen[r] \in Profiles BY <1>6 DEF Fail
        <5> QED BY <3>2, <5>1
      <4> QED BY <3>2, <4>1, <4>2
    <3> QED BY <1>6, <3>1, <3>2 DEF Fail
  <2>4. queued' \subseteq Proxies
    <3>1. Schedule(r, memory' # memory) BY <1>6 DEF Fail
    <3> QED BY <1>3, <3>1
  <2> QED BY <1>2, <2>1, <2>2, <2>3, <2>4 DEF Owners
<1>7. CASE Commit(r)
  <2>1. chosen[r] \in Profiles
    BY <1>7 DEF Commit
  <2>2. PICK refresh \in BOOLEAN :
          /\ Update(r, Remembered(store, chosen[r], refresh))
          /\ Schedule(r, refresh \/ latest' # View(store))
    BY <1>7 DEF Commit
  <2>3. Remembered(store, chosen[r], refresh) \in Stores BY <1>1, <2>1, RequestTypes
  <2>4. /\ request' \in [Requests -> {"new", "choosing", "trying", "over"}]
        /\ owner' \in [Requests -> Profiles \cup {NoProfile}]
        /\ chosen' \in [Requests -> Profiles \cup {NoProfile}]
        /\ \A q \in Requests : request'[q] = "trying" => chosen'[q] \in Profiles
        /\ failed' \in [Requests -> SUBSET Profiles]
        /\ disturbed' = disturbed
    BY <1>7 DEF Commit, Finish
  <2> QED BY <1>2, <1>3, <2>2, <2>3, <2>4 DEF Owners
<1> QED BY <1>4, <1>5, <1>6, <1>7

LEMMA TypeNext == TypeOK /\ [Next]_vars => TypeOK'
<1> SUFFICES ASSUME TypeOK, [Next]_vars PROVE TypeOK'
  OBVIOUS
<1>1. CASE Tick \/ \E c \in Commands : LoadCommand(c) \/ SaveCommand(c)
  BY <1>1, TypeCommand
<1>2. ASSUME NEW p \in Proxies,
             ReadLaunchState(p) \/ TryOwn(p) \/ ReadState(p) \/ Restore(p) \/ Promote(p)
      PROVE  TypeOK'
  BY <1>2, TypeStart
<1>3. ASSUME NEW p \in Proxies,
             ReadLive(p) \/ SaveSidecar(p) \/ SaveState(p) \/ FailSave(p)
      PROVE  TypeOK'
  BY <1>3, TypeSave
<1>4. ASSUME NEW p \in Proxies, Stop(p) \/ Exit(p) PROVE TypeOK'
  BY <1>4, TypeEnd
<1>5. ASSUME NEW r \in Requests, Begin(r) \/ Select(r) \/ Fail(r) \/ Commit(r)
      PROVE  TypeOK'
  BY <1>5, TypeRequest
<1>6. CASE UNCHANGED vars
  BY <1>6 DEF TypeOK, vars, files, proxies, roles, jobs, cmds, reqs, history
<1> QED BY <1>1, <1>2, <1>3, <1>4, <1>5, <1>6 DEF Next

\* The types of the variables: in particular every store holds at most one
\* binding with a time, and a request that tries a candidate has one.
THEOREM TypeCorrect == Spec => []TypeOK
<1> QED BY TypeInit, TypeNext, PTL DEF Spec

-----------------------------------------------------------------------------
(* What a merge does to the binding of its first argument.                 *)
LEMMA MergeKeepsOrReleases ==
  ASSUME NEW s \in Stores, NEW t \in Stores, s.binding.owner \in Profiles,
         Merge(s, t).binding.owner # s.binding.owner
  PROVE  Merge(s, t).binding.owner = Conflict \/ Merge(s, t).epoch >= s.binding.at
<1> DEFINE epoch == Later(s.epoch, t.epoch)
           a == Fenced(s.binding, epoch)
           b == Fenced(t.binding, epoch)
<1>1. /\ Merge(s, t).binding = HardMerge(a, b)
      /\ Merge(s, t).epoch = epoch
  BY DEF Merge
<1>2. epoch \in Nat /\ s.binding.at \in Nat
  BY DEF Later, Stores, Bindings
<1>3. CASE Survives(s.binding, epoch)
  <2>1. a = s.binding BY <1>3 DEF Fenced
  <2>2. a.owner # NoProfile BY <2>1, SessionAssumption
  <2>3. HardMerge(a, b).owner \in {a.owner, Conflict}
    BY <2>2 DEF HardMerge
  <2> QED BY <1>1, <2>1, <2>3
<1>4. CASE ~Survives(s.binding, epoch)
  BY <1>1, <1>2, <1>4 DEF Survives
<1> QED BY <1>3, <1>4

(* Only a save writes the sidecar.                                         *)
LEMMA SidecarWritten ==
  ASSUME [Next]_vars, sidecar' # sidecar
  PROVE  \E p \in Proxies : SaveSidecar(p)
<1> USE DEF files, proxies, cmds, reqs, history
<1>1. CASE Tick \/ \E c \in Commands : LoadCommand(c) \/ SaveCommand(c)
  BY <1>1 DEF Tick, LoadCommand, SaveCommand
<1>2. ASSUME NEW p \in Proxies,
             ReadLaunchState(p) \/ TryOwn(p) \/ ReadState(p) \/ Restore(p) \/ Promote(p)
      PROVE  FALSE
  BY <1>2 DEF ReadLaunchState, TryOwn, ReadState, Restore, Promote
<1>3. ASSUME NEW p \in Proxies,
             ReadLive(p) \/ SaveState(p) \/ FailSave(p) \/ Stop(p) \/ Exit(p)
      PROVE  FALSE
  BY <1>3 DEF ReadLive, SaveState, FailSave, Stop, Exit
<1>4. ASSUME NEW r \in Requests, Begin(r) \/ Select(r) \/ Fail(r) \/ Commit(r)
      PROVE  FALSE
  BY <1>4 DEF Begin, Select, Fail, Commit, Update
<1>5. CASE UNCHANGED vars
  BY <1>5 DEF vars
<1> QED BY <1>1, <1>2, <1>3, <1>4, <1>5 DEF Next

LEMMA SaveKeepsOrReleases ==
  ASSUME TypeOK, [Next]_vars,
         sidecar.binding.owner \in Profiles,
         sidecar'.binding.owner # sidecar.binding.owner
  PROVE  sidecar'.binding.owner = Conflict \/ sidecar'.epoch >= sidecar.binding.at
<1>1. PICK p \in Proxies : SaveSidecar(p) BY SidecarWritten
<1>2. sidecar' = Merge(sidecar, snapshot[p]) BY <1>1 DEF SaveSidecar
<1>3. sidecar \in Stores /\ snapshot[p] \in Stores BY DEF TypeOK
<1> QED BY <1>2, <1>3, MergeKeepsOrReleases

\* A save moves the session in the sidecar to another profile, or drops it,
\* only across a release that is not older than the binding, or as a conflict:
\* for any stores that any number of proxies may merge.
THEOREM OwnerMoves == Spec => OwnerMovesOnlyAcrossRelease
<1>1. TypeOK /\ [Next]_vars =>
        [ LET old == sidecar.binding
          IN  old.owner \in Profiles /\ sidecar'.binding.owner # old.owner =>
                sidecar'.binding.owner = Conflict \/ sidecar'.epoch >= old.at ]_vars
  BY SaveKeepsOrReleases
<1> QED BY <1>1, TypeCorrect, PTL DEF Spec, OwnerMovesOnlyAcrossRelease

-----------------------------------------------------------------------------
(* Dates.  A store's binding outlives its own release epoch, which is not  *)
(* later than its newest event; and a binding is dated by the clock, or    *)
(* one second after the epoch it was bound again under.                    *)
Sound(s) ==
  /\ s.epoch <= s.event
  /\ s.binding.owner # NoProfile => Survives(s.binding, s.epoch)

Dated(b, e) == b.at <= Later(now, e + 1)

Rank(v) == 2 * v[2] + (IF v[1] = NoProfile THEN 0 ELSE 1)

(* A merge with a store of the view v leaves nothing of the binding but,   *)
(* at most, the owner that v has.                                          *)
Yields(b, v) == b.owner \in {NoProfile, v[1]} \/ ~Survives(b, v[2])

LEMMA StoreFields ==
  ASSUME NEW s \in Stores
  PROVE  /\ s.epoch \in Nat /\ s.event \in Nat /\ s.binding \in Bindings
         /\ s.binding.at \in Nat /\ s.binding.owner \in Owners
         /\ View(s)[1] = s.binding.owner /\ View(s)[2] = s.epoch
         /\ View(s) \in Owners \X Nat
BY DEF Stores, Bindings, View, Owners

LEMMA HardMerged ==
  ASSUME NEW a \in Bindings, NEW b \in Bindings
  PROVE  /\ HardMerge(a, b) \in Bindings
         /\ HardMerge(a, b).at <= Later(a.at, b.at)
         /\ \A v \in Owners \X Nat :
              /\ HardMerge(a, b).owner # Conflict /\ Yields(a, v) /\ Yields(b, v)
                   => Yields(HardMerge(a, b), v)
BY OperatorTypes DEF HardMerge, Later, Bindings, Yields, Survives, Owners

LEMMA MergeFields ==
  ASSUME NEW s \in Stores, NEW t \in Stores
  PROVE  /\ Merge(s, t) \in Stores
         /\ Merge(s, t).epoch = Later(s.epoch, t.epoch)
         /\ Merge(s, t).event = Later(s.event, t.event)
         /\ Merge(s, t).binding = HardMerge(Fenced(s.binding, Later(s.epoch, t.epoch)),
                                            Fenced(t.binding, Later(s.epoch, t.epoch)))
BY MergeType DEF Merge

LEMMA FencedFacts ==
  ASSUME NEW b \in Bindings, NEW e \in Nat
  PROVE  /\ Fenced(b, e) \in Bindings
         /\ Fenced(b, e).at <= b.at
         /\ Fenced(b, e).owner # NoProfile => Fenced(b, e) = b /\ Survives(b, e)
         /\ \A v \in Owners \X Nat : Yields(b, v) => Yields(Fenced(b, e), v)
BY OperatorTypes DEF Fenced, Unbound, Bindings, Yields, Survives

(* Of two sound stores the merge is sound, and as well dated.              *)
LEMMA MergeSound ==
  ASSUME NEW s \in Stores, NEW t \in Stores, Sound(s), Sound(t)
  PROVE  Sound(Merge(s, t))
<1> DEFINE e == Later(s.epoch, t.epoch)
           a == Fenced(s.binding, e)
           b == Fenced(t.binding, e)
<1>1. e \in Nat /\ e <= Later(s.event, t.event)
  BY StoreFields DEF Later, Sound
<1>2. /\ a \in Bindings /\ (a.owner # NoProfile => Survives(a, e))
      /\ b \in Bindings /\ (b.owner # NoProfile => Survives(b, e))
  BY <1>1, StoreFields, FencedFacts
<1> HIDE DEF a, b, e
<1>3. HardMerge(a, b).owner # NoProfile => Survives(HardMerge(a, b), e)
  BY <1>1, <1>2 DEF HardMerge, Survives, Later, Bindings
<1> QED
  BY <1>1, <1>3, MergeFields DEF Sound, a, b, e

LEMMA MergeDated ==
  ASSUME NEW s \in Stores, NEW t \in Stores, NEW e \in Nat, now \in Nat,
         Dated(s.binding, e), Dated(t.binding, e)
  PROVE  Dated(Merge(s, t).binding, e)
<1> DEFINE m == Later(s.epoch, t.epoch)
           a == Fenced(s.binding, m)
           b == Fenced(t.binding, m)
<1>1. m \in Nat
  BY StoreFields DEF Later
<1>2. a \in Bindings /\ a.at <= s.binding.at /\ b \in Bindings /\ b.at <= t.binding.at
  BY <1>1, StoreFields, FencedFacts
<1>3. Merge(s, t).binding = HardMerge(a, b)
  BY MergeFields
<1> HIDE DEF a, b, m
<1>4. HardMerge(a, b) \in Bindings /\ HardMerge(a, b).at <= Later(a.at, b.at)
  BY <1>2, HardMerged
<1>5. a.at \in Nat /\ b.at \in Nat /\ HardMerge(a, b).at \in Nat
  BY <1>2, <1>4 DEF Bindings
<1>6. s.binding.at \in Nat /\ t.binding.at \in Nat
  BY StoreFields
<1> QED
  BY <1>2, <1>3, <1>4, <1>5, <1>6 DEF Dated, Later

(* What both stores leave to a view, their merge leaves to it.             *)
LEMMA MergeYields ==
  ASSUME NEW s \in Stores, NEW t \in Stores, NEW v \in Owners \X Nat,
         Yields(s.binding, v), Yields(t.binding, v), Merge(s, t).binding.owner # Conflict
  PROVE  Yields(Merge(s, t).binding, v)
<1> DEFINE m == Later(s.epoch, t.epoch)
           a == Fenced(s.binding, m)
           b == Fenced(t.binding, m)
<1>1. m \in Nat
  BY StoreFields DEF Later
<1>2. a \in Bindings /\ Yields(a, v) /\ b \in Bindings /\ Yields(b, v)
  BY <1>1, StoreFields, FencedFacts
<1>3. Merge(s, t).binding = HardMerge(a, b)
  BY MergeFields
<1> HIDE DEF a, b, m
<1> QED
  BY <1>2, <1>3, HardMerged

(* Views are ranked by their epochs, and within an epoch by whether the    *)
(* session is bound.                                                       *)
LEMMA RankFacts ==
  ASSUME NEW v \in Owners \X Nat, NEW w \in Owners \X Nat
  PROVE  /\ Rank(v) \in Nat
         /\ Rank(v) <= Rank(w) => v[2] <= w[2]
         /\ Rank(v) = Rank(w) => v[2] = w[2] /\ (v[1] = NoProfile <=> w[1] = NoProfile)
         /\ v[2] < w[2] => Rank(v) < Rank(w)
         /\ v[2] = w[2] /\ (v[1] = NoProfile \/ w[1] # NoProfile) => Rank(v) <= Rank(w)
<1>1. v[2] \in Nat /\ w[2] \in Nat
  OBVIOUS
<1>2. \A i \in Nat : 2 * i \in Nat
  OBVIOUS
<1> QED
  BY <1>1, <1>2 DEF Rank

(* A sound store whose binding yields to a view of its own rank has this   *)
(* view.                                                                   *)
LEMMA SameRank ==
  ASSUME NEW s \in Stores, Sound(s), NEW v \in Owners \X Nat,
         Rank(View(s)) = Rank(v), Yields(s.binding, v)
  PROVE  View(s) = v
<1>1. s.epoch = v[2] /\ (s.binding.owner = NoProfile <=> v[1] = NoProfile)
  BY StoreFields, RankFacts
<1>2. s.binding.owner = v[1]
  BY <1>1 DEF Sound, Yields
<1>3. v = <<v[1], v[2]>>
  OBVIOUS
<1> QED
  BY <1>1, <1>2, <1>3 DEF View

(* A store that yields to another and is not above it adds nothing to its  *)
(* view.                                                                   *)
LEMMA MergeView ==
  ASSUME NEW s \in Stores, NEW t \in Stores, Sound(t),
         Yields(s.binding, View(t)), s.epoch <= t.epoch
  PROVE  View(Merge(s, t)) = View(t) /\ View(Merge(t, s)) = View(t)
<1> DEFINE e == t.epoch
           a == Fenced(s.binding, e)
           b == Fenced(t.binding, e)
<1>1. e \in Nat /\ Later(s.epoch, t.epoch) = e /\ Later(t.epoch, s.epoch) = e
  BY StoreFields DEF Later
<1>2. a \in Bindings /\ a.owner \in {NoProfile, t.binding.owner}
  BY <1>1, StoreFields, FencedFacts DEF Yields
<1>3. b \in Bindings /\ b.owner = t.binding.owner
  BY <1>1, StoreFields, FencedFacts DEF Sound, Fenced, Unbound
<1>4. /\ Merge(s, t).binding = HardMerge(a, b) /\ Merge(s, t).epoch = e
      /\ Merge(t, s).binding = HardMerge(b, a) /\ Merge(t, s).epoch = e
  BY <1>1, MergeFields
<1> HIDE DEF a, b, e
<1>5. HardMerge(a, b).owner = t.binding.owner /\ HardMerge(b, a).owner = t.binding.owner
  BY <1>2, <1>3 DEF HardMerge
<1> QED
  BY <1>4, <1>5 DEF View, e

-----------------------------------------------------------------------------
(* What a request does to the store of its proxy.                          *)
Good(s) == Sound(s) /\ Dated(s.binding, s.epoch)

LEMMA NextEventFacts ==
  ASSUME NEW e \in Nat, NEW t \in Nat, t > 0
  PROVE  NextEvent(e, t) \in Nat /\ NextEvent(e, t) > e /\ NextEvent(e, t) >= t
BY DEF NextEvent

LEMMA TouchedFacts ==
  ASSUME NEW s \in Stores, Good(s), now \in Nat, now > 0
  PROVE  Good(Touched(s)) /\ View(Touched(s)) = View(s)
<1>0. /\ s.epoch \in Nat /\ s.event \in Nat /\ s.binding.at \in Nat
      /\ NextEvent(s.event, now) \in Nat /\ NextEvent(s.event, now) > s.event
  BY StoreFields, NextEventFacts
<1>1. CASE s.binding.owner \in Profiles
  <2> DEFINE u == Touched(s)
  <2>1. /\ u.epoch = s.epoch /\ u.event = NextEvent(s.event, now)
        /\ u.binding.owner = s.binding.owner /\ u.binding.at = Later(s.binding.at, now)
    BY <1>1 DEF Touched, Stores, Bindings
  <2> HIDE DEF u
  <2>2. View(u) = View(s)
    BY <2>1 DEF View
  <2>3. Sound(u)
    BY <1>0, <2>1 DEF Good, Sound, Survives, Later
  <2>4. Dated(u.binding, u.epoch)
    BY <1>0, <2>1 DEF Good, Dated, Later
  <2> QED
    BY <2>2, <2>3, <2>4 DEF u, Good
<1>2. CASE s.binding.owner \notin Profiles
  BY <1>2 DEF Touched
<1> QED
  BY <1>1, <1>2

LEMMA ReleasedFacts ==
  ASSUME NEW s \in Stores, Good(s), now \in Nat, now > 0
  PROVE  /\ Good(Released(s))
         /\ Released(s).binding = Unbound
         /\ Released(s).epoch > s.epoch
         /\ Released(s).epoch >= Later(now, s.epoch + 1)
<1>0. /\ s.epoch \in Nat /\ s.event \in Nat /\ s.epoch <= s.event
      /\ NextEvent(s.event, now) \in Nat /\ NextEvent(s.event, now) > s.event
      /\ NextEvent(s.event, now) >= now
  BY StoreFields, NextEventFacts DEF Good, Sound
<1> DEFINE n == NextEvent(s.event, now)
           u == Released(s)
<1>1. u.binding = Unbound /\ u.epoch = Later(s.epoch, n) /\ u.event = n
  BY DEF Released
<1> HIDE DEF u, n
<1>2. u.epoch = n
  BY <1>0, <1>1 DEF Later, n
<1> QED
  BY <1>0, <1>1, <1>2 DEF Good, Sound, Dated, Later, Unbound, n, u

LEMMA RememberedFacts ==
  ASSUME NEW s \in Stores, Good(s), now \in Nat, now > 0,
         NEW profile \in Profiles, NEW refresh \in BOOLEAN
  PROVE  LET u == Remembered(s, profile, refresh)
         IN  /\ Good(u)
             /\ u.epoch = s.epoch
             /\ u.binding.owner # NoProfile
             /\ s.binding.owner \in {NoProfile, profile} => u.binding.owner = profile
<1> DEFINE u == Remembered(s, profile, refresh)
           t == RebindTime(s)
           new == [owner |-> profile, at |-> t]
           bound == HardMerge(s.binding, new)
<1>0. /\ s.epoch \in Nat /\ s.event \in Nat /\ s.epoch <= s.event /\ s.binding \in Bindings
      /\ s.binding.at \in Nat
  BY StoreFields DEF Good, Sound
<1>1. /\ t \in Nat /\ t > 0 /\ t <= Later(now, s.epoch + 1)
      /\ s.epoch # 0 => t > s.epoch
  BY <1>0 DEF RebindTime, Later
<1>2. NextEvent(s.event, t) \in Nat /\ NextEvent(s.event, t) > s.event
  BY <1>0, <1>1, NextEventFacts
<1>3. /\ u.binding = bound /\ u.epoch = s.epoch
      /\ u.event \in {s.event, NextEvent(s.event, t)}
  BY DEF Remembered, Stores
<1>4. new \in Bindings /\ new.owner = profile /\ new.at = t
  BY <1>1 DEF Bindings
<1> HIDE DEF u, t, new
<1>5. /\ bound.at \in Nat /\ bound.at >= t
      /\ bound.at <= Later(s.binding.at, t)
      /\ bound.owner # NoProfile
      /\ s.binding.owner \in {NoProfile, profile} => bound.owner = profile
  BY <1>0, <1>1, <1>4, SessionAssumption DEF HardMerge, Later
<1> HIDE DEF bound
<1>6. Sound(u)
  BY <1>0, <1>1, <1>2, <1>3, <1>5 DEF Sound, Survives
<1>7. Dated(u.binding, u.epoch)
  BY <1>0, <1>1, <1>3, <1>5 DEF Good, Dated, Later
<1> QED
  BY <1>3, <1>5, <1>6, <1>7 DEF u, Good

-----------------------------------------------------------------------------
(* The dates of all copies.  A binding that was read from state.json has   *)
(* lost its epoch: the sidecar's stands for it.                            *)
ProxyDates(p) ==
  /\ Sound(memory[p]) /\ Sound(snapshot[p])
  /\ Running(p) => Dated(memory[p].binding, memory[p].epoch)
  /\ ~Running(p) => /\ memory[p].epoch = 0 /\ snapshot[p].epoch = 0
                    /\ Dated(memory[p].binding, sidecar.epoch)
  /\ Dated(snapshot[p].binding, Later(snapshot[p].epoch, sidecar.epoch))

Served == \A r \in Requests : InProgress(r) => Running(server[r])

DateInv ==
  /\ Good(sidecar)
  /\ Dated(stateFile, sidecar.epoch)
  /\ \A c \in Commands : Dated(view[c], sidecar.epoch)
  /\ \A p \in Proxies : ProxyDates(p)
  /\ Served

LEMMA DatedLater ==
  ASSUME NEW b \in Bindings, NEW e \in Nat, NEW f \in Nat, e <= f, now \in Nat, Dated(b, e)
  PROVE  Dated(b, f)
<1>1. b.at \in Nat
  BY DEF Bindings
<1> QED
  BY <1>1 DEF Dated, Later

LEMMA NothingDated ==
  /\ Sound(Empty) /\ Empty.epoch = 0 /\ Empty.event = 0 /\ Empty.binding = Unbound
  /\ \A e \in Nat : now \in Nat => Dated(Unbound, e)
  /\ \A b \in Bindings : /\ Sound(Legacy(b)) /\ Legacy(b).epoch = 0 /\ Legacy(b).event = 0
                         /\ Legacy(b).binding = b
<1>1. /\ Empty.epoch = 0 /\ Empty.event = 0 /\ Empty.binding = Unbound
      /\ Unbound.at = 0 /\ Unbound.owner = NoProfile
  BY DEF Empty, Unbound
<1>2. \A b \in Bindings : Legacy(b).epoch = 0 /\ Legacy(b).event = 0 /\ Legacy(b).binding = b
  BY DEF Legacy, Empty
<1> QED
  BY <1>1, <1>2 DEF Sound, Dated, Later, Survives

(* What a step of a request does to the store of its proxy.                *)
Rewrites(r, s) ==
  \/ s = memory[server[r]]
  \/ s = Touched(memory[server[r]])
  \/ s = Released(memory[server[r]])
  \/ /\ chosen[r] \in Profiles
     /\ \E refresh \in BOOLEAN : s = Remembered(memory[server[r]], chosen[r], refresh)

LEMMA RequestUpdates ==
  ASSUME TypeOK, NEW r \in Requests, Begin(r) \/ Select(r) \/ Fail(r) \/ Commit(r)
  PROVE  \E s : Update(r, s) /\ Rewrites(r, s)
<1>1. CASE Begin(r)
  BY <1>1 DEF Begin, Rewrites
<1>2. CASE Select(r)
  <2>1. PICK profile \in Profiles :
          Update(r, IF profile = owner[r] THEN memory[server[r]]
                    ELSE ReleasedFrom(memory[server[r]], owner[r]))
    BY <1>2 DEF Select
  <2> QED
    BY <2>1 DEF ReleasedFrom, Rewrites
<1>3. CASE Fail(r)
  BY <1>3 DEF Fail, ReleasedFrom, Rewrites
<1>4. CASE Commit(r)
  BY <1>4 DEF Commit, Rewrites, TypeOK
<1> QED
  BY <1>1, <1>2, <1>3, <1>4

LEMMA RequestServed ==
  ASSUME TypeOK, Served, NEW r \in Requests, Begin(r) \/ Select(r) \/ Fail(r) \/ Commit(r)
  PROVE  Running(server[r]) /\ Served'
<1>1. Running(server[r])
  BY DEF Begin, Select, Fail, Commit, Served, InProgress, Running
<1>2. UNCHANGED <<proxy, server>>
  BY DEF Begin, Select, Fail, Commit, Update
<1>3. ASSUME NEW q \in Requests \ {r} PROVE request'[q] = request[q]
  <2>1. request \in [Requests -> {"new", "choosing", "trying", "over"}]
    BY DEF TypeOK
  <2>2. CASE Begin(r)
    BY <2>1, <2>2 DEF Begin
  <2>3. CASE Select(r)
    BY <2>1, <2>3 DEF Select
  <2>4. CASE Fail(r)
    BY <2>1, <2>4 DEF Fail, Finish
  <2>5. CASE Commit(r)
    BY <2>1, <2>5 DEF Commit, Finish
  <2> QED
    BY <2>2, <2>3, <2>4, <2>5
<1> QED
  BY <1>1, <1>2, <1>3 DEF Served, InProgress, Running

LEMMA RewrittenGood ==
  ASSUME TypeOK, NEW r \in Requests, Good(memory[server[r]]), NEW s, Rewrites(r, s)
  PROVE  Good(s) /\ s \in Stores
<1>1. memory[server[r]] \in Stores /\ now \in Nat /\ now > 0
  BY DEF TypeOK
<1> QED
  BY <1>1, RequestTypes, TouchedFacts, ReleasedFacts, RememberedFacts DEF Rewrites

LEMMA DateInit == Init => DateInv
<1> SUFFICES ASSUME Init PROVE DateInv
  OBVIOUS
<1>1. now = 1 /\ now \in Nat /\ sidecar \in Stores /\ stateFile = sidecar.binding
  BY TypeInit DEF Init, TypeOK
<1>2. Good(Empty) /\ Empty \in Stores
  BY <1>1, NothingDated, OperatorTypes DEF Good
<1>3. Good(sidecar)
  <2>1. CASE sidecar = Empty
    BY <1>2, <2>1
  <2>2. ASSUME NEW profile \in Profiles, sidecar = Remembered(Empty, profile, TRUE)
        PROVE  Good(sidecar)
    <3>1. Good(Remembered(Empty, profile, TRUE))
      <4>1. TRUE \in BOOLEAN /\ now > 0
        BY <1>1
      <4> QED
        BY <1>1, <1>2, <4>1, RememberedFacts
    <3> QED
      BY <2>2, <3>1
  <2> QED
    BY <2>1, <2>2 DEF Init
<1>4. sidecar.epoch \in Nat
  BY <1>1, StoreFields
<1>5. Dated(Unbound, sidecar.epoch)
  BY <1>1, <1>4, NothingDated
<1>6. ASSUME NEW p \in Proxies PROVE ProxyDates(p)
  <2>1. ~Running(p) /\ memory[p] = Empty /\ snapshot[p] = Empty
    BY DEF Init, Running
  <2>2. Later(Empty.epoch, sidecar.epoch) = sidecar.epoch
    BY <1>4, NothingDated DEF Later
  <2> QED
    BY <1>5, <2>1, <2>2, NothingDated DEF ProxyDates
<1>7. Served
  BY DEF Init, Served, InProgress
<1> QED
  BY <1>1, <1>3, <1>5, <1>6, <1>7 DEF DateInv, Good, Init

(* Plain facts of a state in which dates are kept.                         *)
LEMMA DateTypes ==
  ASSUME TypeOK
  PROVE  /\ now \in Nat /\ now > 0
         /\ sidecar \in Stores /\ sidecar.epoch \in Nat /\ sidecar.binding \in Bindings
         /\ stateFile \in Bindings
         /\ \A c \in Commands : view[c] \in Bindings
         /\ \A p \in Proxies : /\ memory[p] \in Stores /\ snapshot[p] \in Stores
                               /\ memory[p].epoch \in Nat /\ snapshot[p].epoch \in Nat
                               /\ memory[p].binding \in Bindings
                               /\ snapshot[p].binding \in Bindings
         /\ latest \in Owners \X Nat
BY StoreFields DEF TypeOK, Owners

(* The clock and the commands.                                             *)
LEMMA DateTick ==
  ASSUME TypeOK, TypeOK', DateInv, Tick
  PROVE  DateInv'
<1>1. now' = now + 1 /\ now \in Nat
  BY DateTypes DEF Tick
<1>2. \A b \in Bindings, e \in Nat : Dated(b, e) => Dated(b, e)'
  BY <1>1 DEF Dated, Later, Bindings
<1>3. UNCHANGED <<sidecar, stateFile, view, memory, snapshot, proxy, request, server>>
  BY DEF Tick, files, proxies, jobs, cmds, reqs
<1>4. Good(sidecar)'
  BY <1>2, <1>3, DateTypes DEF DateInv, Good, Sound
<1>5. ASSUME NEW p \in Proxies PROVE ProxyDates(p)'
  <2>1. Later(snapshot[p].epoch, sidecar.epoch) \in Nat
    BY DateTypes DEF Later
  <2>2. ProxyDates(p)
    BY DEF DateInv
  <2> QED
    BY <1>2, <1>3, <2>1, <2>2, DateTypes DEF ProxyDates, Sound, Running
<1> QED
  BY <1>2, <1>3, <1>4, <1>5, DateTypes DEF DateInv, Served, InProgress, Running

LEMMA DateCommand ==
  ASSUME TypeOK, DateInv, NEW c \in Commands, LoadCommand(c) \/ SaveCommand(c)
  PROVE  DateInv'
<1>1. UNCHANGED <<now, sidecar, memory, snapshot, proxy, request, server>>
  BY DEF LoadCommand, SaveCommand, proxies, jobs, reqs, files
<1>2. Good(sidecar)' /\ \A p \in Proxies : ProxyDates(p)'
  BY <1>1 DEF DateInv, Good, Sound, Dated, ProxyDates, Running
<1>3. Served'
  BY <1>1 DEF DateInv, Served, InProgress, Running
<1>5. Dated(Unbound, sidecar.epoch)
  BY DateTypes, NothingDated
<1>6. CASE LoadCommand(c)
  <2>1. stateFile' = stateFile /\ view' = [view EXCEPT ![c] = stateFile]
    BY <1>6 DEF LoadCommand, files
  <2>2. \A d \in Commands : view'[d] \in {view[d], stateFile}
    BY <2>1 DEF TypeOK
  <2> QED
    BY <1>1, <1>2, <1>3, <2>1, <2>2 DEF DateInv, Dated
<1>7. CASE SaveCommand(c)
  <2>1. stateFile' = HardMerge(stateFile, view[c]) /\ view' = [view EXCEPT ![c] = Unbound]
    BY <1>7 DEF SaveCommand
  <2>2. \A d \in Commands : view'[d] \in {view[d], Unbound}
    BY <2>1 DEF TypeOK
  <2>3. Dated(stateFile', sidecar.epoch)
    <3>1. HardMerge(stateFile, view[c]).at <= Later(stateFile.at, view[c].at)
      BY DateTypes, HardMerged
    <3>2. Dated(stateFile, sidecar.epoch) /\ Dated(view[c], sidecar.epoch)
      BY DEF DateInv
    <3>3. stateFile.at \in Nat /\ view[c].at \in Nat /\ HardMerge(stateFile, view[c]).at \in Nat
      BY DateTypes, HardMerged DEF Bindings
    <3> DEFINE bound == Later(now, sidecar.epoch + 1)
    <3>4. stateFile.at <= bound /\ view[c].at <= bound /\ bound \in Nat
      BY <3>2, DateTypes DEF Dated, Later
    <3> HIDE DEF bound
    <3>5. HardMerge(stateFile, view[c]).at <= bound
      BY <3>1, <3>3, <3>4 DEF Later
    <3> QED
      BY <2>1, <3>5 DEF Dated, bound
  <2> QED
    BY <1>1, <1>2, <1>3, <1>5, <2>2, <2>3 DEF DateInv, Dated
<1> QED
  BY <1>6, <1>7

(* A step of one proxy keeps the dates of the others.                      *)
LEMMA DateOthers ==
  ASSUME TypeOK, DateInv, NEW p \in Proxies,
         UNCHANGED <<now, sidecar>>,
         \A q \in Proxies \ {p} : /\ memory'[q] = memory[q] /\ snapshot'[q] = snapshot[q]
                                  /\ proxy'[q] = proxy[q]
  PROVE  /\ Good(sidecar)'
         /\ \A q \in Proxies \ {p} : ProxyDates(q)'
BY DEF DateInv, Good, Sound, Dated, ProxyDates, Running

LEMMA DateStart ==
  ASSUME TypeOK, DateInv, NEW p \in Proxies,
         ReadLaunchState(p) \/ TryOwn(p) \/ ReadState(p) \/ Promote(p)
  PROVE  DateInv'
<1>1. /\ UNCHANGED <<now, sidecar, stateFile, view, request, server>>
      /\ \A q \in Proxies \ {p} : /\ memory'[q] = memory[q] /\ snapshot'[q] = snapshot[q]
                                  /\ proxy'[q] = proxy[q]
  BY DEF ReadLaunchState, TryOwn, ReadState, Promote, Moves, files, cmds, reqs, jobs, TypeOK
<1>2. /\ Running(p)' <=> Running(p)
      /\ \A q \in Proxies : Running(q)' <=> Running(q)
  BY DEF ReadLaunchState, TryOwn, ReadState, Promote, Moves, Running, TypeOK
<1>3. Served'
  BY <1>1, <1>2 DEF DateInv, Served, InProgress, TypeOK
<1>4. ProxyDates(p)
  BY DEF DateInv
<1>5. /\ Sound(Legacy(stateFile)) /\ Legacy(stateFile).epoch = 0
      /\ Legacy(stateFile).binding = stateFile /\ Dated(stateFile, sidecar.epoch)
  BY NothingDated, DateTypes DEF DateInv
<1>6. Later(0, sidecar.epoch) = sidecar.epoch
  BY DateTypes DEF Later
<1>7. ProxyDates(p)'
  <2>1. CASE ReadLaunchState(p)
    <3>1. memory'[p] = Legacy(stateFile) /\ snapshot'[p] = snapshot[p] /\ ~Running(p)
      BY <2>1 DEF ReadLaunchState, Moves, Running, jobs, TypeOK
    <3> QED
      BY <1>1, <1>2, <1>4, <1>5, <3>1 DEF ProxyDates, Dated, Sound
  <2>2. CASE ReadState(p)
    <3>1. snapshot'[p] = Legacy(stateFile) /\ memory'[p] = memory[p] /\ ~Running(p)
      BY <2>2 DEF ReadState, Moves, Running, TypeOK
    <3> QED
      BY <1>1, <1>2, <1>4, <1>5, <1>6, <3>1 DEF ProxyDates, Dated, Sound
  <2>3. CASE TryOwn(p) \/ Promote(p)
    <3>1. memory'[p] = memory[p] /\ snapshot'[p] = snapshot[p]
      BY <2>3 DEF TryOwn, Promote, jobs
    <3> QED
      BY <1>1, <1>2, <1>4, <3>1 DEF ProxyDates, Dated, Sound
  <2> QED
    BY <2>1, <2>2, <2>3
<1> QED
  BY <1>1, <1>3, <1>7, DateOthers DEF DateInv, Dated

LEMMA DateRestore ==
  ASSUME TypeOK, DateInv, NEW p \in Proxies, Restore(p)
  PROVE  DateInv'
<1>1. /\ UNCHANGED <<now, sidecar, stateFile, view, request, server>>
      /\ \A q \in Proxies \ {p} : /\ memory'[q] = memory[q] /\ snapshot'[q] = snapshot[q]
                                  /\ proxy'[q] = proxy[q]
      /\ memory'[p] = Restored(p) /\ snapshot'[p] = Empty
      /\ ~Running(p) /\ Running(p)'
  BY DEF Restore, Moves, Running, files, cmds, reqs, TypeOK
<1>2. Served'
  BY <1>1 DEF DateInv, Served, InProgress, Running, TypeOK
<1> DEFINE m == Merge(sidecar, memory[p])
<1>3. /\ m \in Stores /\ m.epoch = sidecar.epoch
      /\ Restored(p) = Merge(m, snapshot[p])
      /\ Restored(p) \in Stores /\ Restored(p).epoch = sidecar.epoch
  BY <1>1, DateTypes, MergeFields DEF Restored, Later, DateInv, ProxyDates
<1>4. /\ Sound(memory[p]) /\ Dated(memory[p].binding, sidecar.epoch)
      /\ Sound(snapshot[p]) /\ Dated(snapshot[p].binding, sidecar.epoch)
      /\ Sound(sidecar) /\ Dated(sidecar.binding, sidecar.epoch)
  BY <1>1, DateTypes DEF DateInv, ProxyDates, Good, Later
<1>5. Sound(m) /\ Dated(m.binding, sidecar.epoch)
  BY <1>4, DateTypes, MergeSound, MergeDated
<1> HIDE DEF m
<1>6. Sound(Restored(p)) /\ Dated(Restored(p).binding, sidecar.epoch)
  BY <1>3, <1>4, <1>5, DateTypes, MergeSound, MergeDated
<1>7. /\ Dated(Unbound, Later(0, sidecar.epoch))
      /\ Sound(Empty) /\ Empty.epoch = 0 /\ Empty.binding = Unbound
  BY DateTypes, NothingDated DEF Later
<1>8. ProxyDates(p)'
  BY <1>1, <1>3, <1>6, <1>7 DEF ProxyDates, Sound, Dated
<1> QED
  BY <1>1, <1>2, <1>8, DateOthers DEF DateInv, Dated

LEMMA DateSave ==
  ASSUME TypeOK, DateInv, NEW p \in Proxies, ReadLive(p) \/ SaveState(p) \/ FailSave(p)
  PROVE  DateInv'
<1>1. /\ UNCHANGED <<now, sidecar, view, memory, proxy, request, server>>
      /\ \A q \in Proxies \ {p} : snapshot'[q] = snapshot[q]
      /\ snapshot'[p] \in {snapshot[p], memory[p], Empty}
      /\ stateFile' \in {stateFile, sidecar.binding}
  BY DEF ReadLive, SaveState, FailSave, EndSave, files, proxies, jobs, cmds, reqs, TypeOK
<1>2. Served'
  BY <1>1 DEF DateInv, Served, InProgress, Running
<1>3. ProxyDates(p)
  BY DEF DateInv
<1>4. Dated(memory[p].binding, Later(memory[p].epoch, sidecar.epoch))
  BY <1>3, DateTypes, DatedLater DEF ProxyDates, Later
<1>5. /\ Dated(Unbound, Later(0, sidecar.epoch))
      /\ Sound(Empty) /\ Empty.epoch = 0 /\ Empty.binding = Unbound
  BY DateTypes, NothingDated DEF Later
<1>6. ProxyDates(p)'
  <2>1. CASE snapshot'[p] = snapshot[p]
    BY <1>1, <1>3, <2>1 DEF ProxyDates, Sound, Dated, Running
  <2>2. CASE snapshot'[p] = memory[p]
    BY <1>1, <1>3, <1>4, <2>2 DEF ProxyDates, Sound, Dated, Running
  <2>3. CASE snapshot'[p] = Empty
    BY <1>1, <1>3, <1>5, <2>3 DEF ProxyDates, Sound, Dated, Running
  <2> QED
    BY <1>1, <2>1, <2>2, <2>3
<1>7. Dated(stateFile, sidecar.epoch)'
  BY <1>1 DEF DateInv, Good, Dated
<1> QED
  BY <1>1, <1>2, <1>6, <1>7, DateOthers DEF DateInv, Dated

LEMMA DateSidecar ==
  ASSUME TypeOK, TypeOK', DateInv, NEW p \in Proxies, SaveSidecar(p)
  PROVE  DateInv'
<1>1. /\ UNCHANGED <<now, stateFile, view, memory, proxy, request, server>>
      /\ sidecar' = Merge(sidecar, snapshot[p])
      /\ snapshot' = [snapshot EXCEPT ![p] = Empty]
  BY DEF SaveSidecar, EndSave, cmds, reqs
<1>2. Served'
  BY <1>1 DEF DateInv, Served, InProgress, Running
<1> DEFINE e == Later(snapshot[p].epoch, sidecar.epoch)
<1>3. /\ sidecar'.epoch = e /\ e \in Nat /\ sidecar.epoch <= e
  BY <1>1, DateTypes, MergeFields DEF Later
<1>4. Dated(sidecar.binding, e) /\ Dated(snapshot[p].binding, e)
  BY <1>3, DateTypes, DatedLater DEF DateInv, ProxyDates, Good
<1>5. Good(sidecar)'
  <2>1. Sound(sidecar')
    BY <1>1, DateTypes, MergeSound DEF DateInv, ProxyDates, Good
  <2>2. Dated(sidecar'.binding, e)
    BY <1>1, <1>3, <1>4, DateTypes, MergeDated
  <2> HIDE DEF e
  <2> QED
    BY <1>1, <1>3, <2>1, <2>2 DEF Good, Sound, Dated
<1>6. \A b \in Bindings : Dated(b, sidecar.epoch) => Dated(b, e)
  BY <1>3, DateTypes, DatedLater
<1>7. Dated(stateFile, e) /\ \A c \in Commands : Dated(view[c], e)
  BY <1>6, DateTypes DEF DateInv
<1>8. ASSUME NEW q \in Proxies PROVE ProxyDates(q)'
  <2>1. ProxyDates(q)
    BY DEF DateInv
  <2>2. ~Running(q) => Dated(memory[q].binding, e)
    BY <1>6, <2>1, DateTypes DEF ProxyDates
  <2>3. CASE q = p
    <3>1. snapshot'[q] = Empty
      BY <1>1, <2>3 DEF TypeOK
    <3>2. /\ Dated(Unbound, Later(0, e))
          /\ Sound(Empty) /\ Empty.epoch = 0 /\ Empty.binding = Unbound
      BY <1>3, DateTypes, NothingDated DEF Later
    <3> HIDE DEF e
    <3> QED
      BY <1>1, <1>3, <2>1, <2>2, <3>1, <3>2 DEF ProxyDates, Sound, Dated, Running
  <2>4. CASE q # p
    <3>1. snapshot'[q] = snapshot[q]
      BY <1>1, <2>4 DEF TypeOK
    <3>2. /\ Later(snapshot[q].epoch, sidecar.epoch) \in Nat /\ Later(snapshot[q].epoch, e) \in Nat
          /\ Later(snapshot[q].epoch, sidecar.epoch) <= Later(snapshot[q].epoch, e)
      BY <1>3, DateTypes DEF Later
    <3>3. Dated(snapshot[q].binding, Later(snapshot[q].epoch, e))
      BY <2>1, <3>2, DateTypes, DatedLater DEF ProxyDates
    <3> HIDE DEF e
    <3> QED
      BY <1>1, <1>3, <2>1, <2>2, <3>1, <3>3 DEF ProxyDates, Sound, Dated, Running
  <2> QED
    BY <2>3, <2>4
<1> HIDE DEF e
<1> QED
  BY <1>1, <1>2, <1>3, <1>5, <1>7, <1>8 DEF DateInv, Dated

LEMMA DateEnd ==
  ASSUME TypeOK, DateInv, NEW p \in Proxies, Stop(p) \/ Exit(p)
  PROVE  DateInv'
<1>1. CASE Stop(p)
  <2>1. UNCHANGED <<now, sidecar, stateFile, view, memory, snapshot, request, server>>
    BY <1>1 DEF Stop, files, jobs, cmds, reqs
  <2>2. \A q \in Proxies : Running(q)' <=> Running(q)
    BY <1>1 DEF Stop, Moves, Running, TypeOK
  <2>3. \A q \in Proxies : ProxyDates(q)'
    BY <2>1, <2>2 DEF DateInv, ProxyDates, Sound, Dated
  <2>4. Served'
    BY <2>1, <2>2 DEF DateInv, Served, InProgress, TypeOK
  <2> QED
    BY <2>1, <2>3, <2>4 DEF DateInv, Good, Sound, Dated
<1>2. CASE Exit(p)
  <2>1. /\ UNCHANGED <<now, sidecar, stateFile, view, server>>
        /\ \A q \in Proxies \ {p} : /\ memory'[q] = memory[q] /\ snapshot'[q] = snapshot[q]
                                    /\ proxy'[q] = proxy[q]
        /\ memory'[p] = Empty /\ snapshot'[p] = Empty /\ ~Running(p)'
    BY <1>2 DEF Exit, Running, cmds, TypeOK
  <2>2. Served'
    <3>1. \A r \in Requests : InProgress(r)' => InProgress(r) /\ server[r] # p
      BY <1>2 DEF Exit, Finish, InProgress, TypeOK
    <3> QED
      BY <2>1, <3>1 DEF DateInv, Served, Running, TypeOK
  <2>3. /\ Dated(Unbound, Later(0, sidecar.epoch)) /\ Dated(Unbound, sidecar.epoch)
        /\ Sound(Empty) /\ Empty.epoch = 0 /\ Empty.binding = Unbound
    BY DateTypes, NothingDated DEF Later
  <2>4. ProxyDates(p)'
    BY <2>1, <2>3 DEF ProxyDates, Sound, Dated
  <2> QED
    BY <2>1, <2>2, <2>4, DateOthers DEF DateInv, Dated
<1> QED
  BY <1>1, <1>2

LEMMA DateRequest ==
  ASSUME TypeOK, DateInv, NEW r \in Requests, Begin(r) \/ Select(r) \/ Fail(r) \/ Commit(r)
  PROVE  DateInv'
<1>0. PICK p \in Proxies : p = server[r]
  BY DEF TypeOK
<1>1. Running(p) /\ Served'
  BY <1>0, RequestServed DEF DateInv
<1>2. PICK s : Update(r, s) /\ Rewrites(r, s)
  BY RequestUpdates
<1>3. /\ UNCHANGED <<now, sidecar, stateFile, view, snapshot, proxy>>
      /\ memory' = [memory EXCEPT ![p] = s]
  BY <1>0, <1>2 DEF Update, files, cmds
<1>4. Good(memory[p])
  BY <1>1 DEF DateInv, ProxyDates, Good
<1>5. Good(s)
  BY <1>0, <1>2, <1>4, RewrittenGood
<1>6. memory'[p] = s /\ \A q \in Proxies \ {p} : memory'[q] = memory[q]
  BY <1>1, <1>3 DEF TypeOK
<1>7. ProxyDates(p)'
  <2>1. Sound(memory'[p]) /\ Sound(snapshot'[p]) /\ Running(p)'
    BY <1>1, <1>3, <1>5, <1>6 DEF DateInv, ProxyDates, Good, Running
  <2>2. Dated(s.binding, s.epoch)'
    BY <1>3, <1>5 DEF Good, Dated
  <2>3. Dated(snapshot[p].binding, Later(snapshot[p].epoch, sidecar.epoch))'
    BY <1>1, <1>3 DEF DateInv, ProxyDates, Dated
  <2> QED
    BY <1>6, <2>1, <2>2, <2>3 DEF ProxyDates, Sound, Dated
<1>8. Good(sidecar)' /\ \A q \in Proxies \ {p} : ProxyDates(q)'
  BY <1>1, <1>3, <1>6, DateOthers
<1> QED
  BY <1>1, <1>3, <1>7, <1>8 DEF DateInv, Dated

LEMMA DateNext == TypeOK /\ TypeOK' /\ DateInv /\ [Next]_vars => DateInv'
<1> SUFFICES ASSUME TypeOK, TypeOK', DateInv, [Next]_vars PROVE DateInv'
  OBVIOUS
<1>1. CASE UNCHANGED vars
  BY <1>1 DEF vars, files, proxies, jobs, cmds, reqs, DateInv, ProxyDates, Good, Sound,
    Dated, Running, Served, InProgress
<1> QED
  BY <1>1, DateTick, DateCommand, DateStart, DateRestore, DateSave, DateSidecar, DateEnd,
    DateRequest DEF Next

-----------------------------------------------------------------------------
(* The chain of views.  While rotation is promised to prevail, the views   *)
(* of the session follow one another, by rank.  The sidecar has one of     *)
(* them, and at most one proxy leads: its memory has the latest view, and  *)
(* a save it has pending some view between the two.  All else is tame: it  *)
(* yields to the sidecar.                                                  *)
Plain == /\ sidecar.binding.owner # Conflict /\ stateFile.owner # Conflict
         /\ \A c \in Commands : view[c].owner # Conflict
         /\ \A p \in Proxies : /\ memory[p].binding.owner # Conflict
                               /\ snapshot[p].binding.owner # Conflict

FilesYield(v) == /\ Yields(sidecar.binding, v) /\ Yields(stateFile, v)
                 /\ \A c \in Commands : Yields(view[c], v)

ProxyYields(p, v) == Yields(memory[p].binding, v) /\ Yields(snapshot[p].binding, v)

Tame(s) == Rank(View(s)) <= Rank(View(sidecar)) /\ Yields(s.binding, View(sidecar))

TameProxy(p) == Tame(memory[p]) /\ Tame(snapshot[p])

Pending(p) ==
  /\ Rank(View(snapshot[p])) > Rank(View(sidecar))
  /\ Rank(View(snapshot[p])) <= Rank(latest)
  /\ Rank(View(snapshot[p])) = Rank(latest) => View(snapshot[p]) = latest
  /\ FilesYield(View(snapshot[p]))
  /\ \A q \in Proxies \ {p} : ProxyYields(q, View(snapshot[p]))

Leads(p) ==
  /\ Running(p)
  /\ View(memory[p]) = latest
  /\ Rank(latest) > Rank(View(sidecar))
  /\ \A q \in Proxies \ {p} : TameProxy(q)
  /\ Tame(snapshot[p]) \/ Pending(p)

Chain ==
  /\ Plain /\ latest[1] # Conflict
  /\ FilesYield(latest) /\ \A p \in Proxies : ProxyYields(p, latest)
  /\ FilesYield(View(sidecar))
  /\ Rank(View(sidecar)) <= Rank(latest)
  /\ \A p \in Proxies : TameProxy(p) \/ Leads(p)

(* A proxy of the latest view leads, or the sidecar has this view.         *)
LEMMA LatestLeads ==
  ASSUME TypeOK, DateInv, Chain, NEW p \in Proxies, View(memory[p]) = latest
  PROVE  /\ \A q \in Proxies \ {p} : TameProxy(q)
         /\ Leads(p) \/ (TameProxy(p) /\ View(sidecar) = latest)
<1>1. Rank(View(sidecar)) \in Nat /\ Rank(latest) \in Nat /\ View(sidecar) \in Owners \X Nat
  BY DateTypes, StoreFields, RankFacts
<1>2. CASE Leads(p)
  BY <1>2 DEF Leads
<1>3. CASE ~Leads(p)
  <2>1. TameProxy(p)
    BY <1>3 DEF Chain
  <2>2. Rank(View(sidecar)) = Rank(latest)
    BY <1>1, <2>1 DEF TameProxy, Tame, Chain
  <2>3. View(memory[p]) = View(sidecar)
    BY <1>1, <2>1, <2>2, DateTypes, SameRank DEF TameProxy, Tame, DateInv, ProxyDates
  <2>4. \A q \in Proxies : ~Leads(q)
    BY <1>1, <2>2 DEF Leads
  <2> QED
    BY <2>1, <2>3, <2>4 DEF Chain
<1> QED
  BY <1>2, <1>3

(* Steps that leave the stores alone.                                      *)
LEMMA ChainIdle ==
  ASSUME Chain, UNCHANGED <<sidecar, stateFile, view, memory, snapshot, latest>>,
         \A p \in Proxies : Running(p) => Running(p)'
  PROVE  Chain'
<1>1. \A v : /\ FilesYield(v) <=> FilesYield(v)'
             /\ \A p \in Proxies : ProxyYields(p, v) <=> ProxyYields(p, v)'
  BY DEF FilesYield, ProxyYields
<1>2. \A p \in Proxies : TameProxy(p) => TameProxy(p)'
  BY DEF TameProxy, Tame
<1>3. ASSUME NEW p \in Proxies, Leads(p) PROVE Leads(p)'
  <2>1. Pending(p) => Pending(p)'
    BY DEF Pending, FilesYield, ProxyYields
  <2> QED
    BY <1>2, <1>3, <2>1 DEF Leads, Tame
<1> QED
  BY <1>2, <1>3 DEF Chain, Plain, FilesYield, ProxyYields

(* Steps that write a command's view or state.json: what they write is     *)
(* made of what the files hold.                                            *)
LEMMA ChainFiles ==
  ASSUME Chain, UNCHANGED <<sidecar, memory, snapshot, proxy, latest>>,
         stateFile'.owner # Conflict, \A c \in Commands : view'[c].owner # Conflict,
         \A v \in Owners \X Nat : FilesYield(v) => FilesYield(v)',
         TypeOK
  PROVE  Chain'
<1>1. latest \in Owners \X Nat /\ View(sidecar) \in Owners \X Nat
      /\ \A p \in Proxies : View(snapshot[p]) \in Owners \X Nat
  BY DateTypes, StoreFields
<1>2. \A p \in Proxies : TameProxy(p) => TameProxy(p)'
  BY DEF TameProxy, Tame
<1>3. FilesYield(latest)' /\ FilesYield(View(sidecar))'
  <2>1. FilesYield(latest) /\ FilesYield(View(sidecar))
    BY DEF Chain
  <2> QED
    BY <1>1, <2>1 DEF FilesYield
<1>4. ASSUME NEW p \in Proxies, Leads(p) PROVE Leads(p)'
  <2>1. Pending(p) => Pending(p)'
    BY <1>1 DEF Pending, FilesYield, ProxyYields
  <2> QED
    BY <1>2, <1>4, <2>1 DEF Leads, Tame, Running
<1> QED
  BY <1>2, <1>3, <1>4 DEF Chain, Plain, ProxyYields

LEMMA ChainCommand ==
  ASSUME TypeOK, Chain, NEW c \in Commands, LoadCommand(c) \/ SaveCommand(c), ~disturbed'
  PROVE  Chain'
<1>1. UNCHANGED <<sidecar, memory, snapshot, proxy, latest>>
  BY DEF LoadCommand, SaveCommand, files, proxies, jobs, history
<1>2. Unbound.owner = NoProfile /\ NoProfile # Conflict /\ \A v : Yields(Unbound, v)
  BY SessionAssumption DEF Unbound, Yields
<1>3. CASE LoadCommand(c)
  <2>1. stateFile' = stateFile /\ \A d \in Commands : view'[d] \in {view[d], stateFile}
    BY <1>3 DEF LoadCommand, files, TypeOK
  <2> QED
    BY <1>1, <2>1, ChainFiles DEF Chain, Plain, FilesYield
<1>4. CASE SaveCommand(c)
  <2>1. /\ stateFile' = HardMerge(stateFile, view[c]) /\ stateFile'.owner # Conflict
        /\ \A d \in Commands : view'[d] \in {view[d], Unbound}
    BY <1>4 DEF SaveCommand, TypeOK
  <2>2. \A v \in Owners \X Nat : FilesYield(v) => Yields(stateFile', v)
    BY <2>1, DateTypes, HardMerged DEF FilesYield
  <2>3. \A v \in Owners \X Nat : FilesYield(v) => FilesYield(v)'
    BY <1>1, <1>2, <2>1, <2>2 DEF FilesYield
  <2>4. \A d \in Commands : view'[d].owner # Conflict
    BY <1>2, <2>1 DEF Chain, Plain
  <2> QED
    BY <1>1, <2>1, <2>3, <2>4, ChainFiles
<1> QED
  BY <1>3, <1>4

(* Steps that give a proxy stores made of what it and the files hold, no   *)
(* later than the sidecar.                                                 *)
Made(p, u) ==
  /\ u.binding.owner # Conflict /\ Tame(u)
  /\ \A v \in Owners \X Nat : FilesYield(v) /\ ProxyYields(p, v) => Yields(u.binding, v)

LEMMA ChainTamed ==
  ASSUME TypeOK, Chain, NEW p \in Proxies,
         UNCHANGED <<sidecar, stateFile, view, latest>>,
         \A q \in Proxies \ {p} : /\ memory'[q] = memory[q] /\ snapshot'[q] = snapshot[q]
                                  /\ proxy'[q] = proxy[q],
         Made(p, snapshot'[p]) \/ snapshot'[p] = snapshot[p],
         \/ memory'[p] = memory[p] /\ proxy'[p] = proxy[p]
         \/ ~Leads(p) /\ (Made(p, memory'[p]) \/ memory'[p] = memory[p])
  PROVE  Chain'
<1>1. latest \in Owners \X Nat /\ View(sidecar) \in Owners \X Nat
      /\ \A q \in Proxies : View(snapshot[q]) \in Owners \X Nat
  BY DateTypes, StoreFields
<1>2. \A v : FilesYield(v) <=> FilesYield(v)'
  BY DEF FilesYield
<1>3. \A v \in Owners \X Nat : FilesYield(v) /\ ProxyYields(p, v) => ProxyYields(p, v)'
  BY DEF Made, ProxyYields
<1>4. \A v : \A q \in Proxies \ {p} : ProxyYields(q, v) <=> ProxyYields(q, v)'
  BY DEF ProxyYields
<1>5. TameProxy(p) => TameProxy(p)'
  BY DEF TameProxy, Tame, Made
<1>6. \A q \in Proxies \ {p} : TameProxy(q) => TameProxy(q)'
  BY DEF TameProxy, Tame
<1>7. ASSUME Leads(p) PROVE Leads(p)'
  <2>1. memory'[p] = memory[p] /\ Running(p)'
    <3>1. Running(p)
      BY <1>7 DEF Leads
    <3> QED
      BY <1>7, <3>1 DEF Running
  <2>2. Tame(snapshot[p]) \/ Pending(p)
    BY <1>7 DEF Leads
  <2>3. CASE snapshot'[p] = snapshot[p]
    <3>1. Pending(p) => Pending(p)'
      BY <1>2, <1>4, <2>3 DEF Pending
    <3>2. Tame(snapshot[p]) => Tame(snapshot[p])'
      BY <2>3 DEF Tame
    <3> QED
      BY <1>6, <1>7, <2>1, <2>2, <3>1, <3>2 DEF Leads
  <2>4. CASE Made(p, snapshot'[p])
    <3>1. Tame(snapshot[p])'
      BY <2>4 DEF Made, Tame
    <3> QED
      BY <1>6, <1>7, <2>1, <3>1 DEF Leads
  <2> QED
    BY <2>3, <2>4
<1>8. ASSUME NEW q \in Proxies \ {p}, Leads(q) PROVE Leads(q)'
  <2>1. TameProxy(p)' /\ \A o \in Proxies \ {q} : TameProxy(o)'
    BY <1>5, <1>6, <1>8 DEF Leads
  <2>2. Tame(snapshot[q]) => Tame(snapshot[q])'
    BY DEF Tame
  <2>3. ASSUME Pending(q) PROVE Pending(q)'
    <3> DEFINE v == View(snapshot[q])
    <3>1. v' = v
      OBVIOUS
    <3>2. FilesYield(v) /\ \A o \in Proxies \ {q} : ProxyYields(o, v)
      BY <2>3 DEF Pending
    <3>3. v \in Owners \X Nat
      BY <1>1
    <3> HIDE DEF v
    <3>4. (\A o \in Proxies \ {q} : ProxyYields(o, v)') /\ FilesYield(v)'
      BY <1>2, <1>3, <1>4, <3>1, <3>2, <3>3
    <3> QED
      BY <2>3, <3>1, <3>4 DEF Pending, v
  <2> QED
    BY <1>8, <2>1, <2>2, <2>3 DEF Leads, Running
<1>9. FilesYield(latest)' /\ FilesYield(View(sidecar))' /\ \A q \in Proxies : ProxyYields(q, latest)'
  <2>1. FilesYield(latest) /\ FilesYield(View(sidecar)) /\ \A q \in Proxies : ProxyYields(q, latest)
    BY DEF Chain
  <2>2. latest' = latest /\ View(sidecar)' = View(sidecar)
    OBVIOUS
  <2> QED
    BY <1>1, <1>2, <1>3, <1>4, <2>1, <2>2 DEF FilesYield, ProxyYields
<1>10. Plain'
  BY DEF Chain, Plain, Made
<1>11. \A q \in Proxies : TameProxy(q)' \/ Leads(q)'
  BY <1>5, <1>6, <1>7, <1>8 DEF Chain
<1> QED
  BY <1>9, <1>10, <1>11 DEF Chain

(* A follower's or a starting proxy's stores.                              *)
LEMMA LoadedMade ==
  ASSUME TypeOK, Chain, NEW p \in Proxies
  PROVE  Made(p, Legacy(stateFile)) /\ Made(p, Empty)
<1>1. /\ Legacy(stateFile).binding = stateFile /\ View(Legacy(stateFile)) = <<stateFile.owner, 0>>
      /\ Empty.binding = Unbound /\ View(Empty) = <<NoProfile, 0>> /\ Unbound.owner = NoProfile
  BY NothingDated, DateTypes DEF View, Unbound
<1>2. /\ sidecar.epoch \in Nat /\ View(sidecar) = <<sidecar.binding.owner, sidecar.epoch>>
      /\ stateFile.owner \in Owners /\ sidecar.binding.owner \in Owners
  BY DateTypes, StoreFields DEF View, Bindings, Owners
<1>3. Yields(stateFile, View(sidecar)) /\ \A v : Yields(Unbound, v)
  BY <1>1 DEF Chain, FilesYield, Yields
<1>4. /\ Rank(View(Empty)) <= Rank(View(sidecar))
      /\ Rank(View(Legacy(stateFile))) <= Rank(View(sidecar))
  <2>1. /\ Rank(View(Empty)) = 0
        /\ Rank(View(Legacy(stateFile))) = IF stateFile.owner = NoProfile THEN 0 ELSE 1
        /\ Rank(View(sidecar)) = 2 * sidecar.epoch
                                   + (IF sidecar.binding.owner = NoProfile THEN 0 ELSE 1)
    BY <1>1, <1>2 DEF Rank
  <2>2. \/ stateFile.owner = NoProfile
        \/ sidecar.binding.owner # NoProfile
        \/ sidecar.epoch > 0
    BY <1>2, <1>3 DEF Yields, Survives
  <2> QED
    BY <1>2, <2>1, <2>2
<1>5. stateFile.owner # Conflict /\ Unbound.owner # Conflict
  BY <1>1, SessionAssumption DEF Chain, Plain
<1> QED
  BY <1>1, <1>3, <1>4, <1>5 DEF Made, Tame, FilesYield

LEMMA RestoredMade ==
  ASSUME TypeOK, DateInv, Chain, NEW p \in Proxies, ~Running(p)
  PROVE  Made(p, Restored(p))
<1>1. /\ Tame(memory[p]) /\ Tame(snapshot[p]) /\ memory[p].epoch = 0 /\ snapshot[p].epoch = 0
      /\ Sound(sidecar)
  BY DEF Chain, Leads, TameProxy, DateInv, ProxyDates, Good
<1> DEFINE m == Merge(sidecar, memory[p])
<1>2. /\ m \in Stores /\ View(m) = View(sidecar) /\ Sound(m)
      /\ m.epoch \in Nat /\ m.binding.owner # Conflict
  <2>1. View(m) = View(sidecar)
    BY <1>1, DateTypes, MergeView DEF Tame
  <2>2. m \in Stores /\ Sound(m)
    BY <1>1, DateTypes, MergeFields, MergeSound DEF DateInv, ProxyDates
  <2>3. sidecar.binding.owner # Conflict
    BY DEF Chain, Plain
  <2> HIDE DEF m
  <2> QED
    BY <2>1, <2>2, <2>3, DateTypes, StoreFields
<1>3. Restored(p) = Merge(m, snapshot[p])
  BY DEF Restored
<1>4. \A v \in Owners \X Nat : FilesYield(v) /\ ProxyYields(p, v) => Yields(m.binding, v)
  BY <1>2, DateTypes, MergeYields DEF FilesYield, ProxyYields
<1> HIDE DEF m
<1>5. Restored(p) \in Stores /\ View(Restored(p)) = View(sidecar)
  BY <1>1, <1>2, <1>3, DateTypes, MergeView, MergeFields DEF Tame
<1>6. Restored(p).binding.owner = sidecar.binding.owner /\ sidecar.binding.owner # Conflict
  BY <1>5, DateTypes, StoreFields DEF Chain, Plain
<1>7. \A v \in Owners \X Nat : FilesYield(v) /\ ProxyYields(p, v) => Yields(Restored(p).binding, v)
  BY <1>2, <1>3, <1>4, <1>6, DateTypes, MergeYields DEF ProxyYields
<1>8. Tame(Restored(p))
  BY <1>5, <1>6, DateTypes, StoreFields, RankFacts DEF Tame, Yields
<1> QED
  BY <1>6, <1>7, <1>8 DEF Made

LEMMA ChainStart ==
  ASSUME TypeOK, DateInv, Chain, NEW p \in Proxies,
         ReadLaunchState(p) \/ ReadState(p) \/ Restore(p) \/ FailSave(p)
  PROVE  Chain'
<1>1. /\ UNCHANGED <<sidecar, stateFile, view, latest>>
      /\ \A q \in Proxies \ {p} : /\ memory'[q] = memory[q] /\ snapshot'[q] = snapshot[q]
                                  /\ proxy'[q] = proxy[q]
  BY DEF ReadLaunchState, ReadState, Restore, FailSave, EndSave, Moves, files, jobs, cmds,
    history, TypeOK
<1>2. Made(p, Legacy(stateFile)) /\ Made(p, Empty)
  BY LoadedMade
<1>3. CASE ReadLaunchState(p)
  <2>1. ~Leads(p) /\ memory'[p] = Legacy(stateFile) /\ snapshot'[p] = snapshot[p]
    BY <1>3 DEF ReadLaunchState, Moves, Leads, Running, jobs, TypeOK
  <2> QED
    BY <1>1, <1>2, <2>1, ChainTamed
<1>4. CASE ReadState(p)
  <2>1. ~Leads(p) /\ snapshot'[p] = Legacy(stateFile) /\ memory'[p] = memory[p]
    BY <1>4 DEF ReadState, Moves, Leads, Running, TypeOK
  <2> QED
    BY <1>1, <1>2, <2>1, ChainTamed
<1>5. CASE Restore(p)
  <2>1. ~Running(p) /\ snapshot'[p] = Empty /\ memory'[p] = Restored(p)
    BY <1>5 DEF Restore, Moves, Running, TypeOK
  <2>2. ~Leads(p)
    BY <2>1 DEF Leads
  <2> QED
    BY <1>1, <1>2, <2>1, <2>2, RestoredMade, ChainTamed
<1>6. CASE FailSave(p)
  <2>1. snapshot'[p] = Empty /\ memory'[p] = memory[p] /\ proxy'[p] = proxy[p]
    BY <1>6 DEF FailSave, EndSave, TypeOK
  <2> QED
    BY <1>1, <1>2, <2>1, ChainTamed
<1> QED
  BY <1>3, <1>4, <1>5, <1>6

LEMMA ChainRest ==
  ASSUME TypeOK, DateInv, Chain,
         Tick \/ \E p \in Proxies : TryOwn(p) \/ Promote(p) \/ Stop(p)
  PROVE  Chain'
<1>1. UNCHANGED <<sidecar, stateFile, view, memory, snapshot, latest>>
  BY DEF Tick, TryOwn, Promote, Stop, files, proxies, jobs, cmds, history
<1>2. \A q \in Proxies : Running(q) => Running(q)'
  BY DEF Tick, TryOwn, Promote, Stop, Moves, Running, proxies, TypeOK
<1> QED
  BY <1>1, <1>2, ChainIdle

LEMMA ChainState ==
  ASSUME TypeOK, DateInv, Chain, NEW p \in Proxies, SaveState(p)
  PROVE  Chain'
<1>1. /\ UNCHANGED <<sidecar, memory, snapshot, proxy, latest, view>>
      /\ stateFile' = sidecar.binding
  BY DEF SaveState, proxies, jobs, cmds, history
<1> QED
  BY <1>1, ChainFiles DEF Chain, Plain, FilesYield

(* A save worker takes its snapshot.                                       *)
LEMMA ChainSnapshot ==
  ASSUME TypeOK, DateInv, Chain, NEW p \in Proxies, ReadLive(p)
  PROVE  Chain'
<1>1. /\ UNCHANGED <<sidecar, stateFile, view, memory, proxy, latest>>
      /\ \A q \in Proxies \ {p} : snapshot'[q] = snapshot[q]
      /\ snapshot'[p] = memory[p]
  BY DEF ReadLive, files, cmds, history, TypeOK
<1>2. CASE TameProxy(p)
  <2>1. Made(p, memory[p])
    BY <1>2 DEF Made, TameProxy, ProxyYields, Chain, Plain
  <2> QED
    BY <1>1, <2>1, ChainTamed
<1>3. CASE Leads(p)
  <2>1. \A q \in Proxies \ {p} : TameProxy(q)'
    BY <1>1, <1>3 DEF Leads, TameProxy, Tame
  <2>2. View(snapshot'[p]) = latest
    BY <1>1, <1>3 DEF Leads
  <2>3. Rank(latest) \in Nat
    BY DateTypes, RankFacts
  <2>4. FilesYield(latest)' /\ FilesYield(View(sidecar))' /\ \A q \in Proxies : ProxyYields(q, latest)'
    BY <1>1 DEF Chain, FilesYield, ProxyYields
  <2>5. Pending(p)'
    <3>1. FilesYield(View(snapshot'[p])) /\ \A q \in Proxies \ {p} : ProxyYields(q, View(snapshot'[p]))
      BY <2>2 DEF Chain
    <3>2. FilesYield(View(snapshot[p]))' /\ \A q \in Proxies \ {p} : ProxyYields(q, View(snapshot[p]))'
      BY <1>1, <3>1 DEF FilesYield, ProxyYields
    <3> QED
      BY <1>1, <1>3, <2>2, <2>3, <3>2 DEF Pending, Leads
  <2>6. Leads(p)'
    BY <1>1, <1>3, <2>1, <2>5 DEF Leads, Running
  <2>7. Plain'
    BY <1>1 DEF Chain, Plain
  <2> QED
    BY <1>1, <2>1, <2>4, <2>6, <2>7 DEF Chain
<1> QED
  BY <1>2, <1>3 DEF Chain

(* A save reaches the sidecar: the view it carries, if it is a later one,  *)
(* becomes the sidecar's, and all that is not later yields to it.          *)
LEMMA ChainSidecar ==
  ASSUME TypeOK, DateInv, Chain, NEW p \in Proxies, SaveSidecar(p)
  PROVE  Chain'
<1>1. /\ UNCHANGED <<stateFile, view, memory, proxy, latest>>
      /\ sidecar' = Merge(sidecar, snapshot[p])
      /\ snapshot'[p] = Empty
      /\ \A q \in Proxies \ {p} : snapshot'[q] = snapshot[q]
  BY DEF SaveSidecar, EndSave, cmds, history, TypeOK
<1>2. /\ latest \in Owners \X Nat /\ View(sidecar) \in Owners \X Nat
      /\ \A q \in Proxies : /\ View(snapshot[q]) \in Owners \X Nat
                            /\ View(memory[q]) \in Owners \X Nat
      /\ sidecar' \in Stores /\ View(sidecar') \in Owners \X Nat
      /\ sidecar \in Stores /\ snapshot[p] \in Stores
  BY <1>1, DateTypes, StoreFields, MergeFields
<1>3. Sound(sidecar) /\ Sound(snapshot[p])
  BY DEF DateInv, ProxyDates, Good
<1>4. /\ Rank(latest) \in Nat /\ Rank(View(sidecar)) \in Nat /\ Rank(View(sidecar')) \in Nat
      /\ \A q \in Proxies : Rank(View(snapshot[q])) \in Nat /\ Rank(View(memory[q])) \in Nat
  BY <1>2, RankFacts
<1>5. /\ Empty.binding = Unbound /\ Unbound.owner = NoProfile
      /\ \A v : Yields(Empty.binding, v)
      /\ Unbound.owner # Conflict
  BY NothingDated, SessionAssumption DEF Yields, Unbound
<1>6. Made(p, Empty)
  BY LoadedMade
<1>7. \/ View(sidecar') = View(sidecar)
      \/ /\ Leads(p) /\ Pending(p) /\ View(sidecar') = View(snapshot[p])
  <2>1. CASE Tame(snapshot[p])
    <3>1. snapshot[p].epoch <= sidecar.epoch
      BY <1>2, <2>1, StoreFields, RankFacts DEF Tame
    <3> QED
      BY <1>1, <1>2, <1>3, <2>1, <3>1, MergeView DEF Tame
  <2>2. CASE ~Tame(snapshot[p])
    <3>1. Leads(p) /\ Pending(p)
      BY <2>2 DEF Chain, Leads, TameProxy
    <3>2. sidecar.epoch <= snapshot[p].epoch
      BY <1>2, <1>4, <3>1, StoreFields, RankFacts DEF Pending
    <3>3. Yields(sidecar.binding, View(snapshot[p]))
      BY <3>1 DEF Pending, FilesYield
    <3> QED
      BY <1>1, <1>2, <1>3, <3>1, <3>2, <3>3, MergeView
  <2> QED
    BY <2>1, <2>2
<1>8. sidecar'.binding.owner # Conflict
  BY <1>2, <1>7, StoreFields DEF Chain, Plain
<1>9. \A v \in Owners \X Nat : FilesYield(v) /\ Yields(snapshot[p].binding, v) =>
        Yields(sidecar'.binding, v) /\ Yields(stateFile', v) /\ \A c \in Commands : Yields(view'[c], v)
  BY <1>1, <1>2, <1>8, MergeYields DEF FilesYield
<1>10. \A v : \A q \in Proxies : ProxyYields(q, v) =>
         Yields(memory'[q].binding, v) /\ Yields(snapshot'[q].binding, v)
  BY <1>1, <1>5 DEF ProxyYields
<1>11. Yields(sidecar'.binding, View(sidecar'))
  BY <1>2, StoreFields DEF Yields
<1>12. Plain'
  BY <1>1, <1>5, <1>8 DEF Chain, Plain
<1>13. FilesYield(latest)' /\ \A q \in Proxies : ProxyYields(q, latest)'
  <2>1. FilesYield(latest) /\ Yields(snapshot[p].binding, latest)
        /\ \A q \in Proxies : ProxyYields(q, latest)
    BY DEF Chain, ProxyYields
  <2>2. /\ Yields(sidecar'.binding, latest) /\ Yields(stateFile', latest)
        /\ \A c \in Commands : Yields(view'[c], latest)
    BY <1>2, <1>9, <2>1
  <2>3. \A q \in Proxies : Yields(memory'[q].binding, latest) /\ Yields(snapshot'[q].binding, latest)
    BY <1>10, <2>1
  <2> QED
    BY <1>1, <2>2, <2>3 DEF FilesYield, ProxyYields
<1>14. CASE View(sidecar') = View(sidecar)
  <2>1. FilesYield(View(sidecar))'
    BY <1>1, <1>11, <1>14 DEF Chain, FilesYield
  <2>2. \A s : Tame(s) => (Rank(View(s)) <= Rank(View(sidecar')) /\ Yields(s.binding, View(sidecar')))
    BY <1>14 DEF Tame
  <2>3. /\ \A q \in Proxies : Tame(memory[q]) => Tame(memory[q])'
        /\ \A q \in Proxies \ {p} : Tame(snapshot[q]) => Tame(snapshot[q])'
        /\ Tame(snapshot[p])'
    BY <1>1, <1>6, <2>2 DEF Made, Tame
  <2>4. \A q \in Proxies : TameProxy(q) => TameProxy(q)'
    BY <2>3 DEF TameProxy
  <2>5. ASSUME NEW q \in Proxies, Leads(q) PROVE Leads(q)'
    <3>1. q # p /\ Pending(q) => Pending(q)'
      <4> SUFFICES ASSUME q # p, Pending(q) PROVE Pending(q)'
        OBVIOUS
      <4> DEFINE v == View(snapshot[q])
      <4>1. v' = v
        BY <1>1
      <4>2. FilesYield(v) /\ \A o \in Proxies \ {q} : ProxyYields(o, v)
        BY DEF Pending
      <4>3. v \in Owners \X Nat /\ Yields(snapshot[p].binding, v)
        BY <1>2, <4>2 DEF ProxyYields
      <4>4. Rank(v) > Rank(View(sidecar)) /\ Rank(v) <= Rank(latest) /\ (Rank(v) = Rank(latest) => v = latest)
        BY DEF Pending
      <4> HIDE DEF v
      <4>5. FilesYield(v)' /\ \A o \in Proxies \ {q} : ProxyYields(o, v)'
        <5>1. /\ Yields(sidecar'.binding, v) /\ Yields(stateFile', v)
              /\ \A c \in Commands : Yields(view'[c], v)
          BY <1>9, <4>2, <4>3
        <5>2. \A o \in Proxies \ {q} :
                Yields(memory'[o].binding, v) /\ Yields(snapshot'[o].binding, v)
          BY <1>10, <4>2
        <5> QED
          BY <4>1, <5>1, <5>2 DEF FilesYield, ProxyYields
      <4> QED
        BY <1>1, <1>14, <4>1, <4>4, <4>5 DEF Pending, v
    <3>2. Tame(snapshot[q])' \/ Pending(q)'
      BY <2>3, <2>5, <3>1 DEF Leads
    <3> QED
      BY <1>1, <1>14, <2>4, <2>5, <3>2 DEF Leads, Running
  <2> QED
    BY <1>1, <1>12, <1>13, <1>14, <2>1, <2>4, <2>5 DEF Chain
<1>15. CASE Leads(p) /\ Pending(p) /\ View(sidecar') = View(snapshot[p])
  <2> DEFINE w == View(snapshot[p])
  <2>1. /\ Rank(w) > Rank(View(sidecar)) /\ Rank(w) <= Rank(latest)
        /\ Rank(w) = Rank(latest) => w = latest
        /\ FilesYield(w) /\ \A q \in Proxies \ {p} : ProxyYields(q, w)
        /\ w \in Owners \X Nat /\ w = View(sidecar')
    BY <1>2, <1>15 DEF Pending
  <2> HIDE DEF w
  <2>2. FilesYield(View(sidecar))'
    BY <1>1, <1>11, <2>1 DEF FilesYield
  <2>3. \A q \in Proxies \ {p} : TameProxy(q)'
    <3>1. \A q \in Proxies \ {p} : TameProxy(q)
      BY <1>15 DEF Leads
    <3> QED
      BY <1>1, <1>2, <1>4, <2>1, <3>1 DEF TameProxy, Tame, ProxyYields
  <2>4. Tame(snapshot[p])'
    <3>1. Tame(Empty)
      BY <1>6 DEF Made
    <3>2. Rank(View(Empty)) \in Nat
      BY OperatorTypes, RankFacts
    <3> QED
      BY <1>1, <1>4, <1>5, <2>1, <3>1, <3>2 DEF Tame
  <2>5. View(memory'[p]) = latest
    BY <1>1, <1>15 DEF Leads
  <2>6. CASE Rank(w) = Rank(latest)
    <3>1. memory'[p].binding.owner = w[1]
      BY <1>1, <2>1, <2>5, <2>6, DateTypes, StoreFields
    <3>2. Tame(memory[p])'
      BY <1>1, <2>1, <2>5, <2>6, <3>1, <1>4 DEF Tame, Yields
    <3>3. TameProxy(p)'
      BY <2>4, <3>2 DEF TameProxy
    <3> QED
      BY <1>1, <1>12, <1>13, <2>1, <2>2, <2>3, <3>3 DEF Chain
  <2>7. CASE Rank(w) # Rank(latest)
    <3>1. Rank(latest) > Rank(View(sidecar'))
      BY <1>4, <2>1, <2>7
    <3>2. Leads(p)'
      BY <1>1, <1>15, <2>3, <2>4, <2>5, <3>1 DEF Leads, Running
    <3> QED
      BY <1>1, <1>12, <1>13, <2>1, <2>2, <2>3, <3>2 DEF Chain
  <2> QED
    BY <2>6, <2>7
<1> QED
  BY <1>7, <1>14, <1>15

(* A proxy that ends hands its lead to nobody: unless another has the      *)
(* latest view as well, that of the sidecar is now the latest.             *)
LEMMA ChainExit ==
  ASSUME TypeOK, DateInv, Chain, NEW p \in Proxies, Exit(p)
  PROVE  Chain'
<1>1. /\ UNCHANGED <<sidecar, stateFile, view>>
      /\ \A q \in Proxies \ {p} : /\ memory'[q] = memory[q] /\ snapshot'[q] = snapshot[q]
                                  /\ proxy'[q] = proxy[q]
      /\ memory'[p] = Empty /\ snapshot'[p] = Empty
      /\ latest' = IF \E q \in Proxies \ {p} : Running(q) /\ View(memory[q]) = latest
                   THEN latest ELSE View(sidecar)
  BY DEF Exit, cmds, TypeOK
<1>2. Made(p, Empty)
  BY LoadedMade
<1>3. Rank(latest) \in Nat /\ Rank(View(sidecar)) \in Nat
      /\ \A q \in Proxies : Rank(View(memory[q])) \in Nat
  BY DateTypes, StoreFields, RankFacts
<1>4. CASE \E q \in Proxies \ {p} : Running(q) /\ View(memory[q]) = latest
  <2>1. ~Leads(p)
    <3>1. TameProxy(p)
      BY <1>4, LatestLeads
    <3> QED
      BY <1>3, <3>1 DEF TameProxy, Tame, Leads
  <2> QED
    BY <1>1, <1>2, <1>4, <2>1, ChainTamed
<1>5. CASE ~\E q \in Proxies \ {p} : Running(q) /\ View(memory[q]) = latest
  <2>1. \A q \in Proxies \ {p} : TameProxy(q)
    BY <1>5 DEF Chain, Leads
  <2>2. \A q \in Proxies : TameProxy(q)'
    BY <1>1, <1>2, <2>1 DEF TameProxy, Tame, Made
  <2>3. latest' = View(sidecar')
    BY <1>1, <1>5
  <2>4. FilesYield(View(sidecar))'
    BY <1>1 DEF Chain, FilesYield
  <2>5. FilesYield(latest)' /\ \A q \in Proxies : ProxyYields(q, latest)'
    BY <1>1, <2>2, <2>3, <2>4 DEF TameProxy, Tame, FilesYield, ProxyYields
  <2>6. Plain'
    BY <1>1, <1>2 DEF Chain, Plain, Made
  <2>7. latest'[1] # Conflict
    BY <1>1, <2>3, DateTypes, StoreFields DEF Chain, Plain
  <2>8. Rank(View(sidecar))' <= Rank(latest)'
    BY <1>1, <1>3, <2>3
  <2> QED
    BY <2>2, <2>4, <2>5, <2>6, <2>7, <2>8 DEF Chain
<1> QED
  BY <1>4, <1>5

(* A request rewrites the store of a proxy that has the latest view: it    *)
(* keeps the view, or makes a later one, to which all copies yield.        *)
LEMMA ChainUpdate ==
  ASSUME TypeOK, DateInv, Chain, NEW p \in Proxies, NEW u \in Stores,
         UNCHANGED <<sidecar, stateFile, view, snapshot, proxy>>,
         memory'[p] = u, \A q \in Proxies \ {p} : memory'[q] = memory[q],
         latest' = View(u), Running(p), View(memory[p]) = latest,
         u.binding.owner # Conflict,
         \/ View(u) = latest
         \/ /\ Rank(View(u)) > Rank(latest)
            /\ FilesYield(View(u)) /\ \A q \in Proxies : ProxyYields(q, View(u))
  PROVE  Chain'
<1>1. /\ latest \in Owners \X Nat /\ View(sidecar) \in Owners \X Nat /\ View(u) \in Owners \X Nat
      /\ \A q \in Proxies : View(snapshot[q]) \in Owners \X Nat
  BY DateTypes, StoreFields
<1>2. /\ Rank(latest) \in Nat /\ Rank(View(sidecar)) \in Nat /\ Rank(View(u)) \in Nat
      /\ \A q \in Proxies : Rank(View(snapshot[q])) \in Nat
  BY <1>1, RankFacts
<1>3. Yields(u.binding, View(u)) /\ View(u)[1] # Conflict
  BY StoreFields DEF Yields
<1>4. /\ \A q \in Proxies \ {p} : TameProxy(q)
      /\ Leads(p) \/ (TameProxy(p) /\ View(sidecar) = latest)
  BY LatestLeads
<1>5. \A q \in Proxies \ {p} : TameProxy(q)'
  BY <1>4 DEF TameProxy, Tame
<1>6. Plain'
  BY DEF Chain, Plain
<1>7. FilesYield(View(sidecar))' /\ Rank(View(sidecar)) <= Rank(latest)
  BY DEF Chain, FilesYield
<1>8. Tame(snapshot[p]) => Tame(snapshot[p])'
  BY DEF Tame
<1>9. CASE View(u) = latest
  <2>1. FilesYield(latest)' /\ \A q \in Proxies : ProxyYields(q, latest)'
    <3>1. FilesYield(latest) /\ \A q \in Proxies : ProxyYields(q, latest)
      BY DEF Chain
    <3> QED
      BY <1>3, <1>9, <3>1 DEF FilesYield, ProxyYields
  <2>2. CASE Leads(p)
    <3>1. Pending(p) => Pending(p)'
      BY <1>9 DEF Pending, FilesYield, ProxyYields
    <3>2. Leads(p)'
      BY <1>5, <1>8, <1>9, <2>2, <3>1 DEF Leads, Running
    <3> QED
      BY <1>3, <1>5, <1>6, <1>7, <1>9, <2>1, <3>2 DEF Chain
  <2>3. CASE TameProxy(p) /\ View(sidecar) = latest
    <3>1. Tame(memory[p])'
      BY <1>2, <1>3, <1>9, <2>3 DEF Tame
    <3>2. TameProxy(p)'
      BY <1>8, <2>3, <3>1 DEF TameProxy
    <3> QED
      BY <1>3, <1>5, <1>6, <1>7, <1>9, <2>1, <3>2 DEF Chain
  <2> QED
    BY <1>4, <2>2, <2>3
<1>10. CASE /\ Rank(View(u)) > Rank(latest)
            /\ FilesYield(View(u)) /\ \A q \in Proxies : ProxyYields(q, View(u))
  <2>1. FilesYield(latest)' /\ \A q \in Proxies : ProxyYields(q, latest)'
    BY <1>3, <1>10 DEF FilesYield, ProxyYields
  <2>2. ASSUME Pending(p) PROVE Pending(p)'
    <3>1. Rank(View(snapshot[p])) < Rank(View(u))
      BY <1>2, <1>10, <2>2 DEF Pending
    <3>2. FilesYield(View(snapshot[p]))'
          /\ \A q \in Proxies \ {p} : ProxyYields(q, View(snapshot[p]))'
      BY <2>2 DEF Pending, FilesYield, ProxyYields
    <3>3. /\ Rank(View(snapshot'[p])) <= Rank(latest') /\ Rank(View(snapshot'[p])) # Rank(latest')
          /\ Rank(View(snapshot'[p])) > Rank(View(sidecar'))
      BY <1>2, <2>2, <3>1 DEF Pending
    <3> QED
      BY <3>2, <3>3 DEF Pending
  <2>3. Rank(latest') > Rank(View(sidecar')) /\ Rank(View(sidecar')) <= Rank(latest')
    BY <1>2, <1>7, <1>10
  <2>4. Leads(p)'
    <3>1. Tame(snapshot[p])' \/ Pending(p)'
      BY <1>4, <1>8, <2>2 DEF Leads, TameProxy
    <3> QED
      BY <1>5, <2>3, <3>1 DEF Leads, Running
  <2> QED
    BY <1>3, <1>5, <1>6, <1>7, <2>1, <2>3, <2>4 DEF Chain
<1> QED
  BY <1>9, <1>10

-----------------------------------------------------------------------------
(* Requests.  The one in progress works on the latest view, which is bound *)
(* to nothing but the profile it knows of.                                 *)
Turn ==
  \A r \in Requests : InProgress(r) =>
    /\ View(memory[server[r]]) = latest
    /\ \A q \in Requests \ {r} : ~InProgress(q)
    /\ request[r] = "choosing" => latest[1] \in {NoProfile, owner[r]}
    /\ request[r] = "trying" => latest[1] \in {NoProfile, chosen[r]}

(* What a release of the latest view fences: everything.                   *)
LEMMA ReleaseFences ==
  ASSUME TypeOK, DateInv, Chain, NEW e \in Nat, e >= Later(now, latest[2] + 1)
  PROVE  /\ e > latest[2]
         /\ ~Survives(sidecar.binding, e) /\ ~Survives(stateFile, e)
         /\ \A c \in Commands : ~Survives(view[c], e)
         /\ \A p \in Proxies : /\ ~Survives(memory[p].binding, e)
                               /\ ~Survives(snapshot[p].binding, e)
<1>1. /\ latest \in Owners \X Nat /\ latest[2] \in Nat
      /\ View(sidecar) \in Owners \X Nat /\ View(sidecar)[2] = sidecar.epoch
      /\ \A p \in Proxies : /\ View(snapshot[p]) \in Owners \X Nat
                            /\ View(snapshot[p])[2] = snapshot[p].epoch
                            /\ View(memory[p]) \in Owners \X Nat
                            /\ View(memory[p])[2] = memory[p].epoch
  BY DateTypes, StoreFields
<1>2. Rank(latest) \in Nat /\ Rank(View(sidecar)) \in Nat
      /\ \A p \in Proxies : Rank(View(snapshot[p])) \in Nat /\ Rank(View(memory[p])) \in Nat
  BY <1>1, RankFacts
<1>3. sidecar.epoch <= latest[2]
  BY <1>1, RankFacts DEF Chain
<1>4. ASSUME NEW p \in Proxies
      PROVE  memory[p].epoch <= latest[2] /\ snapshot[p].epoch <= latest[2]
  <2>1. /\ Rank(View(memory[p])) <= Rank(latest)
        /\ Rank(View(snapshot[p])) <= Rank(latest)
    BY <1>2 DEF Chain, TameProxy, Tame, Leads, Pending
  <2> QED
    BY <1>1, <2>1, RankFacts
<1>5. e > latest[2] /\ e > 0
  BY <1>1, DateTypes DEF Later
<1>6. ASSUME NEW b \in Bindings, NEW i \in Nat, i <= latest[2], Dated(b, i)
      PROVE  ~Survives(b, e)
  <2>1. Dated(b, latest[2])
    BY <1>1, <1>6, DateTypes, DatedLater
  <2>2. b.at \in Nat
    BY DEF Bindings
  <2> QED
    BY <1>1, <1>5, <2>1, <2>2, DateTypes DEF Dated, Survives, Later
<1>7. ~Survives(sidecar.binding, e) /\ ~Survives(stateFile, e)
      /\ \A c \in Commands : ~Survives(view[c], e)
  BY <1>3, <1>6, DateTypes DEF DateInv, Good
<1>8. ASSUME NEW p \in Proxies
      PROVE  ~Survives(memory[p].binding, e) /\ ~Survives(snapshot[p].binding, e)
  <2>1. ProxyDates(p)
    BY DEF DateInv
  <2>2. ~Survives(memory[p].binding, e)
    BY <1>3, <1>4, <1>6, <2>1, DateTypes DEF ProxyDates
  <2>3. /\ Later(snapshot[p].epoch, sidecar.epoch) \in Nat
        /\ Later(snapshot[p].epoch, sidecar.epoch) <= latest[2]
    BY <1>3, <1>4, DateTypes DEF Later
  <2>4. ~Survives(snapshot[p].binding, e)
    BY <1>6, <2>1, <2>3, DateTypes DEF ProxyDates
  <2> QED
    BY <2>2, <2>4
<1> QED
  BY <1>5, <1>7, <1>8

(* The views a request makes.                                              *)
Follows(r, s) ==
  \/ View(s) = latest
  \/ s = Released(memory[server[r]])
  \/ /\ latest[1] = NoProfile
     /\ chosen[r] \in Profiles /\ View(s) = <<chosen[r], latest[2]>>

LEMMA BeginTurn ==
  ASSUME TypeOK, DateInv, Chain, Turn, NEW r \in Requests, Begin(r), ~disturbed'
  PROVE  /\ View(memory[server[r]]) = latest
         /\ \E s : Update(r, s) /\ Rewrites(r, s) /\ Follows(r, s)
         /\ Turn'
<1>1. PICK p \in Proxies : p = server[r]
  BY DEF TypeOK
<1>2. ~Disturbs(r)
  BY DEF Begin
<1>3. View(memory[p]) = latest /\ \A q \in Requests \ {r} : ~InProgress(q)
  BY <1>1, <1>2 DEF Disturbs
<1>4. memory[p].binding.owner = latest[1] /\ latest[1] # Conflict
  BY <1>3, DateTypes, StoreFields DEF Chain
<1>5. Update(r, Touched(memory[p]))
  BY <1>1, <1>4 DEF Begin
<1>6. View(Touched(memory[p])) = latest
  <2>1. Good(memory[p])
    BY <1>1, RequestServed DEF DateInv, ProxyDates, Good
  <2> QED
    BY <1>3, <2>1, DateTypes, TouchedFacts
<1>7. /\ owner'[r] = latest[1] /\ request'[r] = "choosing"
      /\ \A q \in Requests \ {r} : request'[q] = request[q]
  BY <1>1, <1>4 DEF Begin, TypeOK
<1>8. latest' = latest /\ server' = server /\ memory'[p] = Touched(memory[p])
  BY <1>1, <1>5, <1>6 DEF Update, TypeOK
<1>9. Turn'
  BY <1>1, <1>3, <1>6, <1>7, <1>8 DEF Turn, InProgress
<1> QED
  BY <1>1, <1>3, <1>5, <1>6, <1>9 DEF Rewrites, Follows

LEMMA TurnUpdate ==
  ASSUME TypeOK, Turn, NEW r \in Requests, InProgress(r), NEW s, Update(r, s),
         \A q \in Requests \ {r} : request'[q] = request[q],
         request'[r] = "choosing" => View(s)[1] \in {NoProfile, owner'[r]},
         request'[r] = "trying" => View(s)[1] \in {NoProfile, chosen'[r]}
  PROVE  Turn'
<1>1. PICK p \in Proxies : p = server[r]
  BY DEF TypeOK
<1>2. server' = server /\ memory'[p] = s /\ latest' = View(s)
  BY <1>1 DEF Update, TypeOK
<1>3. \A q \in Requests \ {r} : ~InProgress(q)'
  BY DEF Turn, InProgress
<1> QED
  BY <1>1, <1>2, <1>3 DEF Turn, InProgress

LEMMA RequestTurn ==
  ASSUME TypeOK, DateInv, Chain, Turn, NEW r \in Requests, Select(r) \/ Fail(r) \/ Commit(r)
  PROVE  /\ View(memory[server[r]]) = latest
         /\ \E s : Update(r, s) /\ Rewrites(r, s) /\ Follows(r, s)
         /\ Turn'
<1>1. PICK p \in Proxies : p = server[r]
  BY DEF TypeOK
<1>2. InProgress(r) /\ View(memory[p]) = latest
  BY <1>1 DEF Select, Fail, Commit, InProgress, Turn
<1>3. memory[p].binding.owner = latest[1] /\ memory[p].epoch = latest[2]
      /\ memory[p] \in Stores
  BY <1>2, DateTypes, StoreFields
<1>4. View(Released(memory[p]))[1] = NoProfile
  BY DEF View, Released, Unbound
<1>5. CASE Select(r)
  <2>1. PICK profile \in Profiles :
          /\ Update(r, IF profile = owner[r] THEN memory[p]
                       ELSE ReleasedFrom(memory[p], owner[r]))
          /\ chosen'[r] = profile /\ request'[r] = "trying"
    BY <1>1, <1>5 DEF Select, TypeOK
  <2>2. latest[1] \in {NoProfile, owner[r]} /\ owner[r] \in Profiles \cup {NoProfile}
    BY <1>5 DEF Select, Turn, InProgress, TypeOK
  <2>3. \A q \in Requests \ {r} : request'[q] = request[q]
    BY <1>5 DEF Select, TypeOK
  <2>4. CASE profile = owner[r]
    <3>1. Update(r, memory[p])
      BY <2>1, <2>4
    <3>2. Turn'
      BY <1>2, <2>1, <2>2, <2>3, <2>4, <3>1, TurnUpdate
    <3> QED
      BY <1>1, <1>2, <3>1, <3>2 DEF Rewrites, Follows
  <2>5. CASE /\ profile # owner[r] /\ owner[r] \in Profiles
             /\ memory[p].binding.owner = owner[r]
    <3>1. Update(r, Released(memory[p]))
      BY <2>1, <2>5 DEF ReleasedFrom
    <3>2. Turn'
      BY <1>2, <1>4, <2>1, <2>3, <3>1, TurnUpdate
    <3> QED
      BY <1>1, <1>2, <3>1, <3>2 DEF Rewrites, Follows
  <2>6. CASE /\ profile # owner[r]
             /\ ~(owner[r] \in Profiles /\ memory[p].binding.owner = owner[r])
    <3>1. Update(r, memory[p])
      BY <2>1, <2>6 DEF ReleasedFrom
    <3>2. latest[1] = NoProfile
      BY <1>3, <2>2, <2>6
    <3>3. Turn'
      BY <1>2, <2>1, <2>3, <3>1, <3>2, TurnUpdate
    <3> QED
      BY <1>1, <1>2, <3>1, <3>3 DEF Rewrites, Follows
  <2> QED
    BY <2>4, <2>5, <2>6
<1>6. CASE Fail(r)
  <2>1. /\ Update(r, ReleasedFrom(memory[p], chosen[r]))
        /\ chosen[r] \in Profiles /\ latest[1] \in {NoProfile, chosen[r]}
    BY <1>1, <1>6 DEF Fail, Turn, InProgress, TypeOK
  <2>2. \A q \in Requests \ {r} : request'[q] = request[q]
    BY <1>6 DEF Fail, Finish, TypeOK
  <2>3. CASE memory[p].binding.owner = chosen[r]
    <3>1. Update(r, Released(memory[p]))
      BY <2>1, <2>3 DEF ReleasedFrom
    <3>2. Turn'
      BY <1>2, <1>4, <2>2, <3>1, TurnUpdate
    <3> QED
      BY <1>1, <1>2, <3>1, <3>2 DEF Rewrites, Follows
  <2>4. CASE memory[p].binding.owner # chosen[r]
    <3>1. Update(r, memory[p]) /\ latest[1] = NoProfile
      BY <1>3, <2>1, <2>4 DEF ReleasedFrom
    <3>2. Turn'
      BY <1>2, <2>2, <3>1, TurnUpdate
    <3> QED
      BY <1>1, <1>2, <3>1, <3>2 DEF Rewrites, Follows
  <2> QED
    BY <2>3, <2>4
<1>7. CASE Commit(r)
  <2>1. PICK refresh \in BOOLEAN : Update(r, Remembered(memory[p], chosen[r], refresh))
    BY <1>1, <1>7 DEF Commit
  <2> DEFINE s == Remembered(memory[p], chosen[r], refresh)
  <2>2. chosen[r] \in Profiles /\ latest[1] \in {NoProfile, chosen[r]}
    BY <1>7 DEF Commit, Turn, InProgress, TypeOK
  <2>3. request'[r] = "over" /\ \A q \in Requests \ {r} : request'[q] = request[q]
    BY <1>7 DEF Commit, Finish, TypeOK
  <2>4. Good(memory[p])
    BY <1>1, RequestServed DEF DateInv, ProxyDates, Good
  <2>5. s.epoch = latest[2] /\ s.binding.owner = chosen[r]
    BY <1>3, <2>2, <2>4, DateTypes, RememberedFacts
  <2>6. Rewrites(r, s)
    BY <1>1, <2>2 DEF Rewrites
  <2>7. Update(r, s)
    BY <2>1
  <2> HIDE DEF s
  <2>8. Follows(r, s)
    <3>1. View(s) = <<chosen[r], latest[2]>> /\ latest = <<latest[1], latest[2]>>
      BY <2>5, DateTypes DEF View
    <3> QED
      BY <2>2, <3>1 DEF Follows
  <2>9. Turn'
    BY <1>2, <2>3, <2>7, TurnUpdate
  <2> QED
    BY <1>1, <1>2, <2>6, <2>7, <2>8, <2>9
<1> QED
  BY <1>5, <1>6, <1>7

LEMMA ChainRequest ==
  ASSUME TypeOK, DateInv, Chain, Turn, NEW r \in Requests,
         Begin(r) \/ Select(r) \/ Fail(r) \/ Commit(r), ~disturbed'
  PROVE  Chain' /\ Turn'
<1>0. PICK p \in Proxies : p = server[r]
  BY DEF TypeOK
<1>1. /\ View(memory[p]) = latest /\ Turn'
      /\ \E s : Update(r, s) /\ Rewrites(r, s) /\ Follows(r, s)
  BY <1>0, BeginTurn, RequestTurn
<1>2. PICK s : Update(r, s) /\ Rewrites(r, s) /\ Follows(r, s)
  BY <1>1
<1>3. Running(p) /\ Good(memory[p])
  BY <1>0, RequestServed DEF DateInv, ProxyDates, Good
<1>4. Good(s) /\ s \in Stores
  BY <1>0, <1>2, <1>3, RewrittenGood
<1>5. /\ UNCHANGED <<sidecar, stateFile, view, snapshot, proxy>>
      /\ memory'[p] = s /\ \A q \in Proxies \ {p} : memory'[q] = memory[q]
      /\ latest' = View(s)
  BY <1>0, <1>2 DEF Update, files, cmds, TypeOK
<1>6. /\ latest \in Owners \X Nat /\ latest[2] \in Nat /\ latest[1] # Conflict
      /\ memory[p].epoch = latest[2] /\ View(s) \in Owners \X Nat
      /\ View(s)[1] = s.binding.owner /\ View(s)[2] = s.epoch
  BY <1>1, <1>4, DateTypes, StoreFields DEF Chain
<1>7. CASE View(s) = latest
  BY <1>1, <1>3, <1>4, <1>5, <1>6, <1>7, ChainUpdate
<1>8. CASE s = Released(memory[p])
  <2>1. /\ s.binding = Unbound /\ s.epoch \in Nat
        /\ s.epoch > latest[2] /\ s.epoch >= Later(now, latest[2] + 1)
    BY <1>3, <1>4, <1>6, <1>8, DateTypes, StoreFields, ReleasedFacts
  <2>2. Rank(View(s)) > Rank(latest) /\ s.binding.owner # Conflict
    BY <1>6, <2>1, RankFacts, SessionAssumption DEF Unbound
  <2>3. FilesYield(View(s)) /\ \A q \in Proxies : ProxyYields(q, View(s))
    BY <1>6, <2>1, ReleaseFences DEF FilesYield, ProxyYields, Yields
  <2> QED
    BY <1>1, <1>3, <1>4, <1>5, <2>2, <2>3, ChainUpdate
<1>9. CASE latest[1] = NoProfile /\ chosen[r] \in Profiles /\ View(s) = <<chosen[r], latest[2]>>
  <2>1. s.binding.owner \in Profiles /\ s.epoch = latest[2]
    BY <1>6, <1>9
  <2>2. Rank(View(s)) > Rank(latest) /\ s.binding.owner # Conflict
    <3>1. s.binding.owner # NoProfile /\ s.binding.owner # Conflict
      BY <2>1, SessionAssumption
    <3>2. Rank(View(s)) = 2 * latest[2] + 1 /\ Rank(latest) = 2 * latest[2] + 0
      BY <1>6, <1>9, <2>1, <3>1 DEF Rank
    <3> QED
      BY <1>6, <3>1, <3>2
  <2>3. \A b : Yields(b, latest) => Yields(b, View(s))
    BY <1>6, <1>9, <2>1 DEF Yields
  <2>4. FilesYield(View(s)) /\ \A q \in Proxies : ProxyYields(q, View(s))
    BY <2>3 DEF Chain, FilesYield, ProxyYields
  <2> QED
    BY <1>1, <1>3, <1>4, <1>5, <2>2, <2>4, ChainUpdate
<1> QED
  BY <1>0, <1>2, <1>7, <1>8, <1>9 DEF Follows

(* The other steps leave requests, and what they work on, alone.           *)
LEMMA TurnKept ==
  ASSUME TypeOK, Served, Turn, UNCHANGED <<request, server, owner, chosen, latest>>,
         \A p \in Proxies : Running(p) => memory'[p] = memory[p]
  PROVE  Turn'
<1>1. \A r \in Requests : InProgress(r) => memory'[server[r]] = memory[server[r]]
  BY DEF Served, TypeOK
<1> QED
  BY <1>1 DEF Turn, InProgress

LEMMA TurnExit ==
  ASSUME TypeOK, Served, Turn, NEW p \in Proxies, Exit(p)
  PROVE  Turn'
<1>1. /\ server' = server /\ \A q \in Proxies \ {p} : memory'[q] = memory[q]
      /\ latest' = IF \E q \in Proxies \ {p} : Running(q) /\ View(memory[q]) = latest
                   THEN latest ELSE View(sidecar)
      /\ \A r \in Requests :
           InProgress(r)' => /\ InProgress(r) /\ server[r] # p
                             /\ request'[r] = request[r]
                             /\ owner'[r] = owner[r] /\ chosen'[r] = chosen[r]
  BY DEF Exit, Finish, InProgress, TypeOK
<1> SUFFICES ASSUME NEW r \in Requests, InProgress(r)'
             PROVE  /\ View(memory[server[r]])' = latest'
                    /\ \A q \in Requests \ {r} : ~InProgress(q)'
                    /\ request'[r] = "choosing" => latest'[1] \in {NoProfile, owner'[r]}
                    /\ request'[r] = "trying" => latest'[1] \in {NoProfile, chosen'[r]}
  BY DEF Turn
<1>2. server[r] \in Proxies \ {p} /\ Running(server[r]) /\ View(memory[server[r]]) = latest
  BY <1>1 DEF Served, Turn, TypeOK
<1>3. latest' = latest
  BY <1>1, <1>2
<1> QED
  BY <1>1, <1>2, <1>3 DEF Turn

SessionInv == TypeOK /\ DateInv /\ (~disturbed => Chain /\ Turn)

LEMMA SessionInit == Init => SessionInv
<1> SUFFICES ASSUME Init PROVE SessionInv
  OBVIOUS
<1>1. TypeOK /\ DateInv
  BY TypeInit, DateInit
<1>2. /\ stateFile = sidecar.binding /\ latest = View(sidecar)
      /\ \A c \in Commands : view[c] = Unbound
      /\ \A p \in Proxies : memory[p] = Empty /\ snapshot[p] = Empty
      /\ Empty.binding = Unbound /\ Unbound.owner = NoProfile
  BY NothingDated DEF Init, Unbound
<1>3. /\ View(sidecar) \in Owners \X Nat /\ Rank(View(sidecar)) \in Nat
      /\ View(sidecar)[1] = sidecar.binding.owner
      /\ View(Empty) \in Owners \X Nat /\ View(Empty) = <<NoProfile, 0>>
  BY <1>1, <1>2, DateTypes, StoreFields, RankFacts, OperatorTypes, NothingDated DEF View
<1>4. sidecar.binding.owner # Conflict
  <2>1. CASE sidecar = Empty
    BY <1>2, <2>1, SessionAssumption
  <2>2. ASSUME NEW profile \in Profiles, sidecar = Remembered(Empty, profile, TRUE)
        PROVE  sidecar.binding.owner # Conflict
    <3>1. TRUE \in BOOLEAN /\ Empty \in Stores /\ Good(Empty) /\ now \in Nat /\ now > 0
      BY <1>1, OperatorTypes, NothingDated, DateTypes DEF Good
    <3>2. Remembered(Empty, profile, TRUE).binding.owner = profile
      BY <1>2, <3>1, RememberedFacts
    <3> QED
      BY <2>2, <3>2, SessionAssumption
  <2> QED
    BY <2>1, <2>2 DEF Init
<1>5. FilesYield(View(sidecar)) /\ \A p \in Proxies : ProxyYields(p, View(sidecar))
  BY <1>2, <1>3 DEF FilesYield, ProxyYields, Yields
<1>6. Rank(View(Empty)) <= Rank(View(sidecar))
  BY <1>3, <1>1, DateTypes, RankFacts DEF Rank
<1>7. \A p \in Proxies : TameProxy(p)
  BY <1>2, <1>5, <1>6 DEF TameProxy, Tame, ProxyYields
<1>8. Plain
  BY <1>2, <1>4, SessionAssumption DEF Plain
<1>9. Chain
  BY <1>2, <1>3, <1>4, <1>5, <1>7, <1>8 DEF Chain
<1>10. Turn
  BY DEF Init, Turn, InProgress
<1> QED
  BY <1>1, <1>9, <1>10 DEF SessionInv

LEMMA SessionNext == SessionInv /\ [Next]_vars => SessionInv'
<1> SUFFICES ASSUME SessionInv, [Next]_vars PROVE SessionInv'
  OBVIOUS
<1>1. TypeOK /\ DateInv /\ TypeOK' /\ DateInv' /\ Served
  BY TypeNext, DateNext DEF SessionInv, DateInv
<1> SUFFICES ASSUME ~disturbed' PROVE Chain' /\ Turn'
  BY <1>1 DEF SessionInv
<1>2. CASE UNCHANGED vars
  <2>1. Chain /\ Turn /\ UNCHANGED <<sidecar, stateFile, view, memory, snapshot, latest, proxy>>
        /\ UNCHANGED <<request, server, owner, chosen>>
    BY <1>2 DEF vars, files, proxies, jobs, cmds, reqs, history, SessionInv
  <2>2. \A p \in Proxies : Running(p) => Running(p)'
    BY <2>1 DEF Running
  <2> QED
    BY <1>1, <2>1, <2>2, ChainIdle, TurnKept
<1>3. CASE Next
  <2>1. Chain /\ Turn
    <3>2. disturbed => disturbed'
      BY <1>3 DEF Next, Tick, LoadCommand, SaveCommand, ReadLaunchState, TryOwn, ReadState, Restore,
        Promote, ReadLive, SaveSidecar, SaveState, FailSave, Stop, Exit, Begin, Select, Fail,
        Commit, history
    <3> QED
      BY <3>2 DEF SessionInv
  <2>2. CASE Tick
    <3>1. Chain'
      BY <1>1, <2>1, <2>2, ChainRest
    <3>2. Turn'
      BY <1>1, <2>1, <2>2, TurnKept DEF Tick, proxies, reqs, history
    <3> QED
      BY <3>1, <3>2
  <2>3. ASSUME NEW c \in Commands, LoadCommand(c) \/ SaveCommand(c) PROVE Chain' /\ Turn'
    <3>1. Chain'
      BY <1>1, <2>1, <2>3, ChainCommand
    <3>2. UNCHANGED <<request, server, owner, chosen, latest, memory>>
      BY <2>3 DEF LoadCommand, SaveCommand, proxies, reqs, history
    <3> QED
      BY <1>1, <2>1, <3>1, <3>2, TurnKept
  <2>4. ASSUME NEW p \in Proxies,
               \/ ReadLaunchState(p) \/ TryOwn(p) \/ ReadState(p) \/ Restore(p) \/ Promote(p)
               \/ ReadLive(p) \/ SaveSidecar(p) \/ SaveState(p) \/ FailSave(p) \/ Stop(p)
        PROVE  Chain' /\ Turn'
    <3>1. Chain'
      BY <1>1, <2>1, <2>4, ChainStart, ChainRest, ChainSnapshot, ChainSidecar, ChainState
    <3>2. UNCHANGED <<request, server, owner, chosen, latest>>
      BY <2>4 DEF ReadLaunchState, TryOwn, ReadState, Restore, Promote, ReadLive, SaveSidecar,
        SaveState, FailSave, Stop, reqs, history
    <3>3. \A q \in Proxies : Running(q) => memory'[q] = memory[q]
      BY <1>1, <2>4 DEF ReadLaunchState, TryOwn, ReadState, Restore, Promote, ReadLive, SaveSidecar,
        SaveState, FailSave, Stop, Moves, proxies, Running, TypeOK
    <3> QED
      BY <1>1, <2>1, <3>1, <3>2, <3>3, TurnKept
  <2>5. ASSUME NEW p \in Proxies, Exit(p) PROVE Chain' /\ Turn'
    BY <1>1, <2>1, <2>5, ChainExit, TurnExit
  <2>6. ASSUME NEW r \in Requests, Begin(r) \/ Select(r) \/ Fail(r) \/ Commit(r)
        PROVE  Chain' /\ Turn'
    BY <1>1, <2>1, <2>6, ChainRequest
  <2> QED
    BY <1>3, <2>2, <2>3, <2>4, <2>5, <2>6 DEF Next
<1> QED
  BY <1>2, <1>3

(* Whatever has a view the proxy of the latest one has not outrun merges   *)
(* into it.                                                                *)
LEMMA PreviousView ==
  ASSUME TypeOK, DateInv, Chain, NEW p \in Proxies, NEW q \in Proxies, View(memory[p]) = latest,
         \/ View(Merge(sidecar, snapshot[q])) = View(sidecar)
         \/ /\ View(Merge(sidecar, snapshot[q])) = View(snapshot[q])
            /\ Rank(View(snapshot[q])) <= Rank(latest)
  PROVE  View(Merge(Merge(sidecar, snapshot[q]), memory[p])) = latest
<1> DEFINE m == Merge(sidecar, snapshot[q])
<1>1. m \in Stores
  BY DateTypes, MergeFields
<1>2. /\ latest \in Owners \X Nat
      /\ View(m)[1] = m.binding.owner /\ View(m)[2] = m.epoch /\ View(m) \in Owners \X Nat
      /\ View(memory[p])[2] = memory[p].epoch
      /\ View(sidecar)[1] = sidecar.binding.owner
      /\ View(snapshot[q])[1] = snapshot[q].binding.owner
  BY <1>1, DateTypes, StoreFields
<1>3. m.binding.owner # Conflict /\ Rank(View(m)) <= Rank(latest)
  BY <1>2 DEF Chain, Plain
<1>4. m.epoch <= memory[p].epoch
  BY <1>2, <1>3, RankFacts
<1>5. Yields(m.binding, latest)
  BY <1>2, <1>3, DateTypes, MergeYields DEF Chain, FilesYield, ProxyYields
<1>6. Sound(memory[p])
  BY DEF DateInv, ProxyDates
<1> HIDE DEF m
<1> QED
  BY <1>1, <1>4, <1>5, <1>6, DateTypes, MergeView DEF m

(* A rotation is never undone: no copy of the session's binding is a       *)
(* conflict, and what the pending saves leave in the sidecar merges into   *)
(* the view of the proxy that rotated last.                                *)
THEOREM RotationAlwaysPrevails == Spec => []RotationPrevails
<1>1. ASSUME SessionInv PROVE RotationPrevails
  <2> SUFFICES ASSUME ~disturbed
               PROVE  /\ Plain
                      /\ \A p, q \in Proxies : Running(p) /\ View(memory[p]) = latest =>
                           View(Merge(Merge(sidecar, snapshot[q]), memory[p])) = latest
    BY DEF RotationPrevails, Plain
  <2>1. TypeOK /\ DateInv /\ Chain /\ Plain
    BY <1>1 DEF SessionInv, Chain
  <2>2. ASSUME NEW p \in Proxies, NEW q \in Proxies, View(memory[p]) = latest
        PROVE  View(Merge(Merge(sidecar, snapshot[q]), memory[p])) = latest
    <3> DEFINE m == Merge(sidecar, snapshot[q])
    <3>1. Sound(sidecar) /\ Sound(snapshot[q]) /\ Sound(memory[p])
      BY <2>1 DEF DateInv, ProxyDates, Good
    <3>2. /\ latest \in Owners \X Nat /\ View(sidecar) \in Owners \X Nat
          /\ View(snapshot[q]) \in Owners \X Nat
          /\ View(snapshot[q])[2] = snapshot[q].epoch /\ View(sidecar)[2] = sidecar.epoch
          /\ Rank(latest) \in Nat /\ Rank(View(sidecar)) \in Nat /\ Rank(View(snapshot[q])) \in Nat
      BY <2>1, DateTypes, StoreFields, RankFacts
    <3>3. CASE Tame(snapshot[q])
      <4>1. snapshot[q].epoch <= sidecar.epoch
        BY <3>2, <3>3, RankFacts DEF Tame
      <4>2. View(m) = View(sidecar)
        BY <2>1, <3>1, <3>3, <4>1, DateTypes, MergeView DEF Tame
      <4> QED
        BY <2>1, <2>2, <3>1, <3>2, <4>2, PreviousView
    <3>4. CASE ~Tame(snapshot[q])
      <4>1. Pending(q)
        BY <2>1, <3>4 DEF Chain, Leads, TameProxy
      <4>2. sidecar.epoch <= snapshot[q].epoch
        BY <3>2, <4>1, RankFacts DEF Pending
      <4>3. View(m) = View(snapshot[q])
        BY <2>1, <3>1, <4>1, <4>2, DateTypes, MergeView DEF Pending, FilesYield
      <4> QED
        BY <2>1, <2>2, <3>1, <3>2, <4>1, <4>3, PreviousView DEF Pending
    <3> QED
      BY <3>3, <3>4
  <2> QED
    BY <2>1, <2>2
<1> QED
  BY <1>1, SessionInit, SessionNext, PTL DEF Spec

(* A request that drops a binding releases it.                             *)
LEMMA DropsRelease ==
  ASSUME TypeOK, DateInv, [Next]_vars, NEW p \in Proxies, Running(p), Running(p)',
         memory[p].binding.owner # NoProfile, memory'[p].binding.owner = NoProfile
  PROVE  /\ Good(memory[p]) /\ memory'[p] = Released(memory[p])
         /\ \E r \in Requests : /\ server[r] = p
                                /\ \/ Begin(r) /\ memory[p].binding.owner = Conflict
                                   \/ Select(r) \/ Fail(r) \/ Commit(r)
<1>1. Good(memory[p]) /\ memory'[p] # memory[p]
  BY DEF DateInv, ProxyDates, Good
<1>2. PICK r \in Requests : Begin(r) \/ Select(r) \/ Fail(r) \/ Commit(r)
  <2>1. ~UNCHANGED vars /\ ~Tick
    BY <1>1 DEF vars, proxies, Tick
  <2>2. \A c \in Commands : ~LoadCommand(c) /\ ~SaveCommand(c)
    BY <1>1 DEF LoadCommand, SaveCommand, proxies
  <2>3. ASSUME NEW q \in Proxies
        PROVE  /\ ~ReadLaunchState(q) /\ ~TryOwn(q) /\ ~ReadState(q) /\ ~Restore(q) /\ ~Promote(q)
               /\ ~ReadLive(q) /\ ~SaveSidecar(q) /\ ~SaveState(q) /\ ~FailSave(q)
               /\ ~Stop(q) /\ ~Exit(q)
    BY <1>1 DEF ReadLaunchState, TryOwn, ReadState, Restore, Promote, ReadLive, SaveSidecar,
      SaveState, FailSave, Stop, Exit, Moves, Running, proxies, TypeOK
  <2> QED
    BY <2>1, <2>2, <2>3 DEF Next
<1>3. PICK s : Update(r, s) /\ Rewrites(r, s)
  BY <1>2, RequestUpdates
<1>4. server[r] = p /\ memory'[p] = s
  BY <1>1, <1>3 DEF Update, TypeOK
<1>5. s.binding.owner = NoProfile /\ s # memory[p]
  BY <1>1, <1>4
<1>6. memory[p] \in Stores /\ now \in Nat /\ now > 0
  BY DateTypes
<1>7. View(Touched(memory[p])) = View(memory[p]) /\ Touched(memory[p]) \in Stores
  BY <1>1, <1>6, TouchedFacts, RequestTypes
<1>8. s # Touched(memory[p])
  BY <1>5, <1>6, <1>7, StoreFields
<1>9. s = Released(memory[p])
  <2>1. ASSUME chosen[r] \in Profiles, NEW refresh \in BOOLEAN,
               s = Remembered(memory[p], chosen[r], refresh)
        PROVE  FALSE
    BY <1>1, <1>5, <1>6, <2>1, RememberedFacts
  <2> QED
    BY <1>3, <1>4, <1>5, <1>8, <2>1 DEF Rewrites
<1>10. Begin(r) => memory[p].binding.owner = Conflict
  <2>1. Begin(r) => memory'[p] = Touched(memory[p]) \/ memory[p].binding.owner = Conflict
    BY <1>4 DEF Begin, Update, TypeOK
  <2> QED
    BY <1>4, <1>8, <2>1
<1> QED
  BY <1>1, <1>2, <1>4, <1>9, <1>10

(* A release fences every copy of the binding it drops, however many       *)
(* events a second the clocks of their proxies count.                      *)
THEOREM ReleasesAlwaysFence == Spec => ReleasesFence
<1> DEFINE Fences ==
      \A p \in Proxies :
        LET old    == memory[p].binding
            copies == {old} \cup IF disturbed THEN {} ELSE {b \in Copies : b.owner = old.owner}
        IN  Running(p) /\ Running(p)'
              /\ old.owner # NoProfile /\ memory'[p].binding.owner = NoProfile
            => \A b \in copies : ~Survives(b, memory'[p].epoch)
<1>1. ASSUME SessionInv, [Next]_vars PROVE Fences
  <2> SUFFICES ASSUME NEW p \in Proxies, Running(p), Running(p)',
                      memory[p].binding.owner # NoProfile, memory'[p].binding.owner = NoProfile
               PROVE  /\ ~Survives(memory[p].binding, memory'[p].epoch)
                      /\ ~disturbed => \A b \in Copies : ~Survives(b, memory'[p].epoch)
    OBVIOUS
  <2>1. TypeOK /\ DateInv
    BY <1>1 DEF SessionInv
  <2>2. /\ Good(memory[p]) /\ memory'[p] = Released(memory[p])
        /\ \E r \in Requests : /\ server[r] = p
                               /\ \/ Begin(r) /\ memory[p].binding.owner = Conflict
                                  \/ Select(r) \/ Fail(r) \/ Commit(r)
    BY <1>1, <2>1, DropsRelease
  <2> DEFINE e == memory'[p].epoch
  <2>3. /\ e \in Nat /\ e >= Later(now, memory[p].epoch + 1) /\ e > 0
        /\ memory[p].binding.at \in Nat /\ memory[p].epoch \in Nat /\ now \in Nat
    <3>1. Released(memory[p]) \in Stores
      BY <2>1, DateTypes, RequestTypes
    <3> QED
      BY <2>1, <2>2, <3>1, DateTypes, StoreFields, ReleasedFacts
  <2> HIDE DEF e
  <2>4. ~Survives(memory[p].binding, e)
    BY <2>2, <2>3 DEF Good, Dated, Survives, Later
  <2>5. ASSUME ~disturbed PROVE \A b \in Copies : ~Survives(b, e)
    <3>1. Chain /\ Turn
      BY <1>1, <2>5 DEF SessionInv
    <3>2. PICK r \in Requests : server[r] = p /\ (Select(r) \/ Fail(r) \/ Commit(r))
      BY <2>2, <3>1 DEF Chain, Plain
    <3>3. View(memory[p]) = latest
      BY <3>2 , <3>1 DEF Select, Fail, Commit, Turn, InProgress
    <3>4. e >= Later(now, latest[2] + 1)
      BY <2>1, <2>3, <3>3, DateTypes, StoreFields
    <3> QED
      BY <2>1, <2>3, <3>1, <3>4, ReleaseFences DEF Copies
  <2> QED
    BY <2>4, <2>5 DEF e
<1>2. SessionInv /\ [Next]_vars => [Fences]_vars
  BY <1>1
<1> QED
  BY <1>2, SessionInit, SessionNext, PTL DEF Spec, ReleasesFence
=============================================================================
