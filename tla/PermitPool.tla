----------------------------- MODULE PermitPool -----------------------------
(***************************************************************************)
(* What request admission promises, without counters, locks or threads.    *)
(* A request holds a permit or it does not.  A permit is granted only      *)
(* while the proxy-wide limit leaves room and, except for a request that   *)
(* may bypass it, only while its lane leaves room.  RuntimeAdmission       *)
(* implements this module.                                                 *)
(***************************************************************************)
EXTENDS Naturals, FiniteSets

CONSTANTS
  Requests,     \* the requests
  Lanes,        \* the route kinds
  LaneOf,       \* the lane of each request
  MayBypass,    \* the requests that may be admitted over their lane's limit
  ActiveLimit,  \* active_request_limit
  LaneLimit     \* the limit of each lane

VARIABLES
  holders,      \* the requests that hold a permit
  bypassed      \* the holders that were admitted over their lane's limit

poolVars == <<holders, bypassed>>

InLane(S, l) == {r \in S : LaneOf[r] = l}

PoolInit == holders = {} /\ bypassed = {}

Admit(r) ==
  /\ r \notin holders
  /\ Cardinality(holders) < ActiveLimit
  /\ holders' = holders \cup {r}
  /\ \/ /\ Cardinality(InLane(holders, LaneOf[r])) < LaneLimit[LaneOf[r]]
        /\ UNCHANGED bypassed
     \/ /\ r \in MayBypass
        /\ bypassed' = bypassed \cup {r}

Release(r) ==
  /\ r \in holders
  /\ holders' = holders \ {r}
  /\ bypassed' = bypassed \ {r}

PoolNext == \E r \in Requests : Admit(r) \/ Release(r)

PoolSpec == PoolInit /\ [][PoolNext]_poolVars

=============================================================================
