------------------------- MODULE ProxyIngressProofs -------------------------
(***************************************************************************)
(* Proofs about ProxyIngress for any number of requests, lanes, acceptors, *)
(* workers and reapers, and for any capacity.                              *)
(***************************************************************************)
EXTENDS ProxyIngress, SequenceTheorems, FiniteSetTheorems, WellFoundedInduction, TLAPS

(* The acceptors that hold a request they have not yet queued or refused.  *)
Arriving == {a \in Acceptors : pc[a] = "dispatch"}

JobInv ==
  \A a \in Acceptors : pc[a] \in {"dispatch", "reject"} => job[a] \in Requests

(* A request is handed out once, so it stands in at most one place.        *)
OnceInv ==
  /\ \A a \in Arriving : job[a] \in received
  /\ \A a, b \in Arriving : a # b => job[a] # job[b]
  /\ \A l \in Lanes : \A i \in 1..Len(queue[l]) :
       /\ queue[l][i] \in received
       /\ \A a \in Arriving : queue[l][i] # job[a]
       /\ \A j \in 1..Len(queue[l]) : i # j => queue[l][i] # queue[l][j]

(* The inductive invariant: the types, the requests that acceptors hold,   *)
(* and one awake worker for each queued request that others sleep beside.  *)
IInv ==
  /\ TypeOK
  /\ JobInv
  /\ OnceInv
  /\ NoSleepBesideWork

-----------------------------------------------------------------------------
(* Induction over the naturals, for a set in the place of a predicate: a   *)
(* least number outside of the set would follow one inside.                *)
LEMMA SetInduction ==
  ASSUME NEW T, 0 \in T, \A n \in Nat : n \in T => n + 1 \in T
  PROVE  Nat \subseteq T
<1> SUFFICES ASSUME Nat \ T # {} PROVE FALSE
  OBVIOUS
<1> DEFINE R == OpToRel(<, Nat)
<1>1. IsWellFoundedOn(R, Nat)
  BY NatLessThanWellFounded
<1>2. \A y, m \in Nat : y < m => <<y, m>> \in R
  BY DEF OpToRel
<1> HIDE DEF R
<1>3. PICK m \in Nat \ T : \A y \in Nat \ T : ~(<<y, m>> \in R)
  BY <1>1, WFMin
<1>4. m # 0 /\ m - 1 \in Nat /\ m - 1 < m /\ (m - 1) + 1 = m
  BY <1>3
<1> QED
  BY <1>2, <1>3, <1>4

(* A nonempty set of positions has a last one.                             *)
LEMMA LastPosition ==
  \A n \in Nat : \A S \in SUBSET (1..n) : S # {} => \E x \in S : \A y \in S : y <= x
<1> DEFINE HasLast(S) == S # {} => \E x \in S : \A y \in S : y <= x
           T == {n \in Nat : \A S \in SUBSET (1..n) : HasLast(S)}
<1>1. 0 \in T
  <2>1. 1..0 = {}
    OBVIOUS
  <2> QED
    BY <2>1
<1>2. ASSUME NEW n \in Nat, n \in T PROVE n + 1 \in T
  <2> SUFFICES ASSUME NEW S \in SUBSET (1..n+1) PROVE HasLast(S)
    OBVIOUS
  <2>1. CASE n + 1 \in S
    BY <2>1
  <2>2. CASE n + 1 \notin S
    <3>1. S \in SUBSET (1..n)
      BY <2>2
    <3> QED
      BY <1>2, <3>1
  <2> QED
    BY <2>1, <2>2
<1> HIDE DEF T
<1>3. Nat \subseteq T
  BY <1>1, <1>2, SetInduction
<1> QED
  BY <1>3 DEF T

(* A set of positions can be counted.                                      *)
LEMMA PositionsFinite ==
  ASSUME NEW m \in Nat, NEW S \in SUBSET (1..m)
  PROVE  IsFiniteSet(S) /\ Cardinality(S) \in Nat /\ Cardinality(S) <= m
<1>1. IsFiniteSet(1..m) /\ Cardinality(1..m) = m
  BY FS_Interval
<1>2. IsFiniteSet(S) /\ Cardinality(S) <= m
  BY <1>1, FS_Subset
<1> QED
  BY <1>2, FS_CardinalityType

(* A set of positions can be listed in increasing order.                   *)
Lists(f, S) ==
  /\ f \in [1..Cardinality(S) -> S]
  /\ \A i, j \in 1..Cardinality(S) : i < j => f[i] < f[j]

Increasing(f) == \A i, j \in DOMAIN f : i < j => f[i] < f[j]

LEMMA PositionsListed ==
  ASSUME NEW m \in Nat, NEW S \in SUBSET (1..m)
  PROVE  \E f : Lists(f, S)
<1> DEFINE T == {n \in Nat : \A U \in SUBSET (1..m) :
                               Cardinality(U) = n => \E f : Lists(f, U)}
<1>1. 0 \in T
  <2> SUFFICES ASSUME NEW U \in SUBSET (1..m), Cardinality(U) = 0
               PROVE  \E f : Lists(f, U)
    OBVIOUS
  <2>1. U = {}
    BY PositionsFinite, FS_EmptySet
  <2>2. Lists([i \in 1..Cardinality(U) |-> i], U)
    BY <2>1 DEF Lists
  <2> QED
    BY <2>2
<1>2. ASSUME NEW n \in Nat, n \in T PROVE n + 1 \in T
  <2> SUFFICES ASSUME NEW U \in SUBSET (1..m), Cardinality(U) = n + 1
               PROVE  \E f : Lists(f, U)
    OBVIOUS
  <2>1. U # {}
    BY FS_EmptySet
  <2>2. PICK x \in U : \A y \in U : y <= x
    BY <2>1, LastPosition
  <2> DEFINE W == U \ {x}
  <2>3. Cardinality(W) = n /\ W \in SUBSET (1..m)
    <3>1. IsFiniteSet(U)
      BY PositionsFinite
    <3>2. Cardinality(W) = Cardinality(U) - 1
      BY <3>1, FS_RemoveElement
    <3> QED
      BY <3>2
  <2>4. PICK g : Lists(g, W)
    BY <1>2, <2>3
  <2>5. g \in [1..n -> W] /\ \A i, j \in 1..n : i < j => g[i] < g[j]
    BY <2>3, <2>4 DEF Lists
  <2>6. ASSUME NEW i \in 1..n PROVE g[i] \in U /\ g[i] < x
    <3>1. g[i] \in W
      BY <2>5
    <3>2. g[i] \in U /\ g[i] # x
      BY <3>1
    <3>3. g[i] <= x
      BY <2>2, <3>2
    <3>4. g[i] \in 1..m /\ x \in 1..m
      BY <3>2
    <3> QED
      BY <3>2, <3>3, <3>4
  <2> DEFINE f == [i \in 1..n+1 |-> IF i = n + 1 THEN x ELSE g[i]]
  <2>7. f \in [1..n+1 -> U]
    BY <2>6
  <2>8. \A i, j \in 1..n+1 : i < j => f[i] < f[j]
    BY <2>5, <2>6
  <2> HIDE DEF f
  <2>9. Lists(f, U)
    BY <2>7, <2>8 DEF Lists
  <2> QED
    BY <2>9
<1> HIDE DEF T
<1>3. Nat \subseteq T
  BY <1>1, <1>2, SetInduction
<1> QED
  BY <1>3, PositionsFinite DEF T

-----------------------------------------------------------------------------
(* What the queue's operations keep of it.                                 *)
LEMMA AppendFacts ==
  ASSUME NEW q \in Seq(Requests), NEW r \in Requests
  PROVE  /\ Append(q, r) \in Seq(Requests)
         /\ Len(Append(q, r)) = Len(q) + 1
         /\ \A i \in 1..Len(q) : Append(q, r)[i] = q[i]
         /\ Append(q, r)[Len(q) + 1] = r
OBVIOUS

(* A queue p that is left of q after some items were taken out: its items  *)
(* stood in q in the same order.                                           *)
Thinned(p, q, f) ==
  /\ p \in Seq(Requests)
  /\ Len(p) <= Len(q)
  /\ f \in [1..Len(p) -> 1..Len(q)]
  /\ \A i, j \in 1..Len(p) : i < j => f[i] < f[j]
  /\ \A i \in 1..Len(p) : p[i] = q[f[i]]

LEMMA TailThins ==
  ASSUME NEW q \in Seq(Requests), q # <<>>
  PROVE  Thinned(Tail(q), q, [i \in 1..Len(q)-1 |-> i + 1])
<1> DEFINE f == [i \in 1..Len(q)-1 |-> i + 1]
<1>1. /\ Tail(q) \in Seq(Requests)
      /\ Len(Tail(q)) = Len(q) - 1
      /\ \A i \in 1..Len(Tail(q)) : Tail(q)[i] = q[i+1]
  BY HeadTailProperties
<1>2. Len(q) \in Nat
  OBVIOUS
<1>3. f \in [1..Len(q)-1 -> 1..Len(q)]
  BY <1>2
<1> QED
  BY <1>1, <1>2, <1>3 DEF Thinned

(* Picking out the expired items leaves exactly the others.                *)
LEMMA KeepLiveThins ==
  ASSUME NEW q \in Seq(Requests)
  PROVE  \E f : /\ Thinned(KeepLive(q), q, f)
                /\ \A i \in 1..Len(KeepLive(q)) : Live(KeepLive(q)[i])
                /\ \A i \in 1..Len(q) :
                     Live(q[i]) => \E n \in 1..Len(KeepLive(q)) : f[n] = i
<1> DEFINE kept == {i \in DOMAIN q : Live(q[i])}
           k == Cardinality(kept)
           f == CHOOSE g \in [1..k -> kept] : Increasing(g)
<1>1. Len(q) \in Nat /\ DOMAIN q = 1..Len(q) /\ kept \in SUBSET (1..Len(q))
  OBVIOUS
<1>2. IsFiniteSet(kept) /\ k \in Nat /\ k <= Len(q)
  BY <1>1, PositionsFinite
<1>3. f \in [1..k -> kept] /\ Increasing(f)
  <2>1. PICK g : Lists(g, kept)
    BY <1>1, PositionsListed
  <2>2. g \in [1..k -> kept] /\ Increasing(g)
    BY <2>1 DEF Lists, Increasing
  <2> QED
    BY <2>2
<1>4. KeepLive(q) = [n \in 1..k |-> q[f[n]]]
  BY DEF KeepLive, Increasing
<1> HIDE DEF f
<1>5. \A n \in 1..k : f[n] \in 1..Len(q) /\ Live(q[f[n]]) /\ q[f[n]] \in Requests
  BY <1>1, <1>3, ElementOfSeq
<1>6. \A i, j \in 1..k : i < j => f[i] < f[j]
  BY <1>3 DEF Increasing
<1>7. /\ KeepLive(q) \in Seq(Requests)
      /\ Len(KeepLive(q)) = k
      /\ \A n \in 1..k : KeepLive(q)[n] = q[f[n]]
  BY <1>2, <1>4, <1>5
<1>8. ASSUME NEW i \in 1..Len(q), Live(q[i]) PROVE \E n \in 1..k : f[n] = i
  <2>1. \A a, b \in 1..k : a # b => f[a] # f[b]
    BY <1>2, <1>5, <1>6
  <2>2. f \in Injection(1..k, kept)
    BY <1>3, <2>1 DEF Injection, IsInjective
  <2>3. Cardinality(1..k) = k
    BY <1>2, FS_Interval
  <2>4. f \in Surjection(1..k, kept)
    BY <1>2, <2>2, <2>3, FS_Injection
  <2>5. i \in kept
    BY <1>1, <1>8
  <2> QED
    BY <2>4, <2>5 DEF Surjection
<1>9. Thinned(KeepLive(q), q, f)
  <2>1. f \in [1..k -> 1..Len(q)]
    BY <1>3, <1>5
  <2> QED
    BY <1>2, <1>6, <1>7, <2>1 DEF Thinned
<1>10. \A n \in 1..Len(KeepLive(q)) : Live(KeepLive(q)[n])
  BY <1>5, <1>7
<1>11. \A i \in 1..Len(q) : Live(q[i]) => \E n \in 1..Len(KeepLive(q)) : f[n] = i
  BY <1>7, <1>8
<1> HIDE DEF kept, k
<1> QED
  BY <1>9, <1>10, <1>11

-----------------------------------------------------------------------------
(* The whole next-state relation, as far as one lane's queue is concerned. *)
Arrives(l) ==
  \E a \in Arriving : /\ job[a] \in Requests
                      /\ Len(queue[l]) < Capacity
                      /\ queue'[l] = Append(queue[l], job[a])
                      /\ pc'[a] = "loop"
Leaves(l) == queue[l] # <<>> /\ queue'[l] = Tail(queue[l])
Thins(l) == queue'[l] = KeepLive(queue[l])
Empties(l) == queue'[l] = <<>>

LEMMA QueueStep ==
  ASSUME TypeOK, JobInv, [Next]_vars, NEW l \in Lanes
  PROVE  queue'[l] = queue[l] \/ Arrives(l) \/ Leaves(l) \/ Thins(l) \/ Empties(l)
<1> USE IngressAssumption DEF Goto, TypeOK
<1>1. ASSUME NEW a \in Acceptors, Dispatch(a) PROVE queue'[l] = queue[l] \/ Arrives(l)
  <2>1. CASE queue' = queue
    BY <2>1
  <2>2. CASE queue' # queue
    <3> DEFINE k == LaneOf[job[a]]
    <3>1. /\ pc[a] = "dispatch" /\ ~Full(k)
          /\ queue' = [queue EXCEPT ![k] = Append(@, job[a])]
          /\ NotifyOne(k, a, "loop")
      BY <1>1, <2>2 DEF Dispatch
    <3>2. job[a] \in Requests /\ a \in Arriving
      BY <3>1 DEF JobInv, Arriving
    <3>3. pc'[a] = "loop"
      BY <3>1 DEF NotifyOne, TakersOf, Threads
    <3>4. Len(queue[k]) < Capacity
      BY <3>1, <3>2 DEF Full
    <3>5. CASE l = k
      <4>1. queue'[l] = Append(queue[l], job[a])
        BY <3>1, <3>5
      <4> QED
        BY <3>2, <3>3, <3>4, <3>5, <4>1 DEF Arrives
    <3>6. CASE l # k
      BY <3>1, <3>6
    <3> QED
      BY <3>5, <3>6
  <2> QED
    BY <2>1, <2>2
<1>2. ASSUME NEW t \in Takers, Take(t) PROVE queue'[l] = queue[l] \/ Leaves(l)
  BY <1>2 DEF Take, Leaves
<1>3. ASSUME NEW k \in Reaped, Reap(k) PROVE queue'[l] = queue[l] \/ Thins(l)
  BY <1>3 DEF Reap, Thins
<1>4. CASE DropQueues
  BY <1>4 DEF DropQueues, Empties
<1>5. ASSUME NEW a \in Acceptors, Accept(a) \/ Reject(a) \/ AcceptorLoop(a)
      PROVE  queue' = queue
  BY <1>5 DEF Accept, Reject, AcceptorLoop
<1>6. ASSUME NEW t \in Takers, Start(t) \/ WaitTimeout(t) \/ Handle(t)
      PROVE  queue' = queue
  BY <1>6 DEF Start, WaitTimeout, Handle
<1>7. ASSUME NEW k \in Reaped, ReaperLoop(k) \/ AnswerReaped(k)
      PROVE  queue' = queue
  BY <1>7 DEF ReaperLoop, AnswerReaped
<1>8. CASE Shutdown \/ \E r \in Requests : DeadlinePasses(r)
  BY <1>8 DEF Shutdown, DeadlinePasses
<1>9. CASE UNCHANGED vars
  BY <1>9 DEF vars
<1> QED
  BY <1>1, <1>2, <1>3, <1>4, <1>5, <1>6, <1>7, <1>8, <1>9
  DEF Next, AcceptorStep, TakerStep, ReaperStep

(* Each of these keeps a queue a sequence of requests within its capacity. *)
LEMMA QueueTypes ==
  ASSUME TypeOK, JobInv, [Next]_vars, NEW l \in Lanes
  PROVE  queue'[l] \in Seq(Requests) /\ Len(queue'[l]) <= Capacity
<1> USE IngressAssumption
<1>0. /\ queue[l] \in Seq(Requests) /\ Len(queue[l]) \in Nat
      /\ Len(queue[l]) <= Capacity /\ Capacity \in Nat
  BY DEF TypeOK
<1>1. CASE queue'[l] = queue[l]
  BY <1>0, <1>1
<1>2. CASE Arrives(l)
  BY <1>0, <1>2, AppendFacts DEF Arrives
<1>3. CASE Leaves(l)
  BY <1>0, <1>3, TailThins DEF Leaves, Thinned
<1>4. CASE Thins(l)
  BY <1>0, <1>4, KeepLiveThins DEF Thins, Thinned
<1>5. CASE Empties(l)
  BY <1>0, <1>5, EmptySeq DEF Empties
<1> QED
  BY <1>1, <1>2, <1>3, <1>4, <1>5, QueueStep

(* Every step keeps the types and the requests that acceptors hold.        *)
LEMMA TypeNext ==
  ASSUME TypeOK, JobInv, [Next]_vars
  PROVE  TypeOK' /\ JobInv'
<1> USE IngressAssumption DEF Goto, Threads, PC, Answers, ending, JobInv
<1> DEFINE Rest ==
      /\ pc \in [Threads -> PC]
      /\ job \in [Acceptors \cup Takers -> Requests \cup {Nobody}]
      /\ reaped \in [Reaped -> SUBSET Requests]
      /\ received \subseteq Requests
      /\ answer \in [Requests -> Answers]
      /\ expired \subseteq Deadlined
      /\ shutdown \in BOOLEAN
      /\ unblocks \in Nat
<1>0. Rest
  BY DEF TypeOK
<1>1. queue' \in [Lanes -> Seq(Requests)] /\ \A l \in Lanes : Len(queue'[l]) <= Capacity
  <2>1. \A l \in Lanes : queue'[l] \in Seq(Requests) /\ Len(queue'[l]) <= Capacity
    BY QueueTypes
  <2>2. queue' = [l \in Lanes |-> queue'[l]]
    BY DEF TypeOK, Next, vars, AcceptorStep, Accept, Dispatch, Reject, AcceptorLoop,
           TakerStep, Take, Start, WaitTimeout, Handle, ReaperStep, ReaperLoop, Reap,
           AnswerReaped, DeadlinePasses, Shutdown, DropQueues
  <2> QED
    BY <2>1, <2>2
<1>2. ASSUME NEW a \in Acceptors, Accept(a) PROVE Rest' /\ JobInv'
  BY <1>0, <1>2 DEF Accept
<1>3. ASSUME NEW a \in Acceptors, Dispatch(a) PROVE Rest' /\ JobInv'
  <2>1. CASE pc' = [pc EXCEPT ![a] = "loop"] \/ pc' = [pc EXCEPT ![a] = "reject"]
    BY <1>0, <1>3, <2>1 DEF Dispatch
  <2>2. CASE NotifyOne(LaneOf[job[a]], a, "loop")
    BY <1>0, <1>3, <2>2 DEF Dispatch, NotifyOne, TakersOf
  <2> QED
    BY <1>3, <2>1, <2>2 DEF Dispatch
<1>4. ASSUME NEW a \in Acceptors, Reject(a) PROVE Rest' /\ JobInv'
  BY <1>0, <1>4 DEF Reject
<1>5. ASSUME NEW a \in Acceptors, AcceptorLoop(a) PROVE Rest' /\ JobInv'
  BY <1>0, <1>5 DEF AcceptorLoop
<1>6. ASSUME NEW t \in Takers, Take(t) PROVE Rest' /\ JobInv'
  <2>1. queue[ServedBy[t]] # <<>> => Head(queue[ServedBy[t]]) \in Requests
    BY HeadTailProperties DEF TypeOK
  <2> QED
    BY <1>0, <1>6, <2>1 DEF Take
<1>7. ASSUME NEW t \in Takers, WaitTimeout(t) PROVE Rest' /\ JobInv'
  BY <1>0, <1>7 DEF WaitTimeout
<1>8. ASSUME NEW t \in Takers, Start(t) PROVE Rest' /\ JobInv'
  BY <1>0, <1>8 DEF Start
<1>9. ASSUME NEW t \in Takers, Handle(t) PROVE Rest' /\ JobInv'
  BY <1>0, <1>9 DEF Handle
<1>10. ASSUME NEW l \in Reaped, ReaperLoop(l) PROVE Rest' /\ JobInv'
  BY <1>0, <1>10 DEF ReaperLoop
<1>11. ASSUME NEW l \in Reaped, Reap(l) PROVE Rest' /\ JobInv'
  BY <1>0, <1>11 DEF Reap
<1>12. ASSUME NEW l \in Reaped, AnswerReaped(l) PROVE Rest' /\ JobInv'
  BY <1>0, <1>12 DEF AnswerReaped
<1>13. ASSUME NEW r \in Requests, DeadlinePasses(r) PROVE Rest' /\ JobInv'
  BY <1>0, <1>13 DEF DeadlinePasses
<1>14. ASSUME Shutdown PROVE Rest' /\ JobInv'
  BY <1>0, <1>14, FS_CardinalityType DEF Shutdown
<1>15. ASSUME DropQueues PROVE Rest' /\ JobInv'
  BY <1>0, <1>15 DEF DropQueues
<1>16. ASSUME UNCHANGED vars PROVE Rest' /\ JobInv'
  BY <1>0, <1>16 DEF vars
<1>17. Rest' /\ JobInv'
  <2> HIDE DEF Rest, JobInv
  <2> QED
    BY <1>2, <1>3, <1>4, <1>5, <1>6, <1>7, <1>8, <1>9, <1>10, <1>11, <1>12, <1>13,
       <1>14, <1>15, <1>16 DEF Next, AcceptorStep, TakerStep, ReaperStep
<1> QED
  BY <1>1, <1>17 DEF TypeOK

-----------------------------------------------------------------------------
(* A request stands in one place: steps thin the queues or move it on.     *)
LEMMA QueueThins ==
  ASSUME TypeOK, NEW l \in Lanes,
         queue'[l] = queue[l] \/ Leaves(l) \/ Thins(l) \/ Empties(l)
  PROVE  \E f : Thinned(queue'[l], queue[l], f)
<1>0. queue[l] \in Seq(Requests) /\ Len(queue[l]) \in Nat
  BY DEF TypeOK
<1>1. CASE queue'[l] = queue[l]
  <2>1. Thinned(queue[l], queue[l], [i \in 1..Len(queue[l]) |-> i])
    BY <1>0, ElementOfSeq DEF Thinned
  <2> QED
    BY <1>1, <2>1
<1>2. CASE Leaves(l)
  BY <1>0, <1>2, TailThins DEF Leaves
<1>3. CASE Thins(l)
  BY <1>0, <1>3, KeepLiveThins DEF Thins
<1>4. CASE Empties(l)
  <2>1. Thinned(<<>>, queue[l], [i \in 1..0 |-> i])
    BY <1>0, EmptySeq DEF Thinned
  <2> QED
    BY <1>4, <2>1 DEF Empties
<1> QED
  BY <1>1, <1>2, <1>3, <1>4

LEMMA OnceNext ==
  ASSUME TypeOK, JobInv, OnceInv, [Next]_vars
  PROVE  OnceInv'
<1> USE IngressAssumption DEF Goto
<1>0. \A l \in Lanes : queue[l] \in Seq(Requests) /\ Len(queue[l]) \in Nat
  BY DEF TypeOK
<1>1. ASSUME Arriving' \subseteq Arriving, \A a \in Arriving' : job'[a] = job[a],
             UNCHANGED received,
             \A l \in Lanes : queue'[l] = queue[l] \/ Leaves(l) \/ Thins(l) \/ Empties(l)
      PROVE  OnceInv'
  <2>1. ASSUME NEW l \in Lanes, NEW i \in 1..Len(queue'[l])
        PROVE  /\ queue'[l][i] \in received
               /\ \A a \in Arriving : queue'[l][i] # job[a]
               /\ \A j \in 1..Len(queue'[l]) : i # j => queue'[l][i] # queue'[l][j]
    <3>1. PICK f : Thinned(queue'[l], queue[l], f)
      BY <1>1, QueueThins
    <3>2. /\ Len(queue'[l]) \in Nat
          /\ \A n \in 1..Len(queue'[l]) :
               f[n] \in 1..Len(queue[l]) /\ queue'[l][n] = queue[l][f[n]]
      BY <3>1 DEF Thinned
    <3>3. \A j \in 1..Len(queue'[l]) : i # j => f[i] # f[j]
      <4>1. \A m, n \in 1..Len(queue'[l]) : m < n => f[m] < f[n]
        BY <3>1 DEF Thinned
      <4>2. ASSUME NEW j \in 1..Len(queue'[l]), i # j PROVE f[i] # f[j]
        <5>1. f[i] \in Nat /\ f[j] \in Nat
          BY <1>0, <3>2
        <5>2. i < j \/ j < i
          BY <3>2, <4>2
        <5> QED
          BY <4>1, <5>1, <5>2
      <4> QED
        BY <4>2
    <3>4. \A m \in 1..Len(queue[l]) :
            /\ queue[l][m] \in received
            /\ \A a \in Arriving : queue[l][m] # job[a]
            /\ \A n \in 1..Len(queue[l]) : m # n => queue[l][m] # queue[l][n]
      BY DEF OnceInv
    <3>5. /\ f[i] \in 1..Len(queue[l]) /\ queue'[l][i] = queue[l][f[i]]
          /\ \A j \in 1..Len(queue'[l]) :
               f[j] \in 1..Len(queue[l]) /\ queue'[l][j] = queue[l][f[j]]
      BY <3>2
    <3>6. ASSUME NEW j \in 1..Len(queue'[l]), i # j
          PROVE  queue'[l][i] # queue'[l][j]
      BY <3>3, <3>4, <3>5, <3>6
    <3> QED
      BY <3>4, <3>5, <3>6
  <2> QED
    BY <1>1, <2>1 DEF OnceInv
<1>2. ASSUME NEW a \in Acceptors, Accept(a) PROVE OnceInv'
  <2>1. CASE UNCHANGED received
    <3>1. pc' = [pc EXCEPT ![a] = "done"] /\ UNCHANGED <<job, queue>>
      BY <1>2, <2>1 DEF Accept
    <3>2. Arriving' \subseteq Arriving
      BY <3>1 DEF Arriving, TypeOK, Threads
    <3> QED
      BY <1>1, <2>1, <3>1, <3>2
  <2>2. CASE received' # received
    <3>1. PICK r \in Requests \ received :
            /\ pc' = [pc EXCEPT ![a] = "dispatch"]
            /\ job' = [job EXCEPT ![a] = r]
            /\ received' = received \cup {r}
            /\ queue' = queue
      BY <1>2, <2>2 DEF Accept
    <3>2. /\ Arriving' \subseteq Arriving \cup {a} /\ job'[a] = r
          /\ \A b \in Acceptors : b # a => job'[b] = job[b]
      BY <3>1 DEF Arriving, TypeOK, Threads
    <3> QED
      BY <3>1, <3>2 DEF OnceInv, Arriving
  <2> QED
    BY <2>1, <2>2
<1>3. ASSUME NEW a \in Acceptors, Dispatch(a) PROVE OnceInv'
  <2>1. /\ Arriving' = Arriving \ {a} /\ a \in Arriving
        /\ UNCHANGED <<job, received>>
    <3>1. a \in Arriving /\ UNCHANGED <<job, received>>
      BY <1>3 DEF Dispatch, Arriving
    <3>2. CASE pc' = [pc EXCEPT ![a] = "loop"] \/ pc' = [pc EXCEPT ![a] = "reject"]
      BY <3>1, <3>2 DEF Arriving, TypeOK, Threads
    <3>3. CASE NotifyOne(LaneOf[job[a]], a, "loop")
      BY <3>1, <3>3 DEF NotifyOne, TakersOf, Arriving, TypeOK, Threads
    <3> QED
      BY <1>3, <3>1, <3>2, <3>3 DEF Dispatch
  <2>2. CASE queue' = queue
    BY <1>1, <2>1, <2>2
  <2>3. CASE queue' # queue
    <3> DEFINE k == LaneOf[job[a]]
               r == job[a]
    <3>1. r \in Requests /\ k \in Lanes
      BY <2>1 DEF JobInv, Arriving
    <3>2. queue' = [queue EXCEPT ![k] = Append(@, r)]
      BY <1>3, <2>3 DEF Dispatch
    <3>3. queue'[k] = Append(queue[k], r) /\ \A l \in Lanes \ {k} : queue'[l] = queue[l]
      BY <3>1, <3>2 DEF TypeOK
    <3>4. /\ r \in received
          /\ \A l \in Lanes : \A i \in 1..Len(queue[l]) : queue[l][i] # r
          /\ \A b \in Arriving' : job[b] # r
      BY <2>1 DEF OnceInv
    <3> HIDE DEF r, k
    <3>5. ASSUME NEW l \in Lanes, NEW i \in 1..Len(queue'[l])
          PROVE  /\ queue'[l][i] \in received
                 /\ \A b \in Arriving' : queue'[l][i] # job[b]
                 /\ \A j \in 1..Len(queue'[l]) : i # j => queue'[l][i] # queue'[l][j]
      <4>1. CASE l # k
        BY <2>1, <3>3, <4>1 DEF OnceInv
      <4>2. CASE l = k
        <5>1. /\ Len(queue'[l]) = Len(queue[l]) + 1
              /\ \A n \in 1..Len(queue[l]) : queue'[l][n] = queue[l][n]
              /\ queue'[l][Len(queue[l]) + 1] = r
          BY <1>0, <3>1, <3>3, <4>2, AppendFacts
        <5>2. \A n \in 1..Len(queue'[l]) : n \in 1..Len(queue[l]) \/ n = Len(queue[l]) + 1
          BY <1>0, <5>1
        <5>3. \A n \in 1..Len(queue[l]) :
                /\ queue[l][n] \in received /\ queue[l][n] # r
                /\ \A b \in Arriving : queue[l][n] # job[b]
                /\ \A j \in 1..Len(queue[l]) : n # j => queue[l][n] # queue[l][j]
          BY <3>4 DEF OnceInv
        <5> QED
          BY <2>1, <3>4, <5>1, <5>2, <5>3
      <4> QED
        BY <4>1, <4>2
    <3> QED
      BY <2>1, <3>5 DEF OnceInv
  <2> QED
    BY <2>2, <2>3
<1>4. ASSUME NEW a \in Acceptors, Reject(a) \/ AcceptorLoop(a) PROVE OnceInv'
  <2>1. Arriving' = Arriving /\ UNCHANGED <<received, queue>>
        /\ \A b \in Arriving : job'[b] = job[b]
    BY <1>4 DEF Reject, AcceptorLoop, Arriving, TypeOK, Threads
  <2> QED
    BY <1>1, <2>1
<1>5. ASSUME NEW t \in Takers, TakerStep(t) \/ Handle(t) PROVE OnceInv'
  <2>1. /\ Arriving' = Arriving /\ UNCHANGED received
        /\ \A b \in Arriving : job'[b] = job[b]
    BY <1>5 DEF TakerStep, Take, Start, WaitTimeout, Handle, Arriving, TypeOK, Threads
  <2>2. \A l \in Lanes : queue'[l] = queue[l] \/ Leaves(l)
    BY <1>5 DEF TakerStep, Take, Start, WaitTimeout, Handle, Leaves, TypeOK
  <2> QED
    BY <1>1, <2>1, <2>2
<1>6. ASSUME NEW k \in Reaped, ReaperStep(k) PROVE OnceInv'
  <2>1. Arriving' = Arriving /\ UNCHANGED <<received, job>>
    BY <1>6 DEF ReaperStep, ReaperLoop, Reap, AnswerReaped, Arriving, TypeOK, Threads
  <2>2. \A l \in Lanes : queue'[l] = queue[l] \/ Thins(l)
    BY <1>6 DEF ReaperStep, ReaperLoop, Reap, AnswerReaped, Thins, TypeOK
  <2> QED
    BY <1>1, <2>1, <2>2
<1>7. ASSUME UNCHANGED <<pc, job, received, queue>> PROVE OnceInv'
  BY <1>1, <1>7 DEF Arriving
<1>8. ASSUME DropQueues PROVE OnceInv'
  <2>1. /\ Arriving' = Arriving /\ UNCHANGED <<received, job>>
        /\ \A l \in Lanes : Empties(l)
    BY <1>8 DEF DropQueues, Arriving, Empties
  <2> QED
    BY <1>1, <2>1
<1>9. ASSUME (\E r \in Requests : DeadlinePasses(r)) \/ Shutdown \/ UNCHANGED vars
      PROVE  OnceInv'
  BY <1>7, <1>9 DEF DeadlinePasses, Shutdown, vars
<1> QED
  BY <1>2, <1>3, <1>4, <1>5, <1>6, <1>8, <1>9 DEF Next, AcceptorStep

-----------------------------------------------------------------------------
(* Workers asleep and workers awake.                                       *)
LEMMA AwakeFinite ==
  ASSUME NEW l \in Lanes
  PROVE  /\ IsFiniteSet(Awake(l)) /\ Cardinality(Awake(l)) \in Nat
         /\ IsFiniteSet(Awake(l)') /\ Cardinality(Awake(l)') \in Nat
         /\ Awake(l) \subseteq Awake(l)'
              => Cardinality(Awake(l)) <= Cardinality(Awake(l)')
<1>1. Awake(l) \subseteq Takers /\ Awake(l)' \subseteq Takers
  BY DEF Awake, TakersOf
<1>2. IsFiniteSet(Takers)
  BY IngressAssumption
<1>3. IsFiniteSet(Awake(l)) /\ IsFiniteSet(Awake(l)')
  BY <1>1, <1>2, FS_Subset
<1> HIDE DEF Awake
<1> QED
  BY <1>3, FS_Subset, FS_CardinalityType

(* A step that puts nobody to sleep, keeps the awake awake and lengthens   *)
(* no queue.                                                               *)
LEMMA QuietKeepsAwake ==
  ASSUME TypeOK, JobInv, NoSleepBesideWork, [Next]_vars,
         shutdown => shutdown',
         \A l \in Lanes : queue'[l] = queue[l] \/ Leaves(l) \/ Thins(l) \/ Empties(l),
         \A t \in Takers : /\ pc'[t] = "waiting" => pc[t] = "waiting"
                           /\ pc[t] = "recv" => pc'[t] = "recv"
  PROVE  NoSleepBesideWork'
<1> SUFFICES ASSUME NEW t \in Takers, pc'[t] = "waiting", ~shutdown'
             PROVE  Len(queue'[ServedBy[t]]) <= Cardinality(Awake(ServedBy[t])')
  BY DEF NoSleepBesideWork, Awake
<1> DEFINE l == ServedBy[t]
<1>1. l \in Lanes
  BY IngressAssumption
<1>2. Len(queue[l]) <= Cardinality(Awake(l))
  BY DEF NoSleepBesideWork
<1>3. Len(queue'[l]) <= Len(queue[l])
  <2>1. PICK f : Thinned(queue'[l], queue[l], f)
    BY <1>1, QueueThins
  <2> QED
    BY <2>1 DEF Thinned
<1>4. Awake(l) \subseteq Awake(l)'
  BY DEF Awake, TakersOf
<1>5. Cardinality(Awake(l)) <= Cardinality(Awake(l)')
  BY <1>1, <1>4, AwakeFinite
<1>6. /\ Len(queue[l]) \in Nat /\ Len(queue'[l]) \in Nat
      /\ Cardinality(Awake(l)) \in Nat /\ Cardinality(Awake(l)') \in Nat
  <2>1. Len(queue[l]) \in Nat
    BY <1>1 DEF TypeOK
  <2>2. queue'[l] \in Seq(Requests)
    BY <1>1, QueueTypes
  <2> QED
    BY <1>1, <2>1, <2>2, AwakeFinite
<1> HIDE DEF l
<1>7. Len(queue'[l]) <= Cardinality(Awake(l)')
  BY <1>2, <1>3, <1>5, <1>6
<1> QED
  BY <1>7 DEF l

(* An arrival wakes a sleeper of its lane, if there is one.                *)
LEMMA DispatchKeepsAwake ==
  ASSUME TypeOK, JobInv, NoSleepBesideWork, [Next]_vars,
         NEW a \in Acceptors, Dispatch(a)
  PROVE  NoSleepBesideWork'
<1> USE IngressAssumption
<1>0. \A l \in Lanes : queue[l] \in Seq(Requests) /\ Len(queue[l]) \in Nat
  BY DEF TypeOK
<1>1. CASE \/ pc' = [pc EXCEPT ![a] = "loop"] /\ UNCHANGED <<queue, shutdown>>
           \/ pc' = [pc EXCEPT ![a] = "reject"] /\ UNCHANGED <<queue, shutdown>>
  <2>1. \A t \in Takers : pc'[t] = pc[t]
    BY <1>1 DEF TypeOK, Threads
  <2> QED
    BY <1>1, <2>1, QuietKeepsAwake
<1>2. ASSUME NEW k \in Lanes, job[a] \in Requests,
             pc[a] = "dispatch", UNCHANGED shutdown,
             queue' = [queue EXCEPT ![k] = Append(@, job[a])],
             NotifyOne(k, a, "loop")
      PROVE  NoSleepBesideWork'
  <2> DEFINE asleep == {t \in TakersOf(k) : pc[t] = "waiting"}
  <2>1. /\ pc[a] = "dispatch" /\ UNCHANGED shutdown
        /\ queue' = [queue EXCEPT ![k] = Append(@, job[a])]
    BY <1>2
  <2>2. job[a] \in Requests /\ k \in Lanes
    BY <1>2
  <2>3. /\ Len(queue'[k]) = Len(queue[k]) + 1
        /\ \A l \in Lanes \ {k} : queue'[l] = queue[l]
    BY <1>0, <2>1, <2>2, AppendFacts DEF TypeOK
  <2>4. CASE asleep = {} /\ pc' = [pc EXCEPT ![a] = "loop"]
    <3>1. \A t \in Takers : pc'[t] = pc[t]
      BY <2>4 DEF TypeOK, Threads
    <3>2. \A l \in Lanes : Awake(l)' = Awake(l)
      BY <3>1 DEF Awake, TakersOf
    <3>3. \A t \in Takers : pc[t] = "waiting" => ServedBy[t] # k
      BY <2>4 DEF TakersOf
    <3> QED
      BY <2>1, <2>3, <3>1, <3>2, <3>3 DEF NoSleepBesideWork
  <2>5. ASSUME NEW u \in asleep, pc' = [pc EXCEPT ![a] = "loop", ![u] = "recv"]
        PROVE  NoSleepBesideWork'
    <3>1. u \in Takers /\ ServedBy[u] = k /\ pc[u] = "waiting" /\ u # a
      BY <2>1, <2>5 DEF TakersOf
    <3>2. pc'[u] = "recv" /\ \A t \in Takers \ {u} : pc'[t] = pc[t]
      BY <2>5, <3>1 DEF TypeOK, Threads
    <3>3. u \notin Awake(k) /\ Awake(k)' = Awake(k) \cup {u}
      BY <3>1, <3>2 DEF Awake, TakersOf
    <3>4. \A l \in Lanes \ {k} : Awake(l)' = Awake(l)
      BY <3>1, <3>2 DEF Awake, TakersOf
    <3>5. Cardinality(Awake(k)') = Cardinality(Awake(k)) + 1
      BY <2>2, <3>3, AwakeFinite, FS_AddElement
    <3>6. ASSUME NEW t \in Takers, pc'[t] = "waiting", ~shutdown'
          PROVE  Len(queue'[ServedBy[t]]) <= Cardinality(Awake(ServedBy[t])')
      <4>1. t # u /\ pc[t] = "waiting" /\ ~shutdown
        BY <2>1, <3>2, <3>6
      <4>2. Len(queue[ServedBy[t]]) <= Cardinality(Awake(ServedBy[t]))
        BY <4>1 DEF NoSleepBesideWork
      <4>3. CASE ServedBy[t] = k
        BY <1>0, <2>2, <2>3, <3>5, <4>2, <4>3, AwakeFinite
      <4>4. CASE ServedBy[t] # k
        BY <2>3, <3>4, <4>2, <4>4
      <4> QED
        BY <4>3, <4>4
    <3> QED
      BY <3>6 DEF NoSleepBesideWork, Awake
  <2> QED
    BY <1>2, <2>4, <2>5 DEF NotifyOne
<1>3. pc[a] = "dispatch" /\ job[a] \in Requests /\ LaneOf[job[a]] \in Lanes
  BY DEF Dispatch, JobInv
<1> QED
  BY <1>1, <1>2, <1>3 DEF Dispatch, Goto, ending

(* A worker takes one item and is no longer awake for another; it sleeps   *)
(* only beside an empty queue.                                             *)
LEMMA TakeKeepsAwake ==
  ASSUME TypeOK, JobInv, NoSleepBesideWork, [Next]_vars,
         NEW u \in Takers, Take(u)
  PROVE  NoSleepBesideWork'
<1> USE IngressAssumption
<1> DEFINE k == ServedBy[u]
<1>0. /\ \A l \in Lanes : queue[l] \in Seq(Requests) /\ Len(queue[l]) \in Nat
      /\ k \in Lanes /\ UNCHANGED shutdown
  BY DEF TypeOK, Take, ending
<1>1. \A t \in Takers \ {u} : pc'[t] = pc[t]
  BY DEF Take, Goto, TypeOK, Threads
<1>2. \A l \in Lanes \ {k} : Awake(l)' = Awake(l)
  BY <1>1 DEF Awake, TakersOf
<1>3. ASSUME NEW t \in Takers, pc'[t] = "waiting", ~shutdown'
      PROVE  Len(queue'[ServedBy[t]]) <= Cardinality(Awake(ServedBy[t])')
  <2>1. CASE ServedBy[t] # k
    <3>1. queue'[ServedBy[t]] = queue[ServedBy[t]]
      BY <2>1 DEF Take, TypeOK
    <3>2. t # u /\ pc[t] = "waiting" /\ ~shutdown
      BY <1>0, <1>1, <1>3, <2>1
    <3> QED
      BY <1>2, <2>1, <3>1, <3>2 DEF NoSleepBesideWork
  <2>2. CASE ServedBy[t] = k /\ queue[k] # <<>>
    <3>1. /\ pc[u] = "recv" /\ pc'[u] = "start"
          /\ queue'[k] = Tail(queue[k])
      BY <1>0, <1>3, <2>2 DEF Take, Goto, TypeOK, Threads
    <3>2. t # u /\ pc[t] = "waiting" /\ ~shutdown
      BY <1>0, <1>1, <1>3, <3>1
    <3>3. u \in Awake(k) /\ Awake(k)' = Awake(k) \ {u}
      BY <1>1, <3>1 DEF Awake, TakersOf
    <3>4. Cardinality(Awake(k)') = Cardinality(Awake(k)) - 1
      <4>1. IsFiniteSet(Awake(k))
        BY <1>0, AwakeFinite
      <4>2. \A x \in Awake(k) : Cardinality(Awake(k) \ {x}) = Cardinality(Awake(k)) - 1
        BY <4>1, FS_RemoveElement
      <4> QED
        BY <3>3, <4>2
    <3>5. Len(queue'[k]) = Len(queue[k]) - 1
      BY <1>0, <2>2, <3>1, HeadTailProperties
    <3>6. Len(queue[k]) <= Cardinality(Awake(k))
      BY <2>2, <3>2 DEF NoSleepBesideWork
    <3> QED
      BY <1>0, <2>2, <3>4, <3>5, <3>6, AwakeFinite
  <2>3. CASE ServedBy[t] = k /\ queue[k] = <<>>
    <3>1. queue'[k] = <<>>
      BY <2>3 DEF Take
    <3> QED
      BY <1>0, <2>3, <3>1, AwakeFinite
  <2> QED
    BY <2>1, <2>2, <2>3
<1> QED
  BY <1>3 DEF NoSleepBesideWork, Awake

LEMMA AwakeNext ==
  ASSUME TypeOK, JobInv, NoSleepBesideWork, [Next]_vars
  PROVE  NoSleepBesideWork'
<1> USE IngressAssumption
<1>1. ASSUME NEW a \in Acceptors, Accept(a) \/ Reject(a) \/ AcceptorLoop(a)
      PROVE  NoSleepBesideWork'
  <2>1. UNCHANGED <<queue, shutdown>> /\ \A t \in Takers : pc'[t] = pc[t]
    BY <1>1 DEF Accept, Reject, AcceptorLoop, Goto, ending, TypeOK, Threads
  <2> QED
    BY <2>1, QuietKeepsAwake
<1>2. ASSUME NEW u \in Takers, WaitTimeout(u) \/ Start(u) \/ Handle(u)
      PROVE  NoSleepBesideWork'
  <2>1. /\ UNCHANGED <<queue, shutdown>>
        /\ pc[u] \in {"waiting", "start", "handling"}
        /\ pc'[u] \in {"recv", "handling"}
        /\ \A t \in Takers \ {u} : pc'[t] = pc[t]
    BY <1>2 DEF WaitTimeout, Start, Handle, Goto, ending, TypeOK, Threads
  <2>2. \A t \in Takers : /\ pc'[t] = "waiting" => pc[t] = "waiting"
                          /\ pc[t] = "recv" => pc'[t] = "recv"
    BY <2>1
  <2> QED
    BY <2>1, <2>2, QuietKeepsAwake
<1>3. ASSUME NEW k \in Reaped, ReaperStep(k) PROVE NoSleepBesideWork'
  <2>1. UNCHANGED shutdown /\ \A t \in Takers : pc'[t] = pc[t]
    BY <1>3 DEF ReaperStep, ReaperLoop, Reap, AnswerReaped, Goto, ending, TypeOK,
                Threads
  <2>2. \A l \in Lanes : queue'[l] = queue[l] \/ Thins(l)
    BY <1>3 DEF ReaperStep, ReaperLoop, Reap, AnswerReaped, Thins, TypeOK
  <2> QED
    BY <2>1, <2>2, QuietKeepsAwake
<1>4. ASSUME UNCHANGED <<pc, queue>>, shutdown => shutdown' PROVE NoSleepBesideWork'
  BY <1>4, QuietKeepsAwake
<1>5. ASSUME (\E r \in Requests : DeadlinePasses(r)) \/ Shutdown \/ UNCHANGED vars
      PROVE  NoSleepBesideWork'
  BY <1>4, <1>5 DEF DeadlinePasses, Shutdown, vars, ending
<1>6. ASSUME DropQueues PROVE NoSleepBesideWork'
  <2>1. UNCHANGED <<pc, shutdown>> /\ \A l \in Lanes : Empties(l)
    BY <1>6 DEF DropQueues, Empties, ending
  <2> QED
    BY <2>1, QuietKeepsAwake
<1> QED
  BY <1>1, <1>2, <1>3, <1>5, <1>6, DispatchKeepsAwake, TakeKeepsAwake
  DEF Next, AcceptorStep, TakerStep

-----------------------------------------------------------------------------
(* The inductive invariant holds.                                          *)
LEMMA InductiveInvariant == Spec => []IInv
<1>1. Init => IInv
  <2> SUFFICES ASSUME Init PROVE IInv
    OBVIOUS
  <2> USE IngressAssumption DEF Init
  <2>1. TypeOK
    <3>1. pc \in [Threads -> PC]
      BY DEF Threads, PC
    <3>2. queue \in [Lanes -> Seq(Requests)] /\ \A l \in Lanes : Len(queue[l]) <= Capacity
      <4>1. <<>> \in Seq(Requests) /\ Len(<<>>) = 0 /\ 0 <= Capacity
        BY EmptySeq
      <4> QED
        BY <4>1
    <3> QED
      BY <3>1, <3>2 DEF TypeOK, Answers
  <2>2. JobInv /\ NoSleepBesideWork
    BY DEF JobInv, NoSleepBesideWork, Threads
  <2>3. OnceInv
    <3>1. Arriving = {} /\ \A l \in Lanes : 1..Len(queue[l]) = {}
      BY EmptySeq DEF Arriving, Threads
    <3> QED
      BY <3>1 DEF OnceInv
  <2> QED
    BY <2>1, <2>2, <2>3 DEF IInv
<1>2. IInv /\ [Next]_vars => IInv'
  BY TypeNext, OnceNext, AwakeNext DEF IInv
<1> QED
  BY <1>1, <1>2, PTL DEF Spec

(* The variables keep their types, and no queue exceeds its capacity,      *)
(* however many acceptors find room in it.                                 *)
THEOREM TypeCorrect == Spec => []TypeOK
<1>1. IInv => TypeOK
  BY DEF IInv
<1> QED
  BY <1>1, InductiveInvariant, PTL

(* recv and notify_one leave no request beside a sleeping worker, unless a *)
(* worker is already awake for it.                                         *)
THEOREM WorkersWakeForWork == Spec => []NoSleepBesideWork
<1>1. IInv => NoSleepBesideWork
  BY DEF IInv
<1> QED
  BY <1>1, InductiveInvariant, PTL

-----------------------------------------------------------------------------
(* What one step does to the order of a queue.                             *)
KeepsOrder(l) ==
  \A r, s \in Requests :
    Before(queue[l], r, s)
      => \/ r \notin ToSet(queue'[l])
         \/ s \in expired \ ToSet(queue'[l])
         \/ Before(queue'[l], r, s)

(* The head leaves first, and stands nowhere else in the queue.            *)
LEMMA LeavesInOrder ==
  ASSUME TypeOK, OnceInv, NEW l \in Lanes, Leaves(l)
  PROVE  KeepsOrder(l)
<1> DEFINE q == queue[l]
           p == queue'[l]
<1>1. /\ Len(q) \in Nat /\ Len(p) = Len(q) - 1
      /\ DOMAIN q = 1..Len(q) /\ DOMAIN p = 1..Len(p)
      /\ \A i \in 1..Len(p) : p[i] = q[i+1]
  BY HeadTailProperties DEF Leaves, TypeOK
<1>2. \A i, j \in 1..Len(q) : i # j => q[i] # q[j]
  BY DEF OnceInv
<1> HIDE DEF q, p
<1>3. ASSUME NEW r \in Requests, NEW s \in Requests,
             NEW i \in 1..Len(q), NEW j \in 1..Len(q), i < j, q[i] = r, q[j] = s
      PROVE  r \notin ToSet(p) \/ Before(p, r, s)
  <2>1. CASE i = 1
    <3>1. \A n \in 1..Len(p) : n + 1 \in 1..Len(q) /\ n + 1 # i
      BY <1>1, <2>1
    <3>2. \A n \in 1..Len(p) : p[n] # r
      BY <1>1, <1>2, <1>3, <3>1
    <3> QED
      BY <1>1, <3>2 DEF ToSet
  <2>2. CASE i # 1
    <3>1. /\ i - 1 \in 1..Len(p) /\ j - 1 \in 1..Len(p) /\ i - 1 < j - 1
          /\ (i - 1) + 1 = i /\ (j - 1) + 1 = j
      BY <1>1, <1>3, <2>2
    <3>2. p[i-1] = r /\ p[j-1] = s
      BY <1>1, <1>3, <3>1
    <3> QED
      BY <1>1, <3>1, <3>2 DEF Before
  <2> QED
    BY <2>1, <2>2
<1> QED
  BY <1>1, <1>3 DEF KeepsOrder, Before, q, p

(* The live items keep their order, the expired ones are gone.             *)
LEMMA ThinsInOrder ==
  ASSUME TypeOK, NEW l \in Lanes, Thins(l)
  PROVE  KeepsOrder(l)
<1> DEFINE q == queue[l]
           p == queue'[l]
<1>1. q \in Seq(Requests) /\ p = KeepLive(q)
  BY DEF Thins, TypeOK
<1> HIDE DEF q, p
<1>2. PICK f : /\ Thinned(p, q, f)
               /\ \A i \in 1..Len(p) : Live(p[i])
               /\ \A i \in 1..Len(q) : Live(q[i]) => \E n \in 1..Len(p) : f[n] = i
  BY <1>1, KeepLiveThins
<1>3. /\ DOMAIN q = 1..Len(q) /\ DOMAIN p = 1..Len(p)
      /\ Len(p) \in Nat /\ Len(q) \in Nat
      /\ \A i \in 1..Len(p) : f[i] \in 1..Len(q) /\ p[i] = q[f[i]]
      /\ \A i, j \in 1..Len(p) : i < j => f[i] < f[j]
  BY <1>1, <1>2 DEF Thinned
<1>4. ASSUME NEW r \in Requests, r \in expired PROVE r \notin ToSet(p)
  BY <1>2, <1>3, <1>4 DEF ToSet, Live
<1>5. ASSUME NEW r \in Requests, NEW s \in Requests, Live(r), Live(s),
             NEW i \in 1..Len(q), NEW j \in 1..Len(q), i < j, q[i] = r, q[j] = s
      PROVE  Before(p, r, s)
  <2>1. PICK m \in 1..Len(p) : f[m] = i
    BY <1>2, <1>5
  <2>2. PICK n \in 1..Len(p) : f[n] = j
    BY <1>2, <1>5
  <2>3. m < n
    <3>1. m = n \/ n < m \/ m < n
      BY <1>3
    <3>2. ~(n < m)
      BY <1>3, <1>5, <2>1, <2>2
    <3> QED
      BY <1>5, <2>1, <2>2, <3>1, <3>2
  <2>4. p[m] = r /\ p[n] = s
    BY <1>3, <1>5, <2>1, <2>2
  <2> QED
    BY <1>3, <2>3, <2>4 DEF Before
<1> QED
  BY <1>3, <1>4, <1>5 DEF KeepsOrder, Before, Live, q, p

LEMMA StepKeepsOrder ==
  ASSUME TypeOK, JobInv, OnceInv, [Next]_vars, NEW l \in Lanes
  PROVE  KeepsOrder(l)
<1>0. queue[l] \in Seq(Requests) /\ DOMAIN queue[l] = 1..Len(queue[l])
      /\ Len(queue[l]) \in Nat
  BY DEF TypeOK
<1>1. CASE queue'[l] = queue[l]
  BY <1>1 DEF KeepsOrder
<1>2. CASE Arrives(l)
  <2>1. PICK r \in Requests : queue'[l] = Append(queue[l], r)
    BY <1>2 DEF Arrives
  <2>2. /\ DOMAIN queue'[l] = 1..Len(queue[l])+1
        /\ \A i \in 1..Len(queue[l]) : queue'[l][i] = queue[l][i]
    BY <1>0, <2>1, AppendFacts
  <2> QED
    BY <1>0, <2>2 DEF KeepsOrder, Before
<1>3. CASE Empties(l)
  <2>1. ToSet(queue'[l]) = {}
    BY <1>3, EmptySeq DEF Empties, ToSet
  <2> QED
    BY <2>1 DEF KeepsOrder
<1> QED
  BY <1>1, <1>2, <1>3, LeavesInOrder, ThinsInOrder, QueueStep

(* Within a lane no request that is still wanted is overtaken: arrivals    *)
(* join at the end, workers take the head, and picking out the expired     *)
(* requests keeps the order of the others.                                 *)
THEOREM NeverOvertaken == Spec => NoOvertaking
<1>1. IInv /\ [Next]_vars => [\A l \in Lanes : KeepsOrder(l)]_vars
  BY StepKeepsOrder DEF IInv
<1>2. Spec => [][\A l \in Lanes : KeepsOrder(l)]_vars
  BY <1>1, InductiveInvariant, PTL DEF Spec
<1> QED
  BY <1>2 DEF NoOvertaking, KeepsOrder

=============================================================================
