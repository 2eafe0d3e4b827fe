---------------------------- MODULE ProxyIngress ----------------------------
(***************************************************************************)
(* The ingress of the proxy: acceptors hand each request to the bounded    *)
(* queue of its route, the fixed workers of that route take from it, and   *)
(* one reaper answers the expired requests of the WebSocket queue.  The    *)
(* proxy stops by raising a flag and unblocking the acceptors; nobody      *)
(* notifies the workers, which look at the flag when their wait times out. *)
(*                                                                         *)
(* The queue is changed under its mutex only, so each of its operations is *)
(* one step.  A handler may run for ever: no fairness makes it end.        *)
(***************************************************************************)
EXTENDS Naturals, Sequences, FiniteSets, SequencesExt

CONSTANTS
  Requests,   \* the requests clients may send
  Admin,      \* those the control plane answers
  Deadlined,  \* those whose watchdog may fire
  Lanes,      \* the route kinds
  LaneOf,     \* the lane of each request
  Reaped,     \* the lanes whose queue has a reaper
  Acceptors,  \* the acceptor threads
  Takers,     \* the threads that take from a queue
  ServedBy,   \* the lane of each taker
  Capacity,   \* the capacity of each queue
  Nobody      \* no request

ASSUME IngressAssumption ==
  /\ IsFiniteSet(Acceptors) /\ IsFiniteSet(Takers)
  /\ Acceptors \cap Takers = {}
  /\ Admin \subseteq Requests
  /\ Deadlined \subseteq Requests
  /\ LaneOf \in [Requests -> Lanes]
  /\ Reaped \subseteq Lanes
  /\ (Acceptors \cup Takers) \cap Lanes = {}
  /\ ServedBy \in [Takers -> Lanes]
  /\ Capacity \in Nat \ {0}
  /\ Nobody \notin Requests

VARIABLES
  pc,        \* the next step of each thread; a reaper is named by its lane
  job,       \* the request each acceptor and taker owns
  queue,     \* the items of each lane's queue
  reaped,    \* the expired requests each reaper is about to answer
  received,  \* the requests the server has handed to an acceptor
  answer,    \* how each request ended
  expired,   \* the requests whose watchdog has fired
  shutdown,  \* the flag all workers look at
  unblocks   \* the pending wakeups of the acceptors

vars == <<pc, job, queue, reaped, received, answer, expired, shutdown, unblocks>>
ending == <<shutdown, unblocks>>

Threads == Acceptors \cup Takers \cup Reaped
PC == {"accept", "dispatch", "reject", "loop", "recv", "waiting", "start",
       "handling", "scan", "answer", "done"}
Answers == {"none", "admin", "busy", "timeout", "handled", "dropped"}

Goto(t, from, to) == pc[t] = from /\ pc' = [pc EXCEPT ![t] = to]
TakersOf(l) == {t \in Takers : ServedBy[t] = l}

Init ==
  /\ pc = [t \in Threads |-> IF t \in Acceptors THEN "accept"
                             ELSE IF t \in Takers THEN "recv" ELSE "loop"]
  /\ job = [t \in Acceptors \cup Takers |-> Nobody]
  /\ queue = [l \in Lanes |-> <<>>]
  /\ reaped = [l \in Reaped |-> {}]
  /\ received = {}
  /\ answer = [r \in Requests |-> "none"]
  /\ expired = {}
  /\ shutdown = FALSE
  /\ unblocks = 0

-----------------------------------------------------------------------------
(* The acceptors.  The server hands out a request or one pending wakeup,   *)
(* which ends the acceptor; the supervisor restarts it unless shut down.   *)
Accept(a) ==
  \/ \E r \in Requests \ received :
       /\ Goto(a, "accept", "dispatch")
       /\ job' = [job EXCEPT ![a] = r]
       /\ received' = received \cup {r}
       /\ UNCHANGED <<queue, reaped, answer, expired, ending>>
  \/ /\ unblocks > 0
     /\ unblocks' = unblocks - 1
     /\ Goto(a, "accept", "done")
     /\ UNCHANGED <<job, queue, reaped, received, answer, expired, shutdown>>

(* Mutant: the item is queued, and nobody is notified.                     *)
NotifySilent(l, a, to) == pc' = [pc EXCEPT ![a] = to]

(* notify_one: some waiting taker of the lane, if there is one, goes on.   *)
NotifyOne(l, a, to) ==
  LET asleep == {t \in TakersOf(l) : pc[t] = "waiting"} IN
  \/ /\ asleep = {}
     /\ pc' = [pc EXCEPT ![a] = to]
  \/ \E t \in asleep : pc' = [pc EXCEPT ![a] = to, ![t] = "recv"]

(* Mutant: one request too many.                                           *)
FullLate(l) == Len(queue[l]) > Capacity

Full(l) == Len(queue[l]) >= Capacity

(* Control requests are answered at once.  Others are refused or queued,   *)
(* never waited for.                                                       *)
Dispatch(a) ==
  LET r == job[a] IN
  LET l == LaneOf[r] IN
  /\ pc[a] = "dispatch"
  /\ \/ /\ r \in Admin
        /\ answer' = [answer EXCEPT ![r] = "admin"]
        /\ Goto(a, "dispatch", "loop")
        /\ UNCHANGED queue
     \/ /\ r \notin Admin
        /\ r \in expired \/ Full(l)
        /\ Goto(a, "dispatch", "reject")
        /\ UNCHANGED <<queue, answer>>
     \/ /\ r \notin Admin \cup expired
        /\ ~Full(l)
        /\ queue' = [queue EXCEPT ![l] = Append(@, r)]
        /\ NotifyOne(l, a, "loop")
        /\ UNCHANGED answer
  /\ UNCHANGED <<job, reaped, received, expired, ending>>

(* The request came back: its deadline is looked at once more.             *)
Reject(a) ==
  /\ Goto(a, "reject", "loop")
  /\ answer' = [answer EXCEPT ![job[a]] =
                  IF job[a] \in expired THEN "timeout" ELSE "busy"]
  /\ UNCHANGED <<job, queue, reaped, received, expired, ending>>

AcceptorLoop(a) ==
  /\ Goto(a, "loop", IF shutdown THEN "done" ELSE "accept")
  /\ job' = [job EXCEPT ![a] = Nobody]
  /\ UNCHANGED <<queue, reaped, received, answer, expired, ending>>

-----------------------------------------------------------------------------
(* The takers: recv, with the queue's mutex held.                          *)
(* Mutant: the flag is not looked at.                                      *)
TakeHeedless(t) ==
  LET l == ServedBy[t] IN
  /\ \/ /\ queue[l] # <<>>
        /\ Goto(t, "recv", "start")
        /\ job' = [job EXCEPT ![t] = Head(queue[l])]
        /\ queue' = [queue EXCEPT ![l] = Tail(@)]
     \/ /\ queue[l] = <<>>
        /\ Goto(t, "recv", "waiting")
        /\ UNCHANGED <<job, queue>>
  /\ UNCHANGED <<reaped, received, answer, expired, ending>>

Take(t) ==
  LET l == ServedBy[t] IN
  /\ \/ /\ shutdown
        /\ Goto(t, "recv", "done")
        /\ UNCHANGED <<job, queue>>
     \/ /\ ~shutdown
        /\ queue[l] # <<>>
        /\ Goto(t, "recv", "start")
        /\ job' = [job EXCEPT ![t] = Head(queue[l])]
        /\ queue' = [queue EXCEPT ![l] = Tail(@)]
     \/ /\ ~shutdown
        /\ queue[l] = <<>>
        /\ Goto(t, "recv", "waiting")
        /\ UNCHANGED <<job, queue>>
  /\ UNCHANGED <<reaped, received, answer, expired, ending>>

WaitTimeout(t) ==
  /\ Goto(t, "waiting", "recv")
  /\ UNCHANGED <<job, queue, reaped, received, answer, expired, ending>>

(* Mutant: an expired request ends its worker's iteration unanswered.      *)
StartForgets(t) ==
  /\ \/ /\ job[t] \in expired
        /\ Goto(t, "start", "recv")
        /\ job' = [job EXCEPT ![t] = Nobody]
     \/ /\ job[t] \notin expired
        /\ Goto(t, "start", "handling")
        /\ UNCHANGED job
  /\ UNCHANGED <<queue, reaped, received, answer, expired, ending>>

(* The deadline travelled with the request; the handshake of a WebSocket   *)
(* makes the same check at its beginning.                                  *)
Start(t) ==
  /\ \/ /\ job[t] \in expired
        /\ Goto(t, "start", "recv")
        /\ answer' = [answer EXCEPT ![job[t]] = "timeout"]
        /\ job' = [job EXCEPT ![t] = Nobody]
     \/ /\ job[t] \notin expired
        /\ Goto(t, "start", "handling")
        /\ UNCHANGED <<answer, job>>
  /\ UNCHANGED <<queue, reaped, received, expired, ending>>

(* A handler ends; one that panics answers too, by dropping the request.   *)
Handle(t) ==
  /\ Goto(t, "handling", "recv")
  /\ answer' = [answer EXCEPT ![job[t]] = "handled"]
  /\ job' = [job EXCEPT ![t] = Nobody]
  /\ UNCHANGED <<queue, reaped, received, expired, ending>>

-----------------------------------------------------------------------------
(* The reaper of a lane.                                                   *)
ReaperLoop(l) ==
  /\ Goto(l, "loop", IF shutdown THEN "done" ELSE "scan")
  /\ UNCHANGED <<job, queue, reaped, received, answer, expired, ending>>

Live(r) == r \notin expired

(* The live items of a queue, in their order: the n-th of them stands at   *)
(* the n-th position that holds one.                                       *)
KeepLive(q) ==
  LET kept == {i \in DOMAIN q : Live(q[i])}
      position == CHOOSE f \in [1..Cardinality(kept) -> kept] :
                    \A i, j \in DOMAIN f : i < j => f[i] < f[j]
  IN  [n \in 1..Cardinality(kept) |-> q[position[n]]]

(* Mutant: live requests are put back at the front.                        *)
ReapToFront(l) ==
  /\ Goto(l, "scan", "answer")
  /\ reaped' = [reaped EXCEPT ![l] = ToSet(queue[l]) \cap expired]
  /\ queue' = [queue EXCEPT ![l] = Reverse(KeepLive(@))]
  /\ UNCHANGED <<job, received, answer, expired, ending>>

(* Mutant: only the head of the queue is looked at.                        *)
ReapHead(l) ==
  /\ Goto(l, "scan", "answer")
  /\ \/ /\ queue[l] # <<>>
        /\ Head(queue[l]) \in expired
        /\ reaped' = [reaped EXCEPT ![l] = {Head(queue[l])}]
        /\ queue' = [queue EXCEPT ![l] = Tail(@)]
     \/ /\ queue[l] = <<>> \/ (queue[l] # <<>> /\ Live(Head(queue[l])))
        /\ UNCHANGED <<queue, reaped>>
  /\ UNCHANGED <<job, received, answer, expired, ending>>

Reap(l) ==
  /\ Goto(l, "scan", "answer")
  /\ reaped' = [reaped EXCEPT ![l] = ToSet(queue[l]) \cap expired]
  /\ queue' = [queue EXCEPT ![l] = KeepLive(@)]
  /\ UNCHANGED <<job, received, answer, expired, ending>>

AnswerReaped(l) ==
  /\ Goto(l, "answer", "loop")
  /\ answer' = [r \in Requests |-> IF r \in reaped[l] THEN "timeout" ELSE answer[r]]
  /\ reaped' = [reaped EXCEPT ![l] = {}]
  /\ UNCHANGED <<job, queue, received, expired, ending>>

-----------------------------------------------------------------------------
DeadlinePasses(r) ==
  /\ r \in (Deadlined \cap received) \ expired
  /\ answer[r] = "none"
  /\ expired' = expired \cup {r}
  /\ UNCHANGED <<pc, job, queue, reaped, received, answer, ending>>

(* Drop of the proxy: one wakeup for each acceptor.                        *)
Shutdown ==
  /\ ~shutdown
  /\ shutdown' = TRUE
  /\ unblocks' = Cardinality(Acceptors)
  /\ UNCHANGED <<pc, job, queue, reaped, received, answer, expired>>

Stopped == \A t \in Threads : pc[t] = "done"

(* The last thread to end drops the queues, and each request in them       *)
(* answers with an error as it is dropped.                                 *)
DropQueues ==
  LET left == UNION {ToSet(queue[l]) : l \in Lanes} IN
  /\ Stopped
  /\ left # {}
  /\ answer' = [r \in Requests |-> IF r \in left THEN "dropped" ELSE answer[r]]
  /\ queue' = [l \in Lanes |-> <<>>]
  /\ UNCHANGED <<pc, job, reaped, received, expired, ending>>

AcceptorStep(a) == Accept(a) \/ Dispatch(a) \/ Reject(a) \/ AcceptorLoop(a)
TakerStep(t) == Take(t) \/ Start(t) \/ WaitTimeout(t)
ReaperStep(l) == ReaperLoop(l) \/ Reap(l) \/ AnswerReaped(l)

Next ==
  \/ \E a \in Acceptors : AcceptorStep(a)
  \/ \E t \in Takers : TakerStep(t) \/ Handle(t)
  \/ \E l \in Reaped : ReaperStep(l)
  \/ \E r \in Requests : DeadlinePasses(r)
  \/ Shutdown \/ DropQueues

Spec == Init /\ [][Next]_vars

(* Threads run, and waits time out after 100 ms.  Nothing makes a handler  *)
(* end, a client send, a deadline pass or the proxy stop.                  *)
Fairness ==
  /\ \A a \in Acceptors :
       WF_vars(Dispatch(a) \/ Reject(a) \/ AcceptorLoop(a) \/ (shutdown /\ Accept(a)))
  /\ \A t \in Takers : WF_vars(TakerStep(t))
  /\ \A l \in Reaped : WF_vars(ReaperStep(l))
  /\ WF_vars(DropQueues)

FairSpec == Spec /\ Fairness

-----------------------------------------------------------------------------
(* Types of the variables; no queue exceeds its capacity.                  *)
TypeOK ==
  /\ pc \in [Threads -> PC]
  /\ job \in [Acceptors \cup Takers -> Requests \cup {Nobody}]
  /\ queue \in [Lanes -> Seq(Requests)]
  /\ \A l \in Lanes : Len(queue[l]) <= Capacity
  /\ reaped \in [Reaped -> SUBSET Requests]
  /\ received \subseteq Requests
  /\ answer \in [Requests -> Answers]
  /\ expired \subseteq Deadlined
  /\ shutdown \in BOOLEAN
  /\ unblocks \in Nat

(* Within a lane the earlier request leaves its queue first, unless the    *)
(* later one has expired: picking expired requests out of the middle       *)
(* neither reorders nor loses the others.                                  *)
Before(q, r, s) == \E i, j \in DOMAIN q : i < j /\ q[i] = r /\ q[j] = s

NoOvertaking ==
  [][\A l \in Lanes : \A r, s \in Requests :
       Before(queue[l], r, s)
         => \/ r \notin ToSet(queue'[l])
            \/ s \in expired \ ToSet(queue'[l])
            \/ Before(queue'[l], r, s)]_vars

(* A worker sleeps beside queued requests only while for each of them      *)
(* another worker is awake to take it: one notification for each item, and *)
(* a look at the queue before each sleep, leave no request to a timeout.   *)
Awake(l) == {t \in TakersOf(l) : pc[t] = "recv"}

NoSleepBesideWork ==
  \A t \in Takers :
    pc[t] = "waiting" /\ ~shutdown
      => Len(queue[ServedBy[t]]) <= Cardinality(Awake(ServedBy[t]))

(* Expired requests never stay in a queue that has a reaper, although      *)
(* every worker of the lane may be busy for ever.                          *)
Overdue ==
  {r \in expired : \E l \in Reaped : r \in ToSet(queue[l]) \cup reaped[l]}

ExpiredNeedNoWorker == []<>(shutdown \/ Overdue = {})

(* If every handler ends, then every request received is answered, and a   *)
(* proxy told to stop stops, with nobody left unanswered.                  *)
HandlersEnd == \A t \in Takers : []<>(pc[t] # "handling")

AllAnswered == \A r \in received : answer[r] # "none"

EveryRequestAnswered == HandlersEnd => []<>AllAnswered

ProxyStops == HandlersEnd => (shutdown ~> Stopped /\ AllAnswered)

=============================================================================
