------------------------- MODULE CountingSemaphore -------------------------
(***************************************************************************)
(* What the semaphores promise: a wait either takes a unit, or queues for  *)
(* one in order of arrival, or gives up without one; a signal hands its    *)
(* unit to the first in the queue and only stores it when nobody waits; a  *)
(* wait that was handed a unit reports that it has it.                     *)
(***************************************************************************)
EXTENDS Integers, Sequences

CONSTANTS Threads, Sems

VARIABLES
  avail,  \* the stored units
  queue,  \* who waits for a unit, in order of arrival
  outcome \* of each thread's last wait

cvars == <<avail, queue, outcome>>

Waiting(t) == outcome[t] = "waiting"

Becomes(t, o) == outcome' = [outcome EXCEPT ![t] = o]

Take(t, s) ==
  /\ ~Waiting(t) /\ avail[s] > 0
  /\ avail' = [avail EXCEPT ![s] = @ - 1]
  /\ Becomes(t, "got")
  /\ UNCHANGED queue

Join(t, s) ==
  /\ ~Waiting(t) /\ avail[s] = 0
  /\ queue' = [queue EXCEPT ![s] = Append(@, t)]
  /\ Becomes(t, "waiting")
  /\ UNCHANGED avail

Refuse(t, s) ==
  /\ outcome[t] = "none" /\ avail[s] = 0
  /\ Becomes(t, "failed")
  /\ UNCHANGED <<avail, queue>>

GiveUp(t, s) ==
  /\ \E i \in 1 .. Len(queue[s]) :
       /\ queue[s][i] = t
       /\ queue' = [queue EXCEPT ![s] = SubSeq(@, 1, i - 1) \o SubSeq(@, i + 1, Len(@))]
  /\ Becomes(t, "failed")
  /\ UNCHANGED avail

Hand(s) ==
  /\ queue[s] # <<>>
  /\ queue' = [queue EXCEPT ![s] = Tail(@)]
  /\ Becomes(Head(queue[s]), "got")
  /\ UNCHANGED avail

Store(s) ==
  /\ queue[s] = <<>>
  /\ avail' = [avail EXCEPT ![s] = @ + 1]
  /\ UNCHANGED <<queue, outcome>>

(* A program forgets the outcome of its last wait when it calls again; no  *)
(* other step takes back a unit that was handed out.                       *)
Forget(t) == ~Waiting(t) /\ Becomes(t, "none") /\ UNCHANGED <<avail, queue>>

CInit == /\ avail \in [Sems -> Nat]
         /\ queue = [s \in Sems |-> <<>>]
         /\ outcome = [t \in Threads |-> "none"]

CNext == \/ \E s \in Sems : Hand(s) \/ Store(s)
         \/ \E t \in Threads : \/ Forget(t)
                               \/ \E s \in Sems : \/ Take(t, s) \/ Join(t, s)
                                                  \/ Refuse(t, s) \/ GiveUp(t, s)

CSpec == CInit /\ [][CNext]_cvars
=============================================================================
