------------------------------ MODULE LinkLock ------------------------------
(***************************************************************************)
(* What the transmitting side of a link promises its users: one of them is *)
(* in charge, the others wait in a queue that is joined at its tail        *)
(* (_WaitLink(), _PutMsg()) or at its head (_JumpLink()), and whoever      *)
(* leaves hands the link to the first in the queue.  While the link is up  *)
(* it is never free and yet waited for; only when it goes down, or comes   *)
(* up again, may it be taken from its user and its queue be discarded.     *)
(***************************************************************************)
EXTENDS Naturals, Sequences, Lists

CONSTANTS Threads, None

VARIABLES
  owner,  \* who is in charge, or None
  queue,  \* who waits
  up      \* the link is in service

vars == <<owner, queue, up>>

Waiting == {queue[i] : i \in 1 .. Len(queue)}

Init == owner = None /\ queue = <<>> /\ up = TRUE

Acquire(t) ==
  /\ owner = None /\ owner' = t
  /\ UNCHANGED <<queue, up>>

Join(t) ==
  /\ owner # None /\ t \notin Waiting
  /\ queue' \in {Append(queue, t), <<t>> \o queue}
  /\ UNCHANGED <<owner, up>>

HandOver ==
  /\ queue # <<>>
  /\ owner' = Head(queue) /\ queue' = Tail(queue)
  /\ UNCHANGED up

Release ==
  /\ queue = <<>>
  /\ owner' = None
  /\ UNCHANGED <<queue, up>>

(* Those of S give up, or are made to.                                     *)
Withdraw(S) ==
  /\ queue' = Drop(queue, S)
  /\ UNCHANGED <<owner, up>>

(* The link goes down, is down, or comes up.                               *)
Reconfigure ==
  /\ ~up \/ ~up'
  /\ up' \in BOOLEAN
  /\ owner' \in {owner, None} \cup IF owner = None THEN Threads ELSE {}
  /\ queue' \in {queue, <<>>}

Next ==
  \/ \E t \in Threads : Acquire(t) \/ Join(t)
  \/ HandOver \/ Release \/ Reconfigure
  \/ \E S \in SUBSET Waiting : Withdraw(S)

Spec == Init /\ [][Next]_vars
=============================================================================
